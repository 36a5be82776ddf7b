------------------------------ MODULE Gateway ------------------------------
(***************************************************************************)
(* The GraphQL gateway between its clients and the catalog: operations     *)
(* over HTTP, their root fields resolved by gRPC calls, the calls served   *)
(* by the catalog (Shop, for those that sell), the answers put together.   *)
(*                                                                         *)
(* A root field is <<p, i>>, the i-th of operation p.  The order it places *)
(* has the field for its id.                                               *)
(***************************************************************************)
EXTENDS Mapping, SequencesExt

CONSTANTS
  Posts,      \* the operations clients post
  MaxFields,  \* root fields of an operation, at most
  Documents,  \* what each may ask: [op, user, fields]
  Users,      \* X-User-Id headers
  Trim,       \* strings.TrimSpace on Users
  Shelf,      \* the rows of catalog.cabinets at the start
  Nobody      \* neither an operation, nor a message, nor an order

Fields    == Posts \X (1..MaxFields)
Cabinets  == DOMAIN Shelf
InitStock == [c \in Cabinets |-> Shelf[c].Quantity]
Anonymous == "anonymous"

\* The root fields of the documents, and what a client may be shown for them.
Roots == UNION {Range(d.fields) : d \in UNION Range(Documents)}
ShownFor(root) ==
  ShownObject(root.of, root.sub) \cup Seq(ShownObject(root.of, root.sub))

ASSUME GatewayAssumption ==
  /\ OrderIds = Fields
  /\ MaxFields \in Nat /\ DOMAIN Documents = Posts
  /\ Trim \in [Users -> Users] /\ {"", Anonymous} \subseteq Users /\ Users \subseteq STRING
  /\ Trim[""] = "" /\ Trim[Anonymous] = Anonymous
  /\ \A p \in Posts : \A d \in Documents[p] :
       /\ d.op \in {"query", "mutation"} /\ d.user \in Users
       /\ Len(d.fields) \in 1..MaxFields

ASSUME ShelfAssumption ==
  /\ IsFiniteSet(Cabinets)
  /\ \A c \in Cabinets :
       Shelf[c] \in CabinetRow /\ Shelf[c].ID = c /\ Shelf[c].Quantity \in Nat

\* The documents the gateway lets through to its resolvers (schema.graphql).
ASSUME DocumentAssumption ==
  /\ \A p \in Posts : \A d \in Documents[p] : \A i \in DOMAIN d.fields :
       d.fields[i].name \in IF d.op = "mutation" THEN {"createOrder"}
                                                 ELSE {"cabinets", "cabinet", "order"}
  /\ \A root \in Roots :
       /\ root.name \in {"cabinets", "cabinet"} =>
            root.of \subseteq CabinetNames /\ root.sub \subseteq CabinetImageNames
       /\ root.name \in {"order", "createOrder"} =>
            root.of \subseteq OrderNames /\ root.sub \subseteq OrderLineNames
       /\ root.name = "cabinet" => root.cab \in STRING
       /\ root.name = "order" => root.order \in OrderIds
       /\ root.name = "createOrder" =>
            root.key \in STRING /\ root.items \in Seq([cab : STRING, qty : Int])

\* Null and Nobody are nothing a client can be shown.
ASSUME ShownAssumption ==
  /\ Null # Nobody
  /\ \A root \in Roots : Null \notin ShownFor(root) /\ Nobody \notin ShownFor(root)
  /\ \A S \in SUBSET Fields : Null \notin [S -> UNION {ShownFor(root) : root \in Roots}]

VARIABLES
  post,      \* each operation: [op, user, fields]
  seen,      \* history: the stock and the orders when it was posted
  stage,     \* how far each root field is
  message,   \* the message of its call on the wire: a request, then a reply
  row,       \* the order whose row its GetOrder has read
  value,     \* the marshalled value of each field
  response,  \* the answer to each operation: [data, errors]
  left, holds, orders, events, request, answer,  \* the catalog's (Shop)
  past       \* history: every set of orders there has been

-----------------------------------------------------------------------------
(* createOrder, from its arguments to the use case.                        *)

\* A quantity as it goes into the message.
Quantity(q) == int32(q)

\* Mutant: the gateway makes up a key for each call.
KeyOfTheField(f, key) == key \o ToString(f)
Key(f, key) == key

CreateOrderRequest(f, root) ==
  [IdempotencyKey |-> Key(f, root.key),
   Items |-> [i \in DOMAIN root.items |->
     [CabinetId |-> root.items[i].cab, Quantity |-> Quantity(root.items[i].qty)]]]

extractUserIDFromContext(user) == IF user = "" THEN Anonymous ELSE user

CreateOrderCall(user, m) ==
  LET u == Trim[extractUserIDFromContext(user)]
  IN  [op |-> "CreateOrder", user |-> IF u = "" THEN Anonymous ELSE u,
       key |-> m.IdempotencyKey,
       items |-> [i \in DOMAIN m.Items |->
         [cab |-> m.Items[i].CabinetId, qty |-> m.Items[i].Quantity]]]

CreateOrderCalls ==
  {CreateOrderCall(u, CreateOrderRequest(f, root)) : u \in Users, f \in Fields,
     root \in {r \in Roots : r.name = "createOrder"}}

ASSUME CallAssumption == Nobody \notin CreateOrderCalls

Catalog == INSTANCE Shop WITH Calls <- Fields, Requests <- CreateOrderCalls

catalog == <<left, holds, orders, events, request, answer, past>>
gateway == <<post, seen, stage, message, row, value, response>>
vars    == <<gateway, catalog>>

Init ==
  /\ Catalog!Init
  /\ past = {orders}
  /\ post = [p \in Posts |-> Nobody]
  /\ seen = [p \in Posts |-> Nobody]
  /\ stage = [f \in Fields |-> "none"]
  /\ message = [f \in Fields |-> Nobody]
  /\ row = [f \in Fields |-> Nobody]
  /\ value = [f \in Fields |-> Nobody]
  /\ response = [p \in Posts |-> Nobody]

-----------------------------------------------------------------------------
(* An operation arrives, and its root fields are resolved.                 *)

Post(p) ==
  /\ post[p] = Nobody
  /\ \E d \in Documents[p] : post' = [post EXCEPT ![p] = d]
  /\ seen' = [seen EXCEPT ![p] = [left |-> left, orders |-> orders]]
  /\ UNCHANGED <<stage, message, row, value, response, catalog>>

FieldsOf(p) ==
  {f \in Fields : f[1] = p /\ post[p] # Nobody /\ f[2] \in DOMAIN post[p].fields}
Root(f) == post[f[1]].fields[f[2]]

\* Mutant: the fields of a mutation run like those of a query.
ItsTurnAlways(f) == f \in FieldsOf(f[1])

\* The fields of a query run concurrently, those of a mutation one after the other.
ItsTurn(f) ==
  /\ f \in FieldsOf(f[1])
  /\ post[f[1]].op = "mutation" =>
       \A g \in FieldsOf(f[1]) : g[2] < f[2] => stage[g] = "returned"

Ready(f, name) == stage[f] = "none" /\ ItsTurn(f) /\ Root(f).name = name

Step(f, next, m) ==
  /\ stage' = [stage EXCEPT ![f] = next]
  /\ message' = [message EXCEPT ![f] = m]
  /\ UNCHANGED <<post, seen, value, response>>

Send(f, m) == Step(f, "sent", m) /\ UNCHANGED <<row, catalog>>
Reply(f, code, body) == Step(f, "replied", [code |-> code, body |-> body])

ResolveCabinets(f) == Ready(f, "cabinets") /\ Send(f, [Empty |-> TRUE])
ResolveCabinet(f)  == Ready(f, "cabinet") /\ Send(f, [Id |-> Root(f).cab])
ResolveOrder(f)    == Ready(f, "order") /\ Send(f, [Id |-> Root(f).order])

InputFits(root) == \A i \in DOMAIN root.items : root.items[i].qty \in Range64

ResolveCreateOrder(f) ==
  /\ Ready(f, "createOrder") /\ InputFits(Root(f))
  /\ Send(f, CreateOrderRequest(f, Root(f)))

\* A quantity that is no int: the resolver does not run.
RejectInput(f) ==
  /\ Ready(f, "createOrder") /\ ~InputFits(Root(f))
  /\ Reply(f, "BadInput", Null)
  /\ UNCHANGED <<row, catalog>>

-----------------------------------------------------------------------------
(* The catalog serves the calls.                                           *)

Sent(f, name) == stage[f] = "sent" /\ Root(f).name = name

\* Mutant: GetCabinet is answered from the rows of the seed.
RowOfTheSeed(c) == Shelf[c]
RowOf(c) == [Shelf[c] EXCEPT !.Quantity = left[c]]

CabinetReply(r) == mapCabinetToProto(mapCabinetToDomain(r))

\* Mutant: the list is put together from one query per cabinet.
ListRowByRow(f) ==
  /\ Sent(f, "cabinets")
  /\ \E list \in SetToSeqs(Cabinets), q \in [Cabinets -> Range32] :
       /\ \A c \in Cabinets : q[c] \in left[c]..seen[f[1]].left[c]
       /\ Reply(f, "OK", [Cabinets |-> [i \in DOMAIN list |->
            CabinetReply([Shelf[list[i]] EXCEPT !.Quantity = q[list[i]]])]])
  /\ UNCHANGED <<row, catalog>>

\* ORDER BY created_at: the cabinets of the seed come in any order.
HandleListCabinets(f) ==
  /\ Sent(f, "cabinets")
  /\ \E list \in SetToSeqs(Cabinets) :
       Reply(f, "OK", [Cabinets |-> [i \in DOMAIN list |-> CabinetReply(RowOf(list[i]))]])
  /\ UNCHANGED <<row, catalog>>

HandleGetCabinet(f) ==
  /\ Sent(f, "cabinet")
  /\ IF message[f].Id \in Cabinets
       THEN Reply(f, "OK", [Cabinet |-> CabinetReply(RowOf(message[f].Id))])
       ELSE Reply(f, "NotFound", Null)
  /\ UNCHANGED <<row, catalog>>

\* GetOrder reads the order's row, and then its lines.
HandleGetOrder(f) ==
  /\ Sent(f, "order")
  /\ \E o \in orders :
       /\ o.id = message[f].Id
       /\ row' = [row EXCEPT ![f] = o]
       /\ Step(f, "taken", message[f])
  /\ UNCHANGED catalog

OrderNotFound(f) ==
  /\ Sent(f, "order")
  /\ \A o \in orders : o.id # message[f].Id
  /\ Reply(f, "NotFound", Null)
  /\ UNCHANGED <<row, catalog>>

\* Mutant: the total is computed in 32 bits.
TotalCents32(items) ==
  int32(SumFunction([i \in DOMAIN items |-> Shelf[items[i].cab].Price * items[i].qty]))
\* The total CreateOrderTx computes and stores.
TotalCents(items) ==
  int64(SumFunction([i \in DOMAIN items |-> Shelf[items[i].cab].Price * items[i].qty]))

OrderRow(o) ==
  [ID |-> o.id, UserID |-> o.user, Status |-> "pending_payment",
   TotalCents |-> TotalCents(o.items), IdempotencyKey |-> o.key]
ItemRows(items) ==
  [i \in DOMAIN items |->
     [CabinetID |-> items[i].cab, Quantity |-> int32(items[i].qty),
      UnitPriceCents |-> Shelf[items[i].cab].Price]]

OrderReply(o, items) ==
  [Order |-> mapOrderToProto(mapOrderToDomain(OrderRow(o), ItemRows(items)))]

Reordered(items) ==
  {[i \in DOMAIN items |-> items[pi[i]]] : pi \in SetToSeqs(DOMAIN items)}

\* Mutant: the error of ListOrderItems is dropped.
HandleOrderItemsOrNone(f) ==
  /\ stage[f] = "taken" /\ Root(f).name = "order"
  /\ \E items \in Reordered(row[f].items) \cup {<<>>} :
       Reply(f, "OK", OrderReply(row[f], items))
  /\ row' = [row EXCEPT ![f] = Nobody]
  /\ UNCHANGED catalog

\* ListOrderItems has no ORDER BY: the lines come in any order.
HandleOrderItems(f) ==
  /\ stage[f] = "taken" /\ Root(f).name = "order"
  /\ \E items \in Reordered(row[f].items) : Reply(f, "OK", OrderReply(row[f], items))
  /\ row' = [row EXCEPT ![f] = Nobody]
  /\ UNCHANGED catalog

\* A statement of a read fails.
ReadFails(f) ==
  /\ post[f[1]] # Nobody /\ post[f[1]].op = "query" /\ stage[f] \in {"sent", "taken"}
  /\ Reply(f, "Internal", Null)
  /\ row' = [row EXCEPT ![f] = Nobody]
  /\ UNCHANGED catalog
-----------------------------------------------------------------------------
(* The catalog decides the orders.                                         *)

\* The gRPC status of a CreateOrder.
Status(result) ==
  CASE result = "ok" -> "OK"
    [] result \in {"ErrInvalidQuantity", "ErrEmptyOrder"} -> "InvalidArgument"
    [] result = "ErrDuplicateOrder" -> "AlreadyExists"
    [] result = "ErrNotFound" -> "NotFound"
    [] result = "ErrInsufficientStock" -> "FailedPrecondition"
    [] OTHER -> "Internal"

\* Mutant: the metadata does not reach the handler.
IncomingNothing(p) == ""
\* The x-user-id of the incoming metadata.
IncomingUser(p) == post[p].user

HandleCreateOrder(f) ==
  /\ Sent(f, "createOrder")
  /\ Catalog!Ask(f)
  /\ request'[f] = CreateOrderCall(IncomingUser(f[1]), message[f])
  /\ IF answer'[f].result = "none"
       THEN Step(f, "taken", message[f])
       ELSE Reply(f, Status(answer'[f].result), Null)
  /\ UNCHANGED <<row, past>>

\* A new order is answered from memory, one that was there from its rows.
DecideOrder(f) ==
  /\ Catalog!Decide(f)
  /\ past' = past \cup {orders'}
  /\ IF stage[f] # "taken" THEN UNCHANGED gateway ELSE
       /\ IF answer'[f].result # "ok" THEN Reply(f, Status(answer'[f].result), Null) ELSE
            \E o \in orders' :
              /\ o.id = answer'[f].order
              /\ \E items \in IF o.id = f THEN {o.items} ELSE Reordered(o.items) :
                   Reply(f, "OK", OrderReply(o, items))
       /\ UNCHANGED row

\* The connection breaks, or the client has left: the gateway gives the call up.
\* The catalog may still decide an order it has taken.
Break(f) ==
  /\ stage[f] \in {"sent", "taken"}
  /\ Reply(f, "Unavailable", Null)
  /\ row' = [row EXCEPT ![f] = Nobody]
  /\ UNCHANGED catalog

-----------------------------------------------------------------------------
(* The resolvers return, and the operation is answered.                    *)

Resolved(f, v) ==
  /\ stage' = [stage EXCEPT ![f] = "returned"]
  /\ message' = [message EXCEPT ![f].body = Null]
  /\ value' = [value EXCEPT ![f] = v]
  /\ UNCHANGED <<post, seen, row, response, catalog>>

Replied(f, names) ==
  stage[f] = "replied" /\ message[f].code = "OK" /\ Root(f).name \in names

ReturnCabinets(f) ==
  /\ Replied(f, {"cabinets"})
  /\ LET cs == message[f].body.Cabinets
     IN  Resolved(f, ShowCabinets(Root(f), [i \in DOMAIN cs |-> mapCabinet(cs[i])]))

ReturnCabinet(f) ==
  /\ Replied(f, {"cabinet"})
  /\ Resolved(f, ShowCabinet(Root(f), mapCabinet(message[f].body.Cabinet)))

ReturnOrder(f) ==
  /\ Replied(f, {"order", "createOrder"})
  /\ Resolved(f, ShowOrder(Root(f), mapOrder(message[f].body.Order)))

\* Mutant: a field that fails is resolved again.
ResolveAgain(f) ==
  /\ stage[f] = "replied" /\ message[f].code # "OK"
  /\ Step(f, "none", Nobody)
  /\ UNCHANGED <<row, catalog>>

\* ResolveField adds the resolver's error to the answer.
ReturnError(f) ==
  /\ stage[f] = "replied" /\ message[f].code # "OK"
  /\ Resolved(f, Null)

\* Mutant: a root field that is Null stays alone.
DataInParts(p) == [f \in FieldsOf(p) |-> value[f]]

\* Every field of the schema is required: one that is Null takes all of data.
Data(p) ==
  IF \E f \in FieldsOf(p) : value[f] = Null THEN Null
                                          ELSE [f \in FieldsOf(p) |-> value[f]]

Respond(p) ==
  /\ post[p] # Nobody /\ response[p] = Nobody
  /\ \A f \in FieldsOf(p) : stage[f] = "returned"
  /\ response' = [response EXCEPT ![p] =
       [data |-> Data(p),
        errors |-> {[path |-> f, code |-> message[f].code] :
                      f \in {g \in FieldsOf(p) : value[g] = Null}}]]
  /\ UNCHANGED <<post, seen, stage, message, row, value, catalog>>

-----------------------------------------------------------------------------

Resolve(f) ==
  \/ ResolveCabinets(f) \/ ResolveCabinet(f) \/ ResolveOrder(f)
  \/ ResolveCreateOrder(f) \/ RejectInput(f)

Serve(f) ==
  \/ HandleListCabinets(f) \/ HandleGetCabinet(f)
  \/ HandleGetOrder(f) \/ OrderNotFound(f) \/ HandleOrderItems(f) \/ ReadFails(f)
  \/ HandleCreateOrder(f) \/ DecideOrder(f)

Return(f) ==
  ReturnCabinets(f) \/ ReturnCabinet(f) \/ ReturnOrder(f) \/ ReturnError(f)

Progress(f) == Resolve(f) \/ Serve(f) \/ Return(f)

\* Every operation has been answered.
Quiet == (\A p \in Posts : response[p] # Nobody) /\ UNCHANGED vars

Next ==
  \/ \E p \in Posts : Post(p) \/ Respond(p)
  \/ \E f \in Fields : Progress(f) \/ Break(f)
  \/ Quiet

Spec == Init /\ [][Next]_vars

\* The gateway runs its resolvers and the catalog answers the calls it gets
\* (Checkout, EveryCallAnswered); nobody is bound to post, no call to break.
FairSpec ==
  /\ Spec
  /\ \A f \in Fields : WF_vars(Progress(f))
  /\ \A p \in Posts : WF_vars(Respond(p))
=============================================================================
