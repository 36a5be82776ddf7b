--------------------------- MODULE GatewayProofs ---------------------------
(***************************************************************************)
(* Proof, for any operations and any shelf, that a key places one order:   *)
(* the key travels unchanged from the client's document to the catalog,    *)
(* and the id that comes back is that of the order the key placed.         *)
(***************************************************************************)
EXTENDS GatewayProperties, TLAPS

\* The variables are functions on what they describe.
Shaped ==
  /\ post = [p \in Posts |-> post[p]]
  /\ stage = [f \in Fields |-> stage[f]]
  /\ message = [f \in Fields |-> message[f]]
  /\ value = [f \in Fields |-> value[f]]
  /\ request = [f \in Fields |-> request[f]]
  /\ answer = [f \in Fields |-> answer[f]]

Posted(f) == post[f[1]] # Nobody

\* Only a field of an operation that was posted is worked on.
Begun(f) ==
  stage[f] # "none" \/ request[f] # Nobody \/ value[f] # Nobody => Posted(f)

\* What the catalog was asked is what the field asks; before, it has sold nothing.
Asked(f) ==
  /\ request[f] # Nobody =>
       /\ Root(f).name = "createOrder" /\ request[f].op = "CreateOrder"
       /\ request[f].key = Root(f).key
  /\ request[f] = Nobody => answer[f].result # "ok"

\* There is an order under the key of the field, and this is its id.
PlacedAs(f, id) == \E o \in orders : o.key = Root(f).key /\ id = o.id

\* The key on the wire is the client's; the id on the wire is its order's.
Carried(f) ==
  Root(f).name = "createOrder" =>
    /\ stage[f] \in {"sent", "taken"} => message[f].IdempotencyKey = Root(f).key
    /\ stage[f] = "replied" /\ message[f].code = "OK" =>
         PlacedAs(f, message[f].body.Order.Id)

\* The id a client is shown is that of the order its key placed.
Told(f) ==
  /\ value[f] # Nobody /\ value[f] # Null
  /\ Root(f).name = "createOrder" /\ "id" \in DOMAIN value[f]
  => PlacedAs(f, value[f].id)

\* The orders there are, each placed by a field under the field's key, no two alike.
Placed ==
  /\ \A o \in orders : o.id \in Fields /\ Posted(o.id) /\ o.key = Root(o.id).key
  /\ \A o1, o2 \in orders : o1.key = o2.key => o1 = o2

FieldInv(f) == Begun(f) /\ Asked(f) /\ Carried(f) /\ Told(f)
KeyInv == Shaped /\ (\A f \in Fields : FieldInv(f)) /\ Placed

-----------------------------------------------------------------------------

\* The invariant implies the property.
LEMMA KeysSuffice == KeyInv => OneKeyOneOrder
BY DEF KeyInv, FieldInv, Told, PlacedAs, Placed, OneKeyOneOrder, OrderShown, Shown

\* It holds before anything is posted.
LEMMA KeysInit == Init => KeyInv
BY DEF Init, Catalog!Init, KeyInv, Shaped, FieldInv, Begun, Asked, Carried, Told, Placed

\* What was posted stays.
LEMMA PostedStays ==
  ASSUME Shaped, [Next]_vars, NEW f \in Fields, Posted(f)
  PROVE  Posted(f)' /\ Root(f)' = Root(f)
<1>1. f[1] \in Posts
  BY DEF Fields
<1>2. ASSUME NEW p \in Posts, Post(p) PROVE post'[f[1]] = post[f[1]]
  BY <1>1, <1>2 DEF Post, Shaped, Posted
<1>3. CASE UNCHANGED post
  BY <1>3 DEF Posted, Root
<1>4. ASSUME NEW g \in Fields, Progress(g) \/ Break(g) PROVE UNCHANGED post
  <2>1. CASE Resolve(g)
    BY <2>1 DEF Resolve, ResolveCabinets, ResolveCabinet, ResolveOrder, ResolveCreateOrder,
       RejectInput, Send, Reply, Step
  <2>2. CASE Serve(g)
    <3>1. CASE HandleListCabinets(g) \/ HandleGetCabinet(g) \/ HandleGetOrder(g) \/ OrderNotFound(g)
      BY <3>1 DEF HandleListCabinets, HandleGetCabinet, HandleGetOrder, OrderNotFound, Reply, Step
    <3>2. CASE HandleOrderItems(g) \/ ReadFails(g)
      BY <3>2 DEF HandleOrderItems, ReadFails, Reply, Step
    <3>3. CASE HandleCreateOrder(g)
      BY <3>3 DEF HandleCreateOrder, Reply, Step
    <3>4. CASE DecideOrder(g)
      BY <3>4 DEF DecideOrder, Reply, Step, gateway
    <3> QED
      BY <2>2, <3>1, <3>2, <3>3, <3>4 DEF Serve
  <2>3. CASE Return(g)
    BY <2>3 DEF Return, ReturnCabinets, ReturnCabinet, ReturnOrder, ReturnError, Resolved
  <2>4. CASE Break(g)
    BY <2>4 DEF Break, Reply, Step
  <2> QED
    BY <1>4, <2>1, <2>2, <2>3, <2>4 DEF Progress
<1>5. ASSUME NEW p \in Posts, Respond(p) PROVE UNCHANGED post
  BY <1>5 DEF Respond
<1>6. CASE UNCHANGED vars
  BY <1>3, <1>6 DEF vars, gateway
<1> QED
  BY <1>2, <1>3, <1>4, <1>5, <1>6 DEF Next, Quiet, Posted, Root

\* A field that a step does not touch keeps its invariant.
LEMMA Aside ==
  ASSUME KeyInv, [Next]_vars, NEW g \in Fields, orders \subseteq orders',
         stage'[g] = stage[g], message'[g] = message[g], value'[g] = value[g],
         request'[g] = request[g], answer'[g] = answer[g]
  PROVE  FieldInv(g)'
<1>1. FieldInv(g) /\ Shaped
  BY DEF KeyInv
<1>2. CASE Posted(g)
  <2>1. Posted(g)' /\ Root(g)' = Root(g)
    BY <1>1, <1>2, PostedStays
  <2>2. \A id : PlacedAs(g, id) => PlacedAs(g, id)'
    BY <2>1 DEF PlacedAs
  <2>3. Begun(g)' /\ Asked(g)'
    BY <1>1, <2>1 DEF FieldInv, Begun, Asked
  <2>4. Carried(g)'
    BY <1>1, <2>1, <2>2 DEF FieldInv, Carried
  <2>5. Told(g)'
    BY <1>1, <2>1, <2>2 DEF FieldInv, Told
  <2> QED
    BY <2>3, <2>4, <2>5 DEF FieldInv
<1>3. CASE ~Posted(g)
  <2>1. stage[g] = "none" /\ request[g] = Nobody /\ value[g] = Nobody
    BY <1>1, <1>3 DEF FieldInv, Begun
  <2> QED
    BY <1>1, <2>1 DEF FieldInv, Begun, Asked, Carried, Told
<1> QED
  BY <1>2, <1>3

\* So do the orders, when there are no new ones.
LEMMA PlacedKept ==
  ASSUME KeyInv, [Next]_vars, orders' = orders
  PROVE  Placed'
BY PostedStays DEF KeyInv, Placed

\* A step of one field, at the gateway or in a read of the catalog.
LEMMA StepOfOne ==
  ASSUME KeyInv, [Next]_vars, NEW f \in Fields, NEW s, NEW m, NEW v,
         stage' = [stage EXCEPT ![f] = s], message' = [message EXCEPT ![f] = m],
         value' = [value EXCEPT ![f] = v], UNCHANGED <<post, catalog>>,
         Posted(f),
         Root(f).name = "createOrder" =>
           /\ s \in {"sent", "taken"} => m.IdempotencyKey = Root(f).key
           /\ s = "replied" /\ m.code = "OK" => PlacedAs(f, m.body.Order.Id),
         v = value[f] \/ (v # Null /\ Root(f).name = "createOrder" /\ "id" \in DOMAIN v =>
                            PlacedAs(f, v.id))
  PROVE  KeyInv'
<1>1. Shaped' /\ orders' = orders /\ request' = request /\ answer' = answer
  BY DEF KeyInv, Shaped, catalog
<1>2. /\ stage'[f] = s /\ message'[f] = m /\ value'[f] = v
      /\ \A g \in Fields \ {f} : /\ stage'[g] = stage[g] /\ message'[g] = message[g]
                                 /\ value'[g] = value[g]
  BY DEF KeyInv, Shaped
<1>3. \A g \in Fields \ {f} : FieldInv(g)'
  BY <1>1, <1>2, Aside
<1>4. FieldInv(f)'
  <2>1. Posted(f)' /\ Root(f)' = Root(f) /\ \A id : PlacedAs(f, id) => PlacedAs(f, id)'
    BY <1>1 DEF Posted, Root, PlacedAs
  <2>2. Begun(f)' /\ Asked(f)'
    BY <1>1, <2>1 DEF KeyInv, FieldInv, Begun, Asked
  <2>3. Carried(f)'
    BY <1>2, <2>1 DEF Carried
  <2>4. Told(f)'
    BY <1>2, <2>1 DEF KeyInv, FieldInv, Told
  <2> QED
    BY <2>2, <2>3, <2>4 DEF FieldInv
<1> QED
  BY <1>1, <1>3, <1>4, PlacedKept DEF KeyInv

\* A call that ends with an error.
LEMMA ErrorReply ==
  ASSUME NEW f, NEW code, NEW body, code # "OK", Reply(f, code, body)
  PROVE  \E m : /\ stage' = [stage EXCEPT ![f] = "replied"] /\ message' = [message EXCEPT ![f] = m]
                /\ UNCHANGED <<post, value>> /\ m.code # "OK"
<1> DEFINE m == [code |-> code, body |-> body]
<1>1. m.code # "OK"
  OBVIOUS
<1>2. /\ stage' = [stage EXCEPT ![f] = "replied"] /\ message' = [message EXCEPT ![f] = m]
      /\ UNCHANGED <<post, value>>
  BY DEF Reply, Step
<1> HIDE DEF m
<1> QED
  BY <1>1, <1>2

\* The gateway sends the client's key.
LEMMA ResolveStep ==
  ASSUME KeyInv, [Next]_vars, NEW f \in Fields, Resolve(f)
  PROVE  KeyInv'
<1>1. Posted(f)
  BY DEF Resolve, ResolveCabinets, ResolveCabinet, ResolveOrder, ResolveCreateOrder, RejectInput,
         Ready, ItsTurn, FieldsOf, Posted
<1> DEFINE Moves(s, m) ==
        /\ stage' = [stage EXCEPT ![f] = s] /\ message' = [message EXCEPT ![f] = m]
        /\ UNCHANGED <<post, value, catalog>>
        /\ Root(f).name = "createOrder" /\ s = "sent" => m.IdempotencyKey = Root(f).key
        /\ s = "replied" => m.code # "OK"
<1>2. PICK s \in {"sent", "replied"} : \E m : Moves(s, m)
  <2>1. CASE ResolveCreateOrder(f)
    BY <2>1 DEF ResolveCreateOrder, Ready, Send, Step, CreateOrderRequest, Key
  <2>2. CASE RejectInput(f)
    BY <2>2, ErrorReply DEF RejectInput
  <2>3. CASE ResolveCabinets(f) \/ ResolveCabinet(f) \/ ResolveOrder(f)
    BY <2>3 DEF ResolveCabinets, ResolveCabinet, ResolveOrder, Ready, Send, Step
  <2> QED
    BY <2>1, <2>2, <2>3 DEF Resolve
<1>4. PICK m : Moves(s, m)
  BY <1>2
<1>3. value' = [value EXCEPT ![f] = value[f]]
  BY <1>4 DEF KeyInv, Shaped
<1> QED
  BY <1>1, <1>2, <1>3, <1>4, StepOfOne

\* The reads of the catalog, and a call that breaks, tell nothing of a createOrder.
LEMMA ReadStep ==
  ASSUME KeyInv, [Next]_vars, NEW f \in Fields,
         \/ HandleListCabinets(f) \/ HandleGetCabinet(f) \/ HandleGetOrder(f)
         \/ OrderNotFound(f) \/ HandleOrderItems(f) \/ ReadFails(f) \/ Break(f)
  PROVE  KeyInv'
<1>1. Posted(f)
  BY DEF KeyInv, FieldInv, Begun, HandleListCabinets, HandleGetCabinet, HandleGetOrder,
         OrderNotFound, HandleOrderItems, ReadFails, Break, Sent
<1> DEFINE Moves(s, m) ==
        /\ stage' = [stage EXCEPT ![f] = s] /\ message' = [message EXCEPT ![f] = m]
        /\ UNCHANGED <<post, value, catalog>>
        /\ Root(f).name = "createOrder" => s = "replied" /\ m.code # "OK"
<1>2. PICK s \in {"taken", "replied"} : \E m : Moves(s, m)
  <2>1. CASE HandleListCabinets(f)
    BY <2>1 DEF HandleListCabinets, Sent, Reply, Step
  <2>2. CASE HandleGetCabinet(f)
    BY <2>2 DEF HandleGetCabinet, Sent, Reply, Step
  <2>3. CASE HandleGetOrder(f) \/ OrderNotFound(f)
    BY <2>3 DEF HandleGetOrder, OrderNotFound, Sent, Reply, Step
  <2>4. CASE HandleOrderItems(f)
    BY <2>4 DEF HandleOrderItems, Reply, Step
  <2>5. CASE ReadFails(f) \/ Break(f)
    BY <2>5, ErrorReply DEF ReadFails, Break
  <2> QED
    BY <2>1, <2>2, <2>3, <2>4, <2>5
<1>4. PICK m : Moves(s, m)
  BY <1>2
<1>3. value' = [value EXCEPT ![f] = value[f]]
  BY <1>4 DEF KeyInv, Shaped
<1> QED
  BY <1>1, <1>2, <1>3, <1>4, StepOfOne

\* An order that is shown with its id is shown with the id in the message.
LEMMA IdIsShown ==
  ASSUME NEW sel, NEW o, ShowOrder(sel, mapOrder(o)) # Null,
         "id" \in DOMAIN ShowOrder(sel, mapOrder(o))
  PROVE  ShowOrder(sel, mapOrder(o)).id = o.Id
<1>1. o # Null /\ mapOrder(o) # Null
  BY DEF ShowOrder, mapOrder
<1>2. mapOrder(o).ID = o.Id
  BY <1>1 DEF mapOrder
<1>3. ShowOrder(sel, mapOrder(o)) = [n \in sel.of |-> OrderFields(mapOrder(o), sel.sub)[n]]
  BY <1>1 DEF ShowOrder, Select
<1>4. OrderFields(mapOrder(o), sel.sub).id = mapOrder(o).ID
  BY DEF OrderFields
<1> QED
  BY <1>2, <1>3, <1>4

\* The resolvers return what the message says.
LEMMA ReturnStep ==
  ASSUME KeyInv, [Next]_vars, NEW f \in Fields, Return(f)
  PROVE  KeyInv'
<1>1. stage[f] = "replied" /\ Posted(f)
  BY DEF KeyInv, FieldInv, Begun, Return, ReturnCabinets, ReturnCabinet, ReturnOrder, ReturnError,
         Replied
<1>2. PICK v : /\ Resolved(f, v)
               /\ v # Null /\ Root(f).name = "createOrder" /\ "id" \in DOMAIN v =>
                    PlacedAs(f, v.id)
  <2>1. CASE ReturnCabinets(f)
    BY <2>1 DEF ReturnCabinets, Replied
  <2>2. CASE ReturnCabinet(f)
    BY <2>2 DEF ReturnCabinet, Replied
  <2>3. CASE ReturnOrder(f)
    <3> DEFINE o == message[f].body.Order
               v == ShowOrder(Root(f), mapOrder(o))
    <3>1. Resolved(f, v) /\ message[f].code = "OK"
      BY <2>3 DEF ReturnOrder, Replied
    <3>2. Root(f).name = "createOrder" => PlacedAs(f, o.Id)
      BY <1>1, <3>1 DEF KeyInv, FieldInv, Carried
    <3>3. v # Null /\ "id" \in DOMAIN v => v.id = o.Id
      BY IdIsShown
    <3> HIDE DEF v, o
    <3> QED
      BY <3>1, <3>2, <3>3
  <2>4. CASE ReturnError(f)
    BY <2>4 DEF ReturnError
  <2> QED
    BY <2>1, <2>2, <2>3, <2>4 DEF Return
<1> DEFINE m == [message[f] EXCEPT !.body = Null]
<1>3. /\ stage' = [stage EXCEPT ![f] = "returned"] /\ message' = [message EXCEPT ![f] = m]
      /\ value' = [value EXCEPT ![f] = v] /\ UNCHANGED <<post, catalog>>
  BY <1>2 DEF Resolved
<1> HIDE DEF m
<1> QED
  BY <1>1, <1>2, <1>3, StepOfOne

\* An operation is posted, or answered.
LEMMA PostStep ==
  ASSUME KeyInv, [Next]_vars, UNCHANGED <<stage, message, value, catalog>>,
         post' = [p \in Posts |-> post'[p]]
  PROVE  KeyInv'
<1>1. Shaped'
  BY DEF KeyInv, Shaped, catalog
<1>2. \A f \in Fields : FieldInv(f)'
  BY Aside DEF catalog
<1> QED
  BY <1>1, <1>2, PlacedKept DEF KeyInv, catalog

-----------------------------------------------------------------------------
(* The orders.                                                             *)

\* The only status that is OK is that of a call that succeeded.
LEMMA OnlyOkIsOK ==
  ASSUME NEW r, r # "ok"
  PROVE  Status(r) # "OK"
BY DEF Status

\* The catalog is asked under the key of the message.
LEMMA AskStep ==
  ASSUME KeyInv, [Next]_vars, NEW f \in Fields, HandleCreateOrder(f)
  PROVE  KeyInv'
<1>1. /\ stage[f] = "sent" /\ Root(f).name = "createOrder" /\ Posted(f)
      /\ message[f].IdempotencyKey = Root(f).key
  BY DEF HandleCreateOrder, Sent, KeyInv, FieldInv, Begun, Carried
<1>2. /\ request[f] = Nobody /\ orders' = orders /\ answer[f].result # "ok"
      /\ \/ answer' = answer
         \/ \E r \in {"ErrEmptyOrder", "ErrInsufficientStock", "ErrInvalidQuantity"} :
              answer' = [answer EXCEPT ![f] = [result |-> r, order |-> Nobody]]
  <2>1. PICK r : /\ request[f] = Nobody /\ orders' = orders
                 /\ answer' = answer \/ Catalog!Reply(f, Catalog!BadRequest(r), Nobody)
    BY DEF HandleCreateOrder, Catalog!Ask, Catalog!shop
  <2>2. Catalog!BadRequest(r) \in {"ErrEmptyOrder", "ErrInsufficientStock", "ErrInvalidQuantity"}
    BY DEF Catalog!BadRequest
  <2> QED
    BY <2>1, <2>2 DEF Catalog!Reply, KeyInv, FieldInv, Asked
<1>3. \E r : request' = [request EXCEPT ![f] = r]
  BY DEF HandleCreateOrder, Catalog!Ask
<1>4. request'[f].op = "CreateOrder" /\ request'[f].key = Root(f).key
  <2>1. \A u, m : CreateOrderCall(u, m).op = "CreateOrder" /\ CreateOrderCall(u, m).key = m.IdempotencyKey
    BY DEF CreateOrderCall
  <2>2. request'[f] = CreateOrderCall(IncomingUser(f[1]), message[f])
    BY DEF HandleCreateOrder
  <2> QED
    BY <1>1, <2>1, <2>2
<1>10. answer'[f].result # "ok"
  BY <1>2 DEF KeyInv, Shaped
<1> DEFINE Moves(s, m) ==
        /\ stage' = [stage EXCEPT ![f] = s] /\ message' = [message EXCEPT ![f] = m]
        /\ UNCHANGED <<post, value>>
        /\ s = "taken" => m = message[f]
        /\ s = "replied" => m.code # "OK"
<1>5. PICK s \in {"taken", "replied"} : \E m : Moves(s, m)
  <2>1. CASE answer'[f].result = "none"
    BY <2>1 DEF HandleCreateOrder, Step
  <2>2. CASE answer'[f].result # "none"
    BY <1>10, <2>2, OnlyOkIsOK, ErrorReply DEF HandleCreateOrder
  <2> QED
    BY <2>1, <2>2
<1>11. PICK m : Moves(s, m)
  BY <1>5
<1>6. Shaped'
  BY <1>2, <1>3, <1>11 DEF KeyInv, Shaped
<1>7. \A g \in Fields \ {f} :
        /\ stage'[g] = stage[g] /\ message'[g] = message[g] /\ value'[g] = value[g]
        /\ request'[g] = request[g] /\ answer'[g] = answer[g]
  BY <1>2, <1>3, <1>11 DEF KeyInv, Shaped
<1>8. \A g \in Fields \ {f} : FieldInv(g)'
  BY <1>2, <1>7, Aside
<1>9. FieldInv(f)'
  <2>1. Posted(f)' /\ Root(f)' = Root(f) /\ \A id : PlacedAs(f, id) => PlacedAs(f, id)'
    BY <1>1, <1>2, <1>11 DEF Posted, Root, PlacedAs
  <2>2. stage'[f] = s /\ message'[f] = m
    BY <1>11 DEF KeyInv, Shaped
  <2>3. Begun(f)'
    BY <2>1 DEF Begun
  <2>4. Asked(f)'
    BY <1>1, <1>4, <1>10, <2>1 DEF Asked
  <2>5. Carried(f)'
    BY <1>1, <1>11, <2>1, <2>2 DEF Carried
  <2>6. Told(f)'
    BY <1>11, <2>1 DEF KeyInv, FieldInv, Told
  <2> QED
    BY <2>3, <2>4, <2>5, <2>6 DEF FieldInv
<1> QED
  BY <1>2, <1>6, <1>8, <1>9, PlacedKept DEF KeyInv

\* What a decision does to the orders: it adds at most the field's, under a key that
\* had none, and "ok" comes with the order of the key.
LEMMA Decision ==
  ASSUME KeyInv, NEW f \in Fields, Catalog!Decide(f)
  PROVE  /\ Posted(f) /\ Root(f).name = "createOrder" /\ request' = request
         /\ request[f] # Nobody
         /\ \E a : answer' = [answer EXCEPT ![f] = a]
         /\ \/ orders' = orders
            \/ \E new : /\ orders' = orders \cup {new} /\ new.id = f /\ new.key = Root(f).key
                        /\ \A o \in orders : o.key # new.key
         /\ answer'[f].result = "ok" =>
              \E o \in orders' : o.id = answer'[f].order /\ o.key = Root(f).key
<1> DEFINE r == request[f]
<1>1. /\ r # Nobody /\ Posted(f) /\ Root(f).name = "createOrder" /\ request' = request
      /\ r.op = "CreateOrder" /\ r.key = Root(f).key
  BY DEF Catalog!Decide, Catalog!Open, KeyInv, FieldInv, Asked, Begun
<1>2. ASSUME NEW result, NEW order, Catalog!Reply(f, result, order)
      PROVE  /\ \E a : answer' = [answer EXCEPT ![f] = a]
             /\ answer'[f].result = result /\ answer'[f].order = order
  <2> DEFINE a == [result |-> result, order |-> order]
  <2>1. answer' = [answer EXCEPT ![f] = a] /\ a.result = result /\ a.order = order
    BY <1>2 DEF Catalog!Reply
  <2> HIDE DEF a
  <2>2. answer'[f] = a
    BY <2>1 DEF KeyInv, Shaped
  <2> QED
    BY <2>1, <2>2
<1>3. CASE Catalog!SellOrder(f, r)
  <2> DEFINE new == [id |-> f, user |-> r.user, key |-> r.key, items |-> r.items]
  <2>1. orders' = orders \cup {new} /\ \A o \in orders : o.key # r.key
    BY <1>3 DEF Catalog!SellOrder
  <2>2. new.id = f /\ new.key = r.key
    OBVIOUS
  <2>3. Catalog!Reply(f, "ok", f) \/ Catalog!Reply(f, "Internal", Nobody)
    BY <1>3 DEF Catalog!SellOrder, Catalog!Told
  <2> HIDE DEF new, r
  <2>4. \E a : answer' = [answer EXCEPT ![f] = a]
    BY <1>2, <2>3
  <2>5. answer'[f].result = "ok" => answer'[f].order = f
    BY <1>2, <2>3
  <2>6. \E n : /\ orders' = orders \cup {n} /\ n.id = f /\ n.key = Root(f).key
               /\ \A o \in orders : o.key # n.key
    BY <1>1, <2>1, <2>2
  <2>7. answer'[f].result = "ok" =>
          \E o \in orders' : o.id = answer'[f].order /\ o.key = Root(f).key
    BY <2>5, <2>6
  <2> QED
    BY <1>1, <2>4, <2>6, <2>7 DEF r
<1>4. CASE Catalog!Repeat(f, r)
  <2>1. orders' = orders
    BY <1>4 DEF Catalog!Repeat, Catalog!shop
  <2>2. PICK o \in orders : o.key = r.key /\ Catalog!Reply(f, "ok", o.id)
    BY <1>1, <1>4 DEF Catalog!Repeat
  <2>3. /\ \E a : answer' = [answer EXCEPT ![f] = a]
        /\ answer'[f].order = o.id /\ o \in orders' /\ o.key = Root(f).key
    BY <1>1, <1>2, <2>1, <2>2
  <2> QED
    BY <1>1, <2>1, <2>3
<1>5. CASE Catalog!Refuse(f, r)
  <2>1. orders' = orders
    BY <1>5 DEF Catalog!Refuse, Catalog!shop
  <2>2. \E e \in {"ErrNotFound", "ErrInsufficientStock", "ErrDuplicateReservation",
                  "ErrDuplicateOrder", "Internal"} : Catalog!Reply(f, e, Nobody)
    BY <1>5 DEF Catalog!Refuse
  <2>3. (\E a : answer' = [answer EXCEPT ![f] = a]) /\ answer'[f].result # "ok"
    BY <1>2, <2>2
  <2> QED
    BY <1>1, <2>1, <2>3
<1>6. ~Catalog!SellReservation(f, r)
  BY <1>1 DEF Catalog!SellReservation
<1> QED
  BY <1>3, <1>4, <1>5, <1>6 DEF Catalog!Decide

\* The message of an order has the order's id.
LEMMA IdInMessage ==
  ASSUME NEW o, NEW items
  PROVE  OrderReply(o, items).Order.Id = o.id
<1>1. OrderRow(o).ID = o.id
  BY DEF OrderRow
<1>2. \A x, y : mapOrderToDomain(x, y).ID = x.ID
  BY DEF mapOrderToDomain
<1>3. \A x : mapOrderToProto(x).Id = x.ID
  BY DEF mapOrderToProto
<1> QED
  BY <1>1, <1>2, <1>3 DEF OrderReply

\* The catalog decides an order, and tells it if somebody still waits.
LEMMA DecideStep ==
  ASSUME KeyInv, [Next]_vars, NEW f \in Fields, DecideOrder(f)
  PROVE  KeyInv'
<1>1. Catalog!Decide(f)
  BY DEF DecideOrder
<1>2. /\ Posted(f) /\ Root(f).name = "createOrder" /\ UNCHANGED <<post, value, request>>
      /\ Posted(f)' /\ Root(f)' = Root(f)
      /\ orders \subseteq orders' /\ \E a : answer' = [answer EXCEPT ![f] = a]
  BY <1>1, Decision DEF DecideOrder, gateway, Reply, Step, Posted, Root
<1>3. Placed'
  <2>1. CASE orders' = orders
    BY <2>1, PlacedKept
  <2>2. ASSUME NEW new, orders' = orders \cup {new}, new.id = f, new.key = Root(f).key,
               \A o \in orders : o.key # new.key
        PROVE  Placed'
    <3>1. \A o \in orders' : o.id \in Fields /\ Posted(o.id)' /\ o.key = Root(o.id)'.key
      BY <1>2, <2>2, PostedStays DEF KeyInv, Placed
    <3> QED
      BY <2>2, <3>1 DEF KeyInv, Placed
  <2> QED
    BY <1>1, <2>1, <2>2, Decision
<1>4. PICK s, m : /\ stage' = [stage EXCEPT ![f] = s] /\ message' = [message EXCEPT ![f] = m]
                  /\ \/ s = stage[f] /\ m = message[f] /\ stage[f] # "taken"
                     \/ s = "replied" /\ m.code # "OK"
                     \/ s = "replied" /\ PlacedAs(f, m.body.Order.Id)'
  <2>1. CASE stage[f] # "taken"
    BY <2>1 DEF DecideOrder, gateway, KeyInv, Shaped
  <2>2. CASE stage[f] = "taken" /\ answer'[f].result # "ok"
    BY <2>2, OnlyOkIsOK, ErrorReply DEF DecideOrder
  <2>3. CASE stage[f] = "taken" /\ answer'[f].result = "ok"
    <3>1. PICK o \in orders' :
            o.id = answer'[f].order /\ \E items : Reply(f, "OK", OrderReply(o, items))
      BY <2>3 DEF DecideOrder
    <3>10. PICK items : Reply(f, "OK", OrderReply(o, items))
      BY <3>1
    <3>2. PICK mine \in orders' : mine.id = answer'[f].order /\ mine.key = Root(f).key
      BY <1>1, <2>3, Decision
    <3>3. o.key = Root(o.id)'.key /\ mine.key = Root(mine.id)'.key
      BY <1>3 DEF Placed
    <3>4. o.key = Root(f)'.key
      BY <1>2, <3>1, <3>2, <3>3
    <3> DEFINE body == OrderReply(o, items)
               m == [code |-> "OK", body |-> body]
    <3>5. body.Order.Id = o.id
      BY IdInMessage
    <3>6. stage' = [stage EXCEPT ![f] = "replied"] /\ message' = [message EXCEPT ![f] = m]
      BY <3>10 DEF Reply, Step
    <3> HIDE DEF body
    <3>7. m.body.Order.Id = o.id
      BY <3>5
    <3> HIDE DEF m
    <3> QED
      BY <3>4, <3>6, <3>7 DEF PlacedAs
  <2> QED
    BY <2>1, <2>2, <2>3
<1>5. Shaped'
  BY <1>2, <1>4 DEF KeyInv, Shaped
<1>6. /\ stage'[f] = s /\ message'[f] = m
      /\ \A g \in Fields \ {f} : /\ stage'[g] = stage[g] /\ message'[g] = message[g]
                                 /\ answer'[g] = answer[g]
  BY <1>2, <1>4 DEF KeyInv, Shaped
<1>7. \A g \in Fields \ {f} : FieldInv(g)'
  BY <1>2, <1>6, Aside
<1>8. FieldInv(f)'
  <2>1. \A id : PlacedAs(f, id) => PlacedAs(f, id)'
    BY <1>2 DEF PlacedAs
  <2>2. Begun(f)' /\ Asked(f)'
    BY <1>1, <1>2, Decision DEF Begun, Asked, KeyInv, FieldInv
  <2>3. Carried(f)'
    BY <1>2, <1>4, <1>6, <2>1 DEF Carried, KeyInv, FieldInv
  <2>4. Told(f)'
    BY <1>2, <2>1 DEF Told, KeyInv, FieldInv
  <2> QED
    BY <2>2, <2>3, <2>4 DEF FieldInv
<1> QED
  BY <1>3, <1>5, <1>7, <1>8 DEF KeyInv

-----------------------------------------------------------------------------

\* Every step keeps the keys.
LEMMA KeysStep == KeyInv /\ [Next]_vars => KeyInv'
<1> SUFFICES ASSUME KeyInv, [Next]_vars PROVE KeyInv'
  OBVIOUS
<1>1. ASSUME NEW p \in Posts, Post(p) \/ Respond(p) PROVE KeyInv'
  <2>1. UNCHANGED <<stage, message, value, catalog>> /\ post' = [q \in Posts |-> post'[q]]
    BY <1>1 DEF Post, Respond, KeyInv, Shaped
  <2> QED
    BY <2>1, PostStep
<1>2. CASE UNCHANGED vars
  <2>1. UNCHANGED <<stage, message, value, catalog>> /\ post' = [q \in Posts |-> post'[q]]
    BY <1>2 DEF vars, gateway, KeyInv, Shaped
  <2> QED
    BY <2>1, PostStep
<1>3. ASSUME NEW f \in Fields, Progress(f) \/ Break(f) PROVE KeyInv'
  BY <1>3, ResolveStep, ReadStep, ReturnStep, AskStep, DecideStep DEF Progress, Serve
<1> QED
  BY <1>1, <1>2, <1>3 DEF Next, Quiet

\* A key places one order, whatever breaks between the client and the tables and
\* however often it is sent again; and every id a client is shown for the key is that
\* order's (schema.resolvers.go:16-30, handler.go:91-120, repository.go:145-184).
THEOREM OneKeyOneOrderAlways == Spec => []OneKeyOneOrder
BY KeysSuffice, KeysInit, KeysStep, PTL DEF Spec

-----------------------------------------------------------------------------
(* The conversions.                                                        *)

\* What is smaller than the modulus is its own remainder.
LEMMA Remainder ==
  ASSUME NEW w \in Nat \ {0}, NEW a \in 0..w - 1
  PROVE  a % w = a
OBVIOUS

\* A number that fits an int32 survives the conversion, at every width.
LEMMA Int32Keeps ==
  ASSUME NEW n \in Range32
  PROVE  int32(n) = n
<1>1. Width32 \div 2 \in Nat /\ Width32 = 2 * (Width32 \div 2)
  BY MappingAssumption
<1>2. n + Width32 \div 2 \in 0..Width32 - 1 /\ n \in Int
  BY <1>1, MappingAssumption DEF Range32
<1> QED
  BY <1>1, <1>2, Remainder, MappingAssumption DEF int32

\* The quantities that reach the catalog are the ones in the document, as long as
\* these are int32 (schema.resolvers.go:22): nothing the gateway accepts and the
\* message can hold is changed on the way.
THEOREM QuantitiesArrive ==
  ASSUME NEW f, NEW root, Fits(root), NEW u
  PROVE  LET lines == CreateOrderCall(u, CreateOrderRequest(f, root)).items
         IN  /\ DOMAIN lines = DOMAIN root.items
             /\ \A i \in DOMAIN root.items :
                  lines[i].cab = root.items[i].cab /\ lines[i].qty = root.items[i].qty
<1>1. \A i \in DOMAIN root.items : Quantity(root.items[i].qty) = root.items[i].qty
  BY Int32Keeps DEF Quantity, Fits
<1> DEFINE m == CreateOrderRequest(f, root)
<1>2. m.Items = [i \in DOMAIN root.items |->
        [CabinetId |-> root.items[i].cab, Quantity |-> Quantity(root.items[i].qty)]]
  BY DEF CreateOrderRequest
<1>3. CreateOrderCall(u, m).items =
        [i \in DOMAIN m.Items |-> [cab |-> m.Items[i].CabinetId, qty |-> m.Items[i].Quantity]]
  BY DEF CreateOrderCall
<1> HIDE DEF m
<1>4. DOMAIN m.Items = DOMAIN root.items
  BY <1>2
<1>5. ASSUME NEW i \in DOMAIN root.items
      PROVE  m.Items[i].CabinetId = root.items[i].cab /\ m.Items[i].Quantity = root.items[i].qty
  BY <1>1, <1>2
<1>6. LET lines == CreateOrderCall(u, m).items
      IN  /\ DOMAIN lines = DOMAIN root.items
          /\ \A i \in DOMAIN root.items :
               lines[i].cab = root.items[i].cab /\ lines[i].qty = root.items[i].qty
  BY <1>3, <1>4, <1>5
<1> QED
  BY <1>6 DEF m

\* What the client is shown of a cabinet is what its row says, image by image, if
\* the numbers are int32 as the tables' are: no field is lost or crossed between
\* the repository, the handler, the resolver and the executor.
THEOREM CabinetAsStored ==
  ASSUME NEW r, r.Quantity \in Range32,
         \A i \in DOMAIN r.Images : r.Images[i].SortOrder \in Range32,
         NEW sel, ShowCabinet(sel, mapCabinet(CabinetReply(r))) # Null
  PROVE  AsStored(ShowCabinet(sel, mapCabinet(CabinetReply(r))), r)
<1> DEFINE d == mapCabinetToDomain(r)
           p == mapCabinetToProto(d)
           g == mapCabinet(p)
           w == CabinetFields(g, sel.sub)
<1>1. /\ d.ID = r.ID /\ d.Slug = r.Slug /\ d.Model = r.Model /\ d.Type = r.Type
      /\ d.Display = r.Display /\ d.Condition = r.Condition /\ d.Quantity = r.Quantity
      /\ d.Price = r.Price /\ d.Manufacturer = r.Manufacturer /\ d.Year = r.Year
  BY DEF mapCabinetToDomain
<1>11. d.Images = mapImagesToDomain(r.Images)
  BY DEF mapCabinetToDomain
<1> HIDE DEF d
<1>2. /\ p.Id = d.ID /\ p.Slug = d.Slug /\ p.Model = d.Model /\ p.Type = d.Type
      /\ p.Display = d.Display /\ p.Condition = d.Condition /\ p.Quantity = int32(d.Quantity)
      /\ p.Price = d.Price /\ p.Manufacturer = d.Manufacturer /\ p.Year = d.Year
  BY DEF mapCabinetToProto
<1>12. p.Images = [i \in DOMAIN d.Images |->
           [Id |-> d.Images[i].ID, Url |-> d.Images[i].URL, Alt |-> d.Images[i].Alt,
            SortOrder |-> int32(d.Images[i].SortOrder)]]
  BY DEF mapCabinetToProto
<1> HIDE DEF p
<1>3. p # Null /\ g # Null /\ ShowCabinet(sel, g) = [n \in sel.of |-> w[n]]
  BY DEF ShowCabinet, mapCabinet, Select, CabinetReply, p, d
<1>4. /\ g.ID = p.Id /\ g.Slug = p.Slug /\ g.Model = p.Model /\ g.Type = p.Type
      /\ g.Display = p.Display /\ g.Condition = p.Condition /\ g.Quantity = p.Quantity
      /\ g.PriceCents = p.Price /\ g.Manufacturer = p.Manufacturer /\ g.Year = p.Year
  BY <1>3 DEF mapCabinet
<1>14. g.Images = [i \in DOMAIN p.Images |->
           [ID |-> p.Images[i].Id, URL |-> p.Images[i].Url, Alt |-> p.Images[i].Alt,
            SortOrder |-> p.Images[i].SortOrder]]
  BY <1>3 DEF mapCabinet
<1> HIDE DEF g
<1>5. /\ w.id = g.ID /\ w.slug = g.Slug /\ w.model = g.Model /\ w.type = g.Type
      /\ w.display = g.Display /\ w.condition = g.Condition /\ w.quantity = g.Quantity
      /\ w.priceCents = g.PriceCents /\ w.manufacturer = g.Manufacturer /\ w.year = g.Year
  BY DEF CabinetFields
<1>15. w.images = [i \in DOMAIN g.Images |->
           [n \in sel.sub |-> CabinetImageFields(g.Images[i])[n]]]
  BY DEF CabinetFields, ShowImages, Select
<1> HIDE DEF w
<1>6. int32(d.Quantity) = r.Quantity
  BY <1>1, Int32Keeps
<1>7. /\ DOMAIN w.images = DOMAIN r.Images
      /\ \A i \in DOMAIN r.Images :
           /\ Says(w.images[i], "id", r.Images[i].ID)
           /\ Says(w.images[i], "url", r.Images[i].URL)
           /\ Says(w.images[i], "alt", r.Images[i].Alt)
           /\ Says(w.images[i], "sortOrder", r.Images[i].SortOrder)
  <2>1. /\ DOMAIN d.Images = DOMAIN r.Images
        /\ \A i \in DOMAIN r.Images :
             /\ d.Images[i].ID = r.Images[i].ID /\ d.Images[i].URL = r.Images[i].URL
             /\ d.Images[i].Alt = r.Images[i].Alt
             /\ d.Images[i].SortOrder = r.Images[i].SortOrder
    BY <1>11 DEF mapImagesToDomain
  <2>2. /\ DOMAIN g.Images = DOMAIN r.Images
        /\ \A i \in DOMAIN r.Images :
             /\ g.Images[i].ID = r.Images[i].ID /\ g.Images[i].URL = r.Images[i].URL
             /\ g.Images[i].Alt = r.Images[i].Alt
             /\ g.Images[i].SortOrder = r.Images[i].SortOrder
    <3>1. DOMAIN p.Images = DOMAIN r.Images
      BY <1>12, <2>1
    <3>2. ASSUME NEW i \in DOMAIN r.Images
          PROVE  /\ p.Images[i].Id = r.Images[i].ID /\ p.Images[i].Url = r.Images[i].URL
                 /\ p.Images[i].Alt = r.Images[i].Alt
                 /\ p.Images[i].SortOrder = r.Images[i].SortOrder
      <4>1. int32(d.Images[i].SortOrder) = r.Images[i].SortOrder
        BY <2>1, Int32Keeps
      <4> QED
        BY <1>12, <2>1, <4>1
    <3> QED
      BY <1>14, <3>1, <3>2
  <2> QED
    <3>1. DOMAIN w.images = DOMAIN r.Images
      BY <1>15, <2>2
    <3>2. ASSUME NEW i \in DOMAIN r.Images
          PROVE  \A n \in DOMAIN w.images[i] : w.images[i][n] = CabinetImageFields(g.Images[i])[n]
      BY <1>15, <2>2
    <3>3. ASSUME NEW i \in DOMAIN r.Images
          PROVE  LET c == CabinetImageFields(g.Images[i])
                 IN  /\ c["id"] = r.Images[i].ID /\ c["url"] = r.Images[i].URL
                     /\ c["alt"] = r.Images[i].Alt /\ c["sortOrder"] = r.Images[i].SortOrder
      BY <2>2 DEF CabinetImageFields
    <3> QED
      BY <3>1, <3>2, <3>3 DEF Says
<1> DEFINE v == [n \in sel.of |-> w[n]]
<1>8. /\ Says(v, "id", r.ID) /\ Says(v, "slug", r.Slug) /\ Says(v, "model", r.Model)
      /\ Says(v, "type", r.Type) /\ Says(v, "display", r.Display)
      /\ Says(v, "condition", r.Condition) /\ Says(v, "quantity", r.Quantity)
      /\ Says(v, "priceCents", r.Price) /\ Says(v, "manufacturer", r.Manufacturer)
      /\ Says(v, "year", r.Year)
  <2>1. \A n \in DOMAIN v : v[n] = w[n]
    OBVIOUS
  <2>2. /\ w["id"] = r.ID /\ w["slug"] = r.Slug /\ w["model"] = r.Model /\ w["type"] = r.Type
        /\ w["display"] = r.Display /\ w["condition"] = r.Condition
    BY <1>1, <1>2, <1>4, <1>5
  <2>3. /\ w["quantity"] = r.Quantity /\ w["priceCents"] = r.Price
        /\ w["manufacturer"] = r.Manufacturer /\ w["year"] = r.Year
    BY <1>1, <1>2, <1>4, <1>5, <1>6
  <2> HIDE DEF v
  <2> QED
    BY <2>1, <2>2, <2>3 DEF Says
<1>9. "images" \in DOMAIN v => v.images = w.images
  OBVIOUS
<1>10. v = ShowCabinet(sel, mapCabinet(CabinetReply(r)))
  BY <1>3 DEF CabinetReply, g, p, d
<1> HIDE DEF v
<1>16. AsStored(v, r)
  BY <1>7, <1>8, <1>9 DEF AsStored
<1> QED
  BY <1>10, <1>16
=============================================================================
