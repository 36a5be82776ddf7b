------------------------- MODULE GatewayProperties -------------------------
(* What a client of the gateway can rely on. *)
EXTENDS Gateway

Stages == {"none", "sent", "taken", "replied", "returned"}
Codes  == {"OK", "BadInput", "InvalidArgument", "AlreadyExists", "NotFound",
           "FailedPrecondition", "Internal", "Unavailable"}

RequestOf(name) ==
  CASE name = "cabinets" -> ListCabinetsRequestMessage
    [] name = "cabinet" -> GetCabinetRequestMessage
    [] name = "order" -> GetOrderRequestMessage
    [] name = "createOrder" -> CreateOrderRequestMessage

ReplyOf(name) ==
  CASE name = "cabinets" -> ListCabinetsResponseMessage
    [] name = "cabinet" -> GetCabinetResponseMessage
    [] OTHER -> OrderResponseMessage

\* An order as it is placed: of cabinets there are, so many units of each.
Line  == [cab : Cabinets, qty : {n \in Range32 : n > 0}]
Order == [id : Fields, user : STRING, key : STRING, items : Seq(Line)]

\* What a client is shown has the fields it selected, and numbers that fit them.
Holds(v, name, S) == name \in DOMAIN v => v[name] \in S

ShownAsCabinet(root, v) ==
  /\ DOMAIN v = root.of
  /\ Holds(v, "quantity", {n \in Range32 : n >= 0}) /\ Holds(v, "priceCents", Range64)

ShownAsOrder(root, v) ==
  /\ DOMAIN v = root.of
  /\ Holds(v, "id", Fields) /\ Holds(v, "status", OrderStatus) /\ Holds(v, "totalCents", Range64)
  /\ "items" \in DOMAIN v => \A i \in DOMAIN v.items :
       /\ DOMAIN v.items[i] = root.sub
       /\ Holds(v.items[i], "quantity", {n \in Range32 : n > 0})
       /\ Holds(v.items[i], "unitPriceCents", Range64)

ShownWell(root, v) ==
  CASE root.name = "cabinets" -> \A i \in DOMAIN v : ShownAsCabinet(root, v[i])
    [] root.name = "cabinet" -> ShownAsCabinet(root, v)
    [] OTHER -> ShownAsOrder(root, v)

\* Whatever is on the wire is a message of catalog.v1, whatever is placed an order and
\* whatever is shown an object of the schema: every number fits its field on the way.
TypeOK ==
  /\ stage \in [Fields -> Stages]
  /\ row \in [Fields -> orders \cup {Nobody}]
  /\ orders \subseteq Order
  /\ \A f \in Fields :
       /\ stage[f] \in {"sent", "taken"} => message[f] \in RequestOf(Root(f).name)
       /\ stage[f] \in {"replied", "returned"} => message[f].code \in Codes
       /\ stage[f] = "replied" /\ message[f].code = "OK" =>
            message[f].body \in ReplyOf(Root(f).name)
       /\ stage[f] = "returned" <=> value[f] # Nobody
       /\ value[f] \notin {Nobody, Null} => ShownWell(Root(f), value[f])
  /\ \A c \in Cabinets : left[c] \in Range32
  /\ \A p \in Posts : post[p] = Nobody => response[p] = Nobody

-----------------------------------------------------------------------------

Shown(f, names) ==
  /\ value[f] # Nobody /\ value[f] # Null
  /\ Root(f).name \in names
OrderShown(f) == Shown(f, {"order", "createOrder"}) /\ "id" \in DOMAIN value[f]

Says(v, name, x) == name \in DOMAIN v => v[name] = x

\* What is shown of a cabinet is what its row says, image by image.
AsStored(v, r) ==
  /\ Says(v, "id", r.ID) /\ Says(v, "slug", r.Slug) /\ Says(v, "model", r.Model)
  /\ Says(v, "type", r.Type) /\ Says(v, "display", r.Display)
  /\ Says(v, "condition", r.Condition) /\ Says(v, "quantity", r.Quantity)
  /\ Says(v, "priceCents", r.Price) /\ Says(v, "manufacturer", r.Manufacturer)
  /\ Says(v, "year", r.Year)
  /\ "images" \in DOMAIN v =>
       /\ DOMAIN v.images = DOMAIN r.Images
       /\ \A i \in DOMAIN r.Images :
            /\ Says(v.images[i], "id", r.Images[i].ID)
            /\ Says(v.images[i], "url", r.Images[i].URL)
            /\ Says(v.images[i], "alt", r.Images[i].Alt)
            /\ Says(v.images[i], "sortOrder", r.Images[i].SortOrder)

\* The same elements, each as often.
SameBag(s, t) ==
  \A x \in Range(s) \cup Range(t) :
    Cardinality({i \in DOMAIN s : s[i] = x}) = Cardinality({i \in DOMAIN t : t[i] = x})

Fits(root) == \A i \in DOMAIN root.items : root.items[i].qty \in Range32

\* An order a client is shown in answer to createOrder is placed, for the user of the
\* request, under the client's key, and for what it asked, as long as the quantities
\* are int32 (the resolver narrows them, schema.resolvers.go:22).
OrderAsAsked ==
  \A f \in Fields : Shown(f, {"createOrder"}) /\ Fits(Root(f)) =>
    LET v == value[f]
        user == post[f[1]].user
    IN  /\ Says(v, "userId", IF Trim[user] = "" THEN Anonymous ELSE Trim[user])
        /\ Says(v, "idempotencyKey", Root(f).key)
        /\ "id" \in DOMAIN v => \E o \in orders : o.id = v.id
        /\ "items" \in DOMAIN v /\ {"cabinetId", "quantity"} \subseteq Root(f).sub =>
             SameBag([i \in DOMAIN v.items |->
                        [cab |-> v.items[i].cabinetId, qty |-> v.items[i].quantity]],
                     Root(f).items)

\* The total shown with an order is the sum of the lines shown with it, whenever that
\* sum is an int64: the code adds and multiplies without a bound (repository.go:211).
TotalIsExact ==
  \A f \in Fields : OrderShown(f) =>
    LET v == value[f]
        sum == SumFunction([i \in DOMAIN v.items |->
                              v.items[i].unitPriceCents * v.items[i].quantity])
    IN  /\ {"items", "totalCents"} \subseteq DOMAIN v
        /\ {"unitPriceCents", "quantity"} \subseteq Root(f).sub
        /\ sum \in Range64
        => v.totalCents = sum

\* An order looks the same whoever asks and whichever path answers: built from memory
\* when it is placed, from its rows when the request is repeated, and by GetOrder,
\* which reads header and lines in two statements without a transaction.  The order
\* of its lines may differ.
OneOrderOneLook ==
  \A f, g \in Fields :
    OrderShown(f) /\ OrderShown(g) /\ value[f].id = value[g].id =>
      \A name \in DOMAIN value[f] \cap DOMAIN value[g] :
        IF name = "items"
          THEN Root(f).sub = Root(g).sub => SameBag(value[f].items, value[g].items)
          ELSE value[f][name] = value[g][name]

\* The units a set of orders takes from cabinet c.
SoldIn(S, c) == SumFunctionOnSet([o \in S |-> Catalog!Wanted(o.items, c)], S)

\* A list of cabinets shows the stock of one instant since the query was posted: what the
\* orders had left that there were at that instant, each in all the quantities or in none.
ListIsOneInstant ==
  \A f \in Fields : Shown(f, {"cabinets"}) /\ {"id", "quantity"} \subseteq Root(f).of =>
    \E S \in past :
      /\ seen[f[1]].orders \subseteq S
      /\ \A i \in DOMAIN value[f] :
           value[f][i].quantity = Shelf[value[f][i].id].Quantity - SoldIn(S, value[f][i].id)

\* A read is not older than its query: it shows the cabinet's row, every field and every
\* image of it, with a quantity it had since then, and what is not found was not there.
ReadsAreCurrent ==
  \A f \in Fields :
    /\ Shown(f, {"cabinet"}) =>
         LET c == Root(f).cab
         IN  \E q \in left[c]..seen[f[1]].left[c] :
               AsStored(value[f], [Shelf[c] EXCEPT !.Quantity = q])
    /\ stage[f] = "returned" /\ message[f].code = "NotFound" =>
         /\ Root(f).name = "cabinet" => Root(f).cab \notin Cabinets
         /\ Root(f).name = "order" =>
              \A o \in seen[f[1]].orders : o.id # Root(f).order

\* Within a mutation the fields take effect in the order they are written: after one
\* that was told the stock is gone, no other buys the same.
MutationInOrder ==
  \A f, g \in Fields :
    /\ f[1] = g[1] /\ f[2] < g[2]
    /\ stage[f] = "returned" /\ message[f].code = "FailedPrecondition"
    /\ \A i \in DOMAIN Root(f).items : Root(f).items[i].cab \in Cabinets
    /\ OrderShown(g) /\ value[g].id = g
    => \E c \in Cabinets :
         Catalog!Wanted(request[g].items, c) < Catalog!Wanted(request[f].items, c)

\* A key places one order, whatever breaks between the client and the tables and
\* however often the client tries again, even after an answer without data.
OneKeyOneOrder ==
  /\ \A o1, o2 \in orders :
       Root(o1.id).key = Root(o2.id).key => o1 = o2
  /\ \A f, g \in Fields :
       /\ Shown(f, {"createOrder"}) /\ Shown(g, {"createOrder"})
       /\ OrderShown(f) /\ OrderShown(g) /\ Root(f).key = Root(g).key
       => value[f].id = value[g].id

\* What an answer says of its fields can be relied on: it has the data of all of them
\* or the errors of those that failed, and a field whose error is a decision, not a
\* failure on the way, has placed no order and never will, although other fields of
\* the mutation may have (Exec and _Mutation in generated.go, handler.go:102-116).
AllOrErrors ==
  \A p \in Posts : response[p] # Nobody =>
    IF response[p].errors = {}
      THEN response[p].data # Null /\ \A f \in FieldsOf(p) : message[f].code = "OK"
      ELSE /\ response[p].data = Null
           /\ \A e \in response[p].errors :
                /\ e.code # "OK"
                /\ e.code \notin {"Internal", "Unavailable"} =>
                     \A o \in orders : o.id # e.path

\* Every operation is answered, even when calls break and orders are refused.
EveryPostAnswered ==
  \A p \in Posts : post[p] # Nobody ~> response[p] # Nobody
=============================================================================
