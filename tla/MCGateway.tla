----------------------------- MODULE MCGateway -----------------------------
(* Instances of the gateway for TLC. *)
EXTENDS GatewayProperties, TLC

CONSTANTS p1, p2

MCPosts    == {p1, p2}
MCOrderIds == MCPosts \X (1..2)
MCUsers    == {"", "u", Anonymous}
MCTrim     == [u \in MCUsers |-> u]

\* A cabinet of which there are two, and one that is the last; an int64 holds the
\* price of one and not of two.
Row(id, quantity, price, images) ==
  [ID |-> id, Slug |-> "slug " \o id, Model |-> "model " \o id, Type |-> "upright",
   Display |-> "crt", Condition |-> "mint", Quantity |-> quantity, Price |-> price,
   Manufacturer |-> "Midway", Year |-> "1993",
   Images |-> [i \in 1..images |->
     [ID |-> id \o " image " \o ToString(i), URL |-> "url", Alt |-> "alt", SortOrder |-> i]]]
MCShelf == [c \in {"mk2", "tmnt"} |-> IF c = "mk2" THEN Row(c, 2, 16, 2) ELSE Row(c, 1, 5, 0)]

OfCabinet == CabinetNames
OfImage   == CabinetImageNames
OfOrder   == {"id", "userId", "status", "totalCents", "idempotencyKey", "items"}
OfLine    == {"cabinetId", "quantity", "unitPriceCents"}

Cabinets_(of) ==
  [name |-> "cabinets", cab |-> Nobody, order |-> Nobody, key |-> Nobody, items |-> <<>>,
   of |-> of, sub |-> OfImage]
Cabinet_(id) ==
  [name |-> "cabinet", cab |-> id, order |-> Nobody, key |-> Nobody, items |-> <<>>,
   of |-> OfCabinet, sub |-> OfImage]
Order_(id) ==
  [name |-> "order", cab |-> Nobody, order |-> id, key |-> Nobody, items |-> <<>>,
   of |-> OfOrder, sub |-> OfLine]
CreateOrder_(lines, key) ==
  [name |-> "createOrder", cab |-> Nobody, order |-> Nobody, key |-> key,
   items |-> [i \in DOMAIN lines |-> [cab |-> lines[i][1], qty |-> lines[i][2]]],
   of |-> OfOrder, sub |-> OfLine]

Mutation(user, fields) == [op |-> "mutation", user |-> user, fields |-> fields]
Query(fields) == [op |-> "query", user |-> "", fields |-> fields]

\* Orders that want the same units, under one key and under two, alone and in one
\* mutation; one cabinet after the other, which a list may see in between; quantities
\* that wrap to one unit and to a negative number, and one that is no int; a total that
\* is no int64.
Orders ==
  { Mutation("u", << CreateOrder_(<< <<"mk2", 1>>, <<"tmnt", 1>> >>, "k1") >>),
    Mutation("u", << CreateOrder_(<< <<"tmnt", 1>> >>, "k2"),
                     CreateOrder_(<< <<"tmnt", 1>>, <<"mk2", 1>> >>, "k1") >>),
    Mutation("", << CreateOrder_(<< <<"mk2", 2>> >>, "k1"),
                    CreateOrder_(<< <<"mk2", 9>> >>, "k2") >>),
    Mutation("u", << CreateOrder_(<< <<"mk2", 1>> >>, "k1"),
                     CreateOrder_(<< <<"tmnt", 1>> >>, "k2") >>),
    Mutation("", << CreateOrder_(<< <<"mk2", 4>> >>, "k2"),
                    CreateOrder_(<< <<"mk2", 40>> >>, "k2") >>) }

Reads ==
  { Query(<< Order_(<<p1, 1>>), Cabinets_({"id", "quantity"}) >>),
    Query(<< Cabinet_("mk2"), Cabinet_("pong") >>) }

MCDocuments == [p \in MCPosts |-> IF p = p1 THEN Orders ELSE Orders \cup Reads]

\* For liveness: two orders in one mutation, and beside it an order or a read.
FewDocuments ==
  [p \in MCPosts |->
     IF p = p1 THEN {d \in Orders : Len(d.fields) = 2 /\ d.fields[1].items[1].cab = "tmnt"}
               ELSE {d \in Orders \cup Reads : d.op = "query" \/ Len(d.fields) = 1}]
=============================================================================
