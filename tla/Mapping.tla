------------------------------ MODULE Mapping ------------------------------
(***************************************************************************)
(* What an arcade cabinet and an order become between the tables and the   *)
(* answer to a GraphQL query: rows, domain objects, messages, the objects  *)
(* of the gateway and the fields the client selected.                      *)
(***************************************************************************)
EXTENDS Integers, Sequences, FiniteSetsExt

CONSTANTS
  Width32, Width64,  \* the number of values of int32 and of int64, or int
  OrderIds,          \* the ids orders are given
  Null               \* graphql.Null; a nil pointer

ASSUME MappingAssumption ==
  /\ Width32 \in Nat \ {0} /\ Width32 % 2 = 0
  /\ Width64 \in Nat \ {0} /\ Width64 % 2 = 0
  /\ Width32 <= Width64

Range32 == -(Width32 \div 2)..(Width32 \div 2 - 1)
Range64 == -(Width64 \div 2)..(Width64 \div 2 - 1)

\* A Go conversion keeps the low bits, in two's complement.
int32(n) == ((n + Width32 \div 2) % Width32) - Width32 \div 2
int64(n) == ((n + Width64 \div 2) % Width64) - Width64 \div 2

-----------------------------------------------------------------------------
(* The messages of catalog.v1.                                             *)

OrderStatus == {"pending_payment", "paid", "cancelled", "failed"}

CabinetImageMessage == [Id : STRING, Url : STRING, Alt : STRING, SortOrder : Range32]

CabinetMessage ==
  [Id : STRING, Slug : STRING, Model : STRING, Type : STRING, Display : STRING,
   Condition : STRING, Quantity : Range32, Price : Range64,
   Manufacturer : STRING, Year : STRING, Images : Seq(CabinetImageMessage)]

OrderItemInputMessage == [CabinetId : STRING, Quantity : Range32]

OrderLineMessage == [CabinetId : STRING, Quantity : Range32, UnitPriceCents : Range64]

OrderMessage ==
  [Id : OrderIds, UserId : STRING, Status : OrderStatus, TotalCents : Range64,
   Items : Seq(OrderLineMessage), IdempotencyKey : STRING]

\* The request of ListCabinets has no fields.
ListCabinetsRequestMessage == [Empty : {TRUE}]
GetCabinetRequestMessage  == [Id : STRING]
GetOrderRequestMessage    == [Id : OrderIds]
CreateOrderRequestMessage ==
  [IdempotencyKey : STRING, Items : Seq(OrderItemInputMessage)]
ListCabinetsResponseMessage == [Cabinets : Seq(CabinetMessage)]
GetCabinetResponseMessage   == [Cabinet : CabinetMessage]
OrderResponseMessage        == [Order : OrderMessage]

-----------------------------------------------------------------------------
(* The rows of the tables and the objects of the gateway.                  *)

CabinetImageRow == [ID : STRING, URL : STRING, Alt : STRING, SortOrder : Range32]
CabinetRow ==
  [ID : STRING, Slug : STRING, Model : STRING, Type : STRING, Display : STRING,
   Condition : STRING, Quantity : Range32, Price : Range64,
   Manufacturer : STRING, Year : STRING, Images : Seq(CabinetImageRow)]

CabinetImageObject == [ID : STRING, URL : STRING, Alt : STRING, SortOrder : Range64]
CabinetObject ==
  [ID : STRING, Slug : STRING, Model : STRING, Type : STRING, Display : STRING,
   Condition : STRING, Quantity : Range64, PriceCents : Range64,
   Manufacturer : STRING, Year : STRING, Images : Seq(CabinetImageObject)]

OrderLineObject == [CabinetID : STRING, Quantity : Range64, UnitPriceCents : Range64]
OrderObject ==
  [ID : OrderIds, UserID : STRING, Status : OrderStatus, TotalCents : Range64,
   IdempotencyKey : STRING, Items : Seq(OrderLineObject)]

\* The fields a client may select, and what it is shown for the names it selects.
CabinetImageNames == {"__typename", "id", "url", "alt", "sortOrder"}
CabinetNames ==
  {"__typename", "id", "slug", "model", "type", "display", "condition", "quantity",
   "priceCents", "manufacturer", "year", "images"}
OrderLineNames == {"__typename", "cabinetId", "quantity", "unitPriceCents"}
OrderNames ==
  {"__typename", "id", "userId", "status", "totalCents", "idempotencyKey", "items"}

TypeNames == {"Cabinet", "CabinetImage", "Order", "OrderLine"}
Scalar == STRING \cup Int \cup OrderIds \cup OrderStatus \cup TypeNames
ShownObject(of, sub) == [of -> Scalar \cup Seq([sub -> Scalar])]

\* Null is no message and no object.
ASSUME NullAssumption ==
  /\ Null \notin CabinetMessage /\ Null \notin OrderMessage
  /\ Null \notin CabinetObject /\ Null \notin OrderObject

-----------------------------------------------------------------------------
(* Tables to domain: the repository.                                       *)

mapImagesToDomain(images) ==
  [i \in DOMAIN images |->
     [ID |-> images[i].ID, URL |-> images[i].URL, Alt |-> images[i].Alt,
      SortOrder |-> images[i].SortOrder]]

mapCabinetToDomain(c) ==
  [ID |-> c.ID, Slug |-> c.Slug, Model |-> c.Model, Type |-> c.Type,
   Display |-> c.Display, Condition |-> c.Condition, Quantity |-> c.Quantity,
   Price |-> c.Price, Manufacturer |-> c.Manufacturer, Year |-> c.Year,
   Images |-> mapImagesToDomain(c.Images)]

mapOrderToDomain(o, items) ==
  [ID |-> o.ID, UserID |-> o.UserID, Status |-> o.Status, TotalCents |-> o.TotalCents,
   IdempotencyKey |-> o.IdempotencyKey,
   Items |-> [i \in DOMAIN items |->
     [CabinetID |-> items[i].CabinetID, Quantity |-> items[i].Quantity,
      UnitPriceCents |-> items[i].UnitPriceCents]]]

-----------------------------------------------------------------------------
(* Domain to messages: the catalog's handler.                              *)

mapCabinetToProto(c) ==
  [Id |-> c.ID, Slug |-> c.Slug, Model |-> c.Model, Type |-> c.Type,
   Display |-> c.Display, Condition |-> c.Condition, Quantity |-> int32(c.Quantity),
   Price |-> c.Price, Manufacturer |-> c.Manufacturer, Year |-> c.Year,
   Images |-> [i \in DOMAIN c.Images |->
     [Id |-> c.Images[i].ID, Url |-> c.Images[i].URL, Alt |-> c.Images[i].Alt,
      SortOrder |-> int32(c.Images[i].SortOrder)]]]

mapOrderToProto(o) ==
  [Id |-> o.ID, UserId |-> o.UserID, Status |-> o.Status, TotalCents |-> o.TotalCents,
   IdempotencyKey |-> o.IdempotencyKey,
   Items |-> [i \in DOMAIN o.Items |->
     [CabinetId |-> o.Items[i].CabinetID, Quantity |-> int32(o.Items[i].Quantity),
      UnitPriceCents |-> o.Items[i].UnitPriceCents]]]

-----------------------------------------------------------------------------
(* Messages to the gateway's objects: the resolvers.                       *)

mapCabinet(c) ==
  IF c = Null THEN Null ELSE
  [ID |-> c.Id, Slug |-> c.Slug, Model |-> c.Model, Type |-> c.Type,
   Display |-> c.Display, Condition |-> c.Condition, Quantity |-> c.Quantity,
   PriceCents |-> c.Price, Manufacturer |-> c.Manufacturer, Year |-> c.Year,
   Images |-> [i \in DOMAIN c.Images |->
     [ID |-> c.Images[i].Id, URL |-> c.Images[i].Url, Alt |-> c.Images[i].Alt,
      SortOrder |-> c.Images[i].SortOrder]]]

\* Mutant: two numbers of a line change places.
mapOrderCrossed(o) ==
  IF o = Null THEN Null ELSE
  [ID |-> o.Id, UserID |-> o.UserId, Status |-> o.Status, TotalCents |-> o.TotalCents,
   IdempotencyKey |-> o.IdempotencyKey,
   Items |-> [i \in DOMAIN o.Items |->
     [CabinetID |-> o.Items[i].CabinetId, Quantity |-> o.Items[i].UnitPriceCents,
      UnitPriceCents |-> o.Items[i].Quantity]]]

mapOrder(o) ==
  IF o = Null THEN Null ELSE
  [ID |-> o.Id, UserID |-> o.UserId, Status |-> o.Status, TotalCents |-> o.TotalCents,
   IdempotencyKey |-> o.IdempotencyKey,
   Items |-> [i \in DOMAIN o.Items |->
     [CabinetID |-> o.Items[i].CabinetId, Quantity |-> o.Items[i].Quantity,
      UnitPriceCents |-> o.Items[i].UnitPriceCents]]]

-----------------------------------------------------------------------------
(* Objects to fields: the executors, for the fields the client selected.   *)
(* sel.of are those of the object, sel.sub those of the objects under it.  *)

Select(object, names) == [f \in names |-> object[f]]

CabinetImageFields(i) ==
  [__typename |-> "CabinetImage", id |-> i.ID, url |-> i.URL, alt |-> i.Alt,
   sortOrder |-> i.SortOrder]

ShowImages(sub, images) ==
  [i \in DOMAIN images |-> Select(CabinetImageFields(images[i]), sub)]

CabinetFields(c, sub) ==
  [__typename |-> "Cabinet", id |-> c.ID, slug |-> c.Slug, model |-> c.Model,
   type |-> c.Type, display |-> c.Display, condition |-> c.Condition,
   quantity |-> c.Quantity, priceCents |-> c.PriceCents,
   manufacturer |-> c.Manufacturer, year |-> c.Year,
   images |-> ShowImages(sub, c.Images)]

ShowCabinet(sel, c) ==
  IF c = Null THEN Null ELSE Select(CabinetFields(c, sel.sub), sel.of)

\* One cabinet that is Null takes the list with it.
ShowCabinets(sel, cs) ==
  LET shown == [i \in DOMAIN cs |-> ShowCabinet(sel, cs[i])]
  IN  IF \E i \in DOMAIN cs : shown[i] = Null THEN Null ELSE shown

OrderLineFields(l) ==
  [__typename |-> "OrderLine", cabinetId |-> l.CabinetID, quantity |-> l.Quantity,
   unitPriceCents |-> l.UnitPriceCents]

ShowLines(sub, lines) ==
  [i \in DOMAIN lines |-> Select(OrderLineFields(lines[i]), sub)]

OrderFields(o, sub) ==
  [__typename |-> "Order", id |-> o.ID, userId |-> o.UserID, status |-> o.Status,
   totalCents |-> o.TotalCents, idempotencyKey |-> o.IdempotencyKey,
   items |-> ShowLines(sub, o.Items)]

ShowOrder(sel, o) ==
  IF o = Null THEN Null ELSE Select(OrderFields(o, sel.sub), sel.of)
=============================================================================
