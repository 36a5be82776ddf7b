---------------------------- MODULE GatewayTruth ----------------------------
(***************************************************************************)
(* What is true of the gateway in every state, for any operations and any  *)
(* shelf: every value a client is shown has a source in the catalog - an   *)
(* order, an instant, a stock - that explains all of it, and the orders    *)
(* that are there explain the stock.  And what it implies: the properties  *)
(* of GatewayProperties.  GatewayGuarantees proves that it stays true.     *)
(***************************************************************************)
EXTENDS GatewayProofs, SumTheorems

\* What a createOrder asks of the catalog, and what a field puts on the wire.
Call(f) == CreateOrderCall(post[f[1]].user, CreateOrderRequest(f, Root(f)))
Message(f) ==
  CASE Root(f).name = "cabinets" -> [Empty |-> TRUE]
    [] Root(f).name = "cabinet" -> [Id |-> Root(f).cab]
    [] Root(f).name = "order" -> [Id |-> Root(f).order]
    [] OTHER -> CreateOrderRequest(f, Root(f))

Known(f) == \A i \in DOMAIN Root(f).items : Root(f).items[i].cab \in Cabinets

\* What is left of cabinet c when the orders in S have been placed.
Remains(S, c) == Shelf[c].Quantity - SoldIn(S, c)
RowWith(c, q) == [Shelf[c] EXCEPT !.Quantity = q]

\* The order that answers a field: the one it names, or one placed for what it asks.
Due(f, o) ==
  IF Root(f).name = "order" THEN o.id = Root(f).order ELSE
    o.key = Root(f).key /\ o.user = Call(f).user /\ Catalog!SameLines(o.items, Call(f).items)

\* What a reply may be made from: the orders of an instant and a list of the cabinets;
\* a quantity; an order and a sequence of its lines.
Instants(f) ==
  {S \in past : /\ seen[f[1]].orders \subseteq S
                /\ \A c \in Cabinets : Remains(S, c) \in 0..Shelf[c].Quantity}
Lists == SetToSeqs(Cabinets)
Stocks(f) ==
  {q \in left[Root(f).cab]..seen[f[1]].left[Root(f).cab] : Root(f).cab \in Cabinets}
Orderings == UNION {SetToSeqs(DOMAIN o.items) : o \in orders}
Sales(f) ==
  {w \in orders \X Orderings : Due(f, w[1]) /\ w[2] \in SetToSeqs(DOMAIN w[1].items)}
Sources(f) ==
  CASE Root(f).name = "cabinets" -> Instants(f) \X Lists
    [] Root(f).name = "cabinet" -> Stocks(f)
    [] OTHER -> Sales(f)

\* The body of the reply made from w, and what the client is shown of it.
Permuted(items, pi) == [i \in DOMAIN items |-> items[pi[i]]]
ListReply(S, list) ==
  [Cabinets |-> [i \in DOMAIN list |-> CabinetReply(RowWith(list[i], Remains(S, list[i])))]]
Body(f, w) ==
  CASE Root(f).name = "cabinets" -> ListReply(w[1], w[2])
    [] Root(f).name = "cabinet" -> [Cabinet |-> CabinetReply(RowWith(Root(f).cab, w))]
    [] OTHER -> OrderReply(w[1], Permuted(w[1].items, w[2]))
Display(f, b) ==
  CASE Root(f).name = "cabinets" ->
         ShowCabinets(Root(f), [i \in DOMAIN b.Cabinets |-> mapCabinet(b.Cabinets[i])])
    [] Root(f).name = "cabinet" -> ShowCabinet(Root(f), mapCabinet(b.Cabinet))
    [] OTHER -> ShowOrder(Root(f), mapOrder(b.Order))

-----------------------------------------------------------------------------
(* The invariant of a field, at stage s, with message m, row r and value v. *)

Wire(f, s, m, r) ==
  /\ s \in Stages
  /\ s # "none" => f \in FieldsOf(f[1])
  /\ s \in {"sent", "taken"} => m = Message(f)
  /\ s \in {"none", "sent"} => request[f] = Nobody
  /\ s = "taken" =>
       \/ Root(f).name = "order" /\ r \in orders /\ r.id = Root(f).order
       \/ Root(f).name = "createOrder" /\ request[f] # Nobody /\ answer[f].result = "none"
  /\ r \in orders \cup {Nobody}

Outcome(f, s, m, v) ==
  /\ s \in {"replied", "returned"} => "code" \in DOMAIN m /\ m.code \in Codes
  /\ s = "replied" /\ m.code = "OK" => \E w \in Sources(f) : m.body = Body(f, w)
  /\ s = "returned" /\ m.code = "OK" => \E w \in Sources(f) : v = Display(f, Body(f, w))
  /\ s = "returned" /\ m.code # "OK" => v = Null
  /\ s # "returned" => v = Nobody

\* What is refused is so for a reason that stays.
Refusal(f, s, m) ==
  s \in {"replied", "returned"} =>
    /\ m.code \notin {"OK", "Internal", "Unavailable"} =>
         request[f] = Nobody \/ answer[f].result \notin {"none", "ok", "Internal"}
    /\ m.code = "NotFound" =>
         /\ Root(f).name = "cabinet" => Root(f).cab \notin Cabinets
         /\ Root(f).name = "order" => \A o \in seen[f[1]].orders : o.id # Root(f).order
    /\ m.code = "FailedPrecondition" =>
         /\ request[f] # Nobody
         /\ Known(f) => \E c \in Cabinets : left[c] < Catalog!Wanted(request[f].items, c)

\* What the catalog was asked.
Requested(f) ==
  /\ request[f] = Nobody => answer[f].result = "none"
  /\ request[f] # Nobody => Root(f).name = "createOrder" /\ request[f] = Call(f)
  /\ Catalog!Open(f) => ~Catalog!Malformed(request[f])

FieldTruth(f) ==
  /\ Wire(f, stage[f], message[f], row[f])
  /\ Outcome(f, stage[f], message[f], value[f])
  /\ Refusal(f, stage[f], message[f])
  /\ Requested(f)

-----------------------------------------------------------------------------
(* The invariant of the operations, of their order and of the catalog.     *)

Errors(p) ==
  {[path |-> f, code |-> message[f].code] : f \in {g \in FieldsOf(p) : value[g] = Null}}

PostTruth(p) ==
  /\ post[p] # Nobody =>
       /\ post[p] \in Documents[p]
       /\ seen[p].orders \subseteq orders
       /\ \A c \in Cabinets : seen[p].left[c] \in left[c]..Shelf[c].Quantity
  /\ response[p] # Nobody =>
       /\ post[p] # Nobody
       /\ \A f \in FieldsOf(p) : stage[f] = "returned"
       /\ response[p] = [data |-> Data(p), errors |-> Errors(p)]

\* The fields f and g are of one mutation, f before g.
Before(f, g) == f[1] = g[1] /\ f[2] < g[2]
Refused(f) ==
  stage[f] \in {"replied", "returned"} /\ message[f].code = "FailedPrecondition" /\ Known(f)
WantsLess(g, f) ==
  \E c \in Cabinets :
    Catalog!Wanted(request[g].items, c) < Catalog!Wanted(request[f].items, c)

Turns ==
  \A f, g \in Fields : Before(f, g) =>
    /\ f \in FieldsOf(f[1]) /\ post[f[1]].op = "mutation" /\ stage[g] # "none" =>
         stage[f] = "returned"
    /\ Refused(f) /\ (\E o \in orders : o.id = g) => WantsLess(g, f)

OrderOf(f) ==
  [id |-> f, user |-> request[f].user, key |-> request[f].key, items |-> request[f].items]

Ledger ==
  /\ IsFiniteSet(orders)
  /\ \A o \in orders :
       /\ o.id \in Fields /\ request[o.id] # Nobody /\ o = OrderOf(o.id)
       /\ answer[o.id].result \in {"ok", "Internal"}
       /\ \A i \in DOMAIN o.items : o.items[i].cab \in Cabinets /\ ~(o.items[i].qty <= 0)
  /\ \A c \in Cabinets : left[c] \in 0..Shelf[c].Quantity /\ left[c] = Remains(orders, c)
  /\ orders \in past /\ past \subseteq SUBSET orders

Formed ==
  /\ seen = [p \in Posts |-> seen[p]]
  /\ response = [p \in Posts |-> response[p]]
  /\ row = [f \in Fields |-> row[f]]
  /\ left = [c \in Cabinets |-> left[c]]

Truth ==
  /\ KeyInv /\ Formed /\ Ledger /\ Turns
  /\ \A f \in Fields : FieldTruth(f)
  /\ \A p \in Posts : PostTruth(p)

-----------------------------------------------------------------------------
(* The conversions: what a row or an order may be, and what becomes of it. *)

\* A remainder is below its modulus.
LEMMA RemainderBound ==
  ASSUME NEW w \in Nat \ {0}, NEW n \in Int
  PROVE  n % w \in 0..w - 1
OBVIOUS

\* Whatever is converted to an int32 is one.
LEMMA Int32Fits ==
  ASSUME NEW n \in Int
  PROVE  int32(n) \in Range32
<1> DEFINE h == Width32 \div 2
           k == (n + h) % Width32
<1>1. h \in Nat /\ Width32 = 2 * h /\ n + h \in Int /\ Width32 \in Nat \ {0}
  BY MappingAssumption
<1>2. k \in 0..Width32 - 1
  BY <1>1, RemainderBound
<1>3. int32(n) = k - h /\ Range32 = -h..(h - 1)
  BY DEF int32, Range32
<1> HIDE DEF h, k
<1> QED
  BY <1>1, <1>2, <1>3

\* And to an int64.
LEMMA Int64Fits ==
  ASSUME NEW n \in Int
  PROVE  int64(n) \in Range64
<1> DEFINE h == Width64 \div 2
           k == (n + h) % Width64
<1>1. h \in Nat /\ Width64 = 2 * h /\ n + h \in Int /\ Width64 \in Nat \ {0}
  BY MappingAssumption
<1>2. k \in 0..Width64 - 1
  BY <1>1, RemainderBound
<1>3. int64(n) = k - h /\ Range64 = -h..(h - 1)
  BY DEF int64, Range64
<1> HIDE DEF h, k
<1> QED
  BY <1>1, <1>2, <1>3

\* A number that fits an int64 survives the conversion.
LEMMA Int64Keeps ==
  ASSUME NEW n \in Range64
  PROVE  int64(n) = n
<1>1. Width64 \div 2 \in Nat /\ Width64 = 2 * (Width64 \div 2)
  BY MappingAssumption
<1>2. n + Width64 \div 2 \in 0..Width64 - 1 /\ n \in Int
  BY <1>1, MappingAssumption DEF Range64
<1> QED
  BY <1>1, <1>2, Remainder, MappingAssumption DEF int64

\* An int32 is an int64, and both are integers.
LEMMA RangesNest == Range32 \subseteq Range64 /\ Range64 \subseteq Int
<1>1. Width32 \div 2 \in Nat /\ Width64 \div 2 \in Nat /\ Width32 \div 2 <= Width64 \div 2
  BY MappingAssumption
<1> QED
  BY <1>1 DEF Range32, Range64

\* A list made from a list, element by element.
LEMMA Listed ==
  ASSUME NEW S, NEW s \in Seq(S), NEW T, NEW h, h = [i \in DOMAIN s |-> h[i]],
         \A i \in DOMAIN s : h[i] \in T
  PROVE  h \in Seq(T) /\ DOMAIN h = DOMAIN s
<1>1. DOMAIN s = 1..Len(s) /\ Len(s) \in Nat
  OBVIOUS
<1>2. h \in [1..Len(s) -> T]
  BY <1>1
<1> QED
  BY <1>1, <1>2

-----------------------------------------------------------------------------
(* Cabinets.                                                               *)

\* A row of the table, with a quantity it has had.
LEMMA RowFits ==
  ASSUME NEW c \in Cabinets, NEW q \in 0..Shelf[c].Quantity
  PROVE  /\ RowWith(c, q) \in CabinetRow /\ q \in Range32
         /\ RowWith(c, q).ID = c /\ RowWith(c, q).Quantity = q
<1>1. Shelf[c] \in CabinetRow /\ Shelf[c].ID = c /\ Shelf[c].Quantity \in Range32
  BY ShelfAssumption DEF CabinetRow
<1>2. q \in Range32
  <2>1. Width32 \div 2 \in Nat
    BY MappingAssumption
  <2> QED
    BY <1>1, <2>1 DEF Range32
<1> QED
  BY <1>1, <1>2 DEF RowWith, CabinetRow

\* Its message is one of catalog.v1, and the object it becomes is none that is Null.
LEMMA CabinetFits ==
  ASSUME NEW r \in CabinetRow
  PROVE  /\ CabinetReply(r) \in CabinetMessage
         /\ mapCabinet(CabinetReply(r)) \in CabinetObject
         /\ CabinetReply(r).Id = r.ID
<1> DEFINE d == mapCabinetToDomain(r)
           p == mapCabinetToProto(d)
           images == [i \in DOMAIN d.Images |->
             [Id |-> d.Images[i].ID, Url |-> d.Images[i].URL, Alt |-> d.Images[i].Alt,
              SortOrder |-> int32(d.Images[i].SortOrder)]]
<1>1. d \in CabinetRow /\ d.ID = r.ID
  <2> DEFINE h == mapImagesToDomain(r.Images)
  <2>1. r.Images \in Seq(CabinetImageRow)
    BY DEF CabinetRow
  <2>2. h = [i \in DOMAIN r.Images |-> h[i]]
    BY DEF mapImagesToDomain
  <2>3. ASSUME NEW i \in DOMAIN r.Images PROVE h[i] \in CabinetImageRow
    <3>1. r.Images[i] \in CabinetImageRow
      BY <2>1
    <3> QED
      BY <3>1 DEF mapImagesToDomain, CabinetImageRow
  <2> HIDE DEF h
  <2>4. h \in Seq(CabinetImageRow)
    BY <2>1, <2>2, <2>3, Listed
  <2> QED
    BY <2>4 DEF mapCabinetToDomain, CabinetRow, h
<1> HIDE DEF d
<1>2. images \in Seq(CabinetImageMessage)
  <2>1. d.Images \in Seq(CabinetImageRow)
    BY <1>1 DEF CabinetRow
  <2>2. images = [i \in DOMAIN d.Images |-> images[i]]
    OBVIOUS
  <2>3. ASSUME NEW i \in DOMAIN d.Images PROVE images[i] \in CabinetImageMessage
    <3> DEFINE image == d.Images[i]
    <3>1. image \in CabinetImageRow
      BY <2>1
    <3>2. images[i] = [Id |-> image.ID, Url |-> image.URL, Alt |-> image.Alt,
                       SortOrder |-> int32(image.SortOrder)]
      OBVIOUS
    <3> HIDE DEF image, images
    <3>3. int32(image.SortOrder) \in Range32
      BY <3>1, RangesNest, Int32Fits DEF CabinetImageRow
    <3> QED
      BY <3>1, <3>2, <3>3 DEF CabinetImageRow, CabinetImageMessage
  <2> HIDE DEF images
  <2> QED
    BY <2>1, <2>2, <2>3, Listed
<1>3. p \in CabinetMessage /\ p.Id = r.ID
  <2>1. int32(d.Quantity) \in Range32
    BY <1>1, RangesNest, Int32Fits DEF CabinetRow
  <2> HIDE DEF images
  <2>2. p = [Id |-> d.ID, Slug |-> d.Slug, Model |-> d.Model, Type |-> d.Type,
             Display |-> d.Display, Condition |-> d.Condition, Quantity |-> int32(d.Quantity),
             Price |-> d.Price, Manufacturer |-> d.Manufacturer, Year |-> d.Year,
             Images |-> images]
    BY DEF mapCabinetToProto, images
  <2> HIDE DEF p
  <2> QED
    BY <1>1, <1>2, <2>1, <2>2 DEF CabinetRow, CabinetMessage
<1> HIDE DEF p
<1>4. mapCabinet(p) \in CabinetObject
  <2> DEFINE shown == [i \in DOMAIN p.Images |->
        [ID |-> p.Images[i].Id, URL |-> p.Images[i].Url, Alt |-> p.Images[i].Alt,
         SortOrder |-> p.Images[i].SortOrder]]
  <2>1. shown \in Seq(CabinetImageObject)
    <3>1. p.Images \in Seq(CabinetImageMessage)
      BY <1>3 DEF CabinetMessage
    <3>2. shown = [i \in DOMAIN p.Images |-> shown[i]]
      OBVIOUS
    <3>3. ASSUME NEW i \in DOMAIN p.Images PROVE shown[i] \in CabinetImageObject
      <4>1. p.Images[i] \in CabinetImageMessage
        BY <3>1
      <4> QED
        BY <4>1, RangesNest DEF CabinetImageMessage, CabinetImageObject
    <3> HIDE DEF shown
    <3> QED
      BY <3>1, <3>2, <3>3, Listed
  <2>2. p # Null
    BY <1>3, NullAssumption
  <2> HIDE DEF shown
  <2>3. mapCabinet(p) =
          [ID |-> p.Id, Slug |-> p.Slug, Model |-> p.Model, Type |-> p.Type,
           Display |-> p.Display, Condition |-> p.Condition, Quantity |-> p.Quantity,
           PriceCents |-> p.Price, Manufacturer |-> p.Manufacturer, Year |-> p.Year,
           Images |-> shown]
    BY <2>2 DEF mapCabinet, shown
  <2> QED
    <3>1. p.Quantity \in Range64
      BY <1>3, RangesNest DEF CabinetMessage
    <3> QED
      BY <1>3, <2>1, <2>3, <3>1 DEF CabinetMessage, CabinetObject
<1>5. CabinetReply(r) = p
  BY DEF CabinetReply, p, d
<1> QED
  BY <1>3, <1>4, <1>5

\* What is shown of an image, whatever is selected.
LEMMA ImageShown ==
  ASSUME NEW i \in CabinetImageObject, NEW sub, sub \subseteq CabinetImageNames
  PROVE  Select(CabinetImageFields(i), sub) \in [sub -> Scalar]
<1> DEFINE w == CabinetImageFields(i)
<1>1. \A n \in CabinetImageNames : w[n] \in Scalar
  <2>1. /\ w["__typename"] = "CabinetImage" /\ w["id"] = i.ID /\ w["url"] = i.URL
        /\ w["alt"] = i.Alt /\ w["sortOrder"] = i.SortOrder
    BY DEF CabinetImageFields
  <2>2. /\ i.ID \in STRING /\ i.URL \in STRING /\ i.Alt \in STRING /\ i.SortOrder \in Int
    BY RangesNest DEF CabinetImageObject
  <2> HIDE DEF w
  <2>3. /\ w["__typename"] \in Scalar /\ w["id"] \in Scalar /\ w["url"] \in Scalar
        /\ w["alt"] \in Scalar /\ w["sortOrder"] \in Scalar
    BY <2>1, <2>2 DEF Scalar, TypeNames
  <2> QED
    BY <2>3 DEF CabinetImageNames
<1>2. Select(w, sub) = [n \in sub |-> w[n]]
  BY DEF Select
<1> HIDE DEF w
<1>3. Select(w, sub) \in [sub -> Scalar]
  BY <1>1, <1>2
<1> QED
  BY <1>3 DEF w

\* What is shown of a cabinet, whatever is selected.
LEMMA CabinetShown ==
  ASSUME NEW c \in CabinetObject, NEW sel,
         sel.of \subseteq CabinetNames, sel.sub \subseteq CabinetImageNames
  PROVE  ShowCabinet(sel, c) \in ShownObject(sel.of, sel.sub)
<1> DEFINE images == ShowImages(sel.sub, c.Images)
           w == CabinetFields(c, sel.sub)
<1>1. images \in Seq([sel.sub -> Scalar])
  <2>1. c.Images \in Seq(CabinetImageObject)
    BY DEF CabinetObject
  <2>2. images = [i \in DOMAIN c.Images |-> images[i]]
    BY DEF ShowImages
  <2>3. ASSUME NEW i \in DOMAIN c.Images PROVE images[i] \in [sel.sub -> Scalar]
    <3>1. c.Images[i] \in CabinetImageObject
      BY <2>1
    <3>2. images[i] = Select(CabinetImageFields(c.Images[i]), sel.sub)
      BY DEF ShowImages
    <3> HIDE DEF images
    <3> QED
      BY <3>1, <3>2, ImageShown
  <2> HIDE DEF images
  <2> QED
    BY <2>1, <2>2, <2>3, Listed
<1>2. \A n \in CabinetNames : w[n] \in Scalar \cup Seq([sel.sub -> Scalar])
  <2>1. /\ w["__typename"] = "Cabinet" /\ w["id"] = c.ID /\ w["slug"] = c.Slug
        /\ w["model"] = c.Model /\ w["type"] = c.Type /\ w["display"] = c.Display
        /\ w["condition"] = c.Condition /\ w["quantity"] = c.Quantity
        /\ w["priceCents"] = c.PriceCents /\ w["manufacturer"] = c.Manufacturer
        /\ w["year"] = c.Year /\ w["images"] = images
    BY DEF CabinetFields
  <2>2. /\ c.ID \in STRING /\ c.Slug \in STRING /\ c.Model \in STRING /\ c.Type \in STRING
        /\ c.Display \in STRING /\ c.Condition \in STRING /\ c.Manufacturer \in STRING
        /\ c.Year \in STRING /\ c.Quantity \in Int /\ c.PriceCents \in Int
    BY RangesNest DEF CabinetObject
  <2> HIDE DEF w, images
  <2> QED
    <3> DEFINE T == Scalar \cup Seq([sel.sub -> Scalar])
    <3>1. /\ w["__typename"] \in T /\ w["id"] \in T /\ w["slug"] \in T /\ w["model"] \in T
          /\ w["type"] \in T /\ w["display"] \in T /\ w["condition"] \in T
          /\ w["quantity"] \in T /\ w["priceCents"] \in T /\ w["manufacturer"] \in T
          /\ w["year"] \in T /\ w["images"] \in T
      BY <1>1, <2>1, <2>2 DEF Scalar, TypeNames
    <3> HIDE DEF T
    <3>2. \A n \in CabinetNames : w[n] \in T
      BY <3>1 DEF CabinetNames
    <3> QED
      BY <3>2 DEF T
<1>3. ShowCabinet(sel, c) = [n \in sel.of |-> w[n]]
  BY NullAssumption DEF ShowCabinet, Select
<1> HIDE DEF w
<1> QED
  BY <1>2, <1>3 DEF ShownObject

-----------------------------------------------------------------------------
(* Orders.                                                                 *)

\* An order as it is placed.
Well(o) ==
  /\ o = [id |-> o.id, user |-> o.user, key |-> o.key, items |-> o.items]
  /\ o.id \in Fields /\ o.user \in STRING /\ o.key \in STRING /\ o.items \in Seq(Line)

\* What a line costs.
LEMMA LineFits ==
  ASSUME NEW l \in Line
  PROVE  /\ l.cab \in STRING /\ l.qty \in Range32 /\ int32(l.qty) = l.qty
         /\ Shelf[l.cab].Price \in Range64
BY ShelfAssumption, Int32Keeps DEF Line, CabinetRow

\* The total of an order is the sum of its lines, in 64 bits.
Costs(items) == [i \in DOMAIN items |-> Shelf[items[i].cab].Price * items[i].qty]

\* A sum of line costs is a number, and what TotalCents stores is its low 64 bits.
LEMMA CostsFit ==
  ASSUME NEW items \in Seq(Line)
  PROVE  /\ IsFiniteSet(DOMAIN items) /\ SumFunction(Costs(items)) \in Int
         /\ TotalCents(items) = int64(SumFunction(Costs(items)))
         /\ TotalCents(items) \in Range64
         /\ \A i \in DOMAIN items : Costs(items)[i] \in Int
<1>1. IsFiniteSet(DOMAIN items)
  <2>1. DOMAIN items = 1..Len(items) /\ Len(items) \in Nat
    OBVIOUS
  <2> QED
    BY <2>1, FS_Interval
<1>2. \A i \in DOMAIN items : Costs(items)[i] \in Int
  <2>1. ASSUME NEW i \in DOMAIN items PROVE Costs(items)[i] \in Int
    <3>1. items[i] \in Line
      OBVIOUS
    <3>2. Shelf[items[i].cab].Price \in Int /\ items[i].qty \in Int
      BY <3>1, LineFits, RangesNest
    <3> DEFINE a == Shelf[items[i].cab].Price
               b == items[i].qty
    <3>3. a \in Int /\ b \in Int /\ Costs(items)[i] = a * b
      BY <3>2 DEF Costs
    <3> HIDE DEF a, b
    <3> QED
      BY <3>3
  <2> QED
    BY <2>1
<1>3. SumFunctionOnSet(Costs(items), DOMAIN items) \in Int
  BY <1>1, <1>2, SumRemove
<1>4. SumFunction(Costs(items)) = SumFunctionOnSet(Costs(items), DOMAIN items)
  BY DEF SumFunction, Costs
<1>5. TotalCents(items) = int64(SumFunction(Costs(items)))
  BY DEF TotalCents, Costs
<1>6. int64(SumFunction(Costs(items))) \in Range64
  BY <1>3, <1>4, Int64Fits
<1> QED
  BY <1>1, <1>2, <1>3, <1>4, <1>5, <1>6

\* The lines of an order, in another sequence.
LEMMA PermutedFits ==
  ASSUME NEW S, NEW items \in Seq(S), NEW pi \in SetToSeqs(DOMAIN items)
  PROVE  /\ pi \in Bijection(DOMAIN items, DOMAIN items)
         /\ Permuted(items, pi) \in Seq(S)
         /\ DOMAIN Permuted(items, pi) = DOMAIN items
         /\ \A i \in DOMAIN items :
              pi[i] \in DOMAIN items /\ Permuted(items, pi)[i] = items[pi[i]]
<1> DEFINE D == DOMAIN items
<1>1. D = 1..Len(items) /\ Len(items) \in Nat
  OBVIOUS
<1>2. IsFiniteSet(D) /\ Cardinality(D) = Len(items)
  BY <1>1, FS_Interval
<1>3. pi \in [D -> D] /\ \A i, j \in D : i # j => pi[i] # pi[j]
  BY <1>1, <1>2 DEF SetToSeqs
<1> DEFINE h == Permuted(items, pi)
<1>4. \A i \in D : pi[i] \in D /\ h[i] = items[pi[i]]
  BY <1>3 DEF Permuted
<1>5. pi \in Bijection(D, D)
  <2>1. pi \in Injection(D, D)
    BY <1>3 DEF Injection, IsInjective
  <2> HIDE DEF D
  <2>2. pi \in Surjection(D, D)
    BY <1>2, <2>1, FS_Injection
  <2> QED
    BY <2>1, <2>2 DEF Bijection
<1>6. h \in Seq(S) /\ DOMAIN h = D
  <2>1. h = [i \in DOMAIN items |-> h[i]]
    BY DEF Permuted
  <2>2. \A i \in DOMAIN items : h[i] \in S
    BY <1>4
  <2> HIDE DEF h
  <2> QED
    BY <2>1, <2>2, Listed
<1> QED
  BY <1>4, <1>5, <1>6

\* The object the gateway makes of a line, and what is shown of it.
LineObject(l) == [CabinetID |-> l.cab, Quantity |-> l.qty, UnitPriceCents |-> Shelf[l.cab].Price]
LineLook(sub, l) == Select(OrderLineFields(LineObject(l)), sub)
LinesLook(sub, items) == [i \in DOMAIN items |-> LineLook(sub, items[i])]

\* An order's message is one of catalog.v1, the object it becomes is none that is
\* Null, and both say what the order says.
LEMMA OrderFits ==
  ASSUME NEW o, Well(o), NEW items \in Seq(Line)
  PROVE  LET m == OrderReply(o, items).Order
             x == mapOrder(m)
         IN  /\ m \in OrderMessage /\ x \in OrderObject
             /\ x.ID = o.id /\ x.UserID = o.user /\ x.IdempotencyKey = o.key
             /\ x.Status = "pending_payment" /\ x.TotalCents = TotalCents(o.items)
             /\ x.Items = [i \in DOMAIN items |-> LineObject(items[i])]
<1> DEFINE r == OrderRow(o)
           rows == ItemRows(items)
           d == mapOrderToDomain(r, rows)
           m == mapOrderToProto(d)
           x == mapOrder(m)
<1>1. /\ r.ID = o.id /\ r.UserID = o.user /\ r.IdempotencyKey = o.key
      /\ r.Status = "pending_payment" /\ r.TotalCents = TotalCents(o.items)
  BY DEF OrderRow
<1>2. /\ DOMAIN rows = DOMAIN items
      /\ \A i \in DOMAIN items : rows[i] = LineObject(items[i])
  <2>1. ASSUME NEW i \in DOMAIN items PROVE rows[i] = LineObject(items[i])
    <3>1. items[i] \in Line
      OBVIOUS
    <3>2. int32(items[i].qty) = items[i].qty
      BY <3>1, LineFits
    <3> QED
      BY <3>2 DEF ItemRows, LineObject
  <2> QED
    BY <2>1 DEF ItemRows
<1> HIDE DEF r, rows
<1> DEFINE lines(y) == [i \in DOMAIN y |->
             [CabinetID |-> y[i].CabinetID, Quantity |-> y[i].Quantity,
              UnitPriceCents |-> y[i].UnitPriceCents]]
<1>3. /\ d.ID = r.ID /\ d.UserID = r.UserID /\ d.Status = r.Status
      /\ d.TotalCents = r.TotalCents /\ d.IdempotencyKey = r.IdempotencyKey
      /\ d.Items = lines(rows)
  BY DEF mapOrderToDomain
<1>4. d.Items = [i \in DOMAIN items |-> LineObject(items[i])]
  BY <1>2, <1>3 DEF LineObject
<1> HIDE DEF d
<1> DEFINE sent == [i \in DOMAIN d.Items |->
             [CabinetId |-> d.Items[i].CabinetID, Quantity |-> int32(d.Items[i].Quantity),
              UnitPriceCents |-> d.Items[i].UnitPriceCents]]
<1>5. m = [Id |-> d.ID, UserId |-> d.UserID, Status |-> d.Status, TotalCents |-> d.TotalCents,
           IdempotencyKey |-> d.IdempotencyKey, Items |-> sent]
  BY DEF mapOrderToProto
<1>6. /\ DOMAIN sent = DOMAIN items
      /\ \A i \in DOMAIN items :
           sent[i] = [CabinetId |-> items[i].cab, Quantity |-> items[i].qty,
                      UnitPriceCents |-> Shelf[items[i].cab].Price]
  <2>1. ASSUME NEW i \in DOMAIN items PROVE int32(d.Items[i].Quantity) = items[i].qty
    <3>1. items[i] \in Line
      OBVIOUS
    <3>2. d.Items[i].Quantity = items[i].qty
      BY <1>4 DEF LineObject
    <3> QED
      BY <3>1, <3>2, LineFits
  <2> QED
    BY <1>4, <2>1 DEF LineObject
<1>7. sent \in Seq(OrderLineMessage)
  <2>1. sent = [i \in DOMAIN items |-> sent[i]]
    BY <1>6
  <2>2. ASSUME NEW i \in DOMAIN items PROVE sent[i] \in OrderLineMessage
    <3>1. items[i] \in Line
      OBVIOUS
    <3> HIDE DEF sent
    <3> QED
      BY <1>6, <3>1, LineFits DEF OrderLineMessage
  <2> HIDE DEF sent
  <2> QED
    BY <2>1, <2>2, Listed
<1> HIDE DEF sent, m
<1>8. m \in OrderMessage
  <2>1. o.id \in OrderIds /\ o.user \in STRING /\ o.key \in STRING
    BY GatewayAssumption, Zenon DEF Well
  <2>2. TotalCents(o.items) \in Range64
    BY CostsFit DEF Well
  <2> QED
    BY <1>1, <1>3, <1>5, <1>7, <2>1, <2>2 DEF OrderMessage, OrderStatus
<1> DEFINE shown == [i \in DOMAIN m.Items |->
             [CabinetID |-> m.Items[i].CabinetId, Quantity |-> m.Items[i].Quantity,
              UnitPriceCents |-> m.Items[i].UnitPriceCents]]
<1>9. x = [ID |-> m.Id, UserID |-> m.UserId, Status |-> m.Status, TotalCents |-> m.TotalCents,
           IdempotencyKey |-> m.IdempotencyKey, Items |-> shown]
  BY <1>8, NullAssumption DEF mapOrder
<1>10. shown = [i \in DOMAIN items |-> LineObject(items[i])]
  BY <1>5, <1>6 DEF LineObject
<1>11. shown \in Seq(OrderLineObject)
  <2>1. shown = [i \in DOMAIN items |-> shown[i]]
    BY <1>10
  <2>2. ASSUME NEW i \in DOMAIN items PROVE shown[i] \in OrderLineObject
    <3>1. items[i] \in Line
      OBVIOUS
    <3>2. shown[i] = LineObject(items[i])
      BY <1>10
    <3>3. /\ items[i].cab \in STRING /\ items[i].qty \in Range64
          /\ Shelf[items[i].cab].Price \in Range64
      BY <3>1, LineFits, RangesNest
    <3> HIDE DEF shown
    <3> QED
      BY <3>2, <3>3 DEF OrderLineObject, LineObject
  <2> HIDE DEF shown
  <2> QED
    BY <2>1, <2>2, Listed
<1> HIDE DEF shown, x
<1>12. x \in OrderObject
  BY <1>8, <1>9, <1>11 DEF OrderMessage, OrderObject
<1>13. /\ x.ID = o.id /\ x.UserID = o.user /\ x.IdempotencyKey = o.key
       /\ x.Status = "pending_payment" /\ x.TotalCents = TotalCents(o.items)
       /\ x.Items = [i \in DOMAIN items |-> LineObject(items[i])]
  BY <1>1, <1>3, <1>5, <1>9, <1>10
<1>14. OrderReply(o, items).Order = m
  BY DEF OrderReply, m, d, r, rows
<1>15. x = mapOrder(m)
  BY DEF x
<1> QED
  BY <1>8, <1>12, <1>13, <1>14, <1>15

\* What is shown of an order, whatever is selected.
LEMMA OrderShownAs ==
  ASSUME NEW o, Well(o), NEW items \in Seq(Line), NEW sel,
         sel.of \subseteq OrderNames, sel.sub \subseteq OrderLineNames
  PROVE  LET v == ShowOrder(sel, mapOrder(OrderReply(o, items).Order))
         IN  /\ v \in ShownObject(sel.of, sel.sub) /\ DOMAIN v = sel.of
             /\ Says(v, "id", o.id) /\ Says(v, "userId", o.user)
             /\ Says(v, "idempotencyKey", o.key) /\ Says(v, "status", "pending_payment")
             /\ Says(v, "totalCents", TotalCents(o.items)) /\ Says(v, "__typename", "Order")
             /\ Says(v, "items", LinesLook(sel.sub, items))
<1> DEFINE x == mapOrder(OrderReply(o, items).Order)
           w == OrderFields(x, sel.sub)
           lines == [i \in DOMAIN items |-> LineLook(sel.sub, items[i])]
           v == ShowOrder(sel, x)
<1>1. /\ x \in OrderObject
      /\ x.ID = o.id /\ x.UserID = o.user /\ x.IdempotencyKey = o.key
      /\ x.Status = "pending_payment" /\ x.TotalCents = TotalCents(o.items)
      /\ x.Items = [i \in DOMAIN items |-> LineObject(items[i])]
  BY OrderFits
<1> HIDE DEF x
<1>2. lines \in Seq([sel.sub -> Scalar])
  <2>1. lines = [i \in DOMAIN items |-> lines[i]]
    OBVIOUS
  <2>2. ASSUME NEW i \in DOMAIN items PROVE lines[i] \in [sel.sub -> Scalar]
    <3> DEFINE l == items[i]
               y == OrderLineFields(LineObject(l))
    <3>1. l \in Line
      OBVIOUS
    <3>2. /\ y["__typename"] = "OrderLine" /\ y["cabinetId"] = l.cab
          /\ y["quantity"] = l.qty /\ y["unitPriceCents"] = Shelf[l.cab].Price
      BY DEF OrderLineFields, LineObject
    <3>3. lines[i] = Select(y, sel.sub)
      BY DEF LineLook
    <3> HIDE DEF lines, l, y
    <3>4. l.cab \in STRING /\ l.qty \in Int /\ Shelf[l.cab].Price \in Int
      BY <3>1, LineFits, RangesNest
    <3>5. /\ y["__typename"] \in Scalar /\ y["cabinetId"] \in Scalar
          /\ y["quantity"] \in Scalar /\ y["unitPriceCents"] \in Scalar
      BY <3>2, <3>4 DEF Scalar, TypeNames
    <3>6. \A n \in sel.sub : y[n] \in Scalar
      BY <3>5 DEF OrderLineNames
    <3> QED
      BY <3>3, <3>6 DEF Select
  <2> HIDE DEF lines
  <2> QED
    BY <2>1, <2>2, Listed
<1>3. /\ w["__typename"] = "Order" /\ w["id"] = o.id /\ w["userId"] = o.user
      /\ w["status"] = "pending_payment" /\ w["totalCents"] = TotalCents(o.items)
      /\ w["idempotencyKey"] = o.key /\ w["items"] = ShowLines(sel.sub, x.Items)
  BY <1>1 DEF OrderFields
<1>4. w["items"] = lines
  BY <1>1, <1>3 DEF ShowLines, LineLook
<1>5. v = [n \in sel.of |-> w[n]]
  BY <1>1, NullAssumption DEF ShowOrder, Select
<1> HIDE DEF w, v, lines
<1>6. v \in ShownObject(sel.of, sel.sub)
  <2> DEFINE T == Scalar \cup Seq([sel.sub -> Scalar])
  <2>1. /\ o.id \in OrderIds /\ o.user \in STRING /\ o.key \in STRING
    BY GatewayAssumption, Zenon DEF Well
  <2>2. TotalCents(o.items) \in Int
    BY CostsFit, RangesNest DEF Well
  <2>3. /\ w["__typename"] \in T /\ w["id"] \in T /\ w["userId"] \in T /\ w["status"] \in T
        /\ w["totalCents"] \in T /\ w["idempotencyKey"] \in T /\ w["items"] \in T
    BY <1>2, <1>3, <1>4, <2>1, <2>2 DEF Scalar, TypeNames, OrderStatus
  <2> HIDE DEF T
  <2>4. \A n \in OrderNames : w[n] \in T
    BY <2>3 DEF OrderNames
  <2>5. v \in [sel.of -> T]
    BY <1>5, <2>4
  <2> QED
    BY <2>5 DEF T, ShownObject
<1>7. /\ DOMAIN v = sel.of
      /\ Says(v, "id", o.id) /\ Says(v, "userId", o.user)
      /\ Says(v, "idempotencyKey", o.key) /\ Says(v, "status", "pending_payment")
      /\ Says(v, "totalCents", TotalCents(o.items)) /\ Says(v, "__typename", "Order")
      /\ Says(v, "items", lines)
  BY <1>3, <1>4, <1>5 DEF Says
<1>8. v = ShowOrder(sel, mapOrder(OrderReply(o, items).Order))
  BY DEF v, x
<1> QED
  BY <1>6, <1>7, <1>8 DEF lines, LinesLook

-----------------------------------------------------------------------------
(* What a field of an operation asks.                                      *)

\* A field that is worked on is one of a document.
LEMMA FieldAsks ==
  ASSUME Truth, NEW f \in Fields, f \in FieldsOf(f[1])
  PROVE  /\ f[1] \in Posts /\ post[f[1]] \in Documents[f[1]] /\ Posted(f)
         /\ f[2] \in DOMAIN post[f[1]].fields /\ Root(f) \in Roots
<1>1. f[1] \in Posts /\ post[f[1]] # Nobody /\ f[2] \in DOMAIN post[f[1]].fields
  BY DEF Fields, FieldsOf
<1>2. post[f[1]] \in Documents[f[1]]
  BY <1>1 DEF Truth, PostTruth
<1>3. Documents[f[1]] \in Range(Documents)
  <2>1. DOMAIN Documents = Posts
    BY GatewayAssumption, Zenon
  <2> QED
    BY <1>1, <2>1 DEF Range
<1>4. Root(f) \in Range(post[f[1]].fields)
  BY <1>1 DEF Root, Range
<1>5. Root(f) \in Roots
  BY <1>2, <1>3, <1>4 DEF Roots
<1> QED
  BY <1>1, <1>2, <1>5 DEF Posted

\* Its name is that of a field of the schema, and fits the kind of the operation.
LEMMA FieldNames ==
  ASSUME Truth, NEW f \in Fields, f \in FieldsOf(f[1])
  PROVE  /\ Root(f).name \in {"cabinets", "cabinet", "order", "createOrder"}
         /\ Root(f).name = "createOrder" <=> post[f[1]].op = "mutation"
         /\ post[f[1]].op = "query" <=> post[f[1]].op # "mutation"
<1>1. /\ f[1] \in Posts /\ post[f[1]] \in Documents[f[1]] /\ f[2] \in DOMAIN post[f[1]].fields
  BY FieldAsks
<1>2. Root(f).name \in IF post[f[1]].op = "mutation" THEN {"createOrder"}
                                                     ELSE {"cabinets", "cabinet", "order"}
  BY <1>1, DocumentAssumption DEF Root
<1>3. post[f[1]].op \in {"query", "mutation"}
  BY <1>1, GatewayAssumption, Zenon
<1> QED
  BY <1>2, <1>3

\* The user an order is placed for.
User(f) == IF Trim[post[f[1]].user] = "" THEN Anonymous ELSE Trim[post[f[1]].user]

\* The user of a call is the user of the request, without spaces around, or nobody in
\* particular.
LEMMA UserOfCall ==
  ASSUME NEW u \in Users, NEW m
  PROVE  /\ CreateOrderCall(u, m).user = IF Trim[u] = "" THEN Anonymous ELSE Trim[u]
         /\ CreateOrderCall(u, m).user \in STRING
<1>1. CASE u = ""
  <2>1. Trim[extractUserIDFromContext(u)] = Anonymous /\ Trim[u] = ""
    BY <1>1, GatewayAssumption, Zenon DEF extractUserIDFromContext
  <2>2. CreateOrderCall(u, m).user = Anonymous
    BY <2>1, Zenon DEF CreateOrderCall
  <2> QED
    BY <2>1, <2>2, GatewayAssumption, Zenon
<1>2. CASE u # ""
  <2>1. Trim[extractUserIDFromContext(u)] = Trim[u]
    BY <1>2, Zenon DEF extractUserIDFromContext
  <2>2. CreateOrderCall(u, m).user = IF Trim[u] = "" THEN Anonymous ELSE Trim[u]
    BY <2>1, Zenon DEF CreateOrderCall
  <2>3. Trim[u] \in STRING /\ Anonymous \in STRING
    BY GatewayAssumption, Zenon
  <2> QED
    BY <2>2, <2>3, Zenon
<1> QED
  BY <1>1, <1>2

\* A line of a document, and of a request.
Wish    == [cab : STRING, qty : Int]
Request == [cab : STRING, qty : Range32]

\* The call of a createOrder asks for the client's lines, each quantity as an int32,
\* under its key, for its user.
LEMMA CallAsks ==
  ASSUME Truth, NEW f \in Fields, f \in FieldsOf(f[1]), Root(f).name = "createOrder"
  PROVE  /\ Call(f).op = "CreateOrder" /\ Call(f).user = User(f) /\ Call(f).user \in STRING
         /\ Call(f).key = Root(f).key /\ Call(f).key \in STRING
         /\ Root(f).items \in Seq(Wish) /\ Call(f).items \in Seq(Request)
         /\ DOMAIN Call(f).items = DOMAIN Root(f).items
         /\ \A i \in DOMAIN Root(f).items :
              Call(f).items[i] = [cab |-> Root(f).items[i].cab, qty |-> int32(Root(f).items[i].qty)]
         /\ CreateOrderRequest(f, Root(f)) \in CreateOrderRequestMessage
<1> DEFINE root == Root(f)
           m == CreateOrderRequest(f, root)
           u == post[f[1]].user
           lines == [i \in DOMAIN root.items |->
             [CabinetId |-> root.items[i].cab, Quantity |-> Quantity(root.items[i].qty)]]
           c == Call(f)
<1>1. root \in Roots /\ f[1] \in Posts /\ post[f[1]] \in Documents[f[1]]
  BY FieldAsks
<1>2. root.key \in STRING /\ root.items \in Seq(Wish)
  BY <1>1, DocumentAssumption DEF Wish
<1>3. u \in Users
  BY <1>1, GatewayAssumption, Zenon
<1>4. c.user = User(f) /\ c.user \in STRING
  BY <1>3, UserOfCall, Zenon DEF Call, User
<1>5. c.op = "CreateOrder" /\ c.key = m.IdempotencyKey /\
      c.items = [i \in DOMAIN m.Items |-> [cab |-> m.Items[i].CabinetId, qty |-> m.Items[i].Quantity]]
  BY Zenon DEF Call, CreateOrderCall
<1>6. m = [IdempotencyKey |-> root.key, Items |-> lines]
  BY DEF CreateOrderRequest, Key
<1> HIDE DEF c, root
<1>7. \A i \in DOMAIN root.items :
        root.items[i].cab \in STRING /\ int32(root.items[i].qty) \in Range32
  <2>1. ASSUME NEW i \in DOMAIN root.items
        PROVE  root.items[i].cab \in STRING /\ int32(root.items[i].qty) \in Range32
    <3>1. root.items[i] \in Wish
      BY <1>2
    <3> QED
      BY <3>1, Int32Fits DEF Wish
  <2> QED
    BY <2>1
<1>8. /\ DOMAIN lines = DOMAIN root.items /\ lines = [i \in DOMAIN root.items |-> lines[i]]
      /\ \A i \in DOMAIN root.items :
           lines[i] = [CabinetId |-> root.items[i].cab, Quantity |-> int32(root.items[i].qty)]
  BY DEF Quantity
<1> HIDE DEF m, lines
<1>9. lines \in Seq(OrderItemInputMessage)
  <2>1. ASSUME NEW i \in DOMAIN root.items PROVE lines[i] \in OrderItemInputMessage
    <3> DEFINE a == root.items[i].cab
               b == int32(root.items[i].qty)
    <3>1. a \in STRING /\ b \in Range32 /\ lines[i] = [CabinetId |-> a, Quantity |-> b]
      BY <1>7, <1>8
    <3> HIDE DEF a, b
    <3> QED
      BY <3>1 DEF OrderItemInputMessage
  <2> QED
    BY <1>2, <1>8, <2>1, Listed
<1>10. /\ DOMAIN c.items = DOMAIN root.items
       /\ \A i \in DOMAIN root.items :
            c.items[i] = [cab |-> root.items[i].cab, qty |-> int32(root.items[i].qty)]
       /\ c.items = [i \in DOMAIN root.items |-> c.items[i]]
  <2>1. c.items = [i \in DOMAIN lines |-> [cab |-> lines[i].CabinetId, qty |-> lines[i].Quantity]]
    BY <1>5, <1>6
  <2> DEFINE asked == c.items
  <2>2. asked = [i \in DOMAIN lines |-> [cab |-> lines[i].CabinetId, qty |-> lines[i].Quantity]]
    BY <2>1
  <2> HIDE DEF asked
  <2>3. DOMAIN asked = DOMAIN root.items /\ asked = [i \in DOMAIN root.items |-> asked[i]]
    BY <1>8, <2>2
  <2>4. ASSUME NEW i \in DOMAIN root.items
        PROVE  asked[i] = [cab |-> root.items[i].cab, qty |-> int32(root.items[i].qty)]
    <3> DEFINE a == root.items[i].cab
               b == int32(root.items[i].qty)
    <3>1. i \in DOMAIN lines /\ lines[i] = [CabinetId |-> a, Quantity |-> b]
      BY <1>8
    <3> HIDE DEF a, b
    <3>2. asked[i] = [cab |-> a, qty |-> b]
      BY <2>2, <3>1
    <3> QED
      BY <3>2 DEF a, b
  <2> QED
    BY <2>3, <2>4 DEF asked
<1>11. c.items \in Seq(Request)
  <2>1. ASSUME NEW i \in DOMAIN root.items PROVE c.items[i] \in Request
    <3> DEFINE a == root.items[i].cab
               b == int32(root.items[i].qty)
    <3>1. a \in STRING /\ b \in Range32 /\ c.items[i] = [cab |-> a, qty |-> b]
      BY <1>7, <1>10
    <3> HIDE DEF a, b
    <3> QED
      BY <3>1 DEF Request
  <2> QED
    BY <1>2, <1>10, <2>1, Listed
<1>12. m \in CreateOrderRequestMessage
  BY <1>2, <1>6, <1>9 DEF CreateOrderRequestMessage
<1>13. c.key = root.key
  BY <1>5, <1>6
<1> QED
  BY <1>2, <1>4, <1>5, <1>10, <1>11, <1>12, <1>13 DEF c, root, m

\* A field that has asked is worked on, and has asked what it should.
LEMMA AskedFor ==
  ASSUME Truth, NEW f \in Fields, request[f] # Nobody
  PROVE  /\ f \in FieldsOf(f[1]) /\ Root(f).name = "createOrder" /\ request[f] = Call(f)
         /\ stage[f] \in Stages \ {"none", "sent"}
BY DEF Truth, FieldTruth, Wire, Requested

\* The order of a request for some units of cabinets that exist is well-formed.
LEMMA OrderIsWell ==
  ASSUME Truth, NEW f \in Fields, request[f] # Nobody,
         \A i \in DOMAIN request[f].items :
           request[f].items[i].cab \in Cabinets /\ ~(request[f].items[i].qty <= 0)
  PROVE  Well(OrderOf(f))
<1> DEFINE c == request[f]
           o == OrderOf(f)
<1>1. c.user \in STRING /\ c.key \in STRING /\ c.items \in Seq(Request)
  BY AskedFor, CallAsks
<1>2. \A i \in DOMAIN c.items : c.items[i].cab \in Cabinets /\ ~(c.items[i].qty <= 0)
  OBVIOUS
<1>3. o = [id |-> f, user |-> c.user, key |-> c.key, items |-> c.items]
  BY DEF OrderOf
<1> HIDE DEF c, o
<1>4. o.items \in Seq(Line)
  <2>1. o.items = c.items /\ o.items = [i \in DOMAIN o.items |-> o.items[i]]
    BY <1>1, <1>3
  <2>2. ASSUME NEW i \in DOMAIN o.items PROVE o.items[i] \in Line
    <3>1. o.items[i] \in Request
      BY <1>1, <2>1
    <3>2. \A n \in Range32 : ~(n <= 0) => n > 0
      BY RangesNest
    <3> QED
      BY <1>2, <2>1, <3>1, <3>2 DEF Request, Line
  <2> QED
    BY <1>1, <2>1, <2>2, Listed
<1>5. Well(o)
  BY <1>1, <1>3, <1>4 DEF Well
<1> QED
  BY <1>5 DEF o

\* The orders are well-formed, and known by their id.
LEMMA OrdersAreWell ==
  ASSUME Truth
  PROVE  /\ \A o \in orders : Well(o)
         /\ \A o1, o2 \in orders : o1.id = o2.id => o1 = o2
<1>1. ASSUME NEW o \in orders PROVE Well(o) /\ o = OrderOf(o.id)
  <2> DEFINE f == o.id
  <2>1. f \in Fields /\ request[f] # Nobody /\ o = OrderOf(f)
        /\ \A i \in DOMAIN o.items : o.items[i].cab \in Cabinets /\ ~(o.items[i].qty <= 0)
    BY DEF Truth, Ledger
  <2> HIDE DEF f
  <2>2. o.items = request[f].items
    BY <2>1 DEF OrderOf
  <2> QED
    BY <2>1, <2>2, OrderIsWell DEF f
<1> QED
  BY <1>1

-----------------------------------------------------------------------------
(* What a reply is made from, and what is shown of it.                     *)

\* What may be selected of the objects a field returns.
LEMMA Selections ==
  ASSUME Truth, NEW f \in Fields, f \in FieldsOf(f[1])
  PROVE  /\ Root(f).name \in {"cabinets", "cabinet"} =>
              Root(f).of \subseteq CabinetNames /\ Root(f).sub \subseteq CabinetImageNames
         /\ Root(f).name \in {"order", "createOrder"} =>
              Root(f).of \subseteq OrderNames /\ Root(f).sub \subseteq OrderLineNames
         /\ \A v \in ShownFor(Root(f)) : v # Null /\ v # Nobody
<1>1. Root(f) \in Roots
  BY FieldAsks
<1> QED
  BY <1>1, DocumentAssumption, ShownAssumption

\* An order is shown from one that is there, its lines in some sequence.
LEMMA SaleShown ==
  ASSUME Truth, NEW f \in Fields, f \in FieldsOf(f[1]),
         Root(f).name \in {"order", "createOrder"}, NEW w \in Sources(f)
  PROVE  LET o == w[1]
             items == Permuted(o.items, w[2])
         IN  /\ o \in orders /\ Due(f, o) /\ Well(o)
             /\ items \in Seq(Line) /\ DOMAIN items = DOMAIN o.items
             /\ w[2] \in SetToSeqs(DOMAIN o.items)
             /\ w[2] \in Bijection(DOMAIN o.items, DOMAIN o.items)
             /\ \A i \in DOMAIN o.items : w[2][i] \in DOMAIN o.items /\ items[i] = o.items[w[2][i]]
             /\ Body(f, w) = OrderReply(o, items)
             /\ Display(f, Body(f, w)) = ShowOrder(Root(f), mapOrder(OrderReply(o, items).Order))
<1> DEFINE o == w[1]
           items == Permuted(o.items, w[2])
<1>1. w \in Sales(f)
  BY DEF Sources
<1>2. o \in orders /\ Due(f, o) /\ w[2] \in SetToSeqs(DOMAIN o.items)
  BY <1>1 DEF Sales
<1>3. Well(o) /\ o.items \in Seq(Line)
  BY <1>2, OrdersAreWell DEF Well
<1>4. Body(f, w) = OrderReply(o, items)
  BY DEF Body
<1>5. \A b : Display(f, b) = ShowOrder(Root(f), mapOrder(b.Order))
  BY DEF Display
<1> HIDE DEF o
<1> QED
  BY <1>2, <1>3, <1>4, <1>5, PermutedFits DEF o

\* A cabinet is shown from its row, with a quantity it has had since the query came.
CabinetLook(root, c, q) == ShowCabinet(root, mapCabinet(CabinetReply(RowWith(c, q))))

\* The reply to cabinet, and what is shown of it, is such a look.
LEMMA StockShown ==
  ASSUME Truth, NEW f \in Fields, f \in FieldsOf(f[1]),
         Root(f).name = "cabinet", NEW w \in Sources(f)
  PROVE  LET c == Root(f).cab
         IN  /\ c \in Cabinets /\ w \in left[c]..seen[f[1]].left[c] /\ w \in 0..Shelf[c].Quantity
             /\ Body(f, w) = [Cabinet |-> CabinetReply(RowWith(c, w))]
             /\ Display(f, Body(f, w)) = CabinetLook(Root(f), c, w)
<1> DEFINE c == Root(f).cab
<1>1. w \in Stocks(f)
  BY DEF Sources
<1>2. c \in Cabinets /\ w \in left[c]..seen[f[1]].left[c]
  BY <1>1 DEF Stocks
<1>3. left[c] \in 0..Shelf[c].Quantity /\ Shelf[c].Quantity \in Nat
  BY <1>2, ShelfAssumption DEF Truth, Ledger
<1>4. seen[f[1]].left[c] \in left[c]..Shelf[c].Quantity
  BY <1>2, FieldAsks DEF Truth, PostTruth, Posted
<1>5. w \in 0..Shelf[c].Quantity
  BY <1>2, <1>3, <1>4
<1>6. Body(f, w) = [Cabinet |-> CabinetReply(RowWith(c, w))]
  BY DEF Body
<1>7. \A b : Display(f, b) = ShowCabinet(Root(f), mapCabinet(b.Cabinet))
  BY DEF Display
<1>8. Display(f, Body(f, w)) = CabinetLook(Root(f), c, w)
  BY <1>6, <1>7 DEF CabinetLook
<1> QED
  BY <1>2, <1>5, <1>6, <1>8

\* A look at a cabinet is never Null.
LEMMA LookFits ==
  ASSUME NEW root \in Roots, root.name \in {"cabinets", "cabinet"},
         NEW c \in Cabinets, NEW q \in 0..Shelf[c].Quantity
  PROVE  /\ CabinetReply(RowWith(c, q)) \in CabinetMessage
         /\ CabinetLook(root, c, q) \in ShownObject(root.of, root.sub)
         /\ CabinetLook(root, c, q) # Null /\ DOMAIN CabinetLook(root, c, q) = root.of
<1> DEFINE r == RowWith(c, q)
           m == CabinetReply(r)
           v == CabinetLook(root, c, q)
<1>1. r \in CabinetRow
  BY RowFits
<1> HIDE DEF r
<1>2. m \in CabinetMessage /\ mapCabinet(m) \in CabinetObject
  BY <1>1, CabinetFits
<1>3. root.of \subseteq CabinetNames /\ root.sub \subseteq CabinetImageNames
  BY DocumentAssumption
<1>4. v = ShowCabinet(root, mapCabinet(m))
  BY DEF CabinetLook, r
<1> HIDE DEF m, v
<1>5. v \in ShownObject(root.of, root.sub)
  BY <1>2, <1>3, <1>4, CabinetShown
<1>6. v # Null
  BY <1>5, ShownAssumption DEF ShownFor
<1>7. DOMAIN v = root.of
  BY <1>5 DEF ShownObject
<1> QED
  BY <1>2, <1>5, <1>6, <1>7 DEF m, r, v

\* The cabinets are shown from their rows in some sequence, with what the orders of
\* one instant have left.
ListLook(root, S, list) == [i \in DOMAIN list |-> CabinetLook(root, list[i], Remains(S, list[i]))]

\* The reply to cabinets fits its message, and what is shown of it is such a list.
LEMMA ListShown ==
  ASSUME Truth, NEW f \in Fields, f \in FieldsOf(f[1]),
         Root(f).name = "cabinets", NEW w \in Sources(f)
  PROVE  LET S == w[1]
             list == w[2]
         IN  /\ S \in past /\ seen[f[1]].orders \subseteq S
             /\ list \in Seq(Cabinets)
             /\ \A i \in DOMAIN list :
                  list[i] \in Cabinets /\ Remains(S, list[i]) \in 0..Shelf[list[i]].Quantity
             /\ Body(f, w) = ListReply(S, list)
             /\ ListReply(S, list) \in ListCabinetsResponseMessage
             /\ Display(f, Body(f, w)) = ListLook(Root(f), S, list)
             /\ ListLook(Root(f), S, list) \in Seq(ShownObject(Root(f).of, Root(f).sub))
<1> DEFINE S == w[1]
           list == w[2]
           root == Root(f)
<1>1. w \in Instants(f) \X Lists
  BY DEF Sources
<1>2. S \in Instants(f) /\ list \in SetToSeqs(Cabinets)
  BY <1>1 DEF Lists
<1>3. /\ S \in past /\ seen[f[1]].orders \subseteq S
      /\ \A c \in Cabinets : Remains(S, c) \in 0..Shelf[c].Quantity
  BY <1>2 DEF Instants
<1>4. list \in Seq(Cabinets) /\ \A i \in DOMAIN list : list[i] \in Cabinets
  <2>1. Cardinality(Cabinets) \in Nat
    BY ShelfAssumption, FS_CardinalityType
  <2>2. list \in [1..Cardinality(Cabinets) -> Cabinets]
    BY <1>2 DEF SetToSeqs
  <2> HIDE DEF list
  <2> QED
    BY <2>1, <2>2
<1>5. Body(f, w) = ListReply(S, list)
  BY DEF Body
<1>6. \A b : Display(f, b) = ShowCabinets(root, [i \in DOMAIN b.Cabinets |-> mapCabinet(b.Cabinets[i])])
  BY DEF Display
<1>7. root \in Roots /\ root.name = "cabinets"
  BY FieldAsks
<1> HIDE DEF S, list, root
<1> DEFINE rows == [i \in DOMAIN list |-> CabinetReply(RowWith(list[i], Remains(S, list[i])))]
           looks == ListLook(root, S, list)
<1>8. ASSUME NEW i \in DOMAIN list
      PROVE  /\ CabinetReply(RowWith(list[i], Remains(S, list[i]))) \in CabinetMessage
             /\ CabinetLook(root, list[i], Remains(S, list[i])) \in ShownObject(root.of, root.sub)
             /\ CabinetLook(root, list[i], Remains(S, list[i])) # Null
  BY <1>3, <1>4, <1>7, LookFits
<1>9. ListReply(S, list) = [Cabinets |-> rows] /\ rows \in Seq(CabinetMessage)
  <2>1. rows = [i \in DOMAIN list |-> rows[i]]
    OBVIOUS
  <2>2. ASSUME NEW i \in DOMAIN list PROVE rows[i] \in CabinetMessage
    BY <1>8
  <2>3. ListReply(S, list) = [Cabinets |-> rows]
    BY DEF ListReply
  <2> HIDE DEF rows
  <2> QED
    BY <1>4, <2>1, <2>2, <2>3, Listed
<1>10. looks \in Seq(ShownObject(root.of, root.sub))
  <2>1. looks = [i \in DOMAIN list |-> looks[i]]
    BY DEF ListLook
  <2>2. ASSUME NEW i \in DOMAIN list PROVE looks[i] \in ShownObject(root.of, root.sub)
    BY <1>8 DEF ListLook
  <2> HIDE DEF looks
  <2> QED
    BY <1>4, <2>1, <2>2, Listed
<1>11. Display(f, ListReply(S, list)) = looks
  <2> DEFINE objects == [i \in DOMAIN rows |-> mapCabinet(rows[i])]
             shown == [i \in DOMAIN objects |-> ShowCabinet(root, objects[i])]
  <2>1. Display(f, ListReply(S, list)) = ShowCabinets(root, objects)
    BY <1>6, <1>9
  <2>2. shown = looks
    BY DEF ListLook, CabinetLook
  <2>3. \A i \in DOMAIN objects : shown[i] # Null
    BY <1>8 DEF CabinetLook
  <2> HIDE DEF objects
  <2>4. ShowCabinets(root, objects) = shown
    BY <2>3 DEF ShowCabinets
  <2> QED
    BY <2>1, <2>2, <2>4
<1>12. ListReply(S, list) \in ListCabinetsResponseMessage
  BY <1>9 DEF ListCabinetsResponseMessage
<1> QED
  BY <1>3, <1>4, <1>5, <1>10, <1>11, <1>12 DEF S, list, root

\* Whatever it is made from, a reply is a message of catalog.v1, and what is shown of
\* it is what the schema promises.
LEMMA SourcesFit ==
  ASSUME Truth, NEW f \in Fields, f \in FieldsOf(f[1]), NEW w \in Sources(f)
  PROVE  /\ Body(f, w) \in ReplyOf(Root(f).name)
         /\ Display(f, Body(f, w)) \in ShownFor(Root(f))
         /\ Display(f, Body(f, w)) # Null /\ Display(f, Body(f, w)) # Nobody
<1>1. CASE Root(f).name = "cabinets"
  BY <1>1, ListShown, Selections DEF ReplyOf, ShownFor
<1>2. CASE Root(f).name = "cabinet"
  <2> DEFINE c == Root(f).cab
  <2>1. /\ c \in Cabinets /\ w \in 0..Shelf[c].Quantity
        /\ Body(f, w) = [Cabinet |-> CabinetReply(RowWith(c, w))]
        /\ Display(f, Body(f, w)) = CabinetLook(Root(f), c, w)
    BY <1>2, StockShown
  <2>2. Root(f) \in Roots
    BY FieldAsks
  <2>3. /\ CabinetReply(RowWith(c, w)) \in CabinetMessage
        /\ CabinetLook(Root(f), c, w) \in ShownFor(Root(f))
    BY <1>2, <2>1, <2>2, LookFits DEF ShownFor
  <2>4. Body(f, w) \in ReplyOf(Root(f).name)
    BY <1>2, <2>1, <2>3 DEF ReplyOf, GetCabinetResponseMessage
  <2> QED
    BY <2>1, <2>3, <2>4, Selections
<1>3. CASE Root(f).name \in {"order", "createOrder"}
  <2> DEFINE o == w[1]
             items == Permuted(o.items, w[2])
             m == OrderReply(o, items).Order
  <2>1. /\ Well(o) /\ items \in Seq(Line) /\ Body(f, w) = OrderReply(o, items)
        /\ Display(f, Body(f, w)) = ShowOrder(Root(f), mapOrder(m))
    BY <1>3, SaleShown
  <2>2. Root(f).of \subseteq OrderNames /\ Root(f).sub \subseteq OrderLineNames
    BY <1>3, Selections
  <2> HIDE DEF o, items
  <2>3. m \in OrderMessage
    BY <2>1, OrderFits
  <2>4. ShowOrder(Root(f), mapOrder(m)) \in ShownObject(Root(f).of, Root(f).sub)
    BY <2>1, <2>2, OrderShownAs
  <2>5. OrderReply(o, items) = [Order |-> m]
    BY DEF OrderReply
  <2>6. Body(f, w) \in ReplyOf(Root(f).name)
    BY <1>3, <2>1, <2>3, <2>5 DEF ReplyOf, OrderResponseMessage
  <2> QED
    BY <2>1, <2>4, <2>6, Selections DEF ShownFor
<1> QED
  BY <1>1, <1>2, <1>3, FieldNames

-----------------------------------------------------------------------------
(* What the invariant says to a client.                                    *)

\* What is shown has a source.
LEMMA ShownHasSource ==
  ASSUME Truth, NEW f \in Fields, value[f] # Nobody, value[f] # Null
  PROVE  /\ stage[f] = "returned" /\ f \in FieldsOf(f[1]) /\ message[f].code = "OK"
         /\ \E w \in Sources(f) : value[f] = Display(f, Body(f, w))
BY DEF Truth, FieldTruth, Outcome, Wire

\* What is on the wire before an answer is a message of catalog.v1.
LEMMA RequestsFit ==
  ASSUME Truth, NEW f \in Fields, f \in FieldsOf(f[1])
  PROVE  Message(f) \in RequestOf(Root(f).name)
<1>1. Root(f) \in Roots
  BY FieldAsks
<1>2. CASE Root(f).name = "cabinets"
  BY <1>2 DEF Message, RequestOf, ListCabinetsRequestMessage
<1>3. CASE Root(f).name = "cabinet"
  <2>1. Root(f).cab \in STRING
    BY <1>1, <1>3, DocumentAssumption
  <2> QED
    BY <1>3, <2>1 DEF Message, RequestOf, GetCabinetRequestMessage
<1>4. CASE Root(f).name = "order"
  <2>1. Root(f).order \in OrderIds
    BY <1>1, <1>4, DocumentAssumption
  <2> QED
    BY <1>4, <2>1 DEF Message, RequestOf, GetOrderRequestMessage
<1>5. CASE Root(f).name = "createOrder"
  <2>1. CreateOrderRequest(f, Root(f)) \in CreateOrderRequestMessage
    BY <1>5, CallAsks
  <2> QED
    BY <1>5, <2>1 DEF Message, RequestOf
<1> QED
  BY <1>2, <1>3, <1>4, <1>5, FieldNames

\* What a client is shown of an order.
LEMMA OrderIsShown ==
  ASSUME Truth, NEW f \in Fields, Shown(f, {"order", "createOrder"})
  PROVE  \E w \in Sources(f) :
           LET o == w[1]
               items == Permuted(o.items, w[2])
               v == value[f]
           IN  /\ o \in orders /\ Due(f, o) /\ Well(o) /\ f \in FieldsOf(f[1])
               /\ items \in Seq(Line) /\ DOMAIN items = DOMAIN o.items
               /\ w[2] \in Bijection(DOMAIN o.items, DOMAIN o.items)
               /\ \A i \in DOMAIN o.items :
                    w[2][i] \in DOMAIN o.items /\ items[i] = o.items[w[2][i]]
               /\ DOMAIN v = Root(f).of
               /\ Says(v, "id", o.id) /\ Says(v, "userId", o.user)
               /\ Says(v, "idempotencyKey", o.key) /\ Says(v, "status", "pending_payment")
               /\ Says(v, "totalCents", TotalCents(o.items)) /\ Says(v, "__typename", "Order")
               /\ Says(v, "items", LinesLook(Root(f).sub, items))
<1>1. value[f] # Nobody /\ value[f] # Null /\ Root(f).name \in {"order", "createOrder"}
  BY DEF Shown
<1>2. f \in FieldsOf(f[1])
  BY <1>1, ShownHasSource
<1>3. PICK w \in Sources(f) : value[f] = Display(f, Body(f, w))
  BY <1>1, ShownHasSource
<1> DEFINE o == w[1]
           items == Permuted(o.items, w[2])
           v == value[f]
<1>4. /\ o \in orders /\ Due(f, o) /\ Well(o)
      /\ items \in Seq(Line) /\ DOMAIN items = DOMAIN o.items
      /\ w[2] \in Bijection(DOMAIN o.items, DOMAIN o.items)
      /\ \A i \in DOMAIN o.items : w[2][i] \in DOMAIN o.items /\ items[i] = o.items[w[2][i]]
      /\ v = ShowOrder(Root(f), mapOrder(OrderReply(o, items).Order))
  BY <1>1, <1>2, <1>3, SaleShown
<1>5. Root(f).of \subseteq OrderNames /\ Root(f).sub \subseteq OrderLineNames
  BY <1>1, <1>2, Selections
<1> HIDE DEF o, items, v
<1>6. /\ DOMAIN v = Root(f).of
      /\ Says(v, "id", o.id) /\ Says(v, "userId", o.user)
      /\ Says(v, "idempotencyKey", o.key) /\ Says(v, "status", "pending_payment")
      /\ Says(v, "totalCents", TotalCents(o.items)) /\ Says(v, "__typename", "Order")
      /\ Says(v, "items", LinesLook(Root(f).sub, items))
  BY <1>4, <1>5, OrderShownAs
<1> QED
  BY <1>2, <1>4, <1>6 DEF o, items, v

\* A look at a line says what the line says.
LEMMA LineIsShown ==
  ASSUME NEW l \in Line, NEW sub
  PROVE  LET v == LineLook(sub, l)
         IN  /\ "cabinetId" \in sub => v.cabinetId = l.cab
             /\ "quantity" \in sub => v.quantity = l.qty
             /\ "unitPriceCents" \in sub => v.unitPriceCents = Shelf[l.cab].Price
<1> DEFINE w == OrderLineFields(LineObject(l))
           v == LineLook(sub, l)
<1>1. /\ w["cabinetId"] = l.cab /\ w["quantity"] = l.qty
      /\ w["unitPriceCents"] = Shelf[l.cab].Price
  BY DEF OrderLineFields, LineObject
<1>2. v = [n \in sub |-> w[n]]
  BY DEF LineLook, Select
<1> HIDE DEF w, v
<1>3. /\ "cabinetId" \in sub => v.cabinetId = l.cab
      /\ "quantity" \in sub => v.quantity = l.qty
      /\ "unitPriceCents" \in sub => v.unitPriceCents = Shelf[l.cab].Price
  BY <1>1, <1>2
<1> QED
  BY <1>3 DEF v

\* Counting does not depend on the sequence.
Count(s, D, x) == Cardinality({i \in D : s[i] = x})

\* An element is found as often in a sequence as in any permutation of it.
LEMMA CountPermuted ==
  ASSUME NEW D, IsFiniteSet(D), NEW pi \in Bijection(D, D), NEW s, NEW t,
         \A i \in D : t[i] = s[pi[i]], NEW x
  PROVE  Count(t, D, x) = Count(s, D, x)
<1> DEFINE A == {i \in D : t[i] = x}
           B == {i \in D : s[i] = x}
           h == [i \in A |-> pi[i]]
<1>1. /\ pi \in [D -> D] /\ \A i, j \in D : pi[i] = pi[j] => i = j
      /\ \A j \in D : \E i \in D : pi[i] = j
  BY DEF Bijection, Injection, Surjection, IsInjective
<1>2. h \in Bijection(A, B)
  <2>1. h \in [A -> B] /\ \A i, j \in A : h[i] = h[j] => i = j
    BY <1>1
  <2>2. \A j \in B : \E i \in A : h[i] = j
    BY <1>1
  <2> HIDE DEF A, B, h
  <2> QED
    BY <2>1, <2>2 DEF Bijection, Injection, Surjection, IsInjective
<1>3. IsFiniteSet(A)
  BY FS_Subset
<1> HIDE DEF A, B
<1>4. Cardinality(A) = Cardinality(B)
  BY <1>2, <1>3, FS_Bijection DEF ExistsBijection
<1> QED
  BY <1>4 DEF Count, A, B

\* The catalog counts and adds up as everybody does.
LEMMA CatalogCounts == \A S : Catalog!Cardinality(S) = Cardinality(S)
BY Zenon DEF Catalog!Cardinality, Cardinality

\* The same of its sums.
LEMMA CatalogAdds == \A fun, S : Catalog!SumFunctionOnSet(fun, S) = SumFunctionOnSet(fun, S)
BY DEF Catalog!SumFunctionOnSet, Catalog!FoldFunctionOnSet, Catalog!MapThenFoldSet,
       SumFunctionOnSet, FoldFunctionOnSet, MapThenFoldSet

\* The lines that were asked for, as long as they are int32, are those of the order.
LEMMA AskedIsPlaced ==
  ASSUME Truth, NEW f \in Fields, f \in FieldsOf(f[1]), Root(f).name = "createOrder",
         Fits(Root(f)), NEW o, Due(f, o), Well(o), NEW pi \in Bijection(DOMAIN o.items, DOMAIN o.items),
         NEW s, DOMAIN s = DOMAIN o.items, \A i \in DOMAIN o.items : s[i] = o.items[pi[i]]
  PROVE  SameBag(s, Root(f).items)
<1> DEFINE asked == Root(f).items
           call == Call(f).items
<1>1. Catalog!SameLines(o.items, call) /\ o.items \in Seq(Line)
  BY DEF Due, Well
<1>2. /\ DOMAIN call = DOMAIN asked
      /\ \A i \in DOMAIN asked : call[i] = asked[i]
  <2>1. ASSUME NEW i \in DOMAIN asked PROVE call[i] = asked[i]
    <3>1. asked[i] \in Wish
      BY CallAsks
    <3>2. int32(asked[i].qty) = asked[i].qty
      BY Int32Keeps DEF Fits
    <3>3. call[i] = [cab |-> asked[i].cab, qty |-> int32(asked[i].qty)]
      BY CallAsks
    <3> HIDE DEF asked, call
    <3> QED
      BY <3>1, <3>2, <3>3 DEF Wish
  <2> QED
    BY <2>1, CallAsks
<1> HIDE DEF asked, call
<1>3. IsFiniteSet(DOMAIN o.items)
  BY <1>1, CostsFit
<1>4. ASSUME NEW x \in Range(s) \cup Range(asked)
      PROVE  Count(s, DOMAIN s, x) = Count(asked, DOMAIN asked, x)
  <2>1. Count(s, DOMAIN s, x) = Count(o.items, DOMAIN o.items, x)
    BY <1>3, CountPermuted
  <2>2. x \in {o.items[i] : i \in DOMAIN o.items} \cup {call[i] : i \in DOMAIN call}
    <3>1. \A i \in DOMAIN o.items : pi[i] \in DOMAIN o.items
      BY DEF Bijection, Injection
    <3> QED
      BY <1>2, <3>1 DEF Range
  <2>3. Count(o.items, DOMAIN o.items, x) = Count(call, DOMAIN call, x)
    <3>1. \A y \in {o.items[i] : i \in DOMAIN o.items} \cup {call[i] : i \in DOMAIN call} :
            Cardinality({i \in DOMAIN o.items : o.items[i] = y})
              = Cardinality({i \in DOMAIN call : call[i] = y})
      BY <1>1, CatalogCounts, Zenon DEF Catalog!SameLines
    <3> QED
      BY <2>2, <3>1, Zenon DEF Count
  <2>4. {i \in DOMAIN call : call[i] = x} = {i \in DOMAIN asked : asked[i] = x}
    BY <1>2
  <2> QED
    BY <2>1, <2>3, <2>4 DEF Count
<1> QED
  BY <1>4 DEF SameBag, Count, asked

\* An order is shown from one that was due to the field: placed for its user, under its
\* key, for its lines.
LEMMA TruthKeepsOrders == Truth => OrderAsAsked
<1> SUFFICES ASSUME Truth, NEW f \in Fields, Shown(f, {"createOrder"}), Fits(Root(f))
             PROVE  LET v == value[f]
                        user == post[f[1]].user
                    IN  /\ Says(v, "userId", IF Trim[user] = "" THEN Anonymous ELSE Trim[user])
                        /\ Says(v, "idempotencyKey", Root(f).key)
                        /\ "id" \in DOMAIN v => \E o \in orders : o.id = v.id
                        /\ "items" \in DOMAIN v /\ {"cabinetId", "quantity"} \subseteq Root(f).sub =>
                             SameBag([i \in DOMAIN v.items |->
                                        [cab |-> v.items[i].cabinetId, qty |-> v.items[i].quantity]],
                                     Root(f).items)
  BY Zenon DEF OrderAsAsked
<1>1. Root(f).name = "createOrder" /\ Shown(f, {"order", "createOrder"})
  BY DEF Shown
<1>2. PICK w \in Sources(f) :
        LET o == w[1]
            items == Permuted(o.items, w[2])
            v == value[f]
        IN  /\ o \in orders /\ Due(f, o) /\ Well(o) /\ f \in FieldsOf(f[1])
            /\ items \in Seq(Line) /\ DOMAIN items = DOMAIN o.items
            /\ w[2] \in Bijection(DOMAIN o.items, DOMAIN o.items)
            /\ \A i \in DOMAIN o.items :
                 w[2][i] \in DOMAIN o.items /\ items[i] = o.items[w[2][i]]
            /\ Says(v, "id", o.id) /\ Says(v, "userId", o.user) /\ Says(v, "idempotencyKey", o.key)
            /\ Says(v, "items", LinesLook(Root(f).sub, items))
  BY <1>1, OrderIsShown
<1> DEFINE o == w[1]
           items == Permuted(o.items, w[2])
           v == value[f]
           pi == w[2]
           sub == Root(f).sub
           shown == [i \in DOMAIN v.items |->
                       [cab |-> v.items[i].cabinetId, qty |-> v.items[i].quantity]]
<1>3. /\ o \in orders /\ Due(f, o) /\ Well(o) /\ f \in FieldsOf(f[1])
      /\ items \in Seq(Line) /\ DOMAIN items = DOMAIN o.items
      /\ pi \in Bijection(DOMAIN o.items, DOMAIN o.items)
      /\ \A i \in DOMAIN o.items : pi[i] \in DOMAIN o.items /\ items[i] = o.items[pi[i]]
      /\ Says(v, "id", o.id) /\ Says(v, "userId", o.user) /\ Says(v, "idempotencyKey", o.key)
      /\ Says(v, "items", LinesLook(sub, items))
  BY <1>2
<1> HIDE DEF o, items, v, pi
<1>4. o.user = User(f) /\ o.key = Root(f).key
  BY <1>1, <1>3, CallAsks DEF Due
<1>5. ASSUME "items" \in DOMAIN v, {"cabinetId", "quantity"} \subseteq sub
      PROVE  SameBag(shown, Root(f).items)
  <2>1. v.items = [i \in DOMAIN items |-> LineLook(sub, items[i])]
    BY <1>3, <1>5 DEF Says, LinesLook
  <2>2. ASSUME NEW i \in DOMAIN items PROVE shown[i] = items[i]
    <3> DEFINE l == items[i]
               look == LineLook(sub, l)
    <3>1. l \in Line
      BY <1>3
    <3>2. look.cabinetId = l.cab /\ look.quantity = l.qty
      BY <1>5, <3>1, LineIsShown
    <3>3. shown[i] = [cab |-> look.cabinetId, qty |-> look.quantity]
      BY <2>1
    <3> HIDE DEF l, look, shown
    <3>4. shown[i] = l
      BY <3>1, <3>2, <3>3 DEF Line
    <3> QED
      BY <3>4 DEF l
  <2>3. DOMAIN shown = DOMAIN o.items
    BY <1>3, <2>1
  <2> HIDE DEF shown, sub
  <2>4. \A i \in DOMAIN o.items : shown[i] = o.items[pi[i]]
    BY <1>3, <2>2
  <2> QED
    BY <1>1, <1>3, <2>3, <2>4, AskedIsPlaced
<1>6. Says(v, "userId", User(f)) /\ Says(v, "idempotencyKey", Root(f).key)
  BY <1>3, <1>4
<1>7. "id" \in DOMAIN v => \E x \in orders : x.id = v.id
  BY <1>3 DEF Says
<1> QED
  BY <1>5, <1>6, <1>7, Zenon DEF User, v, shown, sub

\* The lines shown with an order are its lines in some sequence, and a sum does not
\* depend on the sequence.
LEMMA TruthAddsUp == Truth => TotalIsExact
<1> SUFFICES ASSUME Truth, NEW f \in Fields, OrderShown(f)
             PROVE  LET v == value[f]
                        sum == SumFunction([i \in DOMAIN v.items |->
                                              v.items[i].unitPriceCents * v.items[i].quantity])
                    IN  /\ {"items", "totalCents"} \subseteq DOMAIN v
                        /\ {"unitPriceCents", "quantity"} \subseteq Root(f).sub
                        /\ sum \in Range64
                        => v.totalCents = sum
  BY DEF TotalIsExact
<1> DEFINE v == value[f]
           sub == Root(f).sub
           costs == [i \in DOMAIN v.items |-> v.items[i].unitPriceCents * v.items[i].quantity]
           sum == SumFunction(costs)
<1>1. PICK w \in Sources(f) :
        LET o == w[1]
            items == Permuted(o.items, w[2])
        IN  /\ o \in orders /\ Well(o)
            /\ items \in Seq(Line) /\ DOMAIN items = DOMAIN o.items
            /\ w[2] \in Bijection(DOMAIN o.items, DOMAIN o.items)
            /\ \A i \in DOMAIN o.items :
                 w[2][i] \in DOMAIN o.items /\ items[i] = o.items[w[2][i]]
            /\ Says(v, "totalCents", TotalCents(o.items))
            /\ Says(v, "items", LinesLook(sub, items))
  BY OrderIsShown DEF OrderShown
<1> DEFINE o == w[1]
           pi == w[2]
           items == Permuted(o.items, pi)
           D == DOMAIN o.items
<1>2. /\ o.items \in Seq(Line) /\ items \in Seq(Line) /\ DOMAIN items = D
      /\ pi \in Bijection(D, D) /\ \A i \in D : pi[i] \in D /\ items[i] = o.items[pi[i]]
      /\ Says(v, "totalCents", TotalCents(o.items)) /\ Says(v, "items", LinesLook(sub, items))
  BY <1>1 DEF Well
<1> HIDE DEF v, o, pi, items, sub
<1>3. SUFFICES ASSUME {"items", "totalCents"} \subseteq DOMAIN v,
                      {"unitPriceCents", "quantity"} \subseteq sub, sum \in Range64
               PROVE  v.totalCents = sum
  BY DEF v, sub
<1>4. v.totalCents = TotalCents(o.items) /\ v.items = [i \in D |-> LineLook(sub, items[i])]
  BY <1>2, <1>3 DEF Says, LinesLook
<1>5. DOMAIN costs = D /\ \A i \in D : costs[i] = Costs(o.items)[pi[i]]
  <2>1. ASSUME NEW i \in D PROVE costs[i] = Costs(o.items)[pi[i]]
    <3> DEFINE l == items[i]
               look == LineLook(sub, l)
    <3>1. l \in Line /\ pi[i] \in D /\ l = o.items[pi[i]]
      BY <1>2
    <3>2. look.unitPriceCents = Shelf[l.cab].Price /\ look.quantity = l.qty
      BY <1>3, <3>1, LineIsShown
    <3>3. costs[i] = look.unitPriceCents * look.quantity
      BY <1>4
    <3> HIDE DEF look
    <3>4. Costs(o.items)[pi[i]] = Shelf[l.cab].Price * l.qty
      BY <3>1 DEF Costs
    <3> QED
      BY <3>2, <3>3, <3>4
  <2> QED
    BY <1>4, <2>1
<1> HIDE DEF costs
<1>6. /\ IsFiniteSet(D) /\ TotalCents(o.items) = int64(SumFunction(Costs(o.items)))
      /\ \A i \in D : Costs(o.items)[i] \in Int
  BY <1>2, CostsFit
<1>7. DOMAIN Costs(o.items) = D
  BY DEF Costs
<1>8. \A i \in D : costs[i] \in Int /\ Costs(o.items)[pi[i]] = costs[i]
  BY <1>2, <1>5, <1>6
<1> HIDE DEF D
<1>9. SumFunctionOnSet(costs, D) = SumFunctionOnSet(Costs(o.items), D)
  BY <1>2, <1>6, <1>8, SumRenamed
<1>10. sum = SumFunction(Costs(o.items))
  BY <1>5, <1>7, <1>9 DEF SumFunction
<1> HIDE DEF sum
<1> QED
  BY <1>3, <1>4, <1>6, <1>10, Int64Keeps

\* Two fields that show an id show the one order that has it, each in some sequence of
\* its lines.
LEMMA TruthLooksTheSame == Truth => OneOrderOneLook
<1> SUFFICES ASSUME Truth, NEW f \in Fields, NEW g \in Fields, OrderShown(f), OrderShown(g),
                    value[f].id = value[g].id,
                    NEW name \in DOMAIN value[f] \cap DOMAIN value[g]
             PROVE  IF name = "items"
                      THEN Root(f).sub = Root(g).sub => SameBag(value[f].items, value[g].items)
                      ELSE value[f][name] = value[g][name]
  BY DEF OneOrderOneLook
<1> DEFINE Look(h, o, pi) ==
             LET items == Permuted(o.items, pi)
                 v == value[h]
             IN  /\ o \in orders /\ Well(o) /\ DOMAIN items = DOMAIN o.items
                 /\ pi \in Bijection(DOMAIN o.items, DOMAIN o.items)
                 /\ \A i \in DOMAIN o.items : items[i] = o.items[pi[i]]
                 /\ DOMAIN v = Root(h).of /\ Root(h).of \subseteq OrderNames
                 /\ Says(v, "id", o.id) /\ Says(v, "userId", o.user)
                 /\ Says(v, "idempotencyKey", o.key) /\ Says(v, "status", "pending_payment")
                 /\ Says(v, "totalCents", TotalCents(o.items)) /\ Says(v, "__typename", "Order")
                 /\ Says(v, "items", LinesLook(Root(h).sub, items))
<1>1. ASSUME NEW h \in Fields, OrderShown(h)
      PROVE  \E o, pi : Look(h, o, pi)
  <2>1. Shown(h, {"order", "createOrder"}) /\ Root(h).name \in {"order", "createOrder"}
    BY <1>1 DEF OrderShown, Shown
  <2>2. h \in FieldsOf(h[1])
    BY <2>1, ShownHasSource DEF Shown
  <2>3. Root(h).of \subseteq OrderNames
    BY <2>1, <2>2, Selections
  <2>4. PICK w \in Sources(h) : Look(h, w[1], w[2])
    BY <2>1, <2>3, OrderIsShown
  <2> HIDE DEF Look
  <2> QED
    BY <2>4
<1>2. PICK o, pi : Look(f, o, pi)
  BY <1>1
<1>3. PICK ot, pt : Look(g, ot, pt)
  BY <1>1
<1>4. ot = o
  <2>1. "id" \in DOMAIN value[f] /\ "id" \in DOMAIN value[g]
    BY DEF OrderShown
  <2>2. o.id = value[f].id /\ ot.id = value[g].id
    BY <1>2, <1>3, <2>1 DEF Says
  <2> QED
    BY <1>2, <1>3, <2>2, OrdersAreWell
<1>5. CASE name = "items" /\ Root(f).sub = Root(g).sub
  <2> DEFINE sub == Root(f).sub
             D == DOMAIN o.items
             base == [i \in D |-> LineLook(sub, o.items[i])]
             x1 == LinesLook(sub, Permuted(o.items, pi))
             x2 == LinesLook(sub, Permuted(o.items, pt))
  <2>1. value[f].items = x1 /\ value[g].items = x2
    BY <1>2, <1>3, <1>4, <1>5 DEF Says
  <2>2. /\ DOMAIN x1 = D /\ \A i \in D : x1[i] = base[pi[i]]
        /\ DOMAIN x2 = D /\ \A i \in D : x2[i] = base[pt[i]]
    <3>1. pi \in [D -> D] /\ pt \in [D -> D]
      BY <1>2, <1>3, <1>4 DEF Bijection, Injection
    <3> QED
      BY <1>2, <1>3, <1>4, <3>1 DEF LinesLook
  <2>3. IsFiniteSet(D) /\ pi \in Bijection(D, D) /\ pt \in Bijection(D, D)
    BY <1>2, <1>3, <1>4, CostsFit DEF Well
  <2> HIDE DEF D, base, x1, x2
  <2>4. \A x : Count(x1, D, x) = Count(base, D, x) /\ Count(x2, D, x) = Count(base, D, x)
    BY <2>2, <2>3, CountPermuted
  <2>5. \A x : Count(x1, DOMAIN x1, x) = Count(x2, DOMAIN x2, x)
    BY <2>2, <2>4
  <2>6. SameBag(x1, x2)
    BY <2>5, Zenon DEF SameBag, Count
  <2> QED
    BY <1>5, <2>1, <2>6
<1>6. CASE name # "items"
  <2>1. name \in OrderNames
    BY <1>2
  <2>2. /\ Says(value[f], "id", o.id) /\ Says(value[g], "id", o.id)
        /\ Says(value[f], "userId", o.user) /\ Says(value[g], "userId", o.user)
        /\ Says(value[f], "idempotencyKey", o.key) /\ Says(value[g], "idempotencyKey", o.key)
        /\ Says(value[f], "status", "pending_payment") /\ Says(value[g], "status", "pending_payment")
        /\ Says(value[f], "totalCents", TotalCents(o.items))
        /\ Says(value[g], "totalCents", TotalCents(o.items))
        /\ Says(value[f], "__typename", "Order") /\ Says(value[g], "__typename", "Order")
    BY <1>2, <1>3, <1>4
  <2>3. name \in DOMAIN value[f] /\ name \in DOMAIN value[g]
    OBVIOUS
  <2>4. value[f][name] = value[g][name]
    BY <1>6, <2>1, <2>2, <2>3 DEF Says, OrderNames
  <2> QED
    BY <1>6, <2>4
<1> QED
  BY <1>5, <1>6

\* A look at a cabinet says what its row says.
LEMMA LookSays ==
  ASSUME NEW root \in Roots, root.name \in {"cabinets", "cabinet"},
         NEW c \in Cabinets, NEW q \in 0..Shelf[c].Quantity
  PROVE  AsStored(CabinetLook(root, c, q), RowWith(c, q))
<1> DEFINE r == RowWith(c, q)
           v == CabinetLook(root, c, q)
<1>1. r \in CabinetRow
  BY RowFits
<1>2. v # Null /\ v = ShowCabinet(root, mapCabinet(CabinetReply(r)))
  BY LookFits DEF CabinetLook
<1> HIDE DEF r, v
<1>3. r.Quantity \in Range32 /\ r.Images \in Seq(CabinetImageRow)
  BY <1>1 DEF CabinetRow
<1>4. \A i \in DOMAIN r.Images : r.Images[i].SortOrder \in Range32
  <2>1. ASSUME NEW i \in DOMAIN r.Images PROVE r.Images[i].SortOrder \in Range32
    <3>1. r.Images[i] \in CabinetImageRow
      BY <1>3
    <3> QED
      BY <3>1 DEF CabinetImageRow
  <2> QED
    BY <2>1
<1>5. AsStored(v, r)
  BY <1>2, <1>3, <1>4, CabinetAsStored
<1> QED
  BY <1>5 DEF v, r

\* Of its id and its quantity this is what it says.
LEMMA LookCounts ==
  ASSUME NEW root \in Roots, root.name \in {"cabinets", "cabinet"},
         NEW c \in Cabinets, NEW q \in 0..Shelf[c].Quantity
  PROVE  LET v == CabinetLook(root, c, q)
         IN  Says(v, "id", c) /\ Says(v, "quantity", q) /\ Says(v, "priceCents", Shelf[c].Price)
<1> DEFINE r == RowWith(c, q)
<1>1. r.ID = c /\ r.Quantity = q /\ r.Price = Shelf[c].Price
  BY RowFits, ShelfAssumption DEF RowWith, CabinetRow
<1> HIDE DEF r
<1>2. AsStored(CabinetLook(root, c, q), r)
  BY LookSays DEF r
<1> QED
  BY <1>1, <1>2 DEF AsStored

\* The source of a list is the set of the orders of an instant.
LEMMA TruthListsAnInstant == Truth => ListIsOneInstant
<1> SUFFICES ASSUME Truth, NEW f \in Fields, Shown(f, {"cabinets"}),
                    {"id", "quantity"} \subseteq Root(f).of
             PROVE  \E S \in past :
                      /\ seen[f[1]].orders \subseteq S
                      /\ \A i \in DOMAIN value[f] :
                           value[f][i].quantity =
                             Shelf[value[f][i].id].Quantity - SoldIn(S, value[f][i].id)
  BY DEF ListIsOneInstant
<1>1. value[f] # Nobody /\ value[f] # Null /\ Root(f).name = "cabinets"
  BY DEF Shown
<1>2. f \in FieldsOf(f[1])
  BY <1>1, ShownHasSource
<1>3. PICK w \in Sources(f) : value[f] = Display(f, Body(f, w))
  BY <1>1, ShownHasSource
<1> DEFINE S == w[1]
           list == w[2]
           root == Root(f)
<1>4. /\ S \in past /\ seen[f[1]].orders \subseteq S
      /\ \A i \in DOMAIN list :
           list[i] \in Cabinets /\ Remains(S, list[i]) \in 0..Shelf[list[i]].Quantity
      /\ value[f] = ListLook(root, S, list)
  BY <1>1, <1>2, <1>3, ListShown
<1>5. root \in Roots
  BY <1>2, FieldAsks
<1> HIDE DEF S, list
<1>6. ASSUME NEW i \in DOMAIN value[f]
      PROVE  value[f][i].quantity = Remains(S, value[f][i].id)
  <2> DEFINE v == CabinetLook(root, list[i], Remains(S, list[i]))
  <2>1. i \in DOMAIN list /\ value[f][i] = v
    BY <1>4 DEF ListLook
  <2>2. Says(v, "id", list[i]) /\ Says(v, "quantity", Remains(S, list[i])) /\ DOMAIN v = root.of
    BY <1>1, <1>4, <1>5, <2>1, LookCounts, LookFits
  <2> HIDE DEF v
  <2>3. v.id = list[i] /\ v.quantity = Remains(S, list[i])
    BY <2>2 DEF Says
  <2> QED
    BY <2>1, <2>3
<1> QED
  BY <1>4, <1>6 DEF Remains

\* The source of a cabinet is a quantity it has had, and its row.
LEMMA TruthReadsTheTables == Truth => ReadsAreCurrent
<1> SUFFICES ASSUME Truth, NEW f \in Fields
             PROVE  /\ Shown(f, {"cabinet"}) =>
                         \E q \in left[Root(f).cab]..seen[f[1]].left[Root(f).cab] :
                           AsStored(value[f], RowWith(Root(f).cab, q))
                    /\ stage[f] = "returned" /\ message[f].code = "NotFound" =>
                         /\ Root(f).name = "cabinet" => Root(f).cab \notin Cabinets
                         /\ Root(f).name = "order" =>
                              \A o \in seen[f[1]].orders : o.id # Root(f).order
  BY Zenon DEF ReadsAreCurrent, RowWith
<1>1. ASSUME Shown(f, {"cabinet"})
      PROVE  \E q \in left[Root(f).cab]..seen[f[1]].left[Root(f).cab] :
               AsStored(value[f], RowWith(Root(f).cab, q))
  <2>1. value[f] # Nobody /\ value[f] # Null /\ Root(f).name = "cabinet"
    BY <1>1 DEF Shown
  <2>2. f \in FieldsOf(f[1])
    BY <2>1, ShownHasSource
  <2>3. PICK q \in Sources(f) : value[f] = Display(f, Body(f, q))
    BY <2>1, ShownHasSource
  <2> DEFINE c == Root(f).cab
  <2>4. /\ c \in Cabinets /\ q \in left[c]..seen[f[1]].left[c] /\ q \in 0..Shelf[c].Quantity
        /\ value[f] = CabinetLook(Root(f), c, q) /\ Root(f) \in Roots
    BY <2>1, <2>2, <2>3, StockShown, FieldAsks
  <2>5. AsStored(value[f], RowWith(c, q))
    BY <2>1, <2>4, LookSays
  <2> QED
    BY <2>4, <2>5
<1>2. stage[f] = "returned" /\ message[f].code = "NotFound" =>
        /\ Root(f).name = "cabinet" => Root(f).cab \notin Cabinets
        /\ Root(f).name = "order" => \A o \in seen[f[1]].orders : o.id # Root(f).order
  BY DEF Truth, FieldTruth, Refusal
<1> QED
  BY <1>1, <1>2

\* A look at a cabinet has what was selected, and numbers that fit.
LEMMA LookIsWell ==
  ASSUME NEW root \in Roots, root.name \in {"cabinets", "cabinet"},
         NEW c \in Cabinets, NEW q \in 0..Shelf[c].Quantity
  PROVE  ShownAsCabinet(root, CabinetLook(root, c, q))
<1> DEFINE v == CabinetLook(root, c, q)
<1>1. DOMAIN v = root.of
  BY LookFits
<1>2. Says(v, "quantity", q) /\ Says(v, "priceCents", Shelf[c].Price)
  BY LookCounts
<1>3. q \in {n \in Range32 : n >= 0} /\ Shelf[c].Price \in Range64
  BY RowFits, ShelfAssumption DEF CabinetRow
<1> HIDE DEF v
<1>4. ShownAsCabinet(root, v)
  BY <1>1, <1>2, <1>3 DEF ShownAsCabinet, Holds, Says
<1> QED
  BY <1>4 DEF v

\* What is shown of an order is as the schema has it, too.
LEMMA OrderIsShownWell ==
  ASSUME Truth, NEW f \in Fields, Shown(f, {"order", "createOrder"})
  PROVE  ShownAsOrder(Root(f), value[f])
<1>1. PICK w \in Sources(f) :
        LET o == w[1]
            items == Permuted(o.items, w[2])
            v == value[f]
        IN  /\ Well(o) /\ items \in Seq(Line) /\ DOMAIN v = Root(f).of
            /\ Says(v, "id", o.id) /\ Says(v, "status", "pending_payment")
            /\ Says(v, "totalCents", TotalCents(o.items))
            /\ Says(v, "items", LinesLook(Root(f).sub, items))
  BY OrderIsShown
<1> DEFINE o == w[1]
           items == Permuted(o.items, w[2])
           v == value[f]
           sub == Root(f).sub
<1>2. /\ Well(o) /\ items \in Seq(Line) /\ DOMAIN v = Root(f).of
      /\ Says(v, "id", o.id) /\ Says(v, "status", "pending_payment")
      /\ Says(v, "totalCents", TotalCents(o.items)) /\ Says(v, "items", LinesLook(sub, items))
  BY <1>1
<1> HIDE DEF o, items, v
<1>3. Holds(v, "id", Fields) /\ Holds(v, "status", OrderStatus) /\ Holds(v, "totalCents", Range64)
  <2>1. o.id \in Fields /\ TotalCents(o.items) \in Range64
    BY <1>2, CostsFit DEF Well
  <2> QED
    BY <1>2, <2>1 DEF Holds, Says, OrderStatus
<1>4. ASSUME "items" \in DOMAIN v, NEW i \in DOMAIN v.items
      PROVE  /\ DOMAIN v.items[i] = sub
             /\ Holds(v.items[i], "quantity", {n \in Range32 : n > 0})
             /\ Holds(v.items[i], "unitPriceCents", Range64)
  <2> DEFINE l == items[i]
             look == LineLook(sub, l)
  <2>1. i \in DOMAIN items /\ v.items[i] = look
    BY <1>2, <1>4 DEF Says, LinesLook
  <2>2. l \in Line
    BY <1>2, <2>1
  <2>3. DOMAIN look = sub
    BY DEF LineLook, Select
  <2>4. /\ "quantity" \in sub => look.quantity = l.qty
        /\ "unitPriceCents" \in sub => look.unitPriceCents = Shelf[l.cab].Price
    BY <2>2, LineIsShown
  <2>5. l.qty \in {n \in Range32 : n > 0} /\ Shelf[l.cab].Price \in Range64
    BY <2>2, LineFits DEF Line
  <2> HIDE DEF l, look
  <2> QED
    BY <2>1, <2>3, <2>4, <2>5 DEF Holds
<1>5. ShownAsOrder(Root(f), v)
  BY <1>2, <1>3, <1>4 DEF ShownAsOrder, sub
<1> QED
  BY <1>5 DEF v

\* Whatever is shown is.
LEMMA ValueIsWell ==
  ASSUME Truth, NEW f \in Fields, value[f] \notin {Nobody, Null}
  PROVE  ShownWell(Root(f), value[f])
<1>1. f \in FieldsOf(f[1]) /\ \E w \in Sources(f) : value[f] = Display(f, Body(f, w))
  BY ShownHasSource
<1>2. PICK w \in Sources(f) : value[f] = Display(f, Body(f, w))
  BY <1>1
<1> DEFINE root == Root(f)
           v == value[f]
<1>3. root \in Roots /\ root.name \in {"cabinets", "cabinet", "order", "createOrder"}
  BY <1>1, FieldAsks, FieldNames
<1>4. CASE root.name = "cabinets"
  <2> DEFINE S == w[1]
             list == w[2]
  <2>1. /\ \A i \in DOMAIN list :
             list[i] \in Cabinets /\ Remains(S, list[i]) \in 0..Shelf[list[i]].Quantity
        /\ v = ListLook(root, S, list)
    BY <1>1, <1>2, <1>4, ListShown
  <2> HIDE DEF S, list, v, root
  <2>2. ASSUME NEW i \in DOMAIN v PROVE ShownAsCabinet(root, v[i])
    <3>1. i \in DOMAIN list /\ v[i] = CabinetLook(root, list[i], Remains(S, list[i]))
      BY <2>1 DEF ListLook
    <3> QED
      BY <1>3, <1>4, <2>1, <3>1, LookIsWell
  <2>3. ShownWell(root, v)
    BY <1>4, <2>2 DEF ShownWell
  <2> QED
    BY <2>3 DEF root, v
<1>5. CASE root.name = "cabinet"
  <2>1. /\ root.cab \in Cabinets /\ w \in 0..Shelf[root.cab].Quantity
        /\ v = CabinetLook(root, root.cab, w)
    BY <1>1, <1>2, <1>5, StockShown
  <2> HIDE DEF v, root
  <2>2. ShownAsCabinet(root, v)
    BY <1>3, <1>5, <2>1, LookIsWell
  <2>3. ShownWell(root, v)
    BY <1>5, <2>2 DEF ShownWell
  <2> QED
    BY <2>3 DEF root, v
<1>6. CASE root.name \in {"order", "createOrder"}
  <2>1. Shown(f, {"order", "createOrder"})
    BY <1>6 DEF Shown
  <2>2. ShownAsOrder(root, v)
    BY <2>1, OrderIsShownWell
  <2> HIDE DEF v, root
  <2>3. ShownWell(root, v)
    BY <1>6, <2>2 DEF ShownWell
  <2> QED
    BY <2>3 DEF root, v
<1> QED
  BY <1>3, <1>4, <1>5, <1>6

\* Messages fit: a request is that of the document, a reply is made from a source, and
\* whatever is made from a source fits.
LEMMA TruthIsTyped == Truth => TypeOK
<1> SUFFICES ASSUME Truth PROVE TypeOK
  OBVIOUS
<1>1. stage \in [Fields -> Stages] /\ row \in [Fields -> orders \cup {Nobody}]
  BY DEF Truth, FieldTruth, Wire, KeyInv, Shaped, Formed
<1>2. ASSUME NEW f \in Fields
      PROVE  /\ stage[f] \in {"sent", "taken"} => message[f] \in RequestOf(Root(f).name)
             /\ stage[f] \in {"replied", "returned"} => message[f].code \in Codes
             /\ stage[f] = "replied" /\ message[f].code = "OK" =>
                  message[f].body \in ReplyOf(Root(f).name)
             /\ stage[f] = "returned" <=> value[f] # Nobody
             /\ value[f] \notin {Nobody, Null} => ShownWell(Root(f), value[f])
  <2>1. Wire(f, stage[f], message[f], row[f]) /\ Outcome(f, stage[f], message[f], value[f])
    BY DEF Truth, FieldTruth
  <2>2. stage[f] # "none" => f \in FieldsOf(f[1])
    BY <2>1 DEF Wire
  <2>3. stage[f] \in {"sent", "taken"} => message[f] \in RequestOf(Root(f).name)
    BY <2>1, <2>2, RequestsFit DEF Wire
  <2>4. stage[f] = "replied" /\ message[f].code = "OK" => message[f].body \in ReplyOf(Root(f).name)
    BY <2>1, <2>2, SourcesFit DEF Outcome
  <2>5. stage[f] = "returned" <=> value[f] # Nobody
    BY <2>1, <2>2, SourcesFit, ShownAssumption DEF Outcome
  <2> QED
    BY <2>1, <2>3, <2>4, <2>5, ValueIsWell DEF Outcome
<1>3. ASSUME NEW c \in Cabinets PROVE left[c] \in Range32
  <2>1. left[c] \in 0..Shelf[c].Quantity
    BY DEF Truth, Ledger
  <2> QED
    BY <2>1, RowFits
<1>4. \A p \in Posts : post[p] = Nobody => response[p] = Nobody
  BY DEF Truth, PostTruth
<1>5. orders \subseteq Order
  BY OrdersAreWell DEF Well, Order
<1> QED
  BY <1>1, <1>2, <1>3, <1>4, <1>5 DEF TypeOK

\* The order that is shown is there, and Turns says that it wants less.
LEMMA TruthTakesTurns == Truth => MutationInOrder
<1> SUFFICES ASSUME Truth, NEW f \in Fields, NEW g \in Fields, f[1] = g[1], f[2] < g[2],
                    stage[f] = "returned", message[f].code = "FailedPrecondition",
                    \A i \in DOMAIN Root(f).items : Root(f).items[i].cab \in Cabinets,
                    OrderShown(g), value[g].id = g
             PROVE  WantsLess(g, f)
  BY DEF MutationInOrder, WantsLess
<1>1. Before(f, g) /\ Refused(f)
  BY DEF Before, Refused, Known
<1>2. \E o \in orders : o.id = g
  <2>1. Shown(g, {"order", "createOrder"}) /\ "id" \in DOMAIN value[g]
    BY DEF OrderShown
  <2> QED
    BY <2>1, OrderIsShown DEF Says
<1> QED
  BY <1>1, <1>2 DEF Truth, Turns

\* A field whose value is Null has failed, one that has failed has no other value.
LEMMA NullIsError ==
  ASSUME Truth, NEW f \in Fields, stage[f] = "returned"
  PROVE  value[f] = Null <=> message[f].code # "OK"
<1>1. f \in FieldsOf(f[1]) /\ Outcome(f, stage[f], message[f], value[f])
  BY DEF Truth, FieldTruth, Wire
<1> QED
  BY <1>1, SourcesFit DEF Outcome

\* The answer is made of the fields as they returned, and an order comes with an answer
\* of the catalog that is no refusal.
LEMMA TruthAnswersAllOrErrors == Truth => AllOrErrors
<1> SUFFICES ASSUME Truth, NEW p \in Posts, response[p] # Nobody
             PROVE  IF response[p].errors = {}
                      THEN response[p].data # Null /\ \A f \in FieldsOf(p) : message[f].code = "OK"
                      ELSE /\ response[p].data = Null
                           /\ \A e \in response[p].errors :
                                /\ e.code # "OK"
                                /\ e.code \notin {"Internal", "Unavailable"} =>
                                     \A o \in orders : o.id # e.path
  BY DEF AllOrErrors
<1>1. /\ \A f \in FieldsOf(p) : stage[f] = "returned"
      /\ response[p].data = Data(p) /\ response[p].errors = Errors(p)
  <2>1. response[p] = [data |-> Data(p), errors |-> Errors(p)]
    BY DEF Truth, PostTruth
  <2>2. \A f \in FieldsOf(p) : stage[f] = "returned"
    BY DEF Truth, PostTruth
  <2> QED
    BY <2>1, <2>2
<1>2. \A f \in FieldsOf(p) : f \in Fields /\ f[1] = p
  BY DEF FieldsOf
<1>3. \A f \in FieldsOf(p) : value[f] = Null <=> message[f].code # "OK"
  BY <1>1, <1>2, NullIsError
<1>4. CASE Errors(p) = {}
  <2>1. ASSUME NEW f \in FieldsOf(p) PROVE value[f] # Null
    <3>1. ASSUME value[f] = Null PROVE [path |-> f, code |-> message[f].code] \in Errors(p)
      BY <3>1 DEF Errors
    <3> QED
      BY <1>4, <3>1
  <2>2. Data(p) = [f \in FieldsOf(p) |-> value[f]]
    BY <2>1 DEF Data
  <2>3. ASSUME NEW f \in FieldsOf(p)
        PROVE  value[f] \in UNION {ShownFor(root) : root \in Roots}
    <3>1. f \in Fields /\ f \in FieldsOf(f[1]) /\ stage[f] = "returned"
      BY <1>1, <1>2
    <3>2. Root(f) \in Roots
      BY <3>1, FieldAsks
    <3>3. value[f] # Null
      BY <2>1
    <3>4. message[f].code = "OK"
      BY <1>3, <3>3
    <3>5. PICK w \in Sources(f) : value[f] = Display(f, Body(f, w))
      BY <3>1, <3>4 DEF Truth, FieldTruth, Outcome
    <3>6. value[f] \in ShownFor(Root(f))
      BY <3>1, <3>5, SourcesFit
    <3> QED
      BY <3>2, <3>6
  <2>4. FieldsOf(p) \in SUBSET Fields
    BY <1>2
  <2> DEFINE T == UNION {ShownFor(root) : root \in Roots}
  <2>5. Null \notin [FieldsOf(p) -> T]
    BY <2>4, ShownAssumption
  <2>6. \A f \in FieldsOf(p) : value[f] \in T
    BY <2>3
  <2> HIDE DEF T
  <2>7. Data(p) # Null
    BY <2>2, <2>5, <2>6
  <2> QED
    BY <1>1, <1>3, <1>4, <2>1, <2>7
<1>5. CASE Errors(p) # {}
  <2>1. ASSUME NEW e \in Errors(p)
        PROVE  /\ e.path \in FieldsOf(p) /\ value[e.path] = Null /\ e.code = message[e.path].code
    BY DEF Errors
  <2>2. Data(p) = Null
    BY <1>5, <2>1 DEF Data
  <2>3. ASSUME NEW e \in Errors(p)
        PROVE  /\ e.code # "OK"
               /\ e.code \notin {"Internal", "Unavailable"} => \A o \in orders : o.id # e.path
    <3> DEFINE f == e.path
    <3>1. f \in FieldsOf(p) /\ f \in Fields /\ e.code = message[f].code /\ stage[f] = "returned"
      BY <1>1, <1>2, <2>1
    <3> HIDE DEF f
    <3>2. e.code # "OK"
      BY <1>3, <2>1, <3>1 DEF f
    <3>3. ASSUME e.code \notin {"Internal", "Unavailable"}, NEW o \in orders, o.id = f PROVE FALSE
      <4>1. request[f] = Nobody \/ answer[f].result \notin {"none", "ok", "Internal"}
        BY <3>1, <3>2, <3>3 DEF Truth, FieldTruth, Refusal
      <4>2. request[f] # Nobody /\ answer[f].result \in {"ok", "Internal"}
        BY <3>3 DEF Truth, Ledger
      <4> QED
        BY <4>1, <4>2
    <3> QED
      BY <3>2, <3>3 DEF f
  <2> QED
    BY <1>1, <1>5, <2>2, <2>3
<1> QED
  BY <1>4, <1>5

-----------------------------------------------------------------------------
(* What a list of lines takes from the stock.                              *)

\* It is a number, and none below zero unless the request is malformed.
LEMMA WantedFits ==
  ASSUME NEW items \in Seq(Request), NEW c
  PROVE  /\ Catalog!Wanted(items, c) \in Int
         /\ (\A i \in DOMAIN items : ~(items[i].qty <= 0)) => Catalog!Wanted(items, c) \in Nat
<1> DEFINE D == {i \in DOMAIN items : items[i].cab = c}
           fun == [i \in DOMAIN items |-> items[i].qty]
<1>1. IsFiniteSet(D)
  <2>1. DOMAIN items = 1..Len(items) /\ Len(items) \in Nat
    OBVIOUS
  <2>2. IsFiniteSet(DOMAIN items)
    BY <2>1, FS_Interval
  <2> QED
    BY <2>2, FS_Subset
<1>2. \A i \in D : fun[i] = items[i].qty /\ items[i].qty \in Int
  <2>1. ASSUME NEW i \in DOMAIN items PROVE items[i].qty \in Int
    <3>1. items[i] \in Request
      OBVIOUS
    <3> QED
      BY <3>1, RangesNest DEF Request
  <2> QED
    BY <2>1
<1>3. Catalog!Wanted(items, c) = SumFunctionOnSet(fun, D)
  BY CatalogAdds DEF Catalog!Wanted
<1>4. (\A i \in DOMAIN items : ~(items[i].qty <= 0)) => \A i \in D : fun[i] \in Nat
  BY <1>2
<1> HIDE DEF D, fun
<1> QED
  BY <1>1, <1>2, <1>3, <1>4, SumNat, SumRemove

\* What the orders in S have taken is a number too, and one more order takes its own.
LEMMA SoldFits ==
  ASSUME Truth, NEW S \in SUBSET orders, NEW c
  PROVE  IsFiniteSet(S) /\ SoldIn(S, c) \in Int /\ \A o \in S : Catalog!Wanted(o.items, c) \in Int
<1> DEFINE fun == [o \in S |-> Catalog!Wanted(o.items, c)]
<1>1. IsFiniteSet(S)
  BY FS_Subset DEF Truth, Ledger
<1>2. ASSUME NEW o \in S PROVE Catalog!Wanted(o.items, c) \in Int
  <2> DEFINE f == o.id
  <2>1. f \in Fields /\ request[f] # Nobody /\ o.items = request[f].items
    BY DEF Truth, Ledger, OrderOf
  <2> HIDE DEF f
  <2>2. request[f].items \in Seq(Request)
    BY <2>1, AskedFor, CallAsks
  <2> QED
    BY <2>1, <2>2, WantedFits
<1>3. SoldIn(S, c) = SumFunctionOnSet(fun, S) /\ \A o \in S : fun[o] \in Int
  BY <1>2 DEF SoldIn
<1> HIDE DEF fun
<1> QED
  BY <1>1, <1>2, <1>3, SumRemove

\* What is sold with one order more is what was sold and what this one takes.
LEMMA OneMoreSold ==
  ASSUME Truth, NEW new, new \notin orders, NEW c, Catalog!Wanted(new.items, c) \in Int
  PROVE  SoldIn(orders \cup {new}, c) = SoldIn(orders, c) + Catalog!Wanted(new.items, c)
<1> DEFINE fun == [o \in orders \cup {new} |-> Catalog!Wanted(o.items, c)]
           old == [o \in orders |-> Catalog!Wanted(o.items, c)]
<1>1. IsFiniteSet(orders) /\ \A o \in orders : Catalog!Wanted(o.items, c) \in Int
  BY SoldFits
<1>2. /\ \A o \in orders : fun[o] \in Int /\ old[o] = fun[o]
      /\ fun[new] = Catalog!Wanted(new.items, c)
  BY <1>1
<1>3. SoldIn(orders \cup {new}, c) = SumFunctionOnSet(fun, orders \cup {new})
  BY DEF SoldIn
<1>4. SoldIn(orders, c) = SumFunctionOnSet(old, orders)
  BY DEF SoldIn
<1> HIDE DEF fun, old
<1>5. SumFunctionOnSet(fun, orders \cup {new}) = SumFunctionOnSet(fun, orders) + fun[new]
  BY <1>1, <1>2, SumAdd
<1>6. SumFunctionOnSet(fun, orders) = SumFunctionOnSet(old, orders)
  BY <1>1, <1>2, SumSame
<1> QED
  BY <1>2, <1>3, <1>4, <1>5, <1>6

-----------------------------------------------------------------------------
(* The beginning.                                                          *)

\* At the beginning nothing is posted, and everything is on the shelf.
LEMMA TruthInit == Init => Truth
<1> SUFFICES ASSUME Init PROVE Truth
  OBVIOUS
<1>1. /\ left = [c \in Cabinets |-> Shelf[c].Quantity] /\ orders = {}
      /\ request = [f \in Fields |-> Nobody]
      /\ answer = [f \in Fields |-> [result |-> "none", order |-> Nobody]]
      /\ post = [p \in Posts |-> Nobody] /\ seen = [p \in Posts |-> Nobody]
      /\ stage = [f \in Fields |-> "none"] /\ message = [f \in Fields |-> Nobody]
      /\ row = [f \in Fields |-> Nobody] /\ value = [f \in Fields |-> Nobody]
      /\ response = [p \in Posts |-> Nobody]
  BY DEF Init, Catalog!Init, InitStock
<1>2. KeyInv /\ Formed
  BY <1>1, KeysInit DEF Formed
<1>3. Ledger
  <2>1. \A c : SoldIn({}, c) = 0
    BY SumEmpty DEF SoldIn
  <2>2. \A c \in Cabinets : Shelf[c].Quantity \in Nat
    BY ShelfAssumption
  <2>3. past = {orders}
    BY DEF Init
  <2> QED
    BY <1>1, <2>1, <2>2, <2>3, FS_EmptySet DEF Ledger, Remains
<1>4. Turns
  BY <1>1 DEF Turns, Refused
<1>5. ASSUME NEW f \in Fields PROVE FieldTruth(f)
  BY <1>1 DEF FieldTruth, Wire, Outcome, Refusal, Requested, Stages, Catalog!Open
<1>6. ASSUME NEW p \in Posts PROVE PostTruth(p)
  BY <1>1 DEF PostTruth
<1> QED
  BY <1>2, <1>3, <1>4, <1>5, <1>6 DEF Truth
=============================================================================
