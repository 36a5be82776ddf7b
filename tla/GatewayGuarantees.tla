------------------------- MODULE GatewayGuarantees -------------------------
(***************************************************************************)
(* Proofs, for any operations and any shelf, of what a client of the       *)
(* gateway can rely on: every step of the gateway and of the catalog keeps *)
(* Truth, which implies it.                                                *)
(***************************************************************************)
EXTENDS GatewayTruth

-----------------------------------------------------------------------------
(* What a step leaves alone.                                               *)

\* The catalog only sells, and no instant is forgotten.
Onward ==
  /\ orders \subseteq orders' /\ past \subseteq past'
  /\ \A c \in Cabinets : left'[c] \in Int /\ left'[c] <= left[c]

\* What was posted is still what it was.
Stays(p) == post'[p] = post[p] /\ seen'[p] = seen[p]

\* What a field asks for, and what it is shown of a source, are those of its document.
LEMMA Steady ==
  ASSUME NEW f, post'[f[1]] = post[f[1]]
  PROVE  /\ Root(f)' = Root(f) /\ FieldsOf(f[1])' = FieldsOf(f[1]) /\ Known(f)' = Known(f)
         /\ Message(f)' = Message(f) /\ Call(f)' = Call(f)
         /\ \A w : Body(f, w)' = Body(f, w)
         /\ \A b : Display(f, b)' = Display(f, b)
         /\ \A o : Due(f, o)' = Due(f, o)
<1>1. Root(f)' = Root(f)
  BY DEF Root
<1>2. Call(f)' = Call(f)
  BY <1>1 DEF Call
<1>3. FieldsOf(f[1])' = FieldsOf(f[1])
  BY DEF FieldsOf
<1> QED
  BY <1>1, <1>2, <1>3 DEF Known, Message, Body, Display, Due

\* A source stays one: the orders and the instants of a query only grow.
LEMMA SourcesStay ==
  ASSUME Truth, NEW f \in Fields, Posted(f), Stays(f[1]), Onward
  PROVE  Sources(f) \subseteq Sources(f)'
<1>1. Root(f)' = Root(f) /\ \A o : Due(f, o)' = Due(f, o)
  BY Steady DEF Stays
<1>2. Instants(f) \subseteq Instants(f)'
  BY DEF Instants, Stays, Onward
<1>3. Stocks(f) \subseteq Stocks(f)'
  <2> SUFFICES ASSUME NEW q \in Stocks(f) PROVE q \in Stocks(f)'
    OBVIOUS
  <2> DEFINE c == Root(f).cab
             high == seen[f[1]].left[c]
  <2>1. c \in Cabinets /\ q \in left[c]..high
    BY DEF Stocks
  <2>2. left[c] \in Int /\ left'[c] \in Int /\ left'[c] <= left[c]
    BY <2>1 DEF Onward, Truth, Ledger
  <2>3. high \in Int
    <3>1. f[1] \in Posts /\ c \in Cabinets /\ Posted(f) /\ PostTruth(f[1])
      BY <2>1 DEF Truth, Fields
    <3>2. high \in left[c]..Shelf[c].Quantity
      BY <3>1 DEF PostTruth, Posted
    <3> QED
      BY <3>2
  <2>4. q \in left'[c]..high
    BY <2>1, <2>2, <2>3
  <2> QED
    BY <1>1, <2>1, <2>4 DEF Stocks, Stays
<1>4. Sales(f) \subseteq Sales(f)'
  <2>1. Orderings \subseteq Orderings' /\ orders \subseteq orders'
    BY DEF Orderings, Onward
  <2> QED
    BY <1>1, <2>1 DEF Sales
<1> QED
  BY <1>1, <1>2, <1>3, <1>4 DEF Sources

\* A field of which the catalog says nothing new.
LEMMA FieldKept ==
  ASSUME Truth, NEW f \in Fields, Posted(f), Stays(f[1]), Onward,
         request'[f] = request[f], answer'[f] = answer[f],
         NEW s, NEW m, NEW r, NEW v,
         stage'[f] = s, message'[f] = m, row'[f] = r, value'[f] = v,
         Wire(f, s, m, r), Outcome(f, s, m, v), Refusal(f, s, m)
  PROVE  FieldTruth(f)'
<1>1. /\ Root(f)' = Root(f) /\ FieldsOf(f[1])' = FieldsOf(f[1]) /\ Known(f)' = Known(f)
      /\ Message(f)' = Message(f) /\ Call(f)' = Call(f)
      /\ \A w : Body(f, w)' = Body(f, w)
      /\ \A b : Display(f, b)' = Display(f, b)
  BY Steady DEF Stays
<1>2. Sources(f) \subseteq Sources(f)'
  BY SourcesStay
<1>3. Wire(f, stage[f], message[f], row[f])'
  BY <1>1 DEF Wire, Onward
<1>4. Outcome(f, stage[f], message[f], value[f])'
  BY <1>1, <1>2 DEF Outcome
<1>5. Refusal(f, stage[f], message[f])'
  <2>1. ASSUME NEW c \in Cabinets, request[f] # Nobody, left[c] < Catalog!Wanted(request[f].items, c)
        PROVE  left'[c] < Catalog!Wanted(request[f].items, c)
    <3>1. Catalog!Wanted(request[f].items, c) \in Int
      BY <2>1, AskedFor, CallAsks, WantedFits
    <3>2. left[c] \in Int /\ left'[c] \in Int /\ left'[c] <= left[c]
      BY DEF Onward, Truth, Ledger
    <3> QED
      BY <2>1, <3>1, <3>2
  <2> QED
    BY <1>1, <2>1 DEF Refusal, Stays
<1>6. Requested(f)'
  BY <1>1 DEF Truth, FieldTruth, Requested, Catalog!Open
<1> QED
  BY <1>3, <1>4, <1>5, <1>6 DEF FieldTruth

\* A field that a step does not touch.
LEMMA AsideTruth ==
  ASSUME Truth, NEW f \in Fields, Onward, Posted(f) => Stays(f[1]),
         request'[f] = request[f], answer'[f] = answer[f],
         stage'[f] = stage[f], message'[f] = message[f], row'[f] = row[f], value'[f] = value[f]
  PROVE  FieldTruth(f)'
<1>1. FieldTruth(f)
  BY DEF Truth
<1>2. CASE Posted(f)
  BY <1>1, <1>2, FieldKept DEF FieldTruth
<1>3. CASE ~Posted(f)
  <2>1. f \notin FieldsOf(f[1])
    BY <1>3 DEF Posted, FieldsOf
  <2>2. stage[f] = "none" /\ request[f] = Nobody /\ value[f] = Nobody
    BY <1>1, <2>1 DEF FieldTruth, Wire, Outcome, Stages
  <2>3. row[f] \in orders \cup {Nobody}
    BY <1>1 DEF FieldTruth, Wire
  <2> QED
    BY <1>1, <2>2, <2>3 DEF FieldTruth, Wire, Outcome, Refusal, Requested, Onward, Catalog!Open
<1> QED
  BY <1>2, <1>3

\* The answer of an operation is what it was, and the stock one it may see.
LEMMA PostKept ==
  ASSUME Truth, NEW p \in Posts, Stays(p), Onward, response'[p] = response[p],
         \A f \in FieldsOf(p) : stage[f] = "returned" =>
           stage'[f] = "returned" /\ message'[f] = message[f] /\ value'[f] = value[f]
  PROVE  PostTruth(p)'
<1>1. PostTruth(p) /\ FieldsOf(p)' = FieldsOf(p)
  BY DEF Truth, Stays, FieldsOf
<1>2. ASSUME post[p] # Nobody, NEW c \in Cabinets
      PROVE  seen[p].left[c] \in left'[c]..Shelf[c].Quantity
  <2>1. seen[p].left[c] \in left[c]..Shelf[c].Quantity
    BY <1>1, <1>2 DEF PostTruth
  <2>2. left[c] \in Int /\ left'[c] \in Int /\ left'[c] <= left[c]
    BY DEF Onward, Truth, Ledger
  <2> QED
    BY <2>1, <2>2
<1>3. ASSUME response[p] # Nobody
      PROVE  Data(p)' = Data(p) /\ Errors(p)' = Errors(p)
  <2>1. \A f \in FieldsOf(p) : value'[f] = value[f] /\ message'[f] = message[f]
    BY <1>1, <1>3 DEF PostTruth
  <2> QED
    BY <1>1, <2>1 DEF Data, Errors
<1> QED
  BY <1>1, <1>2, <1>3 DEF PostTruth, Stays, Onward

\* A step of field h is in its turn, and refuses nothing for want of stock.
LEMMA TurnsKept ==
  ASSUME Truth, NEW h \in Fields, UNCHANGED <<post, orders>>,
         \A f \in Fields : request[f] # Nobody => request'[f] = request[f],
         \A f \in Fields \ {h} : stage'[f] = stage[f] /\ message'[f] = message[f],
         stage[h] = "returned" => stage'[h] = "returned",
         stage[h] = "none" => ItsTurn(h),
         Refused(h)' => Refused(h)
  PROVE  Turns'
<1> SUFFICES ASSUME NEW f \in Fields, NEW g \in Fields, Before(f, g)
             PROVE  /\ f \in FieldsOf(f[1]) /\ post[f[1]].op = "mutation" /\ stage'[g] # "none" =>
                         stage'[f] = "returned"
                    /\ Refused(f)' /\ (\E o \in orders : o.id = g) => WantsLess(g, f)'
  BY DEF Turns, Before, FieldsOf
<1>1. stage[f] = "returned" => stage'[f] = "returned"
  OBVIOUS
<1>2. ASSUME f \in FieldsOf(f[1]), post[f[1]].op = "mutation", stage'[g] # "none"
      PROVE  stage'[f] = "returned"
  <2>1. CASE stage[g] # "none"
    BY <1>1, <1>2, <2>1 DEF Truth, Turns
  <2>2. CASE stage[g] = "none"
    <3>1. g = h /\ ItsTurn(g) /\ f[1] = g[1] /\ f[2] < g[2]
      BY <1>2, <2>2 DEF Before
    <3> QED
      BY <1>1, <1>2, <3>1 DEF ItsTurn
  <2> QED
    BY <2>1, <2>2
<1>3. ASSUME Refused(f)', NEW o \in orders, o.id = g
      PROVE  WantsLess(g, f)'
  <2>1. Refused(f)
    BY <1>3 DEF Refused, Known, Root
  <2>2. WantsLess(g, f)
    BY <1>3, <2>1 DEF Truth, Turns
  <2>3. request'[g] = request[g] /\ request'[f] = request[f]
    BY <1>3, <2>1 DEF Truth, Ledger, FieldTruth, Refusal, Refused
  <2> QED
    BY <2>2, <2>3 DEF WantsLess
<1> QED
  BY <1>2, <1>3

\* Before the last stage the operation has no answer yet.
LEMMA NotAnswered ==
  ASSUME Truth, NEW f \in Fields, f \in FieldsOf(f[1]), stage[f] # "returned"
  PROVE  response[f[1]] = Nobody
<1>1. f[1] \in Posts
  BY DEF Fields
<1> QED
  BY <1>1 DEF Truth, PostTruth

\* A step of one field, at the gateway or in a read of the catalog.
LEMMA FieldStep ==
  ASSUME Truth, [Next]_vars, UNCHANGED <<post, seen, response, catalog>>,
         NEW f \in Fields, f \in FieldsOf(f[1]), stage[f] # "returned",
         stage[f] = "none" => ItsTurn(f),
         NEW s, NEW m, NEW r, NEW v,
         stage' = [stage EXCEPT ![f] = s], message' = [message EXCEPT ![f] = m],
         row' = [row EXCEPT ![f] = r], value' = [value EXCEPT ![f] = v],
         Wire(f, s, m, r), Outcome(f, s, m, v), Refusal(f, s, m),
         s \in {"replied", "returned"} /\ m.code = "FailedPrecondition" =>
           stage[f] = "replied" /\ message[f].code = "FailedPrecondition"
  PROVE  Truth'
<1>1. KeyInv'
  BY KeysStep DEF Truth
<1>2. /\ stage'[f] = s /\ message'[f] = m /\ row'[f] = r /\ value'[f] = v
      /\ \A g \in Fields \ {f} : /\ stage'[g] = stage[g] /\ message'[g] = message[g]
                                 /\ row'[g] = row[g] /\ value'[g] = value[g]
      /\ row' = [g \in Fields |-> row'[g]]
  BY DEF Truth, KeyInv, Shaped, Formed
<1>3. /\ \A p \in Posts : Stays(p)
      /\ UNCHANGED <<left, orders, request, answer, past>>
  BY DEF Stays, catalog
<1>4. Onward
  BY <1>3 DEF Onward, Truth, Ledger
<1>5. Formed'
  BY <1>2, <1>3 DEF Truth, Formed
<1>6. Ledger'
  <2>1. \A c : Remains(orders, c)' = Remains(orders, c)
    BY <1>3 DEF Remains
  <2>2. \A g : OrderOf(g)' = OrderOf(g)
    BY <1>3 DEF OrderOf
  <2> QED
    BY <1>3, <2>1, <2>2 DEF Truth, Ledger
<1>7. Turns'
  <2>1. Refused(f)' => Refused(f)
    BY <1>2 DEF Refused, Known, Root
  <2> QED
    BY <1>2, <1>3, <2>1, TurnsKept
<1>8. ASSUME NEW g \in Fields PROVE FieldTruth(g)'
  <2>1. g[1] \in Posts /\ Posted(f)
    BY FieldAsks DEF Fields
  <2>2. CASE g = f
    BY <1>2, <1>3, <1>4, <2>1, <2>2, FieldKept
  <2>3. CASE g # f
    BY <1>2, <1>3, <1>4, <2>1, <2>3, AsideTruth
  <2> QED
    BY <2>2, <2>3
<1>9. ASSUME NEW p \in Posts PROVE PostTruth(p)'
  BY <1>2, <1>3, <1>4, PostKept DEF FieldsOf
<1> QED
  BY <1>1, <1>5, <1>6, <1>7, <1>8, <1>9 DEF Truth

\* A step of one field that leaves its value, and its row, as they are.
LEMMA StepFits ==
  ASSUME Truth, [Next]_vars, NEW f \in Fields, f \in FieldsOf(f[1]),
         stage[f] \in {"none", "sent", "taken"}, stage[f] = "none" => ItsTurn(f),
         NEW s \in {"sent", "taken", "replied"}, NEW m, NEW r, Step(f, s, m), UNCHANGED catalog,
         \/ row' = row /\ r = row[f]
         \/ row' = [row EXCEPT ![f] = r],
         Wire(f, s, m, r), Outcome(f, s, m, Nobody), Refusal(f, s, m),
         s = "replied" => m.code # "FailedPrecondition"
  PROVE  Truth'
<1>1. value[f] = Nobody
  BY DEF Truth, FieldTruth, Outcome
<1>2. value' = [value EXCEPT ![f] = Nobody] /\ row' = [row EXCEPT ![f] = r]
  BY <1>1 DEF Step, Truth, KeyInv, Shaped, Formed
<1>3. UNCHANGED <<post, seen, response, catalog>>
  BY DEF Step
<1>4. stage' = [stage EXCEPT ![f] = s] /\ message' = [message EXCEPT ![f] = m]
  BY DEF Step
<1> QED
  BY <1>2, <1>3, <1>4, FieldStep

-----------------------------------------------------------------------------
(* The steps of the gateway and the reads of the catalog.                  *)

\* The gateway asks what the document says, or nothing.
LEMMA ResolveKeepsTruth ==
  ASSUME Truth, [Next]_vars, NEW f \in Fields, Resolve(f)
  PROVE  Truth'
<1>1. stage[f] = "none" /\ ItsTurn(f) /\ f \in FieldsOf(f[1])
  BY DEF Resolve, ResolveCabinets, ResolveCabinet, ResolveOrder, ResolveCreateOrder, RejectInput,
         Ready, ItsTurn
<1>2. request[f] = Nobody /\ row[f] \in orders \cup {Nobody}
  BY <1>1 DEF Truth, FieldTruth, Wire
<1>3. CASE Send(f, Message(f))
  <2>1. Wire(f, "sent", Message(f), row[f]) /\ Outcome(f, "sent", Message(f), Nobody)
        /\ Refusal(f, "sent", Message(f))
    BY <1>1, <1>2 DEF Wire, Outcome, Refusal, Stages
  <2> QED
    BY <1>1, <1>3, <2>1, StepFits DEF Send
<1>4. CASE RejectInput(f)
  <2> DEFINE m == [code |-> "BadInput", body |-> Null]
  <2>1. Wire(f, "replied", m, row[f]) /\ Outcome(f, "replied", m, Nobody) /\ Refusal(f, "replied", m)
    BY <1>1, <1>2 DEF Wire, Outcome, Refusal, Stages, Codes
  <2>2. Step(f, "replied", m) /\ UNCHANGED <<row, catalog>> /\ m.code # "FailedPrecondition"
    BY <1>4 DEF RejectInput, Reply
  <2> HIDE DEF m
  <2> QED
    BY <1>1, <2>1, <2>2, StepFits
<1>5. CASE ResolveCabinets(f) \/ ResolveCabinet(f) \/ ResolveOrder(f) \/ ResolveCreateOrder(f)
  BY <1>3, <1>5 DEF ResolveCabinets, ResolveCabinet, ResolveOrder, ResolveCreateOrder, Ready, Message
<1> QED
  BY <1>4, <1>5 DEF Resolve

\* A reply that says why not, for a reason that stays.
LEMMA NoReplyFits ==
  ASSUME Truth, [Next]_vars, NEW f \in Fields, f \in FieldsOf(f[1]), stage[f] \in {"sent", "taken"},
         NEW code \in {"NotFound", "Internal", "Unavailable"}, Reply(f, code, Null), UNCHANGED catalog,
         row' = row \/ row' = [row EXCEPT ![f] = Nobody],
         code = "NotFound" =>
           /\ stage[f] = "sent"
           /\ Root(f).name = "cabinet" => Root(f).cab \notin Cabinets
           /\ Root(f).name = "order" => \A o \in seen[f[1]].orders : o.id # Root(f).order
  PROVE  Truth'
<1> DEFINE m == [code |-> code, body |-> Null]
<1>1. m.code = code /\ DOMAIN m = {"code", "body"} /\ Step(f, "replied", m)
  BY DEF Reply
<1>2. row[f] \in orders \cup {Nobody} /\ (stage[f] = "sent" => request[f] = Nobody)
  BY DEF Truth, FieldTruth, Wire
<1> HIDE DEF m
<1>3. /\ Wire(f, "replied", m, row[f]) /\ Wire(f, "replied", m, Nobody)
      /\ Outcome(f, "replied", m, Nobody) /\ Refusal(f, "replied", m)
  BY <1>1, <1>2 DEF Wire, Outcome, Refusal, Stages, Codes
<1> QED
  BY <1>1, <1>3, StepFits

\* A reply with a body, made from a source.
LEMMA ReplyFits ==
  ASSUME Truth, [Next]_vars, NEW f \in Fields, f \in FieldsOf(f[1]), stage[f] \in {"sent", "taken"},
         NEW w \in Sources(f), Reply(f, "OK", Body(f, w)), UNCHANGED catalog,
         row' = row \/ row' = [row EXCEPT ![f] = Nobody]
  PROVE  Truth'
<1> DEFINE m == [code |-> "OK", body |-> Body(f, w)]
<1>1. m.code = "OK" /\ m.body = Body(f, w) /\ DOMAIN m = {"code", "body"} /\ Step(f, "replied", m)
  BY DEF Reply
<1>2. row[f] \in orders \cup {Nobody}
  BY DEF Truth, FieldTruth, Wire
<1> HIDE DEF m
<1>3. /\ Wire(f, "replied", m, row[f]) /\ Wire(f, "replied", m, Nobody)
      /\ Outcome(f, "replied", m, Nobody) /\ Refusal(f, "replied", m)
  BY <1>1, <1>2 DEF Wire, Outcome, Refusal, Stages, Codes
<1> QED
  BY <1>1, <1>3, StepFits

\* A read answers from the tables as they are; one of an order from a row it has read,
\* which stays.
LEMMA ReadKeepsTruth ==
  ASSUME Truth, [Next]_vars, NEW f \in Fields,
         \/ HandleListCabinets(f) \/ HandleGetCabinet(f) \/ HandleGetOrder(f)
         \/ OrderNotFound(f) \/ HandleOrderItems(f) \/ ReadFails(f) \/ Break(f)
  PROVE  Truth'
<1>1. stage[f] \in {"sent", "taken"}
  BY DEF HandleListCabinets, HandleGetCabinet, HandleGetOrder, OrderNotFound, HandleOrderItems,
         ReadFails, Break, Sent
<1>2. f \in FieldsOf(f[1]) /\ message[f] = Message(f) /\ f[1] \in Posts /\ Posted(f)
  BY <1>1 DEF Truth, FieldTruth, Wire, FieldsOf, Fields, Posted
<1>3. /\ seen[f[1]].orders \subseteq orders
      /\ \A c \in Cabinets : seen[f[1]].left[c] \in left[c]..Shelf[c].Quantity
  BY <1>2 DEF Truth, PostTruth, Posted
<1>4. \A c \in Cabinets : left[c] \in 0..Shelf[c].Quantity /\ left[c] = Remains(orders, c)
  BY DEF Truth, Ledger
<1>5. CASE HandleListCabinets(f)
  <2>1. PICK list \in SetToSeqs(Cabinets) :
          Reply(f, "OK", [Cabinets |-> [i \in DOMAIN list |-> CabinetReply(RowOf(list[i]))]])
    BY <1>5 DEF HandleListCabinets
  <2>2. Root(f).name = "cabinets" /\ UNCHANGED <<row, catalog>>
    BY <1>5 DEF HandleListCabinets, Sent
  <2>3. \A i \in DOMAIN list : list[i] \in Cabinets
    BY <2>1 DEF SetToSeqs
  <2>4. \A i \in DOMAIN list : RowOf(list[i]) = RowWith(list[i], Remains(orders, list[i]))
    BY <1>4, <2>3 DEF RowOf, RowWith
  <2> DEFINE w == <<orders, list>>
  <2>5. [i \in DOMAIN list |-> CabinetReply(RowOf(list[i]))] =
          [i \in DOMAIN list |-> CabinetReply(RowWith(list[i], Remains(orders, list[i])))]
    BY <2>4
  <2>6. w[1] = orders /\ w[2] = list
    OBVIOUS
  <2>7. w \in Instants(f) \X Lists
    <3>1. orders \in past
      BY DEF Truth, Ledger
    <3> QED
      BY <1>3, <1>4, <2>1, <3>1 DEF Instants, Lists
  <2> HIDE DEF w
  <2>8. Reply(f, "OK", Body(f, w)) /\ w \in Sources(f)
    BY <2>1, <2>2, <2>5, <2>6, <2>7 DEF Body, ListReply, Sources
  <2> QED
    BY <1>1, <1>2, <2>2, <2>8, ReplyFits
<1>6. CASE HandleGetCabinet(f)
  <2> DEFINE c == Root(f).cab
  <2>1. Root(f).name = "cabinet" /\ UNCHANGED <<row, catalog>> /\ stage[f] = "sent" /\ message[f].Id = c
    BY <1>2, <1>6 DEF HandleGetCabinet, Sent, Message
  <2>2. CASE c \in Cabinets
    <3>1. Reply(f, "OK", [Cabinet |-> CabinetReply(RowWith(c, left[c]))])
      BY <1>6, <2>1, <2>2 DEF HandleGetCabinet, RowOf, RowWith
    <3>2. left[c] \in Stocks(f)
      <4> HIDE DEF c
      <4>1. left[c] \in left[c]..seen[f[1]].left[c]
        BY <1>3, <1>4, <2>2
      <4> QED
        BY <2>2, <4>1 DEF Stocks, c
    <3>3. Reply(f, "OK", Body(f, left[c])) /\ left[c] \in Sources(f)
      BY <2>1, <3>1, <3>2 DEF Body, Sources
    <3> QED
      BY <1>1, <1>2, <2>1, <3>3, ReplyFits
  <2>3. CASE c \notin Cabinets
    <3>1. Reply(f, "NotFound", Null)
      BY <1>6, <2>1, <2>3 DEF HandleGetCabinet
    <3> QED
      BY <1>2, <2>1, <2>3, <3>1, NoReplyFits
  <2> QED
    BY <2>2, <2>3
<1>7. CASE HandleGetOrder(f)
  <2>1. PICK o \in orders : /\ o.id = message[f].Id /\ row' = [row EXCEPT ![f] = o]
                            /\ Step(f, "taken", message[f])
    BY <1>7 DEF HandleGetOrder
  <2>2. Root(f).name = "order" /\ UNCHANGED catalog /\ message[f].Id = Root(f).order
    BY <1>2, <1>7 DEF HandleGetOrder, Sent, Message
  <2>3. /\ Wire(f, "taken", message[f], o) /\ Outcome(f, "taken", message[f], Nobody)
        /\ Refusal(f, "taken", message[f])
    BY <1>2, <2>1, <2>2 DEF Wire, Outcome, Refusal, Stages
  <2> QED
    BY <1>1, <1>2, <2>1, <2>2, <2>3, StepFits
<1>8. CASE OrderNotFound(f)
  <2>1. /\ Reply(f, "NotFound", Null) /\ UNCHANGED <<row, catalog>> /\ stage[f] = "sent"
        /\ Root(f).name = "order" /\ \A o \in orders : o.id # Root(f).order
    BY <1>2, <1>8 DEF OrderNotFound, Sent, Message
  <2> QED
    BY <1>2, <1>3, <2>1, NoReplyFits
<1>9. CASE HandleOrderItems(f)
  <2> DEFINE o == row[f]
  <2>1. /\ stage[f] = "taken" /\ Root(f).name = "order" /\ row' = [row EXCEPT ![f] = Nobody]
        /\ UNCHANGED catalog
    BY <1>9 DEF HandleOrderItems
  <2>2. PICK items \in Reordered(o.items) : Reply(f, "OK", OrderReply(o, items))
    BY <1>9 DEF HandleOrderItems
  <2>3. o \in orders /\ o.id = Root(f).order
    BY <2>1 DEF Truth, FieldTruth, Wire
  <2> HIDE DEF o
  <2>4. PICK pi \in SetToSeqs(DOMAIN o.items) : items = Permuted(o.items, pi)
    BY <2>2 DEF Reordered, Permuted
  <2> DEFINE w == <<o, pi>>
  <2>5. w[1] = o /\ w[2] = pi /\ w \in orders \X Orderings
    BY <2>3, <2>4 DEF Orderings
  <2> HIDE DEF w
  <2>6. w \in Sources(f) /\ Body(f, w) = OrderReply(o, items)
    BY <2>1, <2>3, <2>4, <2>5 DEF Sources, Sales, Body, Due
  <2> QED
    BY <1>2, <2>1, <2>2, <2>6, ReplyFits
<1>10. CASE ReadFails(f)
  <2>1. Reply(f, "Internal", Null) /\ row' = [row EXCEPT ![f] = Nobody] /\ UNCHANGED catalog
    BY <1>10 DEF ReadFails
  <2> QED
    BY <1>1, <1>2, <2>1, NoReplyFits
<1>11. CASE Break(f)
  <2>1. Reply(f, "Unavailable", Null) /\ row' = [row EXCEPT ![f] = Nobody] /\ UNCHANGED catalog
    BY <1>11 DEF Break
  <2> QED
    BY <1>1, <1>2, <2>1, NoReplyFits
<1> QED
  BY <1>5, <1>6, <1>7, <1>8, <1>9, <1>10, <1>11

\* A resolver returns: its value is what the reply shows, or Null with its error.
LEMMA ResolvedFits ==
  ASSUME Truth, [Next]_vars, NEW f \in Fields, f \in FieldsOf(f[1]), stage[f] = "replied",
         NEW v, Resolved(f, v),
         v = IF message[f].code = "OK" THEN Display(f, message[f].body) ELSE Null
  PROVE  Truth'
<1> DEFINE old == message[f]
           m == [old EXCEPT !.body = Null]
<1>1. /\ stage' = [stage EXCEPT ![f] = "returned"] /\ message' = [message EXCEPT ![f] = m]
      /\ value' = [value EXCEPT ![f] = v] /\ UNCHANGED <<post, seen, row, response, catalog>>
  BY DEF Resolved
<1>2. Wire(f, "replied", old, row[f]) /\ Outcome(f, "replied", old, value[f]) /\ Refusal(f, "replied", old)
  BY DEF Truth, FieldTruth
<1>3. m.code = old.code /\ DOMAIN m = DOMAIN old
  BY <1>2 DEF Outcome
<1>4. row' = [row EXCEPT ![f] = row[f]]
  BY <1>1 DEF Truth, Formed
<1> HIDE DEF m, old
<1>5. Wire(f, "returned", m, row[f])
  BY <1>2 DEF Wire, Stages
<1>6. Outcome(f, "returned", m, v)
  BY <1>2, <1>3 DEF Outcome, old
<1>7. Refusal(f, "returned", m)
  BY <1>2, <1>3 DEF Refusal
<1> QED
  BY <1>1, <1>3, <1>4, <1>5, <1>6, <1>7, FieldStep DEF old

\* The resolvers return.
LEMMA ReturnKeepsTruth ==
  ASSUME Truth, [Next]_vars, NEW f \in Fields, Return(f)
  PROVE  Truth'
<1>1. stage[f] = "replied"
  BY DEF Return, ReturnCabinets, ReturnCabinet, ReturnOrder, ReturnError, Replied
<1>2. f \in FieldsOf(f[1])
  BY <1>1 DEF Truth, FieldTruth, Wire
<1>3. CASE ReturnCabinets(f)
  <2>1. Resolved(f, Display(f, message[f].body)) /\ message[f].code = "OK"
    BY <1>3 DEF ReturnCabinets, Replied, Display
  <2> QED
    BY <1>1, <1>2, <2>1, ResolvedFits
<1>4. CASE ReturnCabinet(f)
  <2>1. Resolved(f, Display(f, message[f].body)) /\ message[f].code = "OK"
    BY <1>4 DEF ReturnCabinet, Replied, Display
  <2> QED
    BY <1>1, <1>2, <2>1, ResolvedFits
<1>5. CASE ReturnOrder(f)
  <2>1. Resolved(f, Display(f, message[f].body)) /\ message[f].code = "OK"
    BY <1>5 DEF ReturnOrder, Replied, Display
  <2> QED
    BY <1>1, <1>2, <2>1, ResolvedFits
<1>6. CASE ReturnError(f)
  <2>1. Resolved(f, Null) /\ message[f].code # "OK"
    BY <1>6 DEF ReturnError
  <2> QED
    BY <1>1, <1>2, <2>1, ResolvedFits
<1> QED
  BY <1>3, <1>4, <1>5, <1>6 DEF Return

\* A step in which no field moves.
LEMMA FieldsRest ==
  ASSUME Truth, [Next]_vars, UNCHANGED <<stage, message, row, value, catalog>>,
         \A p \in Posts : post[p] # Nobody => Stays(p),
         seen' = [p \in Posts |-> seen'[p]], response' = [p \in Posts |-> response'[p]],
         \A p \in Posts : (Stays(p) /\ response'[p] = response[p]) \/ PostTruth(p)'
  PROVE  Truth'
<1>1. KeyInv' /\ UNCHANGED <<left, orders, request, answer, past>>
  BY KeysStep DEF Truth, catalog
<1>2. Onward
  BY <1>1 DEF Onward, Truth, Ledger
<1>3. Formed'
  BY <1>1 DEF Truth, Formed
<1>4. Ledger'
  <2>1. \A c : Remains(orders, c)' = Remains(orders, c)
    BY <1>1 DEF Remains
  <2>2. \A g : OrderOf(g)' = OrderOf(g)
    BY <1>1 DEF OrderOf
  <2> QED
    BY <1>1, <2>1, <2>2 DEF Truth, Ledger
<1>5. ASSUME NEW f \in Fields PROVE FieldTruth(f)'
  <2>1. Posted(f) => Stays(f[1])
    BY DEF Posted, Fields
  <2> QED
    BY <1>1, <1>2, <2>1, AsideTruth
<1>6. ASSUME NEW p \in Posts PROVE PostTruth(p)'
  BY <1>2, PostKept
<1>7. Turns'
  <2> SUFFICES ASSUME NEW f \in Fields, NEW g \in Fields, Before(f, g)
               PROVE  /\ f \in FieldsOf(f[1])' /\ post'[f[1]].op = "mutation" /\ stage[g] # "none" =>
                           stage[f] = "returned"
                      /\ Refused(f)' /\ (\E o \in orders : o.id = g) => WantsLess(g, f)'
    BY <1>1 DEF Turns, Before
  <2>1. f[1] \in Posts /\ f[1] = g[1]
    BY DEF Fields, Before
  <2>2. CASE post[f[1]] = Nobody
    <3>1. stage[f] = "none" /\ stage[g] = "none"
      BY <2>1, <2>2 DEF Truth, FieldTruth, Wire, FieldsOf
    <3> QED
      BY <3>1 DEF Refused
  <2>3. CASE post[f[1]] # Nobody
    <3>1. /\ FieldsOf(f[1])' = FieldsOf(f[1]) /\ post'[f[1]] = post[f[1]]
          /\ Refused(f)' = Refused(f) /\ WantsLess(g, f)' = WantsLess(g, f)
      BY <1>1, <2>1, <2>3, Steady DEF Stays, Refused, WantsLess
    <3> QED
      BY <1>1, <3>1 DEF Truth, Turns
  <2> QED
    BY <2>2, <2>3
<1> QED
  BY <1>1, <1>3, <1>4, <1>5, <1>6, <1>7 DEF Truth

\* A client posts an operation, and sees the stock and the orders of this instant.
LEMMA PostKeepsTruth ==
  ASSUME Truth, [Next]_vars, NEW p \in Posts, Post(p)
  PROVE  Truth'
<1>1. PICK d \in Documents[p] : post[p] = Nobody /\ post' = [post EXCEPT ![p] = d]
  BY DEF Post
<1>2. /\ seen' = [seen EXCEPT ![p] = [left |-> left, orders |-> orders]]
      /\ UNCHANGED <<stage, message, row, value, response, catalog>>
  BY DEF Post
<1>3. /\ post'[p] = d /\ seen'[p].left = left /\ seen'[p].orders = orders
      /\ \A q \in Posts \ {p} : Stays(q)
      /\ seen' = [q \in Posts |-> seen'[q]]
  BY <1>1, <1>2 DEF Truth, KeyInv, Shaped, Formed, Stays
<1>4. PostTruth(p)'
  <2>1. response'[p] = Nobody /\ UNCHANGED <<left, orders>>
    BY <1>1, <1>2 DEF Truth, PostTruth, catalog
  <2>2. \A c \in Cabinets : left[c] \in left[c]..Shelf[c].Quantity
    <3>1. ASSUME NEW c \in Cabinets PROVE left[c] \in left[c]..Shelf[c].Quantity
      <4>1. left[c] \in 0..Shelf[c].Quantity
        BY DEF Truth, Ledger
      <4> QED
        BY <4>1
    <3> QED
      BY <3>1
  <2> QED
    BY <1>3, <2>1, <2>2 DEF PostTruth
<1>5. response' = [q \in Posts |-> response'[q]]
  BY <1>2 DEF Truth, Formed
<1> QED
  BY <1>1, <1>2, <1>3, <1>4, <1>5, FieldsRest

\* An operation is answered with what its fields returned.
LEMMA RespondKeepsTruth ==
  ASSUME Truth, [Next]_vars, NEW p \in Posts, Respond(p)
  PROVE  Truth'
<1>1. /\ post[p] # Nobody /\ \A f \in FieldsOf(p) : stage[f] = "returned"
      /\ response' = [response EXCEPT ![p] = [data |-> Data(p), errors |-> Errors(p)]]
      /\ UNCHANGED <<post, seen, stage, message, row, value, catalog>>
  BY DEF Respond, Errors
<1>2. \A q \in Posts : Stays(q)
  BY <1>1 DEF Stays
<1>3. /\ response'[p] = [data |-> Data(p), errors |-> Errors(p)]
      /\ \A q \in Posts \ {p} : response'[q] = response[q]
      /\ response' = [q \in Posts |-> response'[q]] /\ seen' = [q \in Posts |-> seen'[q]]
  BY <1>1 DEF Truth, Formed
<1>4. PostTruth(p)'
  <2>1. FieldsOf(p)' = FieldsOf(p) /\ Data(p)' = Data(p) /\ Errors(p)' = Errors(p)
    BY <1>1 DEF FieldsOf, Data, Errors
  <2>2. UNCHANGED <<post, seen, stage, left, orders>>
    BY <1>1 DEF catalog
  <2> QED
    BY <1>1, <1>3, <2>1, <2>2 DEF Truth, PostTruth
<1> QED
  BY <1>1, <1>2, <1>3, <1>4, FieldsRest

\* Nothing happens.
LEMMA RestKeepsTruth ==
  ASSUME Truth, [Next]_vars, UNCHANGED vars
  PROVE  Truth'
<1>1. UNCHANGED <<post, seen, stage, message, row, value, response, catalog>>
  BY DEF vars, gateway
<1>2. \A p \in Posts : Stays(p) /\ response'[p] = response[p]
  BY <1>1 DEF Stays
<1>3. seen' = [p \in Posts |-> seen'[p]] /\ response' = [p \in Posts |-> response'[p]]
  BY <1>1 DEF Truth, Formed
<1> QED
  BY <1>1, <1>2, <1>3, FieldsRest

-----------------------------------------------------------------------------
(* The orders.                                                             *)

\* The catalog is asked what the field asks, for the user of the request, and refuses
\* at once only what is no order at all.
LEMMA AskKeepsTruth ==
  ASSUME Truth, [Next]_vars, NEW f \in Fields, HandleCreateOrder(f)
  PROVE  Truth'
<1>1. /\ stage[f] = "sent" /\ Root(f).name = "createOrder" /\ request[f] = Nobody
      /\ UNCHANGED <<left, orders, row, past>>
  BY DEF HandleCreateOrder, Sent, Catalog!Ask, Catalog!shop
<1>2. /\ f \in FieldsOf(f[1]) /\ message[f] = Message(f) /\ row[f] \in orders \cup {Nobody}
      /\ value[f] = Nobody /\ answer[f].result = "none"
  BY <1>1 DEF Truth, FieldTruth, Wire, Outcome, Requested
<1>3. CreateOrderCall(IncomingUser(f[1]), message[f]) = Call(f)
  BY <1>1, <1>2 DEF Message, Call, IncomingUser
<1> DEFINE c == Call(f)
<1>4. /\ request' = [request EXCEPT ![f] = c] /\ c \in CreateOrderCalls
      /\ IF Catalog!Malformed(c) THEN Catalog!Reply(f, Catalog!BadRequest(c), Nobody)
                                 ELSE UNCHANGED answer
  <2>1. PICK r \in CreateOrderCalls :
          /\ request' = [request EXCEPT ![f] = r]
          /\ IF Catalog!Malformed(r) THEN Catalog!Reply(f, Catalog!BadRequest(r), Nobody)
                                     ELSE UNCHANGED answer
    BY DEF HandleCreateOrder, Catalog!Ask
  <2>2. request'[f] = r
    BY <2>1 DEF Truth, KeyInv, Shaped
  <2>3. request'[f] = c
    BY <1>3 DEF HandleCreateOrder
  <2> HIDE DEF c
  <2> QED
    BY <2>1, <2>2, <2>3
<1>5. c.op = "CreateOrder" /\ c # Nobody
  BY <1>1, <1>2, <1>4, CallAsks, CallAssumption
<1> HIDE DEF c
<1>6. /\ request'[f] = c /\ \A g \in Fields \ {f} : request'[g] = request[g] /\ answer'[g] = answer[g]
  BY <1>4 DEF Truth, KeyInv, Shaped, Catalog!Reply
<1>7. \/ /\ ~Catalog!Malformed(c) /\ answer'[f] = answer[f] /\ Step(f, "taken", message[f])
      \/ /\ answer'[f].result \in {"ErrEmptyOrder", "ErrInvalidQuantity"}
         /\ Reply(f, "InvalidArgument", Null)
  <2>1. CASE Catalog!Malformed(c)
    <3>1. Catalog!BadRequest(c) \in {"ErrEmptyOrder", "ErrInvalidQuantity"}
      BY <1>5 DEF Catalog!BadRequest
    <3>2. answer'[f].result = Catalog!BadRequest(c)
      BY <1>4, <2>1 DEF Catalog!Reply, Truth, KeyInv, Shaped
    <3>3. Status(answer'[f].result) = "InvalidArgument" /\ answer'[f].result # "none"
      BY <3>1, <3>2 DEF Status
    <3> QED
      BY <3>1, <3>2, <3>3 DEF HandleCreateOrder
  <2>2. CASE ~Catalog!Malformed(c)
    BY <1>2, <1>4, <2>2 DEF HandleCreateOrder
  <2> QED
    BY <2>1, <2>2
<1>8. PICK s \in {"taken", "replied"}, m \in {message[f], [code |-> "InvalidArgument", body |-> Null]} :
        /\ stage' = [stage EXCEPT ![f] = s] /\ message' = [message EXCEPT ![f] = m]
        /\ \/ /\ s = "taken" /\ m = message[f] /\ answer'[f] = answer[f] /\ ~Catalog!Malformed(c)
           \/ /\ s = "replied" /\ m = [code |-> "InvalidArgument", body |-> Null]
              /\ answer'[f].result \in {"ErrEmptyOrder", "ErrInvalidQuantity"}
        /\ UNCHANGED <<post, seen, value, response>>
  BY <1>7 DEF Reply, Step
<1>9. /\ stage'[f] = s /\ message'[f] = m
      /\ \A g \in Fields \ {f} : stage'[g] = stage[g] /\ message'[g] = message[g]
  BY <1>8 DEF Truth, KeyInv, Shaped
<1>10. /\ KeyInv' /\ Formed' /\ Onward /\ \A p \in Posts : Stays(p)
  <2>1. Formed'
    BY <1>1, <1>8 DEF Truth, Formed
  <2>2. Onward
    BY <1>1 DEF Onward, Truth, Ledger
  <2> QED
    BY <1>8, <2>1, <2>2, KeysStep DEF Stays, Truth
<1>11. Ledger'
  <2>1. \A x : Remains(orders, x)' = Remains(orders, x)
    BY <1>1 DEF Remains
  <2>2. \A o \in orders : /\ o.id \in Fields /\ request'[o.id] = request[o.id]
                          /\ answer'[o.id] = answer[o.id]
    BY <1>1, <1>6 DEF Truth, Ledger
  <2>3. \A o \in orders : OrderOf(o.id)' = OrderOf(o.id)
    BY <2>2 DEF OrderOf
  <2> QED
    BY <1>1, <2>1, <2>2, <2>3 DEF Truth, Ledger
<1>12. Turns'
  <2>1. ~Refused(f)'
    BY <1>8, <1>9 DEF Refused
  <2> QED
    BY <1>1, <1>6, <1>8, <1>9, <2>1, TurnsKept
<1>13. FieldTruth(f)'
  <2>1. Root(f)' = Root(f) /\ FieldsOf(f[1])' = FieldsOf(f[1]) /\ Message(f)' = Message(f) /\ c' = c
    BY <1>8, Steady DEF c
  <2>2. Wire(f, stage[f], message[f], row[f])'
    BY <1>1, <1>2, <1>5, <1>6, <1>8, <1>9, <2>1 DEF Wire, Stages
  <2>3. Outcome(f, stage[f], message[f], value[f])'
    BY <1>2, <1>8, <1>9 DEF Outcome, Codes
  <2>4. Refusal(f, stage[f], message[f])'
    BY <1>8, <1>9 DEF Refusal
  <2>5. Requested(f)'
    BY <1>1, <1>5, <1>6, <1>8, <2>1 DEF Requested, Catalog!Open, c
  <2> QED
    BY <2>2, <2>3, <2>4, <2>5 DEF FieldTruth
<1>14. \A g \in Fields \ {f} : FieldTruth(g)'
  <2>1. \A g \in Fields : Stays(g[1]) /\ row'[g] = row[g] /\ value'[g] = value[g]
    BY <1>1, <1>8, <1>10 DEF Fields
  <2> QED
    BY <1>6, <1>9, <1>10, <2>1, AsideTruth
<1>15. \A p \in Posts : PostTruth(p)'
  <2>1. \A g \in Fields : stage[g] = "returned" =>
          stage'[g] = "returned" /\ message'[g] = message[g] /\ value'[g] = value[g]
    BY <1>1, <1>8, <1>9
  <2> QED
    BY <1>8, <1>10, <2>1, PostKept DEF FieldsOf
<1> QED
  BY <1>10, <1>11, <1>12, <1>13, <1>14, <1>15 DEF Truth

\* An order that can still be decided: what it wants, and that it has not been placed.
LEMMA Decidable ==
  ASSUME Truth, NEW f \in Fields, Catalog!Open(f)
  PROVE  /\ f \in FieldsOf(f[1]) /\ Root(f).name = "createOrder" /\ post[f[1]].op = "mutation"
         /\ request[f] # Nobody /\ request[f] = Call(f) /\ answer[f].result = "none"
         /\ request[f].op = "CreateOrder" /\ request[f].key = Root(f).key
         /\ stage[f] \in {"taken", "replied", "returned"}
         /\ stage[f] # "taken" => message[f].code \in {"OK", "Internal", "Unavailable"}
         /\ \A o \in orders : o.id # f
         /\ request[f].items \in Seq(Request)
         /\ ~Catalog!Malformed(request[f])
         /\ \A c : Catalog!Wanted(request[f].items, c) \in Nat
<1>1. /\ request[f] # Nobody /\ answer[f].result = "none" /\ ~Catalog!Malformed(request[f])
  BY DEF Catalog!Open, Truth, FieldTruth, Requested
<1>2. /\ f \in FieldsOf(f[1]) /\ Root(f).name = "createOrder" /\ request[f] = Call(f)
      /\ stage[f] \in {"taken", "replied", "returned"}
  BY <1>1, AskedFor DEF Stages
<1>3. /\ request[f].op = "CreateOrder" /\ request[f].key = Root(f).key
      /\ request[f].items \in Seq(Request) /\ post[f[1]].op = "mutation"
  BY <1>2, CallAsks, FieldNames
<1>4. stage[f] # "taken" => message[f].code \in {"OK", "Internal", "Unavailable"}
  BY <1>1, <1>2 DEF Truth, FieldTruth, Refusal
<1>5. \A o \in orders : o.id # f
  BY <1>1 DEF Truth, Ledger
<1>6. \A c : Catalog!Wanted(request[f].items, c) \in Nat
  <2>1. \A i \in DOMAIN request[f].items : ~(request[f].items[i].qty <= 0)
    BY <1>1 DEF Catalog!Malformed
  <2> QED
    BY <1>3, <2>1, WantedFits
<1> QED
  BY <1>1, <1>2, <1>3, <1>4, <1>5, <1>6

\* The answer to a call is the one the catalog gives.
LEMMA Answered ==
  ASSUME Truth, NEW f \in Fields, NEW result, NEW order, Catalog!Reply(f, result, order)
  PROVE  /\ answer'[f].result = result /\ answer'[f].order = order
         /\ \A g \in Fields \ {f} : answer'[g] = answer[g]
<1> DEFINE a == [result |-> result, order |-> order]
<1>1. answer' = [answer EXCEPT ![f] = a] /\ a.result = result /\ a.order = order
  BY DEF Catalog!Reply
<1> HIDE DEF a
<1> QED
  BY <1>1 DEF Truth, KeyInv, Shaped

\* A sale takes what was there, and the orders explain the stock again.
LEMMA SaleFits ==
  ASSUME Truth, NEW f \in Fields, Catalog!Open(f), UNCHANGED request,
         past' = past \cup {orders'}, Catalog!SellOrder(f, request[f])
  PROVE  /\ Onward /\ orders' = orders \cup {OrderOf(f)} /\ Ledger'
         /\ left' = [c \in Cabinets |-> left'[c]]
         /\ \A c \in Cabinets : Catalog!Wanted(request[f].items, c) <= left[c]
         /\ \/ answer'[f].result = "ok" /\ answer'[f].order = f
            \/ answer'[f].result = "Internal"
         /\ \A g \in Fields \ {f} : answer'[g] = answer[g]
<1> DEFINE new == OrderOf(f)
           W(c) == Catalog!Wanted(request[f].items, c)
<1>1. /\ orders' = orders \cup {new} /\ left' = [c \in Cabinets |-> left[c] - W(c)]
      /\ \A i \in DOMAIN request[f].items : request[f].items[i].cab \in Cabinets
      /\ \A c \in Cabinets : W(c) <= left[c]
  BY DEF Catalog!SellOrder, Catalog!Available, Catalog!Take, OrderOf
<1>2. /\ \/ answer'[f].result = "ok" /\ answer'[f].order = f
         \/ answer'[f].result = "Internal"
      /\ \A g \in Fields \ {f} : answer'[g] = answer[g]
  <2>1. Catalog!Reply(f, "ok", f) \/ Catalog!Reply(f, "Internal", Nobody)
    BY DEF Catalog!SellOrder, Catalog!Told
  <2> QED
    BY <2>1, Answered
<1>3. new.id = f /\ new.items = request[f].items /\ new \notin orders /\ \A c : W(c) \in Nat
  BY Decidable DEF OrderOf
<1> HIDE DEF new, W
<1>4. ASSUME NEW c \in Cabinets
      PROVE  /\ left'[c] \in Int /\ left'[c] <= left[c] /\ left'[c] \in 0..Shelf[c].Quantity
             /\ left'[c] = Remains(orders', c)
  <2> DEFINE q == Shelf[c].Quantity
             sold == SoldIn(orders, c)
             w == W(c)
             l == left[c]
  <2>1. l \in 0..q /\ l = q - sold /\ q \in Nat /\ sold \in Int
    BY ShelfAssumption, SoldFits DEF Truth, Ledger, Remains
  <2>2. w \in Nat /\ w <= l /\ left'[c] = l - w
    BY <1>1, <1>3
  <2>3. SoldIn(orders', c) = sold + w
    BY <1>1, <1>3, OneMoreSold DEF W
  <2>4. Remains(orders', c) = q - SoldIn(orders', c)
    BY DEF Remains
  <2> HIDE DEF q, sold, w, l
  <2>5. left'[c] \in Int /\ left'[c] <= l /\ left'[c] \in 0..q /\ left'[c] = q - SoldIn(orders', c)
    BY <2>1, <2>2, <2>3
  <2> QED
    BY <2>4, <2>5 DEF q, l
<1>5. Onward
  BY <1>1, <1>4 DEF Onward
<1>8. orders' \in past' /\ past' \subseteq SUBSET orders'
  BY <1>1 DEF Truth, Ledger
<1>6. Ledger'
  <2>1. IsFiniteSet(orders')
    BY <1>1, FS_AddElement DEF Truth, Ledger
  <2>2. ASSUME NEW o \in orders'
        PROVE  /\ o.id \in Fields /\ request'[o.id] # Nobody /\ o = OrderOf(o.id)'
               /\ answer'[o.id].result \in {"ok", "Internal"}
               /\ \A i \in DOMAIN o.items :
                    o.items[i].cab \in Cabinets /\ ~(o.items[i].qty <= 0)
    <3>1. \A g : OrderOf(g)' = OrderOf(g)
      BY DEF OrderOf
    <3>2. CASE o = new
      <4>1. \A i \in DOMAIN request[f].items : ~(request[f].items[i].qty <= 0)
        BY Decidable DEF Catalog!Malformed
      <4> QED
        BY <1>1, <1>2, <1>3, <3>1, <3>2, <4>1, Decidable DEF new
    <3>3. CASE o \in orders
      <4>1. o.id # f
        BY <3>3, Decidable
      <4> QED
        BY <1>2, <3>1, <3>3, <4>1 DEF Truth, Ledger
    <3> QED
      BY <1>1, <3>2, <3>3
  <2> QED
    BY <1>4, <1>8, <2>1, <2>2 DEF Ledger
<1>7. left' = [c \in Cabinets |-> left'[c]]
  BY <1>1
<1> QED
  BY <1>1, <1>2, <1>5, <1>6, <1>7 DEF new, W

\* What f wants of some cabinet is more than there is.
TooMuch(f) == \E c \in Cabinets : left[c] < Catalog!Wanted(request[f].items, c)

\* What a decision says, and why: it sells, answers with an order of the key that was
\* placed for the same, or refuses - for want of stock only if the stock is wanting.
LEMMA Decides ==
  ASSUME Truth, NEW f \in Fields, Catalog!Decide(f), past' = past \cup {orders'}
  PROVE  /\ UNCHANGED request /\ Catalog!Open(f) /\ Onward /\ Ledger'
         /\ left' = [c \in Cabinets |-> left'[c]]
         /\ \A g \in Fields \ {f} : answer'[g] = answer[g]
         /\ answer'[f].result \in {"ok", "ErrNotFound", "ErrDuplicateOrder", "Internal",
                                  "ErrInsufficientStock"}
         /\ answer'[f].result = "ok" => \E o \in orders' : o.id = answer'[f].order /\ Due(f, o)
         /\ answer'[f].result = "ErrInsufficientStock" =>
              orders' = orders /\ (Known(f) => TooMuch(f))
         /\ \/ orders' = orders
            \/ orders' = orders \cup {OrderOf(f)} /\ ~TooMuch(f)
<1> DEFINE r == request[f]
<1>1. UNCHANGED request /\ Catalog!Open(f)
  BY DEF Catalog!Decide
<1>2. r.op = "CreateOrder" /\ r = Call(f) /\ r.key = Root(f).key /\ Root(f).name = "createOrder"
  BY <1>1, Decidable
<1>3. CASE Catalog!SellOrder(f, r)
  <2>1. /\ Onward /\ orders' = orders \cup {OrderOf(f)} /\ Ledger'
        /\ left' = [c \in Cabinets |-> left'[c]]
        /\ \A c \in Cabinets : Catalog!Wanted(r.items, c) <= left[c]
        /\ \/ answer'[f].result = "ok" /\ answer'[f].order = f
           \/ answer'[f].result = "Internal"
        /\ \A g \in Fields \ {f} : answer'[g] = answer[g]
    BY <1>1, <1>3, SaleFits
  <2>2. ~TooMuch(f)
    <3> SUFFICES ASSUME NEW c \in Cabinets, left[c] < Catalog!Wanted(r.items, c) PROVE FALSE
      BY DEF TooMuch
    <3>1. left[c] \in Int
      BY DEF Truth, Ledger
    <3>2. Catalog!Wanted(r.items, c) \in Nat
      BY <1>1, Decidable
    <3> QED
      BY <2>1, <3>1, <3>2
  <2>3. OrderOf(f).id = f /\ Due(f, OrderOf(f))
    <3>1. Catalog!SameLines(r.items, r.items)
      BY Zenon DEF Catalog!SameLines
    <3> HIDE DEF r
    <3>2. OrderOf(f) = [id |-> f, user |-> r.user, key |-> r.key, items |-> r.items]
      BY DEF OrderOf, r
    <3> QED
      BY <1>2, <3>1, <3>2 DEF Due
  <2> QED
    BY <1>1, <2>1, <2>2, <2>3
<1>4. ASSUME NEW result, NEW order, Catalog!Reply(f, result, order), UNCHANGED <<left, orders>>
      PROVE  /\ answer'[f].result = result /\ answer'[f].order = order
             /\ \A g \in Fields \ {f} : answer'[g] = answer[g]
             /\ Onward /\ Ledger' /\ left' = [c \in Cabinets |-> left'[c]]
  <2>1. /\ answer'[f].result = result /\ answer'[f].order = order
        /\ \A g \in Fields \ {f} : answer'[g] = answer[g]
    BY <1>4, Answered
  <2>2. Onward /\ left' = [c \in Cabinets |-> left'[c]]
    BY <1>4 DEF Onward, Truth, Ledger, Formed
  <2>4. past' = past
    BY <1>4 DEF Truth, Ledger
  <2>3. Ledger'
    <3>1. \A x : Remains(orders, x)' = Remains(orders, x)
      BY <1>4 DEF Remains
    <3>2. \A g : OrderOf(g)' = OrderOf(g)
      BY <1>1 DEF OrderOf
    <3>3. \A o \in orders : o.id \in Fields /\ answer'[o.id] = answer[o.id]
      BY <1>1, <2>1, Decidable DEF Truth, Ledger
    <3> QED
      BY <1>1, <1>4, <2>4, <3>1, <3>2, <3>3 DEF Truth, Ledger
  <2> QED
    BY <2>1, <2>2, <2>3
<1>5. CASE Catalog!Repeat(f, r)
  <2>1. UNCHANGED <<left, orders>>
    BY <1>5 DEF Catalog!Repeat, Catalog!shop
  <2>2. PICK o \in orders : /\ o.key = r.key /\ o.user = r.user /\ Catalog!SameLines(o.items, r.items)
                            /\ Catalog!Reply(f, "ok", o.id)
    BY <1>2, <1>5 DEF Catalog!Repeat
  <2>3. Due(f, o)
    BY <1>2, <2>2 DEF Due
  <2> HIDE DEF r
  <2> QED
    BY <1>1, <1>4, <2>1, <2>2, <2>3
<1>6. CASE Catalog!Refuse(f, r)
  <2>1. UNCHANGED <<left, orders>>
    BY <1>6 DEF Catalog!Refuse, Catalog!shop
  <2>2. PICK e \in {"ErrNotFound", "ErrInsufficientStock", "ErrDuplicateOrder", "Internal"} :
          /\ Catalog!Reply(f, e, Nobody)
          /\ e = "ErrInsufficientStock" =>
               ~Catalog!Available(r) \/ \E i \in DOMAIN r.items : r.items[i].cab \notin Cabinets
    BY <1>2, <1>6 DEF Catalog!Refuse
  <2>3. e = "ErrInsufficientStock" /\ Known(f) => TooMuch(f)
    <3> SUFFICES ASSUME e = "ErrInsufficientStock", Known(f) PROVE TooMuch(f)
      OBVIOUS
    <3>1. \A i \in DOMAIN r.items : r.items[i].cab \in Cabinets
      <4>1. DOMAIN Call(f).items = DOMAIN Root(f).items
        BY <1>1, <1>2, Decidable, CallAsks
      <4>2. \A i \in DOMAIN Root(f).items :
              Call(f).items[i] = [cab |-> Root(f).items[i].cab, qty |-> int32(Root(f).items[i].qty)]
        BY <1>1, <1>2, Decidable, CallAsks
      <4>3. ASSUME NEW i \in DOMAIN Root(f).items PROVE Call(f).items[i].cab \in Cabinets
        <5> DEFINE q == int32(Root(f).items[i].qty)
        <5>1. Call(f).items[i] = [cab |-> Root(f).items[i].cab, qty |-> q]
          BY <4>2
        <5> HIDE DEF q
        <5> QED
          BY <5>1 DEF Known
      <4> QED
        BY <1>2, <4>1, <4>3
    <3>2. PICK c \in Cabinets : ~(Catalog!Wanted(r.items, c) <= left[c])
      BY <2>2, <3>1 DEF Catalog!Available
    <3>3. left[c] \in Int
      BY DEF Truth, Ledger
    <3>4. Catalog!Wanted(r.items, c) \in Nat
      BY <1>1, Decidable
    <3> QED
      BY <3>2, <3>3, <3>4 DEF TooMuch
  <2> HIDE DEF r
  <2> QED
    BY <1>1, <1>4, <2>1, <2>2, <2>3
<1>7. ~Catalog!SellReservation(f, r)
  BY <1>2 DEF Catalog!SellReservation
<1> QED
  BY <1>3, <1>5, <1>6, <1>7 DEF Catalog!Decide

\* What a decision is called on the wire.
LEMMA StatusFits ==
  ASSUME NEW result \in {"ok", "ErrNotFound", "ErrDuplicateOrder", "Internal", "ErrInsufficientStock"}
  PROVE  /\ Status(result) \in Codes
         /\ Status(result) = "OK" <=> result = "ok"
         /\ Status(result) = "FailedPrecondition" <=> result = "ErrInsufficientStock"
         /\ Status(result) = "Internal" <=> result = "Internal"
BY DEF Status, Codes

\* The lines of an order as they are, and in any other sequence, are made from it.
LEMMA InSequence ==
  ASSUME NEW o, Well(o), NEW items \in {o.items} \cup Reordered(o.items)
  PROVE  \E pi \in SetToSeqs(DOMAIN o.items) : items = Permuted(o.items, pi)
<1>1. CASE items \in Reordered(o.items)
  BY <1>1 DEF Reordered, Permuted
<1>2. CASE items = o.items
  <2> DEFINE n == Len(items)
             pi == [i \in 1..n |-> i]
  <2>1. items \in Seq(Line) /\ DOMAIN items = 1..n /\ n \in Nat
    BY <1>2 DEF Well
  <2>2. Cardinality(1..n) = n
    BY <2>1, FS_Interval
  <2>3. pi \in SetToSeqs(1..n)
    BY <2>2 DEF SetToSeqs
  <2>5. items = [i \in DOMAIN items |-> items[i]] /\ \A i \in DOMAIN items : pi[i] = i
    BY <2>1
  <2> HIDE DEF n, pi
  <2>4. items = Permuted(items, pi)
    BY <2>5 DEF Permuted
  <2> QED
    BY <1>2, <2>1, <2>3, <2>4
<1> QED
  BY <1>1, <1>2

\* The catalog decides an order, and tells it if somebody still waits.
LEMMA DecideKeepsTruth ==
  ASSUME Truth, [Next]_vars, NEW f \in Fields, DecideOrder(f)
  PROVE  Truth'
<1>1. Catalog!Decide(f) /\ past' = past \cup {orders'}
  BY DEF DecideOrder
<1>2. /\ UNCHANGED <<request, post, seen, row, value, response>> /\ Onward /\ Ledger'
      /\ left' = [c \in Cabinets |-> left'[c]]
      /\ \A g \in Fields \ {f} : answer'[g] = answer[g]
      /\ answer'[f].result \in {"ok", "ErrNotFound", "ErrDuplicateOrder", "Internal",
                               "ErrInsufficientStock"}
      /\ \/ orders' = orders
         \/ orders' = orders \cup {OrderOf(f)} /\ ~TooMuch(f)
  BY <1>1, Decides DEF DecideOrder, gateway, Reply, Step
<1>3. /\ f \in FieldsOf(f[1]) /\ Root(f).name = "createOrder" /\ post[f[1]].op = "mutation"
      /\ request[f] # Nobody /\ request[f] = Call(f) /\ stage[f] \in {"taken", "replied", "returned"}
      /\ stage[f] # "taken" => message[f].code \in {"OK", "Internal", "Unavailable"}
  BY <1>1, Decides, Decidable
<1>4. KeyInv' /\ Formed' /\ \A p \in Posts : Stays(p)
  <2>1. Formed'
    BY <1>2 DEF Truth, Formed
  <2> QED
    BY <1>2, <2>1, KeysStep DEF Stays, Truth
<1>5. f[1] \in Posts /\ Posted(f) /\ Root(f)' = Root(f) /\ FieldsOf(f[1])' = FieldsOf(f[1])
      /\ Call(f)' = Call(f) /\ Known(f)' = Known(f) /\ \A o : Due(f, o)' = Due(f, o)
  BY <1>2, <1>3, Steady DEF Fields, FieldsOf, Posted
<1> DEFINE result == answer'[f].result
           Same == stage[f] # "taken" /\ UNCHANGED <<stage, message>>
           Tells(m) ==
             /\ stage[f] = "taken" /\ stage' = [stage EXCEPT ![f] = "replied"]
             /\ message' = [message EXCEPT ![f] = m]
             /\ DOMAIN m = {"code", "body"} /\ m.code = Status(result)
             /\ result = "ok" => \E w \in Sources(f)' : m.body = Body(f, w)'
<1>6. Same \/ \E m : Tells(m)
  <2>1. CASE stage[f] # "taken"
    BY <2>1 DEF DecideOrder, gateway
  <2>2. CASE stage[f] = "taken" /\ result # "ok"
    <3> DEFINE m == [code |-> Status(result), body |-> Null]
    <3>1. Step(f, "replied", m) /\ DOMAIN m = {"code", "body"} /\ m.code = Status(result)
      BY <2>2 DEF DecideOrder, Reply
    <3> HIDE DEF m
    <3> QED
      BY <2>2, <3>1 DEF Step
  <2>3. CASE stage[f] = "taken" /\ result = "ok"
    <3>1. PICK o \in orders' :
            /\ o.id = answer'[f].order
            /\ \E items \in IF o.id = f THEN {o.items} ELSE Reordered(o.items) :
                 Reply(f, "OK", OrderReply(o, items))
      BY <2>3 DEF DecideOrder
    <3>2. PICK items \in {o.items} \cup Reordered(o.items) : Reply(f, "OK", OrderReply(o, items))
      BY <3>1
    <3>3. Well(o) /\ Due(f, o)
      <4>1. PICK due \in orders' : due.id = answer'[f].order /\ Due(f, due)
        BY <1>1, <2>3, Decides
      <4>2. o = due
        BY <1>2, <3>1, <4>1 DEF Ledger
      <4>3. Well(o)
        <5>1. CASE o \in orders
          BY <5>1, OrdersAreWell
        <5>2. CASE o = OrderOf(f)
          <6>1. OrderOf(f).items = request[f].items
            BY DEF OrderOf
          <6>2. \A i \in DOMAIN o.items : o.items[i].cab \in Cabinets /\ ~(o.items[i].qty <= 0)
            BY <1>2, <3>1 DEF Ledger
          <6> QED
            BY <1>3, <5>2, <6>1, <6>2, OrderIsWell
        <5> QED
          BY <1>2, <3>1, <5>1, <5>2
      <4> QED
        BY <4>1, <4>2, <4>3
    <3>4. PICK pi \in SetToSeqs(DOMAIN o.items) : items = Permuted(o.items, pi)
      BY <3>2, <3>3, InSequence
    <3> DEFINE w == <<o, pi>>
               m == [code |-> "OK", body |-> OrderReply(o, items)]
    <3>5. w[1] = o /\ w[2] = pi /\ w \in (orders \X Orderings)'
      BY <3>4 DEF Orderings
    <3>6. m.code = "OK" /\ m.body = OrderReply(o, items) /\ DOMAIN m = {"code", "body"}
      OBVIOUS
    <3>7. stage' = [stage EXCEPT ![f] = "replied"] /\ message' = [message EXCEPT ![f] = m]
      BY <3>2 DEF Reply, Step
    <3> HIDE DEF w, m
    <3>8. w \in Sources(f)' /\ Body(f, w)' = m.body
      BY <1>3, <1>5, <3>3, <3>4, <3>5, <3>6 DEF Sources, Sales, Body
    <3>9. Status(result) = "OK"
      BY <2>3, StatusFits
    <3> QED
      BY <2>3, <3>6, <3>7, <3>8, <3>9
  <2> QED
    BY <2>1, <2>2, <2>3
<1>7. /\ stage[f] = "returned" => stage'[f] = "returned" /\ message'[f] = message[f]
      /\ stage'[f] \in {"replied", "returned"}
      /\ \A g \in Fields \ {f} : stage'[g] = stage[g] /\ message'[g] = message[g]
  BY <1>3, <1>6 DEF Truth, KeyInv, Shaped
<1>8. \/ stage[f] # "taken" /\ stage'[f] = stage[f] /\ message'[f] = message[f]
      \/ /\ stage[f] = "taken" /\ stage'[f] = "replied" /\ DOMAIN message'[f] = {"code", "body"}
         /\ message'[f].code = Status(result)
         /\ result = "ok" => \E w \in Sources(f)' : message'[f].body = Body(f, w)'
  BY <1>6 DEF Truth, KeyInv, Shaped
<1> HIDE DEF result, Same, Tells
<1>9. result \in {"ok", "ErrNotFound", "ErrDuplicateOrder", "Internal", "ErrInsufficientStock"}
  BY <1>2 DEF result
<1>10. FieldTruth(f)'
  <2>1. FieldTruth(f)
    BY DEF Truth
  <2>2. Wire(f, stage[f], message[f], row[f])'
    BY <1>2, <1>3, <1>5, <1>7, <2>1 DEF FieldTruth, Wire, Stages, Onward
  <2>3. Outcome(f, stage[f], message[f], value[f])'
    <3>1. CASE stage[f] # "taken"
      <4>1. Sources(f) \subseteq Sources(f)' /\ \A w : Body(f, w)' = Body(f, w)
        BY <1>2, <1>4, <1>5, SourcesStay, Steady
      <4>2. \A b : Display(f, b)' = Display(f, b)
        BY <1>2, Steady
      <4> QED
        BY <1>2, <1>8, <2>1, <3>1, <4>1, <4>2 DEF FieldTruth, Outcome
    <3>2. CASE stage[f] = "taken"
      <4>1. value[f] = Nobody
        BY <2>1, <3>2 DEF FieldTruth, Outcome
      <4> QED
        BY <1>2, <1>8, <1>9, <3>2, <4>1, StatusFits DEF Outcome
    <3> QED
      BY <3>1, <3>2
  <2>4. Refusal(f, stage[f], message[f])'
    <3>1. CASE stage[f] # "taken"
      BY <1>3, <1>8, <3>1 DEF Refusal
    <3>2. CASE stage[f] = "taken"
      <4>1. message'[f].code \notin {"OK", "Internal"} => result \notin {"none", "ok", "Internal"}
        BY <1>8, <1>9, <3>2, StatusFits
      <4>2. message'[f].code = "FailedPrecondition" => result = "ErrInsufficientStock"
        BY <1>8, <1>9, <3>2, StatusFits
      <4>3. result = "ErrInsufficientStock" =>
              (Known(f) => \E c \in Cabinets : left'[c] < Catalog!Wanted(request[f].items, c))
        <5> SUFFICES ASSUME result = "ErrInsufficientStock", Known(f)
                     PROVE  \E c \in Cabinets : left'[c] < Catalog!Wanted(request[f].items, c)
          OBVIOUS
        <5>1. PICK c \in Cabinets : left[c] < Catalog!Wanted(request[f].items, c)
          BY <1>1, Decides DEF TooMuch, result
        <5>2. Catalog!Wanted(request[f].items, c) \in Nat
          BY <1>1, Decides, Decidable
        <5>3. left[c] \in Int /\ left'[c] \in Int /\ left'[c] <= left[c]
          BY <1>2 DEF Onward, Truth, Ledger
        <5>4. left'[c] < Catalog!Wanted(request[f].items, c)
          BY <5>1, <5>2, <5>3
        <5> QED
          BY <5>4
      <4> QED
        BY <1>2, <1>3, <1>5, <4>1, <4>2, <4>3 DEF Refusal, result
    <3> QED
      BY <3>1, <3>2
  <2>5. Requested(f)'
    BY <1>2, <1>3, <1>5, <1>9 DEF Requested, Catalog!Open, result
  <2> QED
    BY <2>2, <2>3, <2>4, <2>5 DEF FieldTruth
<1>11. ASSUME NEW g \in Fields \ {f} PROVE FieldTruth(g)'
  <2>1. Stays(g[1]) /\ row'[g] = row[g] /\ value'[g] = value[g] /\ request'[g] = request[g]
    BY <1>2, <1>4 DEF Fields
  <2> QED
    BY <1>2, <1>7, <2>1, AsideTruth
<1>12. ASSUME NEW p \in Posts PROVE PostTruth(p)'
  <2>1. \A g \in FieldsOf(p) : stage[g] = "returned" =>
          stage'[g] = "returned" /\ message'[g] = message[g] /\ value'[g] = value[g]
    BY <1>2, <1>7 DEF FieldsOf
  <2> QED
    BY <1>2, <1>4, <2>1, PostKept
<1>13. Turns'
  <2> SUFFICES ASSUME NEW h \in Fields, NEW g \in Fields, Before(h, g)
               PROVE  /\ h \in FieldsOf(h[1]) /\ post[h[1]].op = "mutation" /\ stage'[g] # "none" =>
                           stage'[h] = "returned"
                      /\ Refused(h)' /\ (\E o \in orders' : o.id = g) => WantsLess(g, h)'
    BY <1>2 DEF Turns, Before, FieldsOf
  <2>1. ASSUME h \in FieldsOf(h[1]), post[h[1]].op = "mutation", stage'[g] # "none"
        PROVE  stage'[h] = "returned"
    <3>1. stage[g] # "none"
      BY <1>3, <1>7, <2>1
    <3>2. stage[h] = "returned"
      BY <2>1, <3>1 DEF Truth, Turns
    <3> QED
      BY <1>7, <3>2
  <2>2. ASSUME Refused(h)', NEW o \in orders', o.id = g
        PROVE  WantsLess(g, h)'
    <3>1. WantsLess(g, h)' = WantsLess(g, h)
      BY <1>2 DEF WantsLess
    <3>2. \/ Refused(h)
          \/ h = f /\ stage[f] = "taken" /\ result = "ErrInsufficientStock"
      <4>1. CASE h # f
        BY <1>2, <1>7, <2>2, <4>1, Steady DEF Refused
      <4>2. CASE h = f
        BY <1>5, <1>8, <1>9, <2>2, <4>2, StatusFits DEF Refused
      <4> QED
        BY <4>1, <4>2
    <3>3. CASE Refused(h) /\ o \in orders
      BY <2>2, <3>1, <3>3 DEF Truth, Turns
    <3>4. CASE Refused(h) /\ o = OrderOf(f) /\ ~TooMuch(f)
      <4>1. g = f
        BY <2>2, <3>4 DEF OrderOf
      <4>2. request[h] # Nobody
        BY <3>4 DEF Refused, Truth, FieldTruth, Refusal
      <4>3. PICK c \in Cabinets : left[c] < Catalog!Wanted(request[h].items, c)
        BY <3>4 DEF Refused, Truth, FieldTruth, Refusal
      <4>4. ~(left[c] < Catalog!Wanted(request[f].items, c))
        BY <3>4 DEF TooMuch
      <4>5. left[c] \in Int
        BY DEF Truth, Ledger
      <4>6. Catalog!Wanted(request[f].items, c) \in Nat
        BY <1>1, Decides, Decidable
      <4>7. Catalog!Wanted(request[h].items, c) \in Int
        BY <4>2, AskedFor, CallAsks, WantedFits
      <4>8. Catalog!Wanted(request[f].items, c) < Catalog!Wanted(request[h].items, c)
        BY <4>3, <4>4, <4>5, <4>6, <4>7
      <4> QED
        BY <3>1, <4>1, <4>8 DEF WantsLess
    <3>5. CASE h = f /\ stage[f] = "taken" /\ result = "ErrInsufficientStock"
      <4>1. orders' = orders
        BY <1>1, <3>5, Decides DEF result
      <4>2. stage[g] # "none"
        <5>1. request[g] # Nobody
          BY <2>2, <4>1 DEF Truth, Ledger
        <5> QED
          BY <5>1, AskedFor
      <4>3. stage[f] = "returned"
        BY <1>3, <3>5, <4>2 DEF Truth, Turns
      <4> QED
        BY <3>5, <4>3
    <3> QED
      BY <1>2, <3>2, <3>3, <3>4, <3>5
  <2> QED
    BY <2>1, <2>2
<1> QED
  BY <1>2, <1>4, <1>10, <1>11, <1>12, <1>13 DEF Truth

\* Every step of the gateway and of the catalog keeps all of it.
LEMMA TruthStep == Truth /\ [Next]_vars => Truth'
<1> SUFFICES ASSUME Truth, [Next]_vars PROVE Truth'
  OBVIOUS
<1>1. ASSUME NEW p \in Posts, Post(p) \/ Respond(p) PROVE Truth'
  BY <1>1, PostKeepsTruth, RespondKeepsTruth
<1>2. ASSUME NEW f \in Fields, Progress(f) \/ Break(f) PROVE Truth'
  BY <1>2, ResolveKeepsTruth, ReadKeepsTruth, AskKeepsTruth, DecideKeepsTruth, ReturnKeepsTruth
     DEF Progress, Serve
<1>3. CASE UNCHANGED vars
  BY <1>3, RestKeepsTruth
<1> QED
  BY <1>1, <1>2, <1>3 DEF Next, Quiet

-----------------------------------------------------------------------------
(* The theorems.                                                           *)

\* Whatever is on the wire fits its message, whatever is placed is an order, of units of
\* cabinets there are, and whatever is shown has the fields selected and numbers that fit
\* the schema, at every width of the integers: quantities are int32, prices and totals
\* int64 (catalog.pb.go, handler.go:136-180, schema.resolvers.go:16-102).
THEOREM GatewayTyped == Spec => []TypeOK
BY TruthInit, TruthStep, TruthIsTyped, PTL DEF Spec

\* An order a client is shown in answer to createOrder is there, for the user of its
\* request, under its key, for the lines it asked, whichever path built the answer
\* (schema.resolvers.go:16-30, handler.go:91-120, repository.go:145-300).
THEOREM OrderAlwaysAsAsked == Spec => []OrderAsAsked
BY TruthInit, TruthStep, TruthKeepsOrders, PTL DEF Spec

\* The total shown with an order is the sum of the lines shown with it, in whatever
\* order these come, as long as the sum is an int64 (repository.go:193-212).
THEOREM TotalAlwaysExact == Spec => []TotalIsExact
BY TruthInit, TruthStep, TruthAddsUp, PTL DEF Spec

\* An order looks the same to every client and on every path: from memory when it is
\* placed, from its rows when the key is used again, and by GetOrder in two statements
\* (repository.go:127-143, 154-184, 227-300).
THEOREM OneOrderAlwaysOneLook == Spec => []OneOrderOneLook
BY TruthInit, TruthStep, TruthLooksTheSame, PTL DEF Spec

\* A list of cabinets shows the stock of one instant since it was asked for, what a set of
\* orders had left that there was at that instant: it is one statement (cabinets.sql.go:190-227, repository.go:48-60).
THEOREM ListAlwaysOneInstant == Spec => []ListIsOneInstant
BY TruthInit, TruthStep, TruthListsAnInstant, PTL DEF Spec

\* A read shows the cabinet's row, every field and image, with a quantity it had since the
\* query came, and what is not found was not there
\* (repository.go:36-46, 127-143, handler.go:28-55, 78-89).
THEOREM ReadsAlwaysCurrent == Spec => []ReadsAreCurrent
BY TruthInit, TruthStep, TruthReadsTheTables, PTL DEF Spec

\* The fields of a mutation take effect one after the other: what one could not buy, a
\* later one buys only if it wants less of it (generated.go:2853-2897).
THEOREM MutationAlwaysInOrder == Spec => []MutationInOrder
BY TruthInit, TruthStep, TruthTakesTurns, PTL DEF Spec

\* An answer has the data of all its fields or the errors of those that failed, and an
\* error that is a decision means that the field has placed no order and never will
\* (generated.go:311-366, handler.go:101-116).
THEOREM AlwaysAllOrErrors == Spec => []AllOrErrors
BY TruthInit, TruthStep, TruthAnswersAllOrErrors, PTL DEF Spec
=============================================================================
