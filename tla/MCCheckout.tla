----------------------------- MODULE MCCheckout -----------------------------
(* Instances of the checkout for TLC. *)
EXTENDS CheckoutProperties, TLC

CONSTANTS c1, c2, c3, a, b, x, k1, k2

MCCabinets   == {a, b}
MCCabinetIds == {a, b, x}
MCUsers      == {"", " v", "u", "v", Anonymous}
MCTrim       == [u \in MCUsers |-> IF u = " v" THEN "v" ELSE u]

TwoCalls   == {c1, c2}
ThreeCalls == {c1, c2, c3}
CallSymmetry == Permutations(Calls)

Reserve(cab, qty, key) ==
  [op |-> "ReserveStock", user |-> Anonymous, items |-> <<[cab |-> cab, qty |-> qty]>>,
   key |-> key]
Buy(user, lines, key) ==
  [op |-> "CreateOrder", user |-> user, key |-> key,
   items |-> [i \in DOMAIN lines |-> [cab |-> lines[i][1], qty |-> lines[i][2]]]]

TwoAndOne == [c \in MCCabinets |-> IF c = a THEN 2 ELSE 1]

\* Reservations and orders that meet on rows and on keys; retries with the lines in
\* another order, another payload, another user; the crossed pair [a, b] and [b, a].
Contended ==
  { Reserve(a, 1, k1), Reserve(b, 1, k1),
    Buy("u", << <<a, 1>>, <<b, 1>> >>, k1),
    Buy("u", << <<b, 1>>, <<a, 1>> >>, k1),
    Buy(" v", << <<a, 1>>, <<b, 1>> >>, k1),
    Buy("u", << <<b, 1>>, <<a, 1>> >>, k2),
    Buy("u", << <<a, 2>> >>, k2) }

\* The boundaries of a request: nothing asked, zero or fewer units, a cabinet that
\* does not exist, a blank user.
Boundary ==
  { Reserve(a, 0, k2), Reserve(b, -1, k2), Reserve(x, 1, k2),
    Buy("", <<>>, k2),
    Buy("", << <<a, 1>>, <<b, -1>> >>, k2),
    Buy("", << <<b, 1>>, <<x, 1>> >>, k2) }

\* A cabinet named twice in an order.
Repeated ==
  { Buy(Anonymous, << <<a, 1>>, <<a, 1>> >>, k2),
    Buy("", << <<a, 1>>, <<a, 2>> >>, k2) }

NamedOnce  == Contended \cup Boundary
Everything == NamedOnce \cup Repeated

\* Every wait there is: rows in both directions, reservation keys, order keys.
Waiting ==
  { Reserve(a, 1, k1), Reserve(b, 1, k1),
    Buy("u", << <<a, 1>>, <<b, 1>> >>, k1),
    Buy("u", << <<b, 1>>, <<a, 1>> >>, k1) }

\* One order, sent twice.
Twice == { Buy("u", << <<a, 1>> >>, k1) }

\* An order for one unit of each, and then for two of the first, under one key.
Changed == { Buy("u", << <<a, 1>>, <<b, 1>> >>, k1),
             Buy("u", << <<a, 1>>, <<a, 1>> >>, k1) }
=============================================================================
