-------------------------- MODULE EquityOrderProofs --------------------------
(***************************************************************************)
(* Proofs about EquityOrder, for every calendar, every finite universe,    *)
(* every limit and any number of orders, lost answers and paper cycles:    *)
(* the types, the pattern-day-trader guard and the good-faith guard.       *)
(***************************************************************************)
EXTENDS EquityOrder, FiniteSetTheorems, WellFoundedInduction, TLAPS

-----------------------------------------------------------------------------
(***************************************************************************)
(* Sums of natural numbers.                                                *)
(***************************************************************************)

\* The units of a finite set are finitely many.
LEMMA UnitsFinite ==
    ASSUME NEW S, IsFiniteSet(S), NEW f, \A x \in S : f[x] \in Nat
    PROVE  IsFiniteSet(Units(f, S)) /\ Cardinality(Units(f, S)) \in Nat
<1> DEFINE T == {{x} \X (1 .. f[x]) : x \in S}
           g == [x \in S |-> {x} \X (1 .. f[x])]
<1>1. IsFiniteSet(T)
  <2>1. g \in Surjection(S, T)  BY DEF Surjection
  <2> HIDE DEF g, T
  <2> QED BY <2>1, FS_Surjection
<1>2. \A U \in T : IsFiniteSet(U)
  <2>1. SUFFICES ASSUME NEW x \in S PROVE IsFiniteSet({x} \X (1 .. f[x]))  OBVIOUS
  <2>2. IsFiniteSet({x})  BY FS_Singleton
  <2>3. IsFiniteSet(1 .. f[x])
    <3>1. f[x] \in Int /\ 1 \in Int  OBVIOUS
    <3> QED BY <3>1, FS_Interval
  <2> QED BY <2>2, <2>3, FS_Product
<1>3. IsFiniteSet(Units(f, S))
  <2> HIDE DEF T
  <2>1. IsFiniteSet(UNION T)  BY <1>1, <1>2, FS_UNION
  <2> QED BY <2>1 DEF Units, T
<1> QED BY <1>3, FS_CardinalityType

\* One summand.
LEMMA UnitsOne ==
    ASSUME NEW f, NEW x, f[x] \in Nat
    PROVE  Cardinality(Units(f, {x})) = f[x]
<1>1. Units(f, {x}) = {x} \X (1 .. f[x])  BY DEF Units
<1>2. IsFiniteSet({x}) /\ Cardinality({x}) = 1  BY FS_Singleton
<1>3. IsFiniteSet(1 .. f[x]) /\ Cardinality(1 .. f[x]) = f[x]
  <2>1. f[x] \in Int /\ 1 \in Int  OBVIOUS
  <2>2. /\ IsFiniteSet(1 .. f[x])
        /\ Cardinality(1 .. f[x]) = IF 1 > f[x] THEN 0 ELSE f[x] - 1 + 1
    BY <2>1, FS_Interval
  <2> QED BY <2>2
<1>4. Cardinality({x} \X (1 .. f[x])) = 1 * f[x]
  <2>1. Cardinality({x} \X (1 .. f[x])) = Cardinality({x}) * Cardinality(1 .. f[x])
    BY <1>2, <1>3, FS_Product
  <2> QED BY <1>2, <1>3, <2>1, Zenon
<1>5. 1 * f[x] = f[x]  OBVIOUS
<1> QED BY <1>1, <1>4, <1>5, Zenon

\* Disjoint sets of summands.
LEMMA UnitsUnion ==
    ASSUME NEW S, IsFiniteSet(S), NEW T, IsFiniteSet(T), S \cap T = {},
           NEW f, \A x \in S \cup T : f[x] \in Nat
    PROVE  Cardinality(Units(f, S \cup T)) = Cardinality(Units(f, S)) + Cardinality(Units(f, T))
<1>1. Units(f, S \cup T) = Units(f, S) \cup Units(f, T)  BY DEF Units
<1>2. Units(f, S) \cap Units(f, T) = {}
  <2>1. ASSUME NEW u \in Units(f, S), u \in Units(f, T) PROVE FALSE
    <3>1. PICK x \in S : u \in {x} \X (1 .. f[x])  BY DEF Units
    <3>2. PICK y \in T : u \in {y} \X (1 .. f[y])  BY <2>1 DEF Units
    <3>3. u[1] = x /\ u[1] = y  BY <3>1, <3>2
    <3> QED BY <3>3
  <2> QED BY <2>1
<1>3. /\ IsFiniteSet(Units(f, S)) /\ Cardinality(Units(f, S)) \in Nat
      /\ IsFiniteSet(Units(f, T)) /\ Cardinality(Units(f, T)) \in Nat
  BY UnitsFinite
<1>4. Cardinality(Units(f, S) \cap Units(f, T)) = 0  BY <1>2, FS_EmptySet
<1>5. Cardinality(Units(f, S) \cup Units(f, T)) =
          Cardinality(Units(f, S)) + Cardinality(Units(f, T))
              - Cardinality(Units(f, S) \cap Units(f, T))
  BY <1>3, FS_Union, Zenon
<1>6. Cardinality(Units(f, S \cup T)) =
          Cardinality(Units(f, S)) + Cardinality(Units(f, T)) - 0
  BY <1>1, <1>4, <1>5, Zenon
<1> QED BY <1>3, <1>6

\* Only the summands matter.
LEMMA UnitsSame ==
    ASSUME NEW S, NEW f, NEW g, \A x \in S : f[x] = g[x]
    PROVE  Units(f, S) = Units(g, S)
BY DEF Units

\* A row of shares with whole amounts.
Whole(table, S) == IsFiniteSet(S) /\ \A k \in S : table[k].qty \in Nat

\* A sum is a natural number.
LEMMA TotalNat ==
    ASSUME NEW table, NEW S, Whole(table, S)
    PROVE  Total(table, S) \in Nat
<1> DEFINE f == [k \in S |-> table[k].qty]
<1>1. IsFiniteSet(S) /\ \A x \in S : f[x] \in Nat  BY DEF Whole
<1> HIDE DEF f
<1>2. Cardinality(Units(f, S)) \in Nat  BY <1>1, UnitsFinite
<1> QED BY <1>2 DEF Total, f

\* Sums of disjoint sets of rows add up.
LEMMA TotalUnion ==
    ASSUME NEW table, NEW S, Whole(table, S), NEW T, Whole(table, T), S \cap T = {}
    PROVE  Total(table, S \cup T) = Total(table, S) + Total(table, T)
<1> DEFINE f == [k \in S |-> table[k].qty]
           g == [k \in T |-> table[k].qty]
           h == [k \in S \cup T |-> table[k].qty]
<1>1. /\ IsFiniteSet(S) /\ IsFiniteSet(T)
      /\ \A x \in S \cup T : h[x] \in Nat
      /\ \A x \in S : h[x] = f[x]
      /\ \A x \in T : h[x] = g[x]
  BY DEF Whole
<1> HIDE DEF f, g, h
<1>2. Cardinality(Units(h, S \cup T)) = Cardinality(Units(h, S)) + Cardinality(Units(h, T))
  BY <1>1, UnitsUnion
<1>3. Units(h, S) = Units(f, S) /\ Units(h, T) = Units(g, T)  BY <1>1, UnitsSame
<1> QED BY <1>2, <1>3 DEF Total, f, g, h

\* The sum of one row.
LEMMA TotalOne ==
    ASSUME NEW table, NEW k, table[k].qty \in Nat
    PROVE  Total(table, {k}) = table[k].qty
<1> DEFINE f == [j \in {k} |-> table[j].qty]
<1>1. f[k] = table[k].qty /\ f[k] \in Nat  OBVIOUS
<1> HIDE DEF f
<1>2. Cardinality(Units(f, {k})) = f[k]  BY <1>1, UnitsOne
<1> QED BY <1>1, <1>2 DEF Total, f

\* The sum of no row.
LEMMA TotalNone == ASSUME NEW table PROVE Total(table, {}) = 0
<1>1. Units([k \in {} |-> table[k].qty], {}) = {}  BY DEF Units
<1> QED BY <1>1, FS_EmptySet DEF Total

\* Rows with the same shares.
LEMMA TotalSame ==
    ASSUME NEW table, NEW other, NEW S, \A k \in S : table[k].qty = other[k].qty
    PROVE  Total(table, S) = Total(other, S)
<1>1. [k \in S |-> table[k].qty] = [k \in S |-> other[k].qty]  OBVIOUS
<1> QED BY <1>1 DEF Total

\* Fewer rows, no larger a sum.
LEMMA TotalSubset ==
    ASSUME NEW table, NEW S, Whole(table, S), NEW T \in SUBSET S
    PROVE  Total(table, T) <= Total(table, S) /\ Whole(table, T)
<1>1. Whole(table, T) /\ Whole(table, S \ T)  BY FS_Subset DEF Whole
<1>2. T \cup (S \ T) = S /\ T \cap (S \ T) = {}  OBVIOUS
<1>3. Total(table, S) = Total(table, T) + Total(table, S \ T)  BY <1>1, <1>2, TotalUnion
<1>4. Total(table, T) \in Nat /\ Total(table, S \ T) \in Nat  BY <1>1, TotalNat
<1> QED BY <1>1, <1>3, <1>4

\* One row more, or one less.
LEMMA TotalAdd ==
    ASSUME NEW table, NEW S, Whole(table, S), NEW k, k \notin S, table[k].qty \in Nat
    PROVE  /\ Total(table, S \cup {k}) = Total(table, S) + table[k].qty
           /\ Whole(table, S \cup {k}) /\ Total(table, S) \in Nat
<1>1. Whole(table, {k})  BY FS_Singleton DEF Whole
<1>2. S \cap {k} = {}  OBVIOUS
<1>3. Total(table, S \cup {k}) = Total(table, S) + Total(table, {k})  BY <1>1, <1>2, TotalUnion
<1>4. Whole(table, S \cup {k})  BY FS_AddElement DEF Whole
<1> QED BY <1>3, <1>4, TotalOne, TotalNat

\* Rows that are matched, each by a row of its own.
LEMMA TotalMatched ==
    ASSUME NEW table, NEW S, Whole(table, S), NEW other, NEW T, Whole(other, T),
           NEW g \in Injection(T, S), \A k \in T : table[g[k]].qty = other[k].qty
    PROVE  Total(other, T) <= Total(table, S)
<1> DEFINE f == [k \in T |-> other[k].qty]
           h == [k \in S |-> table[k].qty]
           inj == [u \in Units(f, T) |-> <<g[u[1]], u[2]>>]
<1>1. (\A k, j \in T : g[k] = g[j] => k = j) /\ \A k \in T : g[k] \in S
  BY DEF Injection, IsInjective
<1>2. \A k \in T : g[k] \in S /\ h[g[k]] = f[k]  BY <1>1
<1>3. IsFiniteSet(S) /\ (\A x \in S : h[x] \in Nat)
  BY DEF Whole
<1> HIDE DEF f, h
<1>4. \A u \in Units(f, T) : /\ u = <<u[1], u[2]>> /\ u[1] \in T /\ u[2] \in 1 .. f[u[1]]
  BY DEF Units
<1>5. \A u \in Units(f, T) : <<g[u[1]], u[2]>> \in Units(h, S)
  <2>1. SUFFICES ASSUME NEW u \in Units(f, T) PROVE <<g[u[1]], u[2]>> \in Units(h, S)  OBVIOUS
  <2>2. g[u[1]] \in S /\ u[2] \in 1 .. h[g[u[1]]]  BY <1>2, <1>4
  <2> QED BY <2>2 DEF Units
<1>6. inj \in Injection(Units(f, T), Units(h, S))
  <2>1. inj \in [Units(f, T) -> Units(h, S)]  BY <1>5
  <2>2. ASSUME NEW u \in Units(f, T), NEW v \in Units(f, T), inj[u] = inj[v] PROVE u = v
    <3>1. g[u[1]] = g[v[1]] /\ u[2] = v[2]  BY <2>2
    <3>2. u[1] = v[1]  BY <1>1, <1>4, <3>1
    <3> QED BY <1>4, <3>1, <3>2
  <2> HIDE DEF inj
  <2> QED BY <2>1, <2>2 DEF Injection, IsInjective
<1> HIDE DEF inj
<1>7. IsFiniteSet(Units(h, S))  BY <1>3, UnitsFinite
<1>8. Cardinality(Units(f, T)) <= Cardinality(Units(h, S))  BY <1>6, <1>7, FS_Injection
<1> QED BY <1>8 DEF Total, f, h

-----------------------------------------------------------------------------
(***************************************************************************)
(* Types.                                                                  *)
(***************************************************************************)

\* A sequence and the same with one element more.
LEMMA AppendRow ==
    ASSUME NEW S, NEW s \in Seq(S), NEW x \in S
    PROVE  /\ Append(s, x) \in Seq(S) /\ Len(Append(s, x)) = Len(s) + 1 /\ Len(s) \in Nat
           /\ DOMAIN s = 1 .. Len(s) /\ DOMAIN Append(s, x) = 1 .. Len(s) + 1
           /\ \A k \in 1 .. Len(s) : Append(s, x)[k] = s[k]
           /\ Append(s, x)[Len(s) + 1] = x
<1>1. Len(s) \in Nat /\ DOMAIN s = 1 .. Len(s)  OBVIOUS
<1>2. Append(s, x) \in Seq(S) /\ Len(Append(s, x)) = Len(s) + 1  OBVIOUS
<1>3. DOMAIN Append(s, x) = 1 .. Len(s) + 1  BY <1>2
<1>4. \A k \in 1 .. Len(s) : Append(s, x)[k] = s[k]  BY <1>1
<1>5. Append(s, x)[Len(s) + 1] = x  OBVIOUS
<1> QED BY <1>1, <1>2, <1>3, <1>4, <1>5

\* The book and the table by their places.
LEMMA Places ==
    ASSUME TypeOK
    PROVE  /\ Len(orders) \in Nat /\ DOMAIN orders = 1 .. Len(orders)
           /\ \A k \in DOMAIN orders : orders[k] \in Order /\ orders[k].qty \in Nat
           /\ Len(rows) \in Nat /\ DOMAIN rows = 1 .. Len(rows)
           /\ \A k \in DOMAIN rows : rows[k] \in Row /\ rows[k].qty \in Nat
<1>1. orders \in Seq(Order) /\ rows \in Seq(Row)  BY DEF TypeOK
<1>2. /\ Len(orders) \in Nat /\ DOMAIN orders = 1 .. Len(orders)
      /\ \A k \in DOMAIN orders : orders[k] \in Order
  BY <1>1
<1>3. /\ Len(rows) \in Nat /\ DOMAIN rows = 1 .. Len(rows)
      /\ \A k \in DOMAIN rows : rows[k] \in Row
  BY <1>1
<1>4. (\A o \in Order : o.qty \in Nat) /\ \A w \in Row : w.qty \in Nat  BY DEF Order, Row
<1> QED BY <1>2, <1>3, <1>4

\* An order the venue takes: the book grows by it.
LEMMA Taken ==
    ASSUME TypeOK, NEW r \in Asked, Take(r)
    PROVE  /\ orders' \in Seq(Order) /\ cash' \in Nat /\ held' = held
           /\ Len(orders') = Len(orders) + 1
           /\ \A k \in 1 .. Len(orders) : orders'[k] = orders[k]
           /\ orders'[Len(orders) + 1] =
                 [symbol |-> r.symbol, side |-> r.side, qty |-> r.qty, day |-> day,
                  state |-> "resting", done |-> 0, fresh |-> r.fresh]
           /\ cash' = IF r.side = "buy" THEN cash - r.qty ELSE cash
<1> DEFINE new == [symbol |-> r.symbol, side |-> r.side, qty |-> r.qty, day |-> day,
                   state |-> "resting", done |-> 0, fresh |-> r.fresh]
<1>1. new \in Order  BY DEF TypeOK, Order, Asked
<1>2. orders' = Append(orders, new) /\ orders \in Seq(Order)  BY DEF Take, TypeOK
<1>3. cash' \in Nat  BY DEF Take, TypeOK, Asked
<1>4. held' = held /\ cash' = IF r.side = "buy" THEN cash - r.qty ELSE cash  BY DEF Take
<1> HIDE DEF new
<1>5. /\ orders' \in Seq(Order) /\ Len(orders') = Len(orders) + 1
      /\ \A k \in 1 .. Len(orders) : orders'[k] = orders[k]
      /\ orders'[Len(orders) + 1] = new
  BY <1>1, <1>2, AppendRow
<1> QED BY <1>3, <1>4, <1>5 DEF new

\* A change of one order.
LEMMA Changed ==
    ASSUME TypeOK, NEW k \in DOMAIN orders, NEW o \in Order, orders' = [orders EXCEPT ![k] = o]
    PROVE  /\ orders' \in Seq(Order) /\ Len(orders') = Len(orders) /\ orders'[k] = o
           /\ \A j \in DOMAIN orders : j # k => orders'[j] = orders[j]
BY DEF TypeOK

\* The venue cancels one resting order, and gives back what a buy had reserved.
LEMMA CancelIs ==
    ASSUME TypeOK, Cancel
    PROVE  \E k \in DOMAIN orders :
              /\ orders[k].state = "resting"
              /\ orders' \in Seq(Order) /\ Len(orders') = Len(orders)
              /\ orders'[k] = [orders[k] EXCEPT !.state = "cancelled"]
              /\ \A j \in DOMAIN orders : j # k => orders'[j] = orders[j]
              /\ cash' = IF orders[k].side = "buy" THEN cash + orders[k].qty ELSE cash
<1>1. PICK k \in DOMAIN orders :
          /\ orders[k].state = "resting"
          /\ orders' = [orders EXCEPT ![k].state = "cancelled"]
          /\ cash' = IF orders[k].side = "buy" THEN cash + orders[k].qty ELSE cash
  BY DEF Cancel
<1> DEFINE o == [orders[k] EXCEPT !.state = "cancelled"]
<1>2. o \in Order  BY Places DEF Order
<1>3. orders' = [orders EXCEPT ![k] = o]  BY <1>1
<1> HIDE DEF o
<1>4. /\ orders' \in Seq(Order) /\ Len(orders') = Len(orders) /\ orders'[k] = o
      /\ \A j \in DOMAIN orders : j # k => orders'[j] = orders[j]
  BY <1>2, <1>3, Changed
<1> QED BY <1>1, <1>4 DEF o

\* The venue fills one resting order: shares for the cash reserved, or cash for shares.
LEMMA FillIs ==
    ASSUME TypeOK, Fill
    PROVE  \E k \in DOMAIN orders :
              /\ orders[k].state = "resting"
              /\ orders[k].side = "sell" => orders[k].qty <= held[orders[k].symbol]
              /\ orders' \in Seq(Order) /\ Len(orders') = Len(orders)
              /\ orders'[k] = [orders[k] EXCEPT !.state = "filled", !.done = day]
              /\ \A j \in DOMAIN orders : j # k => orders'[j] = orders[j]
              /\ held' = [held EXCEPT ![orders[k].symbol] =
                             IF orders[k].side = "buy" THEN @ + orders[k].qty ELSE @ - orders[k].qty]
              /\ cash' = IF orders[k].side = "buy" THEN cash ELSE cash + orders[k].qty
<1>1. PICK k \in DOMAIN orders :
          /\ orders[k].state = "resting"
          /\ orders[k].side = "sell" => orders[k].qty <= held[orders[k].symbol]
          /\ orders' = [orders EXCEPT ![k].state = "filled", ![k].done = day]
          /\ held' = [held EXCEPT ![orders[k].symbol] =
                         IF orders[k].side = "buy" THEN @ + orders[k].qty ELSE @ - orders[k].qty]
          /\ cash' = IF orders[k].side = "buy" THEN cash ELSE cash + orders[k].qty
  BY DEF Fill
<1> DEFINE o == [orders[k] EXCEPT !.state = "filled", !.done = day]
<1>2. o \in Order
  <2>1. orders[k] \in Order /\ day \in Nat  BY Places DEF TypeOK
  <2> QED BY <2>1 DEF Order
<1>3. orders' = [orders EXCEPT ![k] = o]  BY <1>1
<1> HIDE DEF o
<1>4. /\ orders' \in Seq(Order) /\ Len(orders') = Len(orders) /\ orders'[k] = o
      /\ \A j \in DOMAIN orders : j # k => orders'[j] = orders[j]
  BY <1>2, <1>3, Changed
<1> QED BY <1>1, <1>4 DEF o

\* The types hold for every calendar, every universe, every amount and every bound.
THEOREM TypeCorrect == Spec => []TypeOK
<1>1. Init => TypeOK
  <2>1. Init => day \in Nat /\ cash \in Nat  BY OrderAssumption DEF Init
  <2>2. Init => orders \in Seq(Order) /\ rows \in Seq(Row)  BY DEF Init
  <2>3. Init => client \in [cash : Nat, orders : Nat]  BY OrderAssumption DEF Init
  <2>4. Init => /\ loop \in [on : BOOLEAN, left : SUBSET Symbol, cycles : Nat]
                /\ own \in [Symbol -> {0, 1}] /\ held \in [Symbol -> Nat]
    BY DEF Init
  <2>5. Init => pc \in Pc  BY DEF Init, Pc
  <2>6. Init => asked \subseteq Asked  BY DEF Init
  <2>7. Init => lost \in Nat /\ trades \in Nat  BY DEF Init
  <2>8. Init => stop \in BOOLEAN  BY Zenon DEF Init
  <2> QED BY <2>1, <2>2, <2>3, <2>4, <2>5, <2>6, <2>7, <2>8 DEF TypeOK
<1>2. TypeOK /\ [Next]_vars => TypeOK'
  <2>1. SUFFICES ASSUME TypeOK, [Next]_vars PROVE TypeOK'  OBVIOUS
  <2>2. CASE Connect  BY <2>1, <2>2, Places DEF TypeOK, Connect, account, paper
  <2>3. CASE Begin
    <3>1. PICK s \in Symbol, side \in Side, n \in Amounts :
              asked' = {[id |-> 0, symbol |-> s, side |-> side,
                         qty |-> IF side = "sell" /\ 0 < held[s] /\ held[s] < n THEN held[s] ELSE n,
                         fresh |-> FALSE]}
      BY <2>3 DEF Begin, Submission
    <3>2. n \in Nat /\ held[s] \in Nat  BY <2>1, OrderAssumption DEF TypeOK
    <3>3. asked' \subseteq Asked  BY <3>1, <3>2 DEF Asked
    <3> QED BY <2>1, <2>3, <3>3 DEF TypeOK, Begin, Submission, account, paper, Pc
  <2>4. CASE Risk
    BY <2>1, <2>4 DEF TypeOK, Risk, Refused, Submission, account, paper, Pc
  <2>5. CASE Brake
    BY <2>1, <2>5 DEF TypeOK, Brake, Refused, Submission, account, paper, Pc
  <2>6. CASE OutOfHours
    BY <2>1, <2>6 DEF TypeOK, OutOfHours, Refused, Submission, account, paper, Pc
  <2>7. CASE Guards
    <3>1. {[r EXCEPT !.fresh = (client.cash = cash)] : r \in asked} \subseteq Asked
      <4>1. \A r \in Asked : [r EXCEPT !.fresh = (client.cash = cash)] \in Asked
        BY DEF Asked
      <4> QED BY <2>1, <4>1 DEF TypeOK
    <3> QED BY <2>1, <2>7, <3>1 DEF TypeOK, Guards, Refused, Submission, account, paper, Pc
  <2>8. CASE Send
    <3>1. PICK r \in asked :
              \/ Take(r) /\ asked' = {[r EXCEPT !.id = Len(orders) + 1]}
              \/ UNCHANGED <<account, asked>>
      BY <2>8 DEF Send
    <3>2. r \in Asked  BY <2>1 DEF TypeOK
    <3>3. cash' \in Nat /\ held' \in [Symbol -> Nat] /\ orders' \in Seq(Order)
      BY <2>1, <3>1, <3>2, Taken DEF TypeOK, account
    <3>4. asked' \subseteq Asked
      <4>1. Len(orders) + 1 \in Nat  BY <2>1, Places
      <4>2. [r EXCEPT !.id = Len(orders) + 1] \in Asked  BY <3>2, <4>1 DEF Asked
      <4> QED BY <2>1, <3>1, <4>2 DEF TypeOK
    <3> QED BY <2>1, <2>8, <3>3, <3>4 DEF TypeOK, Send, paper, Pc
  <2>9. CASE SendFails
    <3>1. PICK r \in asked : Take(r) \/ UNCHANGED account  BY <2>9 DEF SendFails
    <3>2. r \in Asked  BY <2>1 DEF TypeOK
    <3>3. cash' \in Nat /\ held' \in [Symbol -> Nat] /\ orders' \in Seq(Order)
      BY <2>1, <3>1, <3>2, Taken DEF TypeOK, account
    <3> QED BY <2>1, <2>9, <3>3 DEF TypeOK, SendFails, paper, Pc
  <2>10. CASE LogOrder
    <3>1. PICK r \in asked : rows' = Append(rows, RowOf(r))  BY <2>10 DEF LogOrder
    <3>2. RowOf(r) \in Row  BY <2>1 DEF TypeOK, Asked, Row, RowOf
    <3>3. rows' \in Seq(Row)  BY <2>1, <3>1, <3>2, AppendRow DEF TypeOK
    <3> QED BY <2>1, <2>10, <3>3 DEF TypeOK, LogOrder, Submission, account, paper, Pc
  <2>11. CASE Count  BY <2>1, <2>11 DEF TypeOK, Count, Submission, account, paper, Pc
  <2>12. CASE Die  BY <2>1, <2>12 DEF TypeOK, Die, Submission, account, paper, Pc
  <2>13. CASE Cancel
    <3>1. cash' \in Nat /\ orders' \in Seq(Order)
      <4>1. PICK k \in DOMAIN orders :
                /\ orders' \in Seq(Order)
                /\ cash' = IF orders[k].side = "buy" THEN cash + orders[k].qty ELSE cash
        BY <2>1, <2>13, CancelIs
      <4>2. orders[k].qty \in Nat /\ cash \in Nat  BY <2>1, Places DEF TypeOK
      <4> QED BY <4>1, <4>2
    <3> QED BY <2>1, <2>13, <3>1 DEF TypeOK, Cancel, session, paper
  <2>14. CASE CycleStarts
    BY <2>1, <2>14 DEF TypeOK, CycleStarts, Looping, account, session
  <2>15. CASE LoopHalts
    BY <2>1, <2>15, OrderAssumption DEF TypeOK, LoopHalts, Looping, account, session
  <2>16. CASE SymbolSkipped
    BY <2>1, <2>16 DEF TypeOK, SymbolSkipped, Looping, account, session
  <2>17. CASE PaperFill
    <3>1. PICK s \in loop.left, n \in Amounts :
              /\ rows' = Append(rows, RowOf([id |-> 0, symbol |-> s, qty |-> n,
                                             side |-> IF own[s] = 0 THEN "buy" ELSE "sell"]))
              /\ own' = [own EXCEPT ![s] = 1 - own[s]]
              /\ loop' = [loop EXCEPT !.left = @ \ {s}]
      BY <2>17 DEF PaperFill
    <3>2. s \in Symbol /\ n \in Nat  BY <2>1, OrderAssumption DEF TypeOK
    <3>3. RowOf([id |-> 0, symbol |-> s, qty |-> n,
                 side |-> IF own[s] = 0 THEN "buy" ELSE "sell"]) \in Row
      BY <2>1, <3>2 DEF TypeOK, RowOf, Row, Side
    <3>4. rows' \in Seq(Row)  BY <2>1, <3>1, <3>3, AppendRow DEF TypeOK
    <3>5. own' \in [Symbol -> {0, 1}] /\ loop' \in [on : BOOLEAN, left : SUBSET Symbol, cycles : Nat]
      <4>1. 1 - own[s] \in {0, 1}
        <5>1. own[s] = 0 \/ own[s] = 1  BY <2>1, <3>2 DEF TypeOK
        <5> QED BY <5>1
      <4>2. own' \in [Symbol -> {0, 1}]  BY <2>1, <3>1, <4>1 DEF TypeOK
      <4>3. loop.left \ {s} \in SUBSET Symbol  BY <2>1 DEF TypeOK
      <4>4. loop' \in [on : BOOLEAN, left : SUBSET Symbol, cycles : Nat]
        BY <2>1, <3>1, <4>3 DEF TypeOK
      <4> QED BY <4>2, <4>4
    <3> QED BY <2>1, <2>17, <3>4, <3>5 DEF TypeOK, PaperFill, Looping, account, session
  <2>18. CASE CycleOver
    BY <2>1, <2>18 DEF TypeOK, CycleOver, Looping, account, session
  <2>19. CASE Fill
    <3>1. cash' \in Nat /\ held' \in [Symbol -> Nat] /\ orders' \in Seq(Order)
      <4>1. PICK k \in DOMAIN orders :
                /\ orders[k].side = "sell" => orders[k].qty <= held[orders[k].symbol]
                /\ orders' \in Seq(Order)
                /\ held' = [held EXCEPT ![orders[k].symbol] =
                               IF orders[k].side = "buy" THEN @ + orders[k].qty ELSE @ - orders[k].qty]
                /\ cash' = IF orders[k].side = "buy" THEN cash ELSE cash + orders[k].qty
        BY <2>1, <2>19, FillIs
      <4>2. /\ orders[k].qty \in Nat /\ orders[k].symbol \in Symbol
            /\ orders[k].side \in {"buy", "sell"}
        BY <2>1, Places DEF Order, Side
      <4>3. held[orders[k].symbol] \in Nat /\ cash \in Nat /\ held \in [Symbol -> Nat]
        BY <2>1, <4>2 DEF TypeOK
      <4>4. (IF orders[k].side = "buy" THEN held[orders[k].symbol] + orders[k].qty
             ELSE held[orders[k].symbol] - orders[k].qty) \in Nat
        BY <4>1, <4>2, <4>3
      <4> QED BY <4>1, <4>2, <4>3, <4>4
    <3> QED BY <2>1, <2>19, <3>1 DEF TypeOK, Fill, Elsewhere, session, paper
  <2>20. CASE ToggleStop
    BY <2>1, <2>20 DEF TypeOK, ToggleStop, Elsewhere, account, session, paper
  <2>21. CASE NewDay
    BY <2>1, <2>21 DEF TypeOK, NewDay, Elsewhere, account, session, paper
  <2>22. CASE UNCHANGED vars
    BY <2>1, <2>22 DEF TypeOK, vars, account, session, paper
  <2> QED
    BY <2>1, <2>2, <2>3, <2>4, <2>5, <2>6, <2>7, <2>8, <2>9, <2>10, <2>11, <2>12, <2>13, <2>14,
       <2>15, <2>16, <2>17, <2>18, <2>19, <2>20, <2>21, <2>22 DEF Next
<1> QED BY <1>1, <1>2, PTL DEF Spec

-----------------------------------------------------------------------------
(***************************************************************************)
(* What a step does to the account and to the table.                       *)
(***************************************************************************)

\* The account changes when the venue takes, cancels or fills an order.
LEMMA AccountSteps ==
    ASSUME [Next]_vars
    PROVE  \/ UNCHANGED account
           \/ (Send \/ SendFails) /\ \E r \in asked : Take(r)
           \/ Cancel
           \/ Fill
<1>1. CASE Send \/ SendFails  BY <1>1 DEF Send, SendFails, account
<1>2. CASE Connect \/ Begin \/ Risk \/ Brake \/ OutOfHours \/ Guards \/ LogOrder \/ Count \/ Die
  BY <1>2 DEF Connect, Begin, Risk, Brake, OutOfHours, Guards, LogOrder, Count, Die, Refused, Submission
<1>3. CASE CycleStarts \/ LoopHalts \/ SymbolSkipped \/ PaperFill \/ CycleOver
  BY <1>3 DEF CycleStarts, LoopHalts, SymbolSkipped, PaperFill, CycleOver, Looping
<1>4. CASE ToggleStop \/ NewDay  BY <1>4 DEF ToggleStop, NewDay
<1>5. CASE UNCHANGED vars  BY <1>5 DEF vars
<1> QED BY <1>1, <1>2, <1>3, <1>4, <1>5 DEF Next

\* The table grows by the row of a submission or of a paper fill.
LEMMA TableSteps ==
    ASSUME [Next]_vars
    PROVE  UNCHANGED rows \/ LogOrder \/ PaperFill
<1>1. CASE Connect \/ Begin \/ Risk \/ Brake \/ OutOfHours \/ Guards \/ Count \/ Die
  BY <1>1 DEF Connect, Begin, Risk, Brake, OutOfHours, Guards, Count, Die, Refused, Submission
<1>2. CASE CycleStarts \/ LoopHalts \/ SymbolSkipped \/ CycleOver
  BY <1>2 DEF CycleStarts, LoopHalts, SymbolSkipped, CycleOver
<1>3. CASE Send \/ SendFails \/ Cancel \/ Fill \/ ToggleStop \/ NewDay
  BY <1>3 DEF Send, SendFails, Cancel, Fill, ToggleStop, NewDay, Elsewhere
<1>4. CASE UNCHANGED vars  BY <1>4 DEF vars
<1> QED BY <1>1, <1>2, <1>3, <1>4 DEF Next

\* What an order is does not change, only what becomes of it.
Alike(o, p) ==
    o.symbol = p.symbol /\ o.side = p.side /\ o.qty = p.qty /\ o.day = p.day /\ o.fresh = p.fresh

\* The book only grows, by one order at a time.
LEMMA Kept ==
    ASSUME TypeOK, [Next]_vars
    PROVE  /\ Len(orders') \in {Len(orders), Len(orders) + 1}
           /\ \A k \in 1 .. Len(orders) : Alike(orders'[k], orders[k])
<1>1. CASE UNCHANGED account  BY <1>1 DEF account, Alike
<1>2. CASE \E r \in asked : Take(r)
  <2>1. PICK r \in asked : Take(r)  BY <1>2
  <2>2. r \in Asked  BY DEF TypeOK
  <2> QED BY <2>1, <2>2, Taken DEF Alike
<1>3. CASE Cancel
  <2>1. PICK k \in DOMAIN orders :
            /\ Len(orders') = Len(orders)
            /\ orders'[k] = [orders[k] EXCEPT !.state = "cancelled"]
            /\ \A j \in DOMAIN orders : j # k => orders'[j] = orders[j]
    BY <1>3, CancelIs
  <2>2. orders[k] \in Order  BY Places
  <2>3. Alike(orders'[k], orders[k])  BY <2>1, <2>2 DEF Alike, Order
  <2> QED BY <2>1, <2>3, Places DEF Alike
<1>4. CASE Fill
  <2>1. PICK k \in DOMAIN orders :
            /\ Len(orders') = Len(orders)
            /\ orders'[k] = [orders[k] EXCEPT !.state = "filled", !.done = day]
            /\ \A j \in DOMAIN orders : j # k => orders'[j] = orders[j]
    BY <1>4, FillIs
  <2>2. orders[k] \in Order  BY Places
  <2>3. Alike(orders'[k], orders[k])  BY <2>1, <2>2 DEF Alike, Order
  <2> QED BY <2>1, <2>3, Places DEF Alike
<1> QED BY <1>1, <1>2, <1>3, <1>4, AccountSteps

-----------------------------------------------------------------------------
(***************************************************************************)
(* What the good-faith and the day-trader guard rest on.                   *)
(***************************************************************************)

\* A row with an id is that order of the book.
RowsTrue ==
    \A j \in DOMAIN rows :
        /\ rows[j].id \in 0 .. Len(orders)
        /\ rows[j].id # 0 =>
              /\ rows[j].symbol = orders[rows[j].id].symbol /\ rows[j].side = orders[rows[j].id].side
              /\ rows[j].qty = orders[rows[j].id].qty /\ rows[j].day = orders[rows[j].id].day

\* Until it is sent a submission has no place in the book; then it has the last.
AskedTrue ==
    \A r \in asked :
        /\ pc \in {"risk", "brake", "guards", "send"} => r.id = 0
        /\ pc = "log" /\ r.id # 0 =>
              /\ r.id = Len(orders)
              /\ r.symbol = orders[r.id].symbol /\ r.side = orders[r.id].side
              /\ r.qty = orders[r.id].qty /\ day = orders[r.id].day

\* Orders are placed in sessions, one after the other.
InOrder ==
    /\ pc \in {"guards", "send"} => IsSession(day)
    /\ FirstDay <= day
    /\ \A k \in DOMAIN orders : orders[k].day \in FirstDay .. day /\ IsSession(orders[k].day)
    /\ \A b, k \in DOMAIN orders : b <= k => orders[b].day <= orders[k].day

\* What the client read is at most what is there with what was bought since.
CashKnown ==
    /\ client.orders <= Len(orders)
    /\ client.cash <= cash + Total(orders, BoughtSince(client.orders))

\* A row is written for an order that is in the book, and the book keeps it.
LEMMA RowsTrueStep ==
    ASSUME TypeOK, TypeOK', RowsTrue, AskedTrue, [Next]_vars
    PROVE  RowsTrue'
<1> USE DEF Alike
<1>1. /\ Len(orders) \in Nat /\ DOMAIN rows = 1 .. Len(rows) /\ Len(rows) \in Nat
      /\ \A k \in DOMAIN rows : rows[k] \in Row /\ rows[k].id \in Nat
  BY Places DEF Row
<1>2. /\ Len(orders') \in {Len(orders), Len(orders) + 1}
      /\ \A k \in 1 .. Len(orders) : Alike(orders'[k], orders[k])
  BY Kept
\* The rows there were are as true of the book after the step.
<1>3. \A j \in DOMAIN rows :
          /\ rows[j].id \in 0 .. Len(orders')
          /\ rows[j].id # 0 =>
                /\ rows[j].symbol = orders'[rows[j].id].symbol
                /\ rows[j].side = orders'[rows[j].id].side
                /\ rows[j].qty = orders'[rows[j].id].qty /\ rows[j].day = orders'[rows[j].id].day
  <2>1. SUFFICES ASSUME NEW j \in DOMAIN rows
                 PROVE  /\ rows[j].id \in 0 .. Len(orders')
                        /\ rows[j].id # 0 =>
                              /\ rows[j].symbol = orders'[rows[j].id].symbol
                              /\ rows[j].side = orders'[rows[j].id].side
                              /\ rows[j].qty = orders'[rows[j].id].qty
                              /\ rows[j].day = orders'[rows[j].id].day
    OBVIOUS
  <2>2. rows[j].id \in 0 .. Len(orders)  BY <2>1 DEF RowsTrue
  <2>3. rows[j].id \in 0 .. Len(orders')  BY <1>1, <1>2, <2>2
  <2>4. CASE rows[j].id = 0  BY <2>3, <2>4
  <2>5. CASE rows[j].id # 0
    <3>1. rows[j].id \in 1 .. Len(orders)  BY <1>1, <2>2, <2>5
    <3>2. Alike(orders'[rows[j].id], orders[rows[j].id])  BY <1>2, <3>1
    <3> QED BY <2>3, <2>5, <3>2 DEF RowsTrue
  <2> QED BY <2>4, <2>5
<1>4. CASE UNCHANGED rows  BY <1>3, <1>4 DEF RowsTrue
<1>5. ASSUME NEW w \in Row, rows' = Append(rows, w), w.id \in 0 .. Len(orders'),
             w.id # 0 => /\ w.symbol = orders'[w.id].symbol /\ w.side = orders'[w.id].side
                         /\ w.qty = orders'[w.id].qty /\ w.day = orders'[w.id].day
      PROVE  RowsTrue'
  <2>1. /\ DOMAIN rows' = 1 .. Len(rows) + 1 /\ rows'[Len(rows) + 1] = w
        /\ \A k \in 1 .. Len(rows) : rows'[k] = rows[k]
    BY <1>5, AppendRow DEF TypeOK
  <2>2. \A j \in DOMAIN rows' : (j \in DOMAIN rows /\ rows'[j] = rows[j]) \/ rows'[j] = w
    BY <1>1, <2>1
  <2> QED BY <1>3, <1>5, <2>2 DEF RowsTrue
<1>6. CASE LogOrder
  <2>1. PICK r \in asked : rows' = Append(rows, RowOf(r))  BY <1>6 DEF LogOrder
  <2>2. r \in Asked /\ RowOf(r) \in Row  BY <2>1 DEF TypeOK, Asked, Row, RowOf
  <2>3. UNCHANGED orders /\ pc = "log" BY <1>6 DEF LogOrder, Submission, account
  <2>4. r.id = 0 \/ r.id = Len(orders) BY <2>1, <2>3 DEF AskedTrue
  <2>5. RowOf(r).id \in 0 .. Len(orders')  BY <1>1, <2>3, <2>4 DEF RowOf
  <2>6. RowOf(r).id # 0 => /\ RowOf(r).symbol = orders'[RowOf(r).id].symbol
                           /\ RowOf(r).side = orders'[RowOf(r).id].side
                           /\ RowOf(r).qty = orders'[RowOf(r).id].qty
                           /\ RowOf(r).day = orders'[RowOf(r).id].day
    BY <2>1, <2>3 DEF AskedTrue, RowOf
  <2> QED BY <1>5, <2>1, <2>2, <2>5, <2>6
<1>7. CASE PaperFill
  <2>1. PICK s \in loop.left, n \in Amounts :
            rows' = Append(rows, RowOf([id |-> 0, symbol |-> s, qty |-> n,
                                        side |-> IF own[s] = 0 THEN "buy" ELSE "sell"]))
    BY <1>7 DEF PaperFill
  <2> DEFINE w == RowOf([id |-> 0, symbol |-> s, qty |-> n,
                         side |-> IF own[s] = 0 THEN "buy" ELSE "sell"])
  <2>2. w \in Row /\ w.id = 0 BY OrderAssumption DEF TypeOK, RowOf, Row, Side
  <2>3. 0 \in 0 .. Len(orders')  BY <1>1, <1>2
  <2> HIDE DEF w
  <2> QED BY <1>5, <2>1, <2>2, <2>3 DEF w
<1> QED BY <1>4, <1>6, <1>7, TableSteps

\* A submission has the last place of the book from the send to its row.
LEMMA AskedTrueStep ==
    ASSUME TypeOK, TypeOK', AskedTrue, [Next]_vars
    PROVE  AskedTrue'
<1> USE DEF Pc
<1>1. CASE Connect  BY <1>1 DEF Connect, AskedTrue
<1>2. CASE Begin
  <2>1. pc' = "risk" /\ \A r \in asked' : r.id = 0  BY <1>2 DEF Begin, Submission
  <2> QED BY <2>1 DEF AskedTrue
<1>3. CASE Risk  BY <1>3 DEF Risk, Refused, Submission, AskedTrue
<1>4. CASE Brake  BY <1>4 DEF Brake, Refused, Submission, AskedTrue
<1>5. CASE OutOfHours  BY <1>5 DEF OutOfHours, Refused, Submission, AskedTrue
<1>6. CASE Guards
  <2>1. CASE asked' = {}  BY <2>1 DEF AskedTrue
  <2>2. CASE pc' = "send" /\ asked' = {[r EXCEPT !.fresh = (client.cash = cash)] : r \in asked}
    <3>1. \A r \in asked : r.id = 0 /\ r \in Asked  BY <1>6 DEF Guards, AskedTrue, TypeOK
    <3>2. \A r \in asked' : r.id = 0  BY <2>2, <3>1 DEF Asked
    <3> QED BY <2>2, <3>2 DEF AskedTrue
  <2> QED BY <1>6, <2>1, <2>2 DEF Guards, Refused, Submission
<1>7. CASE Send
  <2>1. PICK r \in asked : \/ Take(r) /\ asked' = {[r EXCEPT !.id = Len(orders) + 1]}
                           \/ UNCHANGED <<account, asked>>
    BY <1>7 DEF Send
  <2>2. r \in Asked /\ r.id = 0 /\ pc' = "log" /\ day' = day /\ \A q \in asked : q.id = 0
    BY <1>7, <2>1 DEF Send, AskedTrue, TypeOK
  <2>3. CASE asked' = asked  BY <2>2, <2>3 DEF AskedTrue
  <2>4. CASE Take(r) /\ asked' = {[r EXCEPT !.id = Len(orders) + 1]}
    <3>1. /\ Len(orders') = Len(orders) + 1
          /\ orders'[Len(orders) + 1] =
                [symbol |-> r.symbol, side |-> r.side, qty |-> r.qty, day |-> day,
                 state |-> "resting", done |-> 0, fresh |-> r.fresh]
      BY <2>2, <2>4, Taken
    <3>2. \A q \in asked' : /\ q.id = Len(orders) + 1 /\ q.symbol = r.symbol
                            /\ q.side = r.side /\ q.qty = r.qty
      BY <2>2, <2>4 DEF Asked
    <3> QED BY <2>2, <3>1, <3>2 DEF AskedTrue
  <2> QED BY <2>1, <2>3, <2>4
<1>8. CASE SendFails  BY <1>8 DEF SendFails, AskedTrue
<1>9. CASE LogOrder  BY <1>9 DEF LogOrder, Submission, AskedTrue
<1>10. CASE Count  BY <1>10 DEF Count, Submission, AskedTrue
<1>11. CASE Die  BY <1>11 DEF Die, Submission, AskedTrue
<1>12. CASE Cancel  BY <1>12 DEF Cancel, session, AskedTrue
\* The other steps leave the submission alone, and its order as it was placed.
<1>13. ASSUME UNCHANGED <<session, day>>, Len(orders') = Len(orders)
       PROVE  AskedTrue'
  <2>1. pc' = pc /\ asked' = asked /\ day' = day  BY <1>13 DEF session
  <2>2. ASSUME NEW r \in asked, pc = "log", r.id # 0
        PROVE  /\ r.id = Len(orders')
               /\ r.symbol = orders'[r.id].symbol /\ r.side = orders'[r.id].side
               /\ r.qty = orders'[r.id].qty /\ day' = orders'[r.id].day
    <3>1. /\ r.id = Len(orders)
          /\ r.symbol = orders[r.id].symbol /\ r.side = orders[r.id].side
          /\ r.qty = orders[r.id].qty /\ day = orders[r.id].day
      BY <2>2 DEF AskedTrue
    <3>2. r.id \in 1 .. Len(orders)  BY <2>2, <3>1, Places
    <3>3. Alike(orders'[r.id], orders[r.id])  BY <3>2, Kept
    <3> QED BY <1>13, <2>1, <3>1, <3>3 DEF Alike
  <2>3. \A r \in asked : pc \in {"risk", "brake", "guards", "send"} => r.id = 0  BY DEF AskedTrue
  <2> QED BY <2>1, <2>2, <2>3 DEF AskedTrue
<1>14. CASE CycleStarts \/ LoopHalts \/ SymbolSkipped \/ PaperFill \/ CycleOver
  BY <1>13, <1>14 DEF CycleStarts, LoopHalts, SymbolSkipped, PaperFill, CycleOver, Looping, account
<1>15. CASE Fill
  <2>1. Len(orders') = Len(orders)  BY <1>15, FillIs
  <2> QED BY <1>13, <1>15, <2>1 DEF Fill, Elsewhere
<1>16. CASE ToggleStop  BY <1>13, <1>16 DEF ToggleStop, Elsewhere, account
<1>17. CASE NewDay  BY <1>17 DEF NewDay, Elsewhere, session, AskedTrue
<1>18. CASE UNCHANGED vars  BY <1>13, <1>18 DEF vars, account
<1> QED
  BY <1>1, <1>2, <1>3, <1>4, <1>5, <1>6, <1>7, <1>8, <1>9, <1>10, <1>11, <1>12, <1>14, <1>15,
     <1>16, <1>17, <1>18 DEF Next

\* A new order is of the present day, and that is a session.
LEMMA InOrderStep ==
    ASSUME TypeOK, TypeOK', InOrder, [Next]_vars
    PROVE  InOrder'
<1> USE DEF Pc
<1>1. /\ Len(orders) \in Nat /\ DOMAIN orders = 1 .. Len(orders)
      /\ \A k \in DOMAIN orders : orders[k] \in Order /\ orders[k].day \in Nat
      /\ Len(orders') \in Nat /\ DOMAIN orders' = 1 .. Len(orders')
      /\ day \in Nat /\ day' \in Nat /\ FirstDay \in Nat
  <2>1. \A o \in Order : o.day \in Nat  BY DEF Order
  <2>2. orders' \in Seq(Order) /\ day \in Nat /\ day' \in Nat /\ FirstDay \in Nat
    BY OrderAssumption DEF TypeOK
  <2>3. Len(orders') \in Nat /\ DOMAIN orders' = 1 .. Len(orders')  BY <2>2
  <2> QED BY <2>1, <2>2, <2>3, Places
<1>2. /\ Len(orders') \in {Len(orders), Len(orders) + 1}
      /\ \A k \in 1 .. Len(orders) : orders'[k].day = orders[k].day
  BY Kept DEF Alike
\* The order of the book.
<1>3. /\ day' = day \/ day' = day + 1
      /\ \A k \in DOMAIN orders' \ DOMAIN orders :
            k = Len(orders) + 1 /\ orders'[k].day = day /\ IsSession(day)
  <2>1. CASE UNCHANGED account
    <3>1. DOMAIN orders' = DOMAIN orders  BY <2>1 DEF account
    <3>2. day' = day \/ day' = day + 1
      <4>1. CASE NewDay  BY <4>1 DEF NewDay
      <4>2. CASE Connect \/ Begin \/ Risk \/ Brake \/ OutOfHours \/ Guards \/ LogOrder \/ Count \/ Die
        BY <4>2 DEF Connect, Begin, Risk, Brake, OutOfHours, Guards, LogOrder, Count, Die, Refused,
                    Submission
      <4>3. CASE CycleStarts \/ LoopHalts \/ SymbolSkipped \/ PaperFill \/ CycleOver
        BY <4>3 DEF CycleStarts, LoopHalts, SymbolSkipped, PaperFill, CycleOver, Looping
      <4>4. CASE Send \/ SendFails \/ Cancel \/ Fill \/ ToggleStop
        BY <4>4 DEF Send, SendFails, Cancel, Fill, ToggleStop
      <4>5. CASE UNCHANGED vars  BY <4>5 DEF vars
      <4> QED BY <4>1, <4>2, <4>3, <4>4, <4>5 DEF Next
    <3> QED BY <1>1, <3>1, <3>2
  <2>2. CASE (Send \/ SendFails) /\ \E r \in asked : Take(r)
    <3>1. PICK r \in asked : Take(r)  BY <2>2
    <3>2. r \in Asked /\ pc = "send" /\ day' = day  BY <2>2 DEF TypeOK, Send, SendFails
    <3>3. /\ Len(orders') = Len(orders) + 1
          /\ orders'[Len(orders) + 1] =
                [symbol |-> r.symbol, side |-> r.side, qty |-> r.qty, day |-> day,
                 state |-> "resting", done |-> 0, fresh |-> r.fresh]
      BY <3>1, <3>2, Taken
    <3> QED BY <1>1, <3>2, <3>3 DEF InOrder
  <2>3. CASE Cancel \/ Fill
    <3>1. Len(orders') = Len(orders) /\ day' = day  BY <2>3, CancelIs, FillIs DEF Cancel, Fill
    <3> QED BY <1>1, <3>1
  <2> QED BY <2>1, <2>2, <2>3, AccountSteps
<1>4. day <= day'  BY <1>1, <1>3
<1>5. \A k \in DOMAIN orders' : orders'[k].day \in FirstDay .. day' /\ IsSession(orders'[k].day)
  <2>1. SUFFICES ASSUME NEW k \in DOMAIN orders'
                 PROVE  orders'[k].day \in FirstDay .. day' /\ IsSession(orders'[k].day)
    OBVIOUS
  <2>2. CASE k \in DOMAIN orders
    <3>1. orders'[k].day = orders[k].day  BY <1>1, <1>2, <2>2
    <3>2. orders[k].day \in FirstDay .. day /\ IsSession(orders[k].day)  BY <2>2 DEF InOrder
    <3> QED BY <1>1, <1>4, <3>1, <3>2
  <2>3. CASE k \notin DOMAIN orders
    <3>1. orders'[k].day = day /\ IsSession(day)  BY <1>3, <2>3
    <3> QED BY <1>1, <1>4, <3>1 DEF InOrder
  <2> QED BY <2>2, <2>3
<1>6. \A b, k \in DOMAIN orders' : b <= k => orders'[b].day <= orders'[k].day
  <2>1. SUFFICES ASSUME NEW b \in DOMAIN orders', NEW k \in DOMAIN orders', b <= k
                 PROVE  orders'[b].day <= orders'[k].day
    OBVIOUS
  <2>2. CASE k \in DOMAIN orders
    <3>1. b \in DOMAIN orders  BY <1>1, <2>1, <2>2
    <3>2. orders'[b].day = orders[b].day /\ orders'[k].day = orders[k].day
      BY <1>1, <1>2, <2>2, <3>1
    <3>3. orders[b].day <= orders[k].day  BY <2>1, <2>2, <3>1 DEF InOrder
    <3> QED BY <3>2, <3>3
  <2>3. CASE k \notin DOMAIN orders
    <3>1. k = Len(orders) + 1 /\ orders'[k].day = day  BY <1>3, <2>3
    <3>2. CASE b = k  BY <1>1, <3>1, <3>2
    <3>3. CASE b # k
      <4>1. b \in DOMAIN orders  BY <1>1, <1>3, <3>1, <3>3
      <4>2. orders'[b].day = orders[b].day /\ orders[b].day \in FirstDay .. day
        BY <1>1, <1>2, <4>1 DEF InOrder
      <4> QED BY <1>1, <3>1, <4>2
    <3> QED BY <3>2, <3>3
  <2> QED BY <2>2, <2>3
\* The hours are judged on the day the order is sent.
<1>7. pc' \in {"guards", "send"} => IsSession(day')
  <2>1. CASE Brake  BY <2>1 DEF Brake, Open, Refused, Submission
  <2>2. CASE Guards  BY <2>2 DEF Guards, Refused, Submission, InOrder
  <2>3. CASE Connect \/ Begin \/ Risk \/ OutOfHours
    BY <2>3 DEF Connect, Begin, Risk, OutOfHours, Refused, Submission
  <2>4. CASE LogOrder \/ Count \/ Die \/ Send \/ SendFails \/ Cancel
    BY <2>4 DEF LogOrder, Count, Die, Send, SendFails, Cancel, session, Submission
  <2>5. CASE CycleStarts \/ LoopHalts \/ SymbolSkipped \/ PaperFill \/ CycleOver
    BY <2>5 DEF CycleStarts, LoopHalts, SymbolSkipped, PaperFill, CycleOver, Looping, session, InOrder
  <2>6. CASE Fill \/ ToggleStop
    BY <2>6 DEF Fill, ToggleStop, Elsewhere, session, InOrder
  <2>7. CASE NewDay  BY <2>7 DEF NewDay, Elsewhere, session
  <2>8. CASE UNCHANGED vars  BY <2>8 DEF vars, session, InOrder
  <2> QED BY <2>1, <2>2, <2>3, <2>4, <2>5, <2>6, <2>7, <2>8 DEF Next
<1>8. FirstDay <= day'  BY <1>1, <1>4 DEF InOrder
<1> QED BY <1>5, <1>6, <1>7, <1>8 DEF InOrder

\* Proceeds settle on a later day than the sale.
LEMMA SettlesLater ==
    ASSUME NEW d \in Nat
    PROVE  d < SettlesOn(d)
<1> DEFINE First(x) == IsWeekday(x) /\ \A e \in d + 1 .. x - 1 : ~IsWeekday(e)
<1>1. \E x \in d + 1 .. d + 3 : First(x)
  <2>1. CASE IsWeekday(d + 1)  BY <2>1
  <2>2. CASE ~IsWeekday(d + 1) /\ IsWeekday(d + 2)  BY <2>2
  <2>3. CASE ~IsWeekday(d + 1) /\ ~IsWeekday(d + 2)
    <3>1. IsWeekday(d + 3)
      <4>1. (d + 1) % 7 \in 5 .. 6 /\ (d + 2) % 7 \in 5 .. 6  BY <2>3 DEF IsWeekday
      <4>2. (d + 3) % 7 < 5  BY <4>1
      <4> QED BY <4>2 DEF IsWeekday
    <3> QED BY <2>3, <3>1
  <2> QED BY <2>1, <2>2, <2>3
<1>2. SettlesOn(d) = CHOOSE x \in d + 1 .. d + 3 : First(x)  BY DEF SettlesOn
<1> HIDE DEF First
<1>3. SettlesOn(d) \in d + 1 .. d + 3  BY <1>1, <1>2
<1> QED BY <1>3

\* Orders of the book can be summed.
LEMMA BookWhole ==
    ASSUME NEW book \in Seq(Order), NEW S \in SUBSET (1 .. Len(book))
    PROVE  Whole(book, S) /\ Total(book, S) \in Nat
<1>1. Len(book) \in Nat /\ \A k \in 1 .. Len(book) : book[k] \in Order  OBVIOUS
<1>2. \A o \in Order : o.qty \in Nat  BY DEF Order
<1>3. IsFiniteSet(S)
  <2>1. IsFiniteSet(1 .. Len(book))
    <3>1. Len(book) \in Int /\ 1 \in Int  BY <1>1
    <3> QED BY <3>1, FS_Interval
  <2> QED BY <2>1, FS_Subset
<1>4. Whole(book, S)  BY <1>1, <1>2, <1>3 DEF Whole
<1> QED BY <1>4, TotalNat

\* A sum over the book after a step that keeps its orders.
LEMMA SameSum ==
    ASSUME TypeOK, [Next]_vars, NEW S \in SUBSET (1 .. Len(orders))
    PROVE  Total(orders', S) = Total(orders, S)
<1>1. \A k \in S : orders'[k].qty = orders[k].qty  BY Kept DEF Alike
<1> QED BY <1>1, TotalSame, Zenon

\* What the client knows changes only when it connects.
LEMMA ClientSteps ==
    ASSUME [Next]_vars
    PROVE  UNCHANGED client \/ Connect
<1>1. CASE Begin \/ Risk \/ Brake \/ OutOfHours \/ Guards \/ LogOrder \/ Count \/ Die
  BY <1>1 DEF Begin, Risk, Brake, OutOfHours, Guards, LogOrder, Count, Die, Refused, Submission
<1>2. CASE CycleStarts \/ LoopHalts \/ SymbolSkipped \/ PaperFill \/ CycleOver
  BY <1>2 DEF CycleStarts, LoopHalts, SymbolSkipped, PaperFill, CycleOver, Looping, session
<1>3. CASE Send \/ SendFails \/ Cancel \/ Fill \/ ToggleStop \/ NewDay
  BY <1>3 DEF Send, SendFails, Cancel, Fill, ToggleStop, NewDay, Elsewhere, session
<1>4. CASE UNCHANGED vars  BY <1>4 DEF vars, session
<1> QED BY <1>1, <1>2, <1>3, <1>4 DEF Next

\* A fill takes nothing back.
LEMMA FillBought ==
    ASSUME TypeOK, Fill
    PROVE  BoughtSince(client.orders)' = BoughtSince(client.orders)
<1>1. PICK k \in DOMAIN orders :
          /\ orders[k].state = "resting" /\ Len(orders') = Len(orders)
          /\ orders'[k] = [orders[k] EXCEPT !.state = "filled", !.done = day]
          /\ \A j \in DOMAIN orders : j # k => orders'[j] = orders[j]
  BY FillIs
<1>2. /\ Len(orders) \in Nat /\ DOMAIN orders = 1 .. Len(orders)
      /\ \A j \in DOMAIN orders : orders[j] \in Order
  BY Places
<1>3. orders'[k].state = "filled" /\ orders'[k].side = orders[k].side  BY <1>1, <1>2 DEF Order
<1>4. client.orders + 1 .. Len(orders) \subseteq DOMAIN orders  BY <1>2 DEF TypeOK
<1>5. \A j \in client.orders + 1 .. Len(orders) :
          (orders'[j].side = "buy" /\ orders'[j].state # "cancelled") <=>
              (orders[j].side = "buy" /\ orders[j].state # "cancelled")
  BY <1>1, <1>3, <1>4
<1>6. client' = client  BY DEF Fill, Elsewhere, session
<1> QED BY <1>1, <1>5, <1>6 DEF BoughtSince

\* A buy takes from the cash what it adds to the buys since the client was built.
LEMMA CashKnownStep ==
    ASSUME TypeOK, TypeOK', CashKnown, [Next]_vars
    PROVE  CashKnown'
<1> DEFINE n == client.orders
           B == BoughtSince(n)
<1>1. /\ Len(orders) \in Nat /\ DOMAIN orders = 1 .. Len(orders) /\ Len(orders') \in Nat
      /\ \A k \in DOMAIN orders : orders[k] \in Order /\ orders[k].qty \in Nat
      /\ n \in Nat /\ client.cash \in Nat /\ cash \in Nat /\ cash' \in Nat
      /\ orders \in Seq(Order) /\ orders' \in Seq(Order)
  <2>1. orders' \in Seq(Order) /\ orders \in Seq(Order)  BY DEF TypeOK
  <2>2. Len(orders') \in Nat  BY <2>1
  <2> QED BY <2>1, <2>2, Places DEF TypeOK
<1>2. B \in SUBSET (1 .. Len(orders)) /\ n <= Len(orders) /\ client.cash <= cash + Total(orders, B)
  BY <1>1 DEF BoughtSince, CashKnown
<1>3. Whole(orders, B) /\ Total(orders, B) \in Nat /\ Total(orders', B) = Total(orders, B)
  BY <1>1, <1>2, BookWhole, SameSum
<1>4. CASE Connect
  <2>1. client' = [cash |-> cash, orders |-> Len(orders)] /\ orders' = orders /\ cash' = cash
    BY <1>4 DEF Connect, account
  <2>2. BoughtSince(client.orders)' = {}  BY <1>1, <2>1 DEF BoughtSince
  <2>3. Total(orders', BoughtSince(client.orders)') = 0  BY <2>2, TotalNone, Zenon
  <2> QED BY <1>1, <2>1, <2>3 DEF CashKnown
<1>5. CASE UNCHANGED client
  <2>1. client' = client  BY <1>5
  <2>2. /\ Len(orders') \in {Len(orders), Len(orders) + 1}
        /\ \A k \in 1 .. Len(orders) : orders'[k].side = orders[k].side
    BY Kept DEF Alike
  <2> DEFINE C == {k \in n + 1 .. Len(orders') : orders'[k].side = "buy" /\ orders'[k].state # "cancelled"}
  <2>3. SUFFICES client.cash <= cash' + Total(orders', C)
    <3>1. BoughtSince(client.orders)' = C  BY <2>1 DEF BoughtSince
    <3>2. client.orders' <= Len(orders')  BY <1>1, <1>2, <2>1, <2>2
    <3> HIDE DEF C
    <3> QED BY <2>1, <2>3, <3>1, <3>2 DEF CashKnown
  <2>4. CASE UNCHANGED account
    <3>1. C = B /\ cash' = cash  BY <2>4 DEF account, BoughtSince
    <3> QED BY <1>2, <1>3, <3>1
  <2>5. CASE \E r \in asked : Take(r)
    <3>1. PICK r \in asked : Take(r)  BY <2>5
    <3>2. r \in Asked /\ r.qty \in Nat /\ r.side \in {"buy", "sell"}  BY DEF TypeOK, Asked, Side
    <3>3. /\ Len(orders') = Len(orders) + 1 /\ \A k \in 1 .. Len(orders) : orders'[k] = orders[k]
          /\ orders'[Len(orders) + 1] =
                [symbol |-> r.symbol, side |-> r.side, qty |-> r.qty, day |-> day,
                 state |-> "resting", done |-> 0, fresh |-> r.fresh]
          /\ cash' = IF r.side = "buy" THEN cash - r.qty ELSE cash
      BY <3>1, <3>2, Taken
    <3>4. CASE r.side = "buy"
      <4>1. C = B \cup {Len(orders) + 1}
        <5>1. \A k \in 1 .. Len(orders) : k \in C <=> k \in B  BY <1>1, <3>3 DEF BoughtSince
        <5>2. Len(orders) + 1 \in C  BY <1>1, <1>2, <3>3, <3>4
        <5>3. C \subseteq (1 .. Len(orders)) \cup {Len(orders) + 1}  BY <1>1, <3>3
        <5> HIDE DEF B, C
        <5>4. B \subseteq 1 .. Len(orders)  BY <1>2
        <5> QED BY <5>1, <5>2, <5>3, <5>4, Zenon
      <4> HIDE DEF B, C
      <4>2. Len(orders) + 1 \notin B  BY <1>1, <1>2
      <4>3. orders'[Len(orders) + 1].qty = r.qty  BY <3>3
      <4>4. Whole(orders', B)  BY <1>1, <1>2, <3>3 , BookWhole
      <4>5. Total(orders', C) = Total(orders', B) + r.qty
        BY <3>2, <4>1, <4>2, <4>3, <4>4, TotalAdd
      <4> QED BY <1>1, <1>2, <1>3, <3>2, <3>3, <3>4, <4>5
    <3>5. CASE r.side = "sell"
      <4>1. C = B
        <5>1. \A k \in 1 .. Len(orders) : k \in C <=> k \in B  BY <1>1, <3>3 DEF BoughtSince
        <5>2. Len(orders) + 1 \notin C  BY <3>3, <3>5
        <5>3. C \subseteq (1 .. Len(orders)) \cup {Len(orders) + 1}  BY <1>1, <3>3
        <5> HIDE DEF B, C
        <5>4. B \subseteq 1 .. Len(orders)  BY <1>2
        <5> QED BY <5>1, <5>2, <5>3, <5>4, Zenon
      <4> HIDE DEF B, C
      <4> QED BY <1>2, <1>3, <3>3, <3>5, <4>1
    <3> QED BY <3>2, <3>4, <3>5
  <2>6. CASE Cancel
    <3>1. PICK k \in DOMAIN orders :
              /\ orders[k].state = "resting" /\ Len(orders') = Len(orders)
              /\ orders'[k] = [orders[k] EXCEPT !.state = "cancelled"]
              /\ \A j \in DOMAIN orders : j # k => orders'[j] = orders[j]
              /\ cash' = IF orders[k].side = "buy" THEN cash + orders[k].qty ELSE cash
      BY <2>6, CancelIs
    <3>2. orders'[k].state = "cancelled"  BY <1>1, <3>1 DEF Order
    <3>3. C = B \ {k}
      <4>1. \A j \in 1 .. Len(orders) : j # k => (j \in C <=> j \in B)
        BY <1>1, <3>1 DEF BoughtSince
      <4>2. k \notin C  BY <3>2
      <4>3. C \subseteq 1 .. Len(orders)  BY <1>1, <3>1
      <4> HIDE DEF B, C
      <4>4. B \subseteq 1 .. Len(orders)  BY <1>2
      <4> QED BY <4>1, <4>2, <4>3, <4>4, Zenon
    <3>4. k \in B => orders[k].side = "buy"  BY DEF BoughtSince
    <3> HIDE DEF B, C
    <3>5. CASE k \in B
      <4>1. Whole(orders, C) /\ Total(orders, C) \in Nat /\ Total(orders', C) = Total(orders, C)
        BY <1>1, <1>2, <3>3, BookWhole, SameSum
      <4>2. k \notin C /\ B = C \cup {k}  BY <3>3, <3>5
      <4>3. Total(orders, B) = Total(orders, C) + orders[k].qty  BY <1>1, <4>1, <4>2, TotalAdd
      <4> QED BY <1>1, <1>2, <3>1, <3>4, <3>5, <4>1, <4>3
    <3>6. CASE k \notin B
      <4>1. C = B  BY <3>3, <3>6
      <4> QED BY <1>1, <1>2, <1>3, <3>1, <4>1
    <3> QED BY <3>5, <3>6
  <2>7. CASE Fill
    <3>1. PICK k \in DOMAIN orders :
              /\ orders[k].state = "resting" /\ Len(orders') = Len(orders)
              /\ orders'[k] = [orders[k] EXCEPT !.state = "filled", !.done = day]
              /\ \A j \in DOMAIN orders : j # k => orders'[j] = orders[j]
              /\ cash' = IF orders[k].side = "buy" THEN cash ELSE cash + orders[k].qty
      BY <2>7, FillIs
    <3>2. C = B
      <4>1. BoughtSince(client.orders)' = B  BY <2>7, FillBought
      <4>2. BoughtSince(client.orders)' = C  BY <2>1 DEF BoughtSince
      <4> QED BY <4>1, <4>2
    <3> HIDE DEF B, C
    <3> QED BY <1>1, <1>2, <1>3, <3>1, <3>2
  <2> QED BY <2>4, <2>5, <2>6, <2>7, AccountSteps
<1> QED BY <1>4, <1>5, ClientSteps

-----------------------------------------------------------------------------
(***************************************************************************)
(* The good-faith guard.                                                   *)
(***************************************************************************)

\* A row names an order that was sent before, or the one that is logged.
LEMMA WrittenKept ==
    ASSUME TypeOK, AskedTrue, [Next]_vars, NEW k \in Nat \ {0}, pc = "log" => k # Len(orders)
    PROVE  Written(k)' <=> Written(k)
<1>1. rows \in Seq(Row)  BY DEF TypeOK
<1>2. ASSUME NEW w \in Row, rows' = Append(rows, w), w.id # k
      PROVE  Written(k)' <=> Written(k)
  <2>1. /\ DOMAIN rows = 1 .. Len(rows) /\ Len(rows) \in Nat
        /\ DOMAIN rows' = 1 .. Len(rows) + 1 /\ rows'[Len(rows) + 1] = w
        /\ \A j \in 1 .. Len(rows) : rows'[j] = rows[j]
    BY <1>1, <1>2, AppendRow
  <2>2. \A j \in DOMAIN rows' : (j \in DOMAIN rows /\ rows'[j] = rows[j]) \/ rows'[j] = w
    BY <2>1
  <2>3. \A j \in DOMAIN rows : j \in DOMAIN rows' /\ rows'[j] = rows[j]  BY <2>1
  <2> QED BY <1>2, <2>2, <2>3 DEF Written
<1>3. CASE UNCHANGED rows  BY <1>3 DEF Written
<1>4. CASE LogOrder
  <2>1. PICK r \in asked : rows' = Append(rows, RowOf(r))  BY <1>4 DEF LogOrder
  <2>2. r \in Asked /\ RowOf(r) \in Row /\ pc = "log"
    BY <1>4, <2>1 DEF LogOrder, TypeOK, Asked, Row, RowOf
  <2>3. RowOf(r).id # k  BY <2>1, <2>2 DEF AskedTrue, RowOf
  <2> QED BY <1>2, <2>1, <2>2, <2>3
<1>5. CASE PaperFill
  <2>1. PICK s \in loop.left, n \in Amounts :
            rows' = Append(rows, RowOf([id |-> 0, symbol |-> s, qty |-> n,
                                        side |-> IF own[s] = 0 THEN "buy" ELSE "sell"]))
    BY <1>5 DEF PaperFill
  <2> DEFINE w == RowOf([id |-> 0, symbol |-> s, qty |-> n,
                         side |-> IF own[s] = 0 THEN "buy" ELSE "sell"])
  <2>2. w \in Row /\ w.id # k  BY OrderAssumption DEF TypeOK, RowOf, Row, Side
  <2> HIDE DEF w
  <2> QED BY <1>2, <2>1, <2>2 DEF w
<1> QED BY <1>3, <1>4, <1>5, TableSteps

\* The sales of this client that are unsettled are today's, and the guard has
\* a row of each.
LEMMA UnsettledKnown ==
    ASSUME TypeOK, RowsTrue, InOrder, pc = "guards"
    PROVE  /\ Total(orders, UnsettledSales) <= Unsettled(rows, Since(rows, day), day)
           /\ Unsettled(rows, Since(rows, day), day) \in Nat
<1> DEFINE U == UnsettledSales
           S == {j \in Since(rows, day) : rows[j].side = "sell" /\ day < SettlesOn(rows[j].day)}
           g == [k \in U |-> CHOOSE j \in DOMAIN rows : rows[j].id = k]
<1>1. /\ orders \in Seq(Order) /\ DOMAIN orders = 1 .. Len(orders) /\ Len(orders) \in Nat
      /\ DOMAIN rows = 1 .. Len(rows) /\ Len(rows) \in Nat
      /\ \A k \in DOMAIN orders : orders[k] \in Order
      /\ \A j \in DOMAIN rows : rows[j] \in Row /\ rows[j].qty \in Nat /\ rows[j].id \in Nat
      /\ day \in Nat
  <2>1. \A w \in Row : w.id \in Nat  BY DEF Row
  <2> QED BY <2>1, Places DEF TypeOK
<1>2. U \in SUBSET (1 .. Len(orders)) /\ S \in SUBSET DOMAIN rows
  BY <1>1 DEF UnsettledSales, Since
<1>3. Whole(orders, U)  BY <1>1, <1>2, BookWhole
<1>4. Whole(rows, S)
  <2>1. IsFiniteSet(1 .. Len(rows))
    <3>1. Len(rows) \in Int /\ 1 \in Int  BY <1>1
    <3> QED BY <3>1, FS_Interval
  <2>2. IsFiniteSet(S)  BY <1>1, <1>2, <2>1, FS_Subset
  <2> HIDE DEF S
  <2> QED BY <1>1, <1>2, <2>2 DEF Whole
<1>5. \A k \in U : g[k] \in DOMAIN rows /\ rows[g[k]].id = k  BY DEF UnsettledSales, Written
<1>6. \A k \in U : g[k] \in S /\ rows[g[k]].qty = orders[k].qty
  <2>1. SUFFICES ASSUME NEW k \in U PROVE g[k] \in S /\ rows[g[k]].qty = orders[k].qty  OBVIOUS
  <2>2. g[k] \in DOMAIN rows /\ rows[g[k]].id = k /\ k \in 1 .. Len(orders)  BY <1>2, <1>5
  <2> HIDE DEF g
  <2>3. k # 0  BY <2>2
  <2>4. /\ rows[g[k]].side = orders[k].side /\ rows[g[k]].qty = orders[k].qty
        /\ rows[g[k]].day = orders[k].day
    BY <2>2, <2>3 DEF RowsTrue
  <2>5. /\ orders[k].side = "sell" /\ orders[k].day = orders[k].done
        /\ ~\E d \in orders[k].done + 1 .. day : IsSession(d)
    BY DEF UnsettledSales
  <2>6. orders[k].day \in FirstDay .. day /\ IsSession(day) /\ FirstDay \in Nat
    BY <1>1, <2>2, OrderAssumption DEF InOrder
  <2>7. orders[k].day = day
    <3>1. CASE orders[k].day < day
      <4>1. day \in orders[k].done + 1 .. day  BY <1>1, <2>5, <2>6, <3>1
      <4> QED BY <2>5, <2>6, <4>1
    <3> QED BY <1>1, <2>6, <3>1
  <2>8. day < SettlesOn(day)  BY <1>1, SettlesLater
  <2>9. rows[g[k]].day >= day - Lookback  BY <1>1, <2>4, <2>7, GateAssumption
  <2> QED BY <2>2, <2>4, <2>5, <2>7, <2>8, <2>9 DEF Since
<1>7. g \in Injection(U, S)
  <2>1. g \in [U -> S]  BY <1>6
  <2>2. \A k, j \in U : g[k] = g[j] => k = j  BY <1>5
  <2> HIDE DEF g, U, S
  <2> QED BY <2>1, <2>2 DEF Injection, IsInjective
<1>8. Total(orders, U) <= Total(rows, S)
  <2>1. \A k \in U : rows[g[k]].qty = orders[k].qty  BY <1>6
  <2> HIDE DEF g, U, S
  <2> QED BY <1>3, <1>4, <1>7, <2>1, TotalMatched
<1>9. Total(rows, S) \in Nat
  <2> HIDE DEF S
  <2> QED BY <1>4, TotalNat
<1> QED BY <1>8, <1>9 DEF Unsettled

\* What a buy that is about to be sent may cost.
Settled == cash - Total(orders, UnsettledSales) + Total(orders, BoughtSince(client.orders))

\* A guarded buy comes to the point of being sent, or waits there.
LEMMA SendSteps ==
    ASSUME [Next]_vars, pc' = "send"
    PROVE  \/ Guards /\ pc = "guards"
           \/ pc = "send" /\ UNCHANGED <<session, day>>
<1> USE DEF Pc
<1>1. CASE Guards  BY <1>1 DEF Guards
<1>2. CASE Connect \/ Begin \/ Risk \/ Brake \/ OutOfHours
  BY <1>2 DEF Connect, Begin, Risk, Brake, OutOfHours, Refused, Submission
<1>3. CASE LogOrder \/ Count \/ Die \/ Send \/ SendFails \/ Cancel \/ NewDay
  BY <1>3 DEF LogOrder, Count, Die, Send, SendFails, Cancel, NewDay, Elsewhere, session, Submission
<1>4. CASE CycleStarts \/ LoopHalts \/ SymbolSkipped \/ PaperFill \/ CycleOver
  BY <1>4 DEF CycleStarts, LoopHalts, SymbolSkipped, PaperFill, CycleOver, Looping, session
<1>5. CASE Fill \/ ToggleStop  BY <1>5 DEF Fill, ToggleStop, Elsewhere, session
<1>6. CASE UNCHANGED vars  BY <1>6 DEF vars, session
<1> QED BY <1>1, <1>2, <1>3, <1>4, <1>5, <1>6 DEF Next

\* The guard asks for settled cash, and nothing between its answer and the send takes any.
LEMMA FundedStep ==
    ASSUME TypeOK, TypeOK', RowsTrue, AskedTrue, InOrder, CashKnown, FundedFromSettled, [Next]_vars
    PROVE  FundedFromSettled'
<1> DEFINE U == UnsettledSales
           B == BoughtSince(client.orders)
<1>1. /\ orders \in Seq(Order) /\ DOMAIN orders = 1 .. Len(orders) /\ Len(orders) \in Nat
      /\ \A k \in DOMAIN orders : orders[k] \in Order /\ orders[k].qty \in Nat
      /\ cash \in Nat /\ cash' \in Nat /\ client.orders \in Nat /\ client.cash \in Nat
      /\ asked \subseteq Asked /\ orders' \in Seq(Order)
  BY Places DEF TypeOK
<1>2. U \in SUBSET (1 .. Len(orders)) /\ B \in SUBSET (1 .. Len(orders))
  BY <1>1 DEF UnsettledSales, BoughtSince
<1>3. Total(orders, U) \in Nat /\ Total(orders, B) \in Nat  BY <1>1, <1>2, BookWhole
<1>4. \A r \in Asked : r.qty \in Nat  BY DEF Asked
<1>5. CASE Guards /\ pc = "guards"
  <2>1. cash' = cash /\ orders' = orders /\ rows' = rows /\ client' = client /\ day' = day
    BY <1>5 DEF Guards, Refused, Submission, account
  <2>2. Settled' = Settled  BY <2>1 DEF Settled, UnsettledSales, BoughtSince, Written
  <2>3. ASSUME NEW r \in asked, GuardsAllow(r), r.side = "buy"
        PROVE  r.qty <= Settled
    <3>1. r.qty <= client.cash - Unsettled(rows, Since(rows, day), day)
      BY <2>3 DEF GuardsAllow, SettlementAllows, SeenCash
    <3>2. /\ Total(orders, U) <= Unsettled(rows, Since(rows, day), day)
          /\ Unsettled(rows, Since(rows, day), day) \in Nat
      BY <1>5, UnsettledKnown
    <3>3. client.cash <= cash + Total(orders, B)  BY DEF CashKnown
    <3>4. r.qty \in Nat  BY <1>1, <1>4
    <3> HIDE DEF U, B
    <3>5. r.qty <= cash - Total(orders, U) + Total(orders, B)
      BY <1>1, <1>3, <3>1, <3>2, <3>3, <3>4
    <3> QED BY <3>5 DEF Settled, U, B
  <2>4. pc' = "send" => \A r \in asked' : r.side = "buy" => r.qty <= Settled
    <3>1. CASE /\ \A r \in asked : GuardsAllow(r)
               /\ asked' = {[r EXCEPT !.fresh = (client.cash = cash)] : r \in asked}
      <4>1. \A r \in Asked : /\ [r EXCEPT !.fresh = (client.cash = cash)].side = r.side
                             /\ [r EXCEPT !.fresh = (client.cash = cash)].qty = r.qty
        BY DEF Asked
      <4>2. \A r \in asked : r \in Asked /\ (r.side = "buy" => r.qty <= Settled)
        BY <1>1, <2>3, <3>1
      <4>3. ASSUME NEW r \in asked', r.side = "buy" PROVE r.qty <= Settled
        <5>1. PICK q \in asked : r = [q EXCEPT !.fresh = (client.cash = cash)]  BY <3>1
        <5>2. r.side = q.side /\ r.qty = q.qty  BY <4>1, <4>2, <5>1
        <5> QED BY <4>2, <4>3, <5>2
      <4> QED BY <4>3
    <3>2. CASE pc' = "idle"  BY <3>2
    <3> QED BY <1>5, <3>1, <3>2 DEF Guards, Refused, Submission
  <2>5. pc' = "send" => \A r \in asked' : r.side = "buy" => r.qty <= Settled'  BY <2>2, <2>4
  <2> QED BY <2>5 DEF FundedFromSettled, Settled
<1>6. CASE pc = "send" /\ UNCHANGED <<session, day>>
  <2>1. client' = client /\ asked' = asked /\ day' = day /\ pc' = "send"  BY <1>6 DEF session
  <2>2. \A r \in asked : r.side = "buy" => r.qty <= cash - Total(orders, U) + Total(orders, B)
    BY <1>6 DEF FundedFromSettled
  <2>3. \A k \in 1 .. Len(orders) : Written(k)' <=> Written(k)  BY <1>1, <1>6, WrittenKept
  <2>4. cash - Total(orders, U) + Total(orders, B) <= Settled'
    <3>1. CASE UNCHANGED account
      <4>1. orders' = orders /\ cash' = cash  BY <3>1 DEF account
      <4>2. UnsettledSales' = U
        <5>1. \A k \in DOMAIN orders : Written(k)' <=> Written(k)  BY <1>1, <2>3
        <5> QED BY <2>1, <4>1, <5>1 DEF UnsettledSales
      <4>3. BoughtSince(client.orders)' = B  BY <2>1, <4>1 DEF BoughtSince
      <4>4. Settled' = cash - Total(orders, U) + Total(orders, B)
        BY <4>1, <4>2, <4>3, Zenon DEF Settled
      <4> HIDE DEF U, B
      <4> QED BY <1>1, <1>3, <4>4
    <3>2. CASE Fill
      <4>1. PICK k \in DOMAIN orders :
                /\ orders[k].state = "resting" /\ Len(orders') = Len(orders)
                /\ orders'[k] = [orders[k] EXCEPT !.state = "filled", !.done = day]
                /\ \A j \in DOMAIN orders : j # k => orders'[j] = orders[j]
                /\ cash' = IF orders[k].side = "buy" THEN cash ELSE cash + orders[k].qty
        BY <3>2, FillIs
      <4> DEFINE V == UnsettledSales'
      <4>2. DOMAIN orders' = DOMAIN orders  BY <1>1, <4>1
      <4>3. V \subseteq U \cup {k}
        <5>1. \A j \in DOMAIN orders : Written(j)' <=> Written(j)  BY <1>1, <2>3
        <5>2. \A j \in DOMAIN orders : j # k /\ j \in V => j \in U
          BY <2>1, <4>1, <4>2, <5>1 DEF UnsettledSales
        <5>3. V \subseteq DOMAIN orders  BY <4>2 DEF UnsettledSales
        <5> HIDE DEF U, V
        <5> QED BY <5>2, <5>3
      <4>4. k \notin U  BY <4>1 DEF UnsettledSales
      <4>5. orders[k].side = "buy" => k \notin V
        <5>1. orders'[k].side = orders[k].side  BY <1>1, <4>1 DEF Order
        <5> QED BY <5>1 DEF UnsettledSales
      <4>6. BoughtSince(client.orders)' = B  BY <3>2, FillBought
      <4>7. Settled' = cash' - Total(orders', V) + Total(orders', B)
        BY <4>6, Zenon DEF Settled
      <4> HIDE DEF U, V, B
      <4>8. Total(orders', B) = Total(orders, B)  BY <1>2, SameSum
      <4>9. V \in SUBSET (1 .. Len(orders)) /\ U \cup {k} \in SUBSET (1 .. Len(orders))
        BY <1>1, <1>2, <4>3
      <4>10. Total(orders', V) = Total(orders, V) /\ Total(orders, V) \in Nat
        BY <1>1, <4>9, SameSum, BookWhole
      <4>11. CASE orders[k].side = "buy"
        <5>1. V \in SUBSET U  BY <4>3, <4>5, <4>11
        <5>2. Whole(orders, U)  BY <1>1, <1>2, BookWhole
        <5>3. Total(orders, V) <= Total(orders, U)  BY <5>1, <5>2, TotalSubset
        <5>4. cash' = cash /\ cash \in Nat  BY <1>1, <4>1, <4>11
        <5> QED BY <1>3, <4>7, <4>8, <4>10, <5>3, <5>4
      <4>12. CASE orders[k].side # "buy"
        <5>1. Whole(orders, U) /\ Whole(orders, U \cup {k})  BY <1>1, <1>2, <4>9, BookWhole
        <5>2. Total(orders, U \cup {k}) = Total(orders, U) + orders[k].qty
          BY <1>1, <4>4, <5>1, TotalAdd
        <5>3. Total(orders, V) <= Total(orders, U \cup {k})  BY <4>3, <5>1, TotalSubset
        <5>4. cash' = cash + orders[k].qty  BY <4>1, <4>12
        <5>5. cash \in Nat /\ orders[k].qty \in Nat  BY <1>1
        <5> QED BY <1>3, <4>7, <4>8, <4>10, <5>2, <5>3, <5>4, <5>5
      <4> QED BY <4>11, <4>12
    <3>3. CASE Send \/ SendFails  BY <1>6, <3>3, <2>1 DEF Send, SendFails, session
    <3>4. CASE Cancel  BY <1>6, <3>4 DEF Cancel
    <3> QED BY <3>1, <3>2, <3>3, <3>4, AccountSteps
  <2>5. Settled' \in Int
    <3>1. UnsettledSales' \in SUBSET (1 .. Len(orders')) /\ BoughtSince(client.orders)' \in SUBSET (1 .. Len(orders'))
      <4>1. DOMAIN orders' = 1 .. Len(orders')  BY <1>1
      <4>2. client.orders' \in Nat  BY <1>1, <2>1
      <4> QED BY <4>1, <4>2 DEF UnsettledSales, BoughtSince
    <3>2. Total(orders', UnsettledSales') \in Nat /\ Total(orders', BoughtSince(client.orders)') \in Nat
      BY <1>1, <3>1, BookWhole, Zenon
    <3> QED BY <1>1, <3>2 DEF Settled
  <2>6. \A r \in asked' : r.side = "buy" => r.qty <= Settled'
    <3> HIDE DEF U, B
    <3> QED BY <1>1, <1>3, <1>4, <2>1, <2>2, <2>4, <2>5
  <2> QED BY <2>6 DEF FundedFromSettled, Settled
<1>7. CASE pc' # "send"  BY <1>7 DEF FundedFromSettled
<1> QED BY <1>5, <1>6, <1>7, SendSteps

\* What the good-faith guard rests on, together.
Funding == RowsTrue /\ AskedTrue /\ InOrder /\ CashKnown /\ FundedFromSettled

\* What the good-faith guard rests on is inductive.
LEMMA FundingHolds == Spec => []Funding
<1>1. Init => Funding
  <2>1. SUFFICES ASSUME Init PROVE Funding  OBVIOUS
  <2>2. /\ pc = "idle" /\ asked = {} /\ day = FirstDay /\ rows = <<>> /\ orders = <<>>
        /\ client = [cash |-> Cash0, orders |-> 0] /\ cash = Cash0
        /\ Cash0 \in Nat /\ FirstDay \in Nat
    BY <2>1, OrderAssumption DEF Init
  <2>3. RowsTrue /\ AskedTrue  BY <2>2 DEF RowsTrue, AskedTrue
  <2>4. InOrder
    <3>1. DOMAIN orders = {}  BY <2>2
    <3> QED BY <2>2, <3>1 DEF InOrder
  <2>5. CashKnown
    <3>1. BoughtSince(client.orders) = {}  BY <2>2 DEF BoughtSince
    <3>2. Total(orders, BoughtSince(client.orders)) = 0  BY <3>1, TotalNone, Zenon
    <3> QED BY <2>2, <3>2 DEF CashKnown
  <2>6. FundedFromSettled  BY <2>2 DEF FundedFromSettled
  <2> QED BY <2>3, <2>4, <2>5, <2>6 DEF Funding
<1>2. TypeOK /\ TypeOK' /\ Funding /\ [Next]_vars => Funding'
  BY RowsTrueStep, AskedTrueStep, InOrderStep, CashKnownStep, FundedStep DEF Funding
<1> QED BY <1>1, <1>2, TypeCorrect, PTL DEF Spec

\* The good-faith guard holds for every calendar, every size of an account and
\* of its orders, with any number of stale reads, partial failures and paper
\* cycles between the guard and the send.
THEOREM FundedHolds == Spec => []FundedFromSettled
<1>1. Funding => FundedFromSettled  BY DEF Funding
<1> QED BY <1>1, FundingHolds, PTL

-----------------------------------------------------------------------------
(***************************************************************************)
(* The account: nothing is made of nothing.                                *)
(***************************************************************************)

\* Buys whose cash is reserved.
Reserved == {k \in DOMAIN orders : orders[k].state = "resting" /\ orders[k].side = "buy"}

\* Cash, shares at the price of one and reserves are what there was at first.
Balanced == cash + Cardinality(Units(held, Symbol)) + Total(orders, Reserved) = Cash0

\* One holding changes.
LEMMA HeldChange ==
    ASSUME NEW h \in [Symbol -> Nat], NEW s \in Symbol, NEW v \in Nat
    PROVE  /\ Cardinality(Units([h EXCEPT ![s] = v], Symbol)) =
                  Cardinality(Units(h, Symbol)) - h[s] + v
           /\ Cardinality(Units(h, Symbol)) \in Nat
<1> DEFINE R == Symbol \ {s}
           g == [h EXCEPT ![s] = v]
<1>1. /\ \A x \in Symbol : h[x] \in Nat /\ g[x] \in Nat
      /\ \A x \in R : g[x] = h[x]
      /\ g[s] = v /\ h[s] \in Nat
  OBVIOUS
<1>2. IsFiniteSet(R) /\ IsFiniteSet({s}) /\ R \cap {s} = {} /\ R \cup {s} = Symbol /\ IsFiniteSet(Symbol)
  BY OrderAssumption, FS_Subset, FS_Singleton
<1> HIDE DEF g, R
<1>3. Units(g, R) = Units(h, R)  BY <1>1, UnitsSame
<1>4. Cardinality(Units(g, {s})) = v /\ Cardinality(Units(h, {s})) = h[s]  BY <1>1, UnitsOne
<1>5. /\ Cardinality(Units(g, R \cup {s})) = Cardinality(Units(g, R)) + Cardinality(Units(g, {s}))
      /\ Cardinality(Units(h, R \cup {s})) = Cardinality(Units(h, R)) + Cardinality(Units(h, {s}))
  <2>1. \A x \in R \cup {s} : h[x] \in Nat /\ g[x] \in Nat  BY <1>1, <1>2
  <2> QED BY <1>2, <2>1, UnitsUnion
<1>6. Cardinality(Units(h, R)) \in Nat /\ Cardinality(Units(h, Symbol)) \in Nat
  <2>1. \A x \in R : h[x] \in Nat  BY <1>1, <1>2
  <2> QED BY <1>1, <1>2, <2>1, UnitsFinite
<1>7. /\ Cardinality(Units(g, Symbol)) = Cardinality(Units(h, R)) + v
      /\ Cardinality(Units(h, Symbol)) = Cardinality(Units(h, R)) + h[s]
  BY <1>2, <1>3, <1>4, <1>5, Zenon
<1>8. Cardinality(Units(g, Symbol)) = Cardinality(Units(h, Symbol)) - h[s] + v  BY <1>1, <1>6, <1>7
<1> QED BY <1>6, <1>8 DEF g

\* No step makes cash, shares or reserves out of nothing.
LEMMA BalancedStep ==
    ASSUME TypeOK, TypeOK', Balanced, [Next]_vars
    PROVE  Balanced'
<1> DEFINE R == Reserved
           H == Cardinality(Units(held, Symbol))
<1>1. /\ orders \in Seq(Order) /\ orders' \in Seq(Order) /\ Len(orders) \in Nat
      /\ DOMAIN orders = 1 .. Len(orders) /\ DOMAIN orders' = 1 .. Len(orders')
      /\ \A k \in DOMAIN orders : orders[k] \in Order /\ orders[k].qty \in Nat
      /\ cash \in Nat /\ held \in [Symbol -> Nat]
  <2>1. orders' \in Seq(Order)  BY DEF TypeOK
  <2>2. DOMAIN orders' = 1 .. Len(orders')  BY <2>1
  <2> QED BY <2>1, <2>2, Places DEF TypeOK
<1>2. R \in SUBSET (1 .. Len(orders)) /\ Total(orders, R) \in Nat /\ Whole(orders, R)
  <2>1. R \in SUBSET (1 .. Len(orders))  BY <1>1 DEF Reserved
  <2> QED BY <1>1, <2>1, BookWhole
<1>3. H \in Nat
  BY <1>1, OrderAssumption, UnitsFinite
<1>4. cash + H + Total(orders, R) = Cash0  BY DEF Balanced
<1>5. CASE UNCHANGED account
  <2>1. cash' = cash /\ held' = held /\ orders' = orders  BY <1>5 DEF account
  <2> QED BY <1>4, <2>1 DEF Balanced, Reserved
<1>6. CASE \E r \in asked : Take(r)
  <2>1. PICK r \in asked : Take(r)  BY <1>6
  <2>2. r \in Asked /\ r.qty \in Nat /\ r.side \in {"buy", "sell"}  BY DEF TypeOK, Asked, Side
  <2>3. /\ Len(orders') = Len(orders) + 1 /\ \A k \in 1 .. Len(orders) : orders'[k] = orders[k]
        /\ orders'[Len(orders) + 1] =
              [symbol |-> r.symbol, side |-> r.side, qty |-> r.qty, day |-> day,
               state |-> "resting", done |-> 0, fresh |-> r.fresh]
        /\ cash' = (IF r.side = "buy" THEN cash - r.qty ELSE cash) /\ held' = held
    BY <2>1, <2>2, Taken
  <2> DEFINE C == Reserved'
  <2>4. \A k \in 1 .. Len(orders) : k \in C <=> k \in R  BY <1>1, <2>3 DEF Reserved
  <2>5. C \subseteq (1 .. Len(orders)) \cup {Len(orders) + 1}  BY <1>1, <2>3 DEF Reserved
  <2>6. Len(orders) + 1 \in C <=> r.side = "buy"  BY <1>1, <2>3 DEF Reserved
  <2>7. Len(orders) + 1 \notin R  BY <1>1 DEF Reserved
  <2> HIDE DEF R, C
  <2>8. Total(orders', R) = Total(orders, R)  BY <1>2, SameSum
  <2>9. cash' + Total(orders', C) = cash + Total(orders, R)
    <3>1. CASE r.side = "buy"
      <4>1. C = R \cup {Len(orders) + 1}  BY <1>2, <2>4, <2>5, <2>6, <3>1
      <4>2. orders'[Len(orders) + 1].qty = r.qty  BY <2>3
      <4>3. Whole(orders', R)  BY <1>1, <1>2, <2>3, BookWhole
      <4>4. Total(orders', C) = Total(orders', R) + r.qty
        BY <2>2, <2>7, <4>1, <4>2, <4>3, TotalAdd
      <4> QED BY <1>1, <1>2, <2>2, <2>3, <2>8, <3>1, <4>4
    <3>2. CASE r.side # "buy"
      <4>1. C = R  BY <1>2, <2>4, <2>5, <2>6, <3>2
      <4> QED BY <2>3, <2>8, <3>2, <4>1
    <3> QED BY <3>1, <3>2
  <2>10. C \in SUBSET (1 .. Len(orders'))  BY <1>1 DEF C, Reserved
  <2>11. Total(orders', C) \in Nat /\ cash' \in Nat  BY <1>1, <2>10, BookWhole DEF TypeOK
  <2>12. held' = held  BY <2>3
  <2> HIDE DEF H
  <2>13. cash' + H + Total(orders', C) = Cash0
    <3>1. cash \in Nat /\ H \in Nat /\ Total(orders, R) \in Nat  BY <1>1, <1>2, <1>3
    <3> QED BY <1>4, <2>9, <2>11, <3>1
  <2> QED BY <2>12, <2>13 DEF Balanced, C, H
<1>7. CASE Cancel
  <2>1. PICK k \in DOMAIN orders :
            /\ orders[k].state = "resting" /\ Len(orders') = Len(orders)
            /\ orders'[k] = [orders[k] EXCEPT !.state = "cancelled"]
            /\ \A j \in DOMAIN orders : j # k => orders'[j] = orders[j]
            /\ cash' = IF orders[k].side = "buy" THEN cash + orders[k].qty ELSE cash
    BY <1>7, CancelIs
  <2>2. orders'[k].state # "resting"  BY <1>1, <2>1 DEF Order
  <2> DEFINE C == R \ {k}
  <2>3. Reserved' = C  BY <1>1, <2>1, <2>2 DEF Reserved
  <2>4. k \in R <=> orders[k].side = "buy"  BY <2>1 DEF Reserved
  <2>5. Total(orders', C) = Total(orders, C) /\ Total(orders, C) \in Nat /\ Whole(orders, C)
    <3> HIDE DEF R
    <3>1. C \in SUBSET (1 .. Len(orders))  BY <1>2
    <3> HIDE DEF C
    <3> QED BY <1>1, <3>1, SameSum, BookWhole
  <2>6. held' = held  BY <1>7 DEF Cancel
  <2>7. cash' + H + Total(orders', C) = Cash0
    <3> HIDE DEF R, H, C
    <3>1. CASE orders[k].side = "buy"
      <4>1. k \notin C /\ R = C \cup {k}  BY <2>4, <3>1 DEF C
      <4>2. Total(orders, R) = Total(orders, C) + orders[k].qty
        <5>1. orders[k].qty \in Nat  BY <1>1
        <5> QED BY <2>5, <4>1, <5>1, TotalAdd
      <4> QED BY <1>1, <1>3, <1>4, <2>1, <2>5, <3>1, <4>2
    <3>2. CASE orders[k].side # "buy"
      <4>1. C = R  BY <2>4, <3>2 DEF C
      <4> QED BY <1>4, <2>1, <2>5, <3>2, <4>1
    <3> QED BY <3>1, <3>2
  <2> QED BY <2>3, <2>6, <2>7 DEF Balanced
<1>8. CASE Fill
  <2>1. PICK k \in DOMAIN orders :
            /\ orders[k].state = "resting" /\ Len(orders') = Len(orders)
            /\ orders[k].side = "sell" => orders[k].qty <= held[orders[k].symbol]
            /\ orders'[k] = [orders[k] EXCEPT !.state = "filled", !.done = day]
            /\ \A j \in DOMAIN orders : j # k => orders'[j] = orders[j]
            /\ held' = [held EXCEPT ![orders[k].symbol] =
                           IF orders[k].side = "buy" THEN @ + orders[k].qty ELSE @ - orders[k].qty]
            /\ cash' = IF orders[k].side = "buy" THEN cash ELSE cash + orders[k].qty
    BY <1>8, FillIs
  <2>2. orders'[k].state # "resting"  BY <1>1, <2>1 DEF Order
  <2> DEFINE C == R \ {k}
             s == orders[k].symbol
             v == IF orders[k].side = "buy" THEN held[s] + orders[k].qty ELSE held[s] - orders[k].qty
  <2>3. Reserved' = C  BY <1>1, <2>1, <2>2 DEF Reserved
  <2>4. k \in R <=> orders[k].side = "buy"  BY <2>1 DEF Reserved
  <2>5. Total(orders', C) = Total(orders, C) /\ Total(orders, C) \in Nat /\ Whole(orders, C)
    <3> HIDE DEF R
    <3>1. C \in SUBSET (1 .. Len(orders))  BY <1>2
    <3> HIDE DEF C
    <3> QED BY <1>1, <3>1, SameSum, BookWhole
  <2>6. s \in Symbol /\ orders[k].side \in {"buy", "sell"}  BY <1>1 DEF Order, Side
  <2>7. held[s] \in Nat /\ orders[k].qty \in Nat  BY <1>1, <2>6
  <2>8. v \in Nat  BY <2>1, <2>6, <2>7
  <2>9. held' = [held EXCEPT ![s] = v]  BY <2>1
  <2>10. Cardinality(Units(held', Symbol)) = H - held[s] + v
    <3> HIDE DEF s, v
    <3> QED BY <1>1, <2>6, <2>8, <2>9, HeldChange
  <2>11. cash' + Cardinality(Units(held', Symbol)) + Total(orders', C) = Cash0
    <3> HIDE DEF R, H, C
    <3>1. CASE orders[k].side = "buy"
      <4>1. k \notin C /\ R = C \cup {k}  BY <2>4, <3>1 DEF C
      <4>2. Total(orders, R) = Total(orders, C) + orders[k].qty
        <5>1. orders[k].qty \in Nat  BY <1>1
        <5> QED BY <2>5, <4>1, <5>1, TotalAdd
      <4>3. Cardinality(Units(held', Symbol)) = H + orders[k].qty  BY <1>3, <2>7, <2>10, <3>1
      <4>4. cash' = cash  BY <2>1, <3>1
      <4> QED BY <1>1, <1>3, <1>4, <2>5, <2>7, <4>2, <4>3, <4>4
    <3>2. CASE orders[k].side # "buy"
      <4>1. C = R  BY <2>4, <3>2 DEF C
      <4>2. Cardinality(Units(held', Symbol)) = H - orders[k].qty  BY <1>3, <2>7, <2>10, <3>2
      <4>3. cash' = cash + orders[k].qty  BY <2>1, <3>2
      <4> QED BY <1>1, <1>3, <1>4, <2>5, <2>7, <4>1, <4>2, <4>3
    <3> QED BY <3>1, <3>2
  <2> QED BY <2>3, <2>11 DEF Balanced
<1> QED BY <1>5, <1>6, <1>7, <1>8, AccountSteps

-----------------------------------------------------------------------------
(***************************************************************************)
(* The pattern-day-trader guard.                                           *)
(***************************************************************************)

\* Orders before place n are a day trade of the symbol, both in the table.
TradedBefore(n, s, d) ==
    \E b, k \in 1 .. n - 1 :
        /\ b < k /\ orders[b].side = "buy" /\ orders[k].side = "sell"
        /\ {orders[b].symbol, orders[k].symbol} = {s}
        /\ {orders[b].day, orders[k].day} = {d}
        /\ Written(b) /\ Written(k)

BoughtBefore(n, s, d) ==
    \E b \in 1 .. n - 1 :
        orders[b].side = "buy" /\ orders[b].symbol = s /\ orders[b].day = d /\ Written(b)

\* A sale that closes a buy of its day leaves the day trades before it below the limit.
Within(n, s, d) ==
    BoughtBefore(n, s, d) => Cardinality({e \in WindowOf(d) : TradedBefore(n, s, e)}) < PdtLimit

\* It is so for every sale in the book, and for the one about to be sent.
Guarded ==
    Cash0 < Threshold =>
        \A n \in Nat, s \in Symbol, d \in Nat :
            (\/ /\ n \in DOMAIN orders /\ orders[n].symbol = s /\ orders[n].day = d
                /\ orders[n].side = "sell" /\ orders[n].fresh
             \/ /\ n = Len(orders) + 1 /\ pc = "send" /\ day = d
                /\ \E r \in asked : r.symbol = s /\ r.side = "sell" /\ r.fresh)
            => Within(n, s, d)

\* A window is finite.
LEMMA WindowFinite ==
    ASSUME NEW d \in Nat
    PROVE  IsFiniteSet(WindowOf(d)) /\ WindowOf(d) \subseteq d - Lookback .. d
<1>1. IsFiniteSet(d - Lookback .. d)
  <2>1. d - Lookback \in Int /\ d \in Int  BY GateAssumption
  <2> QED BY <2>1, FS_Interval
<1>2. WindowOf(d) \subseteq d - Lookback .. d  BY DEF WindowOf
<1> QED BY <1>1, <1>2, FS_Subset

\* What the guard reads of the table says of the book at least what is true.
LEMMA TradesKnown ==
    ASSUME TypeOK, RowsTrue, NEW n \in 1 .. Len(orders) + 1, NEW s, NEW d, d >= day - Lookback
    PROVE  /\ BoughtBefore(n, s, d) => "buy" \in Sides(rows, Since(rows, day), s, d)
           /\ TradedBefore(n, s, d) => Sides(rows, Since(rows, day), s, d) = {"buy", "sell"}
<1>1. /\ DOMAIN orders = 1 .. Len(orders) /\ Len(orders) \in Nat
      /\ \A j \in DOMAIN rows : rows[j] \in Row /\ rows[j].side \in {"buy", "sell"}
  <2>1. \A w \in Row : w.side \in {"buy", "sell"}  BY DEF Row, Side
  <2> QED BY <2>1, Places
<1>2. ASSUME NEW b \in 1 .. n - 1, Written(b), orders[b].symbol = s, orders[b].day = d
      PROVE  orders[b].side \in Sides(rows, Since(rows, day), s, d)
  <2>1. PICK j \in DOMAIN rows : rows[j].id = b  BY <1>2 DEF Written
  <2>2. b # 0  BY <1>1
  <2>3. rows[j].symbol = s /\ rows[j].day = d /\ rows[j].side = orders[b].side
    BY <1>2, <2>1, <2>2 DEF RowsTrue
  <2>4. j \in Since(rows, day)  BY <2>3 DEF Since
  <2> QED BY <2>3, <2>4 DEF Sides
<1>3. BoughtBefore(n, s, d) => "buy" \in Sides(rows, Since(rows, day), s, d)
  BY <1>2 DEF BoughtBefore
<1>4. Sides(rows, Since(rows, day), s, d) \subseteq {"buy", "sell"}  BY <1>1 DEF Sides, Since
<1>5. ASSUME TradedBefore(n, s, d) PROVE Sides(rows, Since(rows, day), s, d) = {"buy", "sell"}
  <2>1. PICK b \in 1 .. n - 1, k \in 1 .. n - 1 :
            /\ orders[b].side = "buy" /\ orders[k].side = "sell"
            /\ {orders[b].symbol, orders[k].symbol} = {s}
            /\ {orders[b].day, orders[k].day} = {d}
            /\ Written(b) /\ Written(k)
    BY <1>5 DEF TradedBefore
  <2>2. orders[b].symbol = s /\ orders[k].symbol = s /\ orders[b].day = d /\ orders[k].day = d
    BY <2>1
  <2>3. {"buy", "sell"} \subseteq Sides(rows, Since(rows, day), s, d)  BY <1>2, <2>1, <2>2
  <2> QED BY <1>4, <2>3
<1> QED BY <1>3, <1>5

\* A sale the guard lets pass with the cash the account has.
LEMMA TradesGuard ==
    ASSUME TypeOK, RowsTrue, Balanced, Cash0 < Threshold, NEW r \in Asked,
           GuardsAllow(r), r.side = "sell", client.cash = cash
    PROVE  Within(Len(orders) + 1, r.symbol, day)
<1>1. Len(orders) \in Nat /\ day \in Nat /\ orders \in Seq(Order)  BY Places DEF TypeOK
<1>2. SeenEquity < Threshold
  <2>1. Cardinality(Units(held, Symbol)) \in Nat
    BY OrderAssumption, UnitsFinite DEF TypeOK
  <2>2. Total(orders, Reserved) \in Nat
    <3>1. Reserved \in SUBSET (1 .. Len(orders))  BY Places DEF Reserved
    <3> QED BY <1>1, <3>1, BookWhole
  <2>3. cash \in Nat /\ Cash0 \in Nat /\ Threshold \in Nat
    BY OrderAssumption, GateAssumption DEF TypeOK
  <2>4. SeenEquity = cash + Cardinality(Units(held, Symbol))  BY DEF SeenEquity, SeenCash
  <2> QED BY <2>1, <2>2, <2>3, <2>4 DEF Balanced
<1>3. SUFFICES ASSUME BoughtBefore(Len(orders) + 1, r.symbol, day)
               PROVE  Cardinality({e \in WindowOf(day) : TradedBefore(Len(orders) + 1, r.symbol, e)})
                          < PdtLimit
  BY DEF Within
<1> DEFINE T == {e \in WindowOf(day) : TradedBefore(Len(orders) + 1, r.symbol, e)}
           D == DayTrades(rows, Since(rows, day), r.symbol, day)
<1>4. Len(orders) + 1 \in 1 .. Len(orders) + 1 /\ day >= day - Lookback
  BY <1>1, GateAssumption
<1>5. "buy" \in Sides(rows, Since(rows, day), r.symbol, day)  BY <1>3, <1>4, TradesKnown
<1>6. Cardinality(D) < PdtLimit
  <2>1. PdtAllows(rows, Since(rows, day), r.symbol, r.side, SeenEquity, day)  BY DEF GuardsAllow
  <2>2. ~(SeenEquity >= Threshold)
    <3>1. SeenEquity \in Int /\ Threshold \in Int
      <4>1. Cardinality(Units(held, Symbol)) \in Nat
        BY OrderAssumption, UnitsFinite DEF TypeOK
      <4> QED BY <4>1, GateAssumption DEF SeenEquity, SeenCash, TypeOK
    <3> QED BY <1>2, <3>1
  <2> QED BY <1>5, <2>1, <2>2 DEF PdtAllows
<1>7. T \subseteq D
  <2>1. SUFFICES ASSUME NEW e \in WindowOf(day), TradedBefore(Len(orders) + 1, r.symbol, e)
                 PROVE  e \in D
    OBVIOUS
  <2>2. e >= day - Lookback  BY <1>1, <2>1, WindowFinite, GateAssumption
  <2>3. Sides(rows, Since(rows, day), r.symbol, e) = {"buy", "sell"}
    BY <1>4, <2>1, <2>2, TradesKnown
  <2> QED BY <2>1, <2>3 DEF DayTrades
<1>8. IsFiniteSet(D)
  <2>1. D \subseteq WindowOf(day)  BY DEF DayTrades
  <2> HIDE DEF D
  <2> QED BY <1>1, <2>1, WindowFinite, FS_Subset
<1> HIDE DEF T, D
<1>9. Cardinality(T) <= Cardinality(D) /\ Cardinality(D) \in Nat /\ Cardinality(T) \in Nat
  <2>1. IsFiniteSet(T)  BY <1>7, <1>8, FS_Subset
  <2> QED BY <1>7, <1>8, <2>1, FS_Subset, FS_CardinalityType
<1>10. Cardinality(T) < PdtLimit  BY <1>6, <1>9, GateAssumption
<1> QED BY <1>10 DEF T

\* The orders before one, and their rows, stay as they were.
LEMMA SameWithin ==
    ASSUME TypeOK, AskedTrue, [Next]_vars,
           NEW n \in Nat, 1 <= n, n <= Len(orders) + 1, pc = "log" => n <= Len(orders),
           NEW s, NEW d
    PROVE  Within(n, s, d)' <=> Within(n, s, d)
<1>1. Len(orders) \in Nat  BY Places
<1>2. \A b \in 1 .. n - 1 : /\ b \in 1 .. Len(orders) /\ b \in Nat \ {0}
                            /\ pc = "log" => b # Len(orders)
  BY <1>1
<1>3. \A b \in 1 .. n - 1 : /\ orders'[b].side = orders[b].side /\ orders'[b].symbol = orders[b].symbol
                            /\ orders'[b].day = orders[b].day
  BY <1>2, Kept DEF Alike
<1>4. \A b \in 1 .. n - 1 : Written(b)' <=> Written(b)  BY <1>2, WrittenKept
<1>5. \A e : TradedBefore(n, s, e)' <=> TradedBefore(n, s, e)
  BY <1>3, <1>4 DEF TradedBefore
<1>6. BoughtBefore(n, s, d)' <=> BoughtBefore(n, s, d)  BY <1>3, <1>4 DEF BoughtBefore
<1>7. {e \in WindowOf(d) : TradedBefore(n, s, e)'} = {e \in WindowOf(d) : TradedBefore(n, s, e)}
  BY <1>5
<1> QED BY <1>6, <1>7, Zenon DEF Within

\* A guarded sale is within the limit when the guard lets it pass and stays so.
LEMMA GuardedStep ==
    ASSUME TypeOK, TypeOK', RowsTrue, AskedTrue, Balanced, Guarded, [Next]_vars
    PROVE  Guarded'
<1>1. SUFFICES ASSUME Cash0 < Threshold, NEW n \in Nat, NEW s \in Symbol, NEW d \in Nat,
                      \/ /\ n \in DOMAIN orders' /\ orders'[n].symbol = s /\ orders'[n].day = d
                         /\ orders'[n].side = "sell" /\ orders'[n].fresh
                      \/ /\ n = Len(orders') + 1 /\ pc' = "send" /\ day' = d
                         /\ \E r \in asked' : r.symbol = s /\ r.side = "sell" /\ r.fresh
               PROVE  Within(n, s, d)'
  BY DEF Guarded
<1>2. /\ Len(orders) \in Nat /\ DOMAIN orders = 1 .. Len(orders) /\ DOMAIN orders' = 1 .. Len(orders')
      /\ asked \subseteq Asked
  <2>1. orders' \in Seq(Order)  BY DEF TypeOK
  <2>2. DOMAIN orders' = 1 .. Len(orders')  BY <2>1
  <2> QED BY <2>2, Places DEF TypeOK
\* A sale the guard let pass before this step.
<1>3. ASSUME \/ /\ n \in DOMAIN orders /\ orders[n].symbol = s /\ orders[n].day = d
                /\ orders[n].side = "sell" /\ orders[n].fresh
             \/ /\ n = Len(orders) + 1 /\ pc = "send" /\ day = d
                /\ \E r \in asked : r.symbol = s /\ r.side = "sell" /\ r.fresh
      PROVE  Within(n, s, d)'
  <2>1. Within(n, s, d)  BY <1>1, <1>3 DEF Guarded
  <2>2. 1 <= n /\ n <= Len(orders) + 1 /\ (pc = "log" => n <= Len(orders))  BY <1>2, <1>3
  <2> QED BY <2>1, <2>2, SameWithin
<1>4. CASE /\ n \in DOMAIN orders' /\ orders'[n].symbol = s /\ orders'[n].day = d
           /\ orders'[n].side = "sell" /\ orders'[n].fresh
  <2>1. CASE n \in DOMAIN orders
    <3>1. Alike(orders'[n], orders[n])  BY <1>2, <2>1, Kept
    <3> QED BY <1>3, <1>4, <2>1, <3>1 DEF Alike
  <2>2. CASE n \notin DOMAIN orders
    <3>1. PICK r \in asked : Take(r) /\ pc = "send"
      <4>1. Len(orders') # Len(orders)  BY <1>2, <1>4, <2>2
      <4>2. CASE UNCHANGED account  BY <4>1, <4>2 DEF account
      <4>3. CASE Cancel \/ Fill  BY <4>1, <4>3, CancelIs, FillIs
      <4>4. CASE (Send \/ SendFails) /\ \E r \in asked : Take(r)
        BY <4>4 DEF Send, SendFails
      <4> QED BY <4>2, <4>3, <4>4, AccountSteps
    <3>2. r \in Asked  BY <1>2
    <3>3. /\ Len(orders') = Len(orders) + 1
          /\ orders'[Len(orders) + 1] =
                [symbol |-> r.symbol, side |-> r.side, qty |-> r.qty, day |-> day,
                 state |-> "resting", done |-> 0, fresh |-> r.fresh]
      BY <3>1, <3>2, Taken
    <3>4. n = Len(orders) + 1  BY <1>2, <1>4, <2>2, <3>3
    <3>5. r.side = "sell" /\ r.fresh /\ r.symbol = s /\ day = d  BY <1>4, <3>3, <3>4
    <3> QED BY <1>3, <3>1, <3>4, <3>5
  <2> QED BY <2>1, <2>2
<1>5. CASE /\ n = Len(orders') + 1 /\ pc' = "send" /\ day' = d
           /\ \E r \in asked' : r.symbol = s /\ r.side = "sell" /\ r.fresh
  <2>1. PICK r \in asked' : r.symbol = s /\ r.side = "sell" /\ r.fresh  BY <1>5
  <2>2. CASE Guards /\ pc = "guards"
    <3>1. /\ \A q \in asked : GuardsAllow(q)
          /\ asked' = {[q EXCEPT !.fresh = (client.cash = cash)] : q \in asked}
          /\ orders' = orders /\ day' = day
      BY <1>5, <2>2 DEF Guards, Refused, Submission, account
    <3>2. PICK q \in asked : r = [q EXCEPT !.fresh = (client.cash = cash)]  BY <2>1, <3>1
    <3>3. q \in Asked /\ q.side = "sell" /\ q.symbol = s /\ client.cash = cash
      BY <1>2, <2>1, <3>2 DEF Asked
    <3>4. Within(Len(orders) + 1, q.symbol, day)  BY <1>1, <3>1, <3>3, TradesGuard
    <3>5. Within(n, s, d)  BY <1>5, <3>1, <3>3, <3>4
    <3>6. 1 <= n /\ n <= Len(orders) + 1 /\ pc # "log"  BY <1>2, <1>5, <2>2, <3>1
    <3> QED BY <3>5, <3>6, SameWithin
  <2>3. CASE pc = "send" /\ UNCHANGED <<session, day>>
    <3>1. asked' = asked /\ day' = day  BY <2>3 DEF session
    <3>2. Len(orders') = Len(orders)
      <4>1. CASE UNCHANGED account  BY <4>1 DEF account
      <4>2. CASE Cancel \/ Fill  BY <4>2, CancelIs, FillIs
      <4>3. CASE Send \/ SendFails  BY <1>5, <4>3 DEF Send, SendFails
      <4> QED BY <4>1, <4>2, <4>3, AccountSteps
    <3> QED BY <1>3, <1>5, <2>3, <3>1, <3>2
  <2> QED BY <1>5, <2>2, <2>3, SendSteps
<1> QED BY <1>1, <1>4, <1>5

\* A finite set of days has a last one.
LEMMA LastOf ==
    ASSUME NEW E, IsFiniteSet(E), E \subseteq Int, E # {}
    PROVE  \E m \in E : \A e \in E : e <= m
<1> DEFINE After(e) == {x \in E : e < x}
           T == {After(e) : e \in E}
<1>1. IsWellFoundedOn(StrictSubsetOrdering(E), FiniteSubsetsOf(E))
  BY FS_StrictSubsetOrderingWellFounded
<1>2. T \subseteq FiniteSubsetsOf(E) /\ T # {}
  <2>1. \A S \in SUBSET E : IsFiniteSet(S)  BY FS_Subset
  <2>2. \A S \in T : S \in SUBSET E  OBVIOUS
  <2>3. T # {}  OBVIOUS
  <2> HIDE DEF T
  <2> QED BY <2>1, <2>2, <2>3 DEF FiniteSubsetsOf
<1>3. PICK S \in T : \A y \in T : ~(<<y, S>> \in StrictSubsetOrdering(E))
  <2> HIDE DEF T
  <2> QED BY <1>1, <1>2, WFMin
<1>4. PICK m \in E : S = After(m)  OBVIOUS
<1>5. ASSUME NEW e \in E, ~(e <= m) PROVE FALSE
  <2>1. m < e /\ m \in Int /\ e \in Int  BY <1>5
  <2>2. After(e) \subseteq After(m)
    <3>1. ASSUME NEW x \in E, e < x PROVE m < x
      <4>1. x \in Int  OBVIOUS
      <4> QED BY <2>1, <3>1, <4>1
    <3> QED BY <3>1
  <2>3. e \in After(m) /\ e \notin After(e)  BY <2>1
  <2>4. After(e) \in T /\ After(e) \in SUBSET E /\ After(m) \in SUBSET E  OBVIOUS
  <2> HIDE DEF After, T
  <2>5. <<After(e), After(m)>> \in StrictSubsetOrdering(E)
    <3>1. After(e) \subseteq After(m) /\ After(e) # After(m)  BY <2>2, <2>3
    <3> QED BY <2>4, <3>1 DEF StrictSubsetOrdering
  <2> QED BY <1>3, <1>4, <2>4, <2>5
<1> QED BY <1>5

\* The sessions of a stretch of days.
LEMMA SessionsFinite ==
    ASSUME NEW a \in Int, NEW b \in Int
    PROVE  /\ IsFiniteSet({x \in a .. b : IsSession(x)})
           /\ Cardinality({x \in a .. b : IsSession(x)}) \in Nat
<1>1. IsFiniteSet(a .. b)  BY FS_Interval
<1>2. {x \in a .. b : IsSession(x)} \subseteq a .. b  OBVIOUS
<1>3. IsFiniteSet({x \in a .. b : IsSession(x)})  BY <1>1, <1>2, FS_Subset
<1> QED BY <1>3, FS_CardinalityType

\* A session that is few sessions back is one the guard looks at: the rows that
\* are read reach back far enough.
LEMMA InWindow ==
    ASSUME NEW m \in FirstDay .. LastDay, NEW e \in Nat, e < m, IsSession(e),
           Cardinality({x \in e .. m : IsSession(x)}) <= PdtWindow
    PROVE  e \in WindowOf(m)
<1> DEFINE S == {x \in e .. m : IsSession(x)}
<1>1. m \in Nat /\ m \in Int /\ e \in Int /\ Lookback \in Nat /\ PdtWindow \in Nat
  <2>1. FirstDay \in Nat /\ LastDay \in Nat  BY OrderAssumption
  <2> QED BY <2>1, GateAssumption
<1>2. IsFiniteSet(S) /\ Cardinality(S) \in Nat  BY <1>1, SessionsFinite
<1>3. Cardinality(WindowOf(m)) = PdtWindow  BY LookbackAssumption
<1>4. e >= m - Lookback
  <2>1. SUFFICES ASSUME ~(e >= m - Lookback) PROVE FALSE  OBVIOUS
  <2>2. WindowOf(m) \subseteq S
    <3>1. \A x \in m - Lookback .. m : x \in e .. m  BY <1>1, <2>1
    <3> QED BY <3>1 DEF WindowOf
  <2>3. e \notin WindowOf(m)
    <3>1. e \notin m - Lookback .. m  BY <1>1, <2>1
    <3> QED BY <3>1 DEF WindowOf
  <2>4. e \in S  BY <1>1
  <2>5. IsFiniteSet(WindowOf(m))  BY <1>1, WindowFinite
  <2> DEFINE W == WindowOf(m)
  <2> HIDE DEF S, W
  <2>6. W \cup {e} \subseteq S  BY <2>2, <2>4 DEF W
  <2>7. Cardinality(W \cup {e}) = PdtWindow + 1
    BY <1>3, <2>3, <2>5, FS_AddElement DEF W
  <2>8. Cardinality(W \cup {e}) <= Cardinality(S)  BY <1>2, <2>6, FS_Subset
  <2>9. Cardinality(S) <= PdtWindow  BY DEF S
  <2> QED BY <1>1, <1>2, <2>7, <2>8, <2>9
<1>5. e \in m - Lookback .. m  BY <1>1, <1>4
<1> QED BY <1>5 DEF WindowOf

\* The last day trade of a window counts those before it.
LEMMA TradesCounted ==
    ASSUME TypeOK, InOrder, Guarded, Cash0 < Threshold, NEW s \in Symbol, NEW d \in FirstDay .. LastDay,
           NEW E \in SUBSET {e \in FirstDay .. d :
                                 Cardinality({x \in e .. d : IsSession(x)}) \in 1 .. PdtWindow},
           \A e \in E : SeenDayTrade(s, e)
    PROVE  Cardinality(E) <= PdtLimit
<1>1. FirstDay \in Nat /\ LastDay \in Nat /\ d \in Nat /\ PdtLimit \in Nat /\ PdtWindow \in Nat
  <2>1. FirstDay \in Nat /\ LastDay \in Nat  BY OrderAssumption
  <2> QED BY <2>1, GateAssumption
<1>2. /\ DOMAIN orders = 1 .. Len(orders) /\ Len(orders) \in Nat
      /\ \A k \in DOMAIN orders : orders[k] \in Order /\ orders[k].day \in Nat
  <2>1. \A o \in Order : o.day \in Nat  BY DEF Order
  <2> QED BY <2>1, Places
<1>3. E \subseteq FirstDay .. d /\ IsFiniteSet(E)
  <2>1. IsFiniteSet(FirstDay .. d)
    <3>1. FirstDay \in Int /\ d \in Int  BY <1>1
    <3> QED BY <3>1, FS_Interval
  <2>2. E \subseteq FirstDay .. d  OBVIOUS
  <2> QED BY <2>1, <2>2, FS_Subset
<1>4. CASE E = {}  BY <1>1, <1>4, FS_EmptySet
<1>5. CASE E # {}
  <2>1. E \subseteq Int  BY <1>1, <1>3
  <2>2. PICK m \in E : \A e \in E : e <= m  BY <1>3, <1>5, <2>1, LastOf
  <2>3. m \in FirstDay .. LastDay /\ m \in Nat /\ m <= d
    <3>1. m \in FirstDay .. d  BY <1>3
    <3> QED BY <1>1, <3>1
  <2>4. PICK b, k \in DOMAIN orders :
            /\ b < k /\ orders[b].side = "buy" /\ orders[k].side = "sell"
            /\ {orders[b].symbol, orders[k].symbol} = {s}
            /\ {orders[b].day, orders[k].day} = {m}
            /\ Written(b) /\ Written(k) /\ orders[k].fresh
    BY <2>2 DEF SeenDayTrade
  <2>5. orders[b].symbol = s /\ orders[k].symbol = s /\ orders[b].day = m /\ orders[k].day = m
    BY <2>4
  <2> DEFINE T == {e \in WindowOf(m) : TradedBefore(k, s, e)}
  <2>6. Cardinality(T) < PdtLimit
    <3>1. k \in Nat  BY <1>2
    <3>2. Within(k, s, m)  BY <2>3, <2>4, <2>5, <3>1 DEF Guarded
    <3>3. b \in 1 .. k - 1  BY <1>2, <2>4
    <3>4. BoughtBefore(k, s, m)  BY <2>4, <2>5, <3>3 DEF BoughtBefore
    <3> QED BY <3>2, <3>4 DEF Within
  <2>7. E \ {m} \subseteq T
    <3>1. SUFFICES ASSUME NEW e \in E, e # m PROVE e \in T  OBVIOUS
    <3>2. e < m /\ e \in Nat /\ e \in Int /\ m \in Int  
      <4>1. e <= m /\ e \in FirstDay .. d  BY <1>3, <2>2
      <4> QED BY <1>1, <2>3, <3>1, <4>1
    <3>3. PICK i, j \in DOMAIN orders :
              /\ i < j /\ orders[i].side = "buy" /\ orders[j].side = "sell"
              /\ {orders[i].symbol, orders[j].symbol} = {s}
              /\ {orders[i].day, orders[j].day} = {e}
              /\ Written(i) /\ Written(j)
      BY DEF SeenDayTrade
    <3>4. orders[j].day = e  BY <3>3
    <3>5. j < k
      <4>1. ~(k <= j)
        <5>1. k <= j => orders[k].day <= orders[j].day  BY DEF InOrder
        <5> QED BY <2>3, <2>5, <3>2, <3>4, <5>1
      <4> QED BY <1>2, <4>1
    <3>6. i \in 1 .. k - 1 /\ j \in 1 .. k - 1  BY <1>2, <3>3, <3>5
    <3>7. TradedBefore(k, s, e)  BY <3>3, <3>6 DEF TradedBefore
    <3>8. IsSession(e)  BY <3>4 DEF InOrder
    <3>9. Cardinality({x \in e .. m : IsSession(x)}) <= PdtWindow
      <4> DEFINE A == {x \in e .. m : IsSession(x)}
                 B == {x \in e .. d : IsSession(x)}
      <4>1. A \subseteq B
        <5>1. \A x \in e .. m : x \in e .. d  BY <1>1, <2>3, <3>2
        <5> QED BY <5>1
      <4>2. d \in Int  BY <1>1
      <4>3. IsFiniteSet(B) /\ Cardinality(B) \in Nat /\ Cardinality(A) \in Nat
        BY <3>2, <4>2, SessionsFinite
      <4>4. Cardinality(B) \in 1 .. PdtWindow  OBVIOUS
      <4> HIDE DEF A, B
      <4>5. Cardinality(A) <= Cardinality(B)  BY <4>1, <4>3, FS_Subset
      <4>6. Cardinality(A) <= PdtWindow  BY <1>1, <4>3, <4>4, <4>5
      <4> QED BY <4>6 DEF A
    <3>10. e \in WindowOf(m)  BY <2>3, <3>2, <3>8, <3>9, InWindow
    <3> QED BY <3>7, <3>10
  <2>8. IsFiniteSet(T)
    <3>1. T \subseteq WindowOf(m)  OBVIOUS
    <3> HIDE DEF T
    <3> QED BY <2>3, <3>1, WindowFinite, FS_Subset
  <2> HIDE DEF T
  <2>9. Cardinality(E \ {m}) <= Cardinality(T) /\ Cardinality(T) \in Nat
    BY <2>7, <2>8, FS_Subset, FS_CardinalityType
  <2>10. Cardinality(E \ {m}) = Cardinality(E) - 1 /\ Cardinality(E) \in Nat
    BY <1>3, <2>2, FS_RemoveElement, FS_CardinalityType
  <2> QED BY <1>1, <2>6, <2>9, <2>10
<1> QED BY <1>4, <1>5

\* What the day-trader guard rests on, together.
Trading == RowsTrue /\ AskedTrue /\ InOrder /\ Balanced /\ Guarded

\* What the day-trader guard rests on is inductive.
LEMMA TradingHolds == Spec => []Trading
<1>1. Init => Balanced /\ Guarded
  <2>1. SUFFICES ASSUME Init PROVE Balanced /\ Guarded  OBVIOUS
  <2>2. /\ pc = "idle" /\ orders = <<>> /\ cash = Cash0 /\ Cash0 \in Nat
        /\ held = [s \in Symbol |-> 0] /\ DOMAIN orders = {}
    BY <2>1, OrderAssumption DEF Init
  <2>3. Units(held, Symbol) = {}  BY <2>2 DEF Units
  <2>4. Cardinality(Units(held, Symbol)) = 0  BY <2>3, FS_EmptySet
  <2>5. Total(orders, Reserved) = 0
    <3>1. Reserved = {}  BY <2>2 DEF Reserved
    <3> QED BY <3>1, TotalNone, Zenon
  <2>6. Balanced  BY <2>2, <2>4, <2>5 DEF Balanced
  <2>7. Guarded  BY <2>2 DEF Guarded
  <2> QED BY <2>6, <2>7
<1>2. /\ TypeOK /\ TypeOK' /\ Funding /\ Balanced /\ Guarded /\ [Next]_vars
      => Balanced' /\ Guarded'
  BY BalancedStep, GuardedStep DEF Funding
<1>3. Funding /\ Balanced /\ Guarded => Trading  BY DEF Funding, Trading
<1> QED BY <1>1, <1>2, <1>3, TypeCorrect, FundingHolds, PTL DEF Spec

\* The pattern-day-trader guard holds for every calendar whose window the rows
\* that are read cover, every account below the threshold, and any number of
\* orders, lost answers, deaths and paper cycles.
THEOREM DayTradesHold == Spec => []DayTradesBounded
<1>1. TypeOK /\ Trading => DayTradesBounded
  <2>1. SUFFICES ASSUME TypeOK, Trading, Cash0 < Threshold, NEW s \in Symbol,
                        NEW d \in FirstDay .. LastDay
                 PROVE  LET window == {e \in FirstDay .. d :
                                  Cardinality({x \in e .. d : IsSession(x)}) \in 1 .. PdtWindow}
                        IN  Cardinality({e \in window : SeenDayTrade(s, e)}) <= PdtLimit
    BY Zenon DEF DayTradesBounded
  <2> DEFINE window == {e \in FirstDay .. d :
                            Cardinality({x \in e .. d : IsSession(x)}) \in 1 .. PdtWindow}
             E == {e \in window : SeenDayTrade(s, e)}
  <2>2. E \in SUBSET window /\ \A e \in E : SeenDayTrade(s, e)  OBVIOUS
  <2> HIDE DEF E
  <2>3. Cardinality(E) <= PdtLimit  BY <2>1, <2>2, TradesCounted DEF Trading
  <2> QED BY <2>3 DEF E
<1> QED BY <1>1, TypeCorrect, TradingHolds, PTL
=============================================================================
