--------------------------- MODULE DocumentProofs ---------------------------
(***************************************************************************)
(* Proofs about InvoiceDocument, for every form, file, organization and    *)
(* number of lines that the assumptions allow.                             *)
(***************************************************************************)
EXTENDS InvoiceDocument, SumTheorems, SequenceTheorems

-----------------------------------------------------------------------------
(* Rounding.                                                                 *)

\* The quotient is the largest integer that fits.
LEMMA Divides ==
    ASSUME NEW a \in Int, NEW b \in Nat \ {0}
    PROVE  a \div b \in Int /\ b * (a \div b) <= a /\ a < b * (a \div b) + b
OBVIOUS

\* toFixed moves an amount by half a unit of what it rounds to, and never below zero.
LEMMA Rounds ==
    ASSUME NEW n \in Nat, NEW d \in Nat \ {0}, NEW x \in Fixed(n, d)
    PROVE  x \in Nat /\ -d <= 2 * (d * x - n) /\ 2 * (d * x - n) <= d
<1> DEFINE e == 2 * d
           up == (2 * n + d) \div e
           down == (d - 2 * n) \div e
<1>1. e \in Nat \ {0} /\ e = d + d
  OBVIOUS
<1>2. /\ up \in Int /\ e * up <= 2 * n + d /\ 2 * n + d < e * up + e
      /\ down \in Int /\ e * down <= d - 2 * n /\ d - 2 * n < e * down + e
  <2> HIDE DEF e
  <2>1. 2 * n + d \in Int /\ d - 2 * n \in Int
    OBVIOUS
  <2>2. QED
    BY <1>1, <2>1, Divides
<1>3. x = up \/ x = -down
  BY DEF Fixed
<1> HIDE DEF up, down
<1>4. \A q \in Int : e * q = 2 * (d * q) /\ d * q \in Int /\ d * (-q) = -(d * q)
  OBVIOUS
<1>5. \A q \in Int : (q >= 1 => e * q >= e) /\ (q <= -1 => e * q <= -e)
  OBVIOUS
<1> HIDE DEF e
<1>6. CASE x = up
  <2>1. up \in Nat
    BY <1>1, <1>2, <1>5
  <2> DEFINE p == d * up
             q == e * up
  <2>2. p \in Int /\ q = 2 * p /\ q <= 2 * n + d /\ 2 * n + d < q + e
    BY <1>2, <1>4
  <2> HIDE DEF p, q
  <2>3. -d <= 2 * (p - n) /\ 2 * (p - n) <= d
    BY <1>1, <2>2
  <2>4. QED
    BY <1>6, <2>1, <2>3 DEF p
<1>7. CASE x = -down
  <2>1. -down \in Nat
    BY <1>1, <1>2, <1>5
  <2> DEFINE p == d * down
             q == e * down
  <2>2. p \in Int /\ q = 2 * p /\ q <= d - 2 * n /\ d - 2 * n < q + e
    BY <1>2, <1>4
  <2>3. d * x = -p
    BY <1>2, <1>4, <1>7
  <2> HIDE DEF p, q
  <2>4. -d <= 2 * (-p - n) /\ 2 * (-p - n) <= d
    BY <1>1, <2>2
  <2>5. QED
    BY <1>7, <2>1, <2>3, <2>4
<1>8. QED
  BY <1>3, <1>6, <1>7

-----------------------------------------------------------------------------
(* One line.                                                                 *)

\* A line of a form that Valid lets through.
Item == [quantity : Nat, price : Nat, rate : Nat, discount : Nat, blank : BOOLEAN]
ValidItem == {x \in Item : x.quantity >= 1 /\ x.rate <= 100 /\ x.discount <= 100}

\* The amounts of a line: what is charged is the gross amount without its discount.
LEMMA Amounts ==
    ASSUME NEW x \in ValidItem
    PROVE  /\ Gross(x) \in Nat /\ Discount(x) \in Nat /\ Tax(x) \in Nat /\ Total(x) \in Nat
           /\ \E k \in Nat : /\ k = 100 * Gross(x) - Discount(x)
                             /\ Tax(x) = k * x.rate /\ Total(x) = k * (100 + x.rate)
<1> DEFINE g == Gross(x)
           k == g * (100 - x.discount)
<1>1. x.quantity \in Nat /\ x.price \in Nat /\ x.rate \in Nat /\ x.discount \in 0..100
  BY DEF ValidItem, Item
<1>2. g \in Nat
  BY <1>1 DEF Gross
<1> HIDE DEF g
<1>3. k \in Nat /\ k = 100 * g - g * x.discount /\ g * x.discount \in Nat
  BY <1>1, <1>2
<1>4. Discount(x) = g * x.discount /\ Tax(x) = k * x.rate /\ Total(x) = k * (100 + x.rate)
  BY DEF Discount, Tax, Total, g
<1> HIDE DEF k
<1>5. k * x.rate \in Nat /\ k * (100 + x.rate) \in Nat
  BY <1>1, <1>3
<1>6. QED
  BY <1>2, <1>3, <1>4, <1>5 DEF g

\* The rates that the document has a code for.
Coded == {0, 7, 10, 15}

\* How far a line of the document can be from the amounts of the form: half a cent, 0.575
\* of one for the tax and 1.075 for both, and what the form takes off for a discount.
LineNear(x, l) ==
    /\ l.net \in Nat /\ l.tax \in Nat
    /\ 1000 * l.net - Gross(x) <= 500 /\ Gross(x) - 1000 * l.net <= 500
    /\ x.rate \in Coded =>
         /\ 40 * (Cent * l.tax - Tax(x) - 15 * Discount(x)) <= 23 * Cent
         /\ 40 * (Tax(x) - Cent * l.tax) <= 23 * Cent
         /\ 40 * (Total(x) + 100 * Discount(x) - Cent * (l.net + l.tax)) <= 43 * Cent
    /\ 40 * (Cent * (l.net + l.tax) - Total(x) - 200 * Discount(x)) <= 43 * Cent

\* What a stored line keeps of the form's.
LEMMA StoredLine ==
    ASSUME NEW x \in ValidItem, NEW s \in Stored(x)
    PROVE  /\ s.quantity = x.quantity /\ s.rate = x.rate /\ s.blank = x.blank
           /\ s.price \in Fixed(x.price, 10) /\ s.subtotal \in Fixed(Gross(x), 1000)
           /\ s = [quantity |-> x.quantity, price |-> s.price, subtotal |-> s.subtotal,
                   rate |-> x.rate, blank |-> x.blank]
BY DEF Stored

\* The net amount is rounded once, and the tax once more from the rounded net amount.
LEMMA LineIsNear ==
    ASSUME NEW x \in ValidItem, NEW s \in Stored(x), NEW l \in Line(s)
    PROVE  LineNear(x, l)
<1>1. x.rate \in Nat /\ Gross(x) \in Nat /\ Discount(x) \in Nat
  BY Amounts DEF ValidItem, Item
<1>2. PICK k \in Nat : /\ k = 100 * Gross(x) - Discount(x)
                       /\ Tax(x) = k * x.rate /\ Total(x) = k * (100 + x.rate)
  BY Amounts
<1>3. s.subtotal \in Fixed(Gross(x), 1000) /\ s.rate = x.rate
  BY StoredLine
<1>4. /\ s.subtotal \in Nat
      /\ -1000 <= 2 * (1000 * s.subtotal - Gross(x)) /\ 2 * (1000 * s.subtotal - Gross(x)) <= 1000
  BY <1>1, <1>3, Rounds, SMTT(30)
<1>5. l.net = s.subtotal /\ l.tax \in IF Tariff(x.rate) = 0 THEN {0} ELSE Fixed(s.subtotal * x.rate, 100)
  BY <1>3 DEF Line
<1>6. ASSUME NEW r \in {7, 10, 15}, x.rate = r
      PROVE  LineNear(x, l)
  <2>1. l.tax \in Fixed(s.subtotal * r, 100)
    BY <1>5, <1>6 DEF Tariff
  <2>2. s.subtotal * r \in Nat
    BY <1>4
  <2>3. /\ l.tax \in Nat
        /\ -100 <= 2 * (100 * l.tax - s.subtotal * r) /\ 2 * (100 * l.tax - s.subtotal * r) <= 100
    BY <2>1, <2>2, Rounds, SMTT(30)
  <2>4. CASE r = 7
    BY <1>1, <1>2, <1>4, <1>5, <1>6, <2>3, <2>4, SMTT(30) DEF LineNear, Cent
  <2>5. CASE r = 10
    BY <1>1, <1>2, <1>4, <1>5, <1>6, <2>3, <2>5, SMTT(30) DEF LineNear, Cent
  <2>6. CASE r = 15
    BY <1>1, <1>2, <1>4, <1>5, <1>6, <2>3, <2>6, SMTT(30) DEF LineNear, Cent
  <2>7. QED
    BY <2>4, <2>5, <2>6
<1>7. CASE x.rate \notin {7, 10, 15}
  <2>1. l.tax = 0
    BY <1>5, <1>7 DEF Tariff
  <2>2. PICK m \in Nat : m = k * x.rate /\ Total(x) = 100 * k + m
    BY <1>1, <1>2
  <2>3. CASE x.rate = 0
    <3>1. Tax(x) = 0 /\ m = 0
      BY <1>2, <2>2, <2>3
    <3>2. l.net \in Nat /\ l.tax = 0 /\ Total(x) = 100 * (100 * Gross(x) - Discount(x))
      BY <1>2, <1>4, <1>5, <2>1, <2>2, <3>1
    <3>3. QED
      BY <1>1, <1>4, <1>5, <3>1, <3>2, SMTT(30) DEF LineNear, Cent
  <2>4. CASE x.rate # 0
    <3>1. x.rate \notin Coded
      BY <1>7, <2>4 DEF Coded
    <3>2. 40 * (Cent * (l.net + l.tax) - Total(x) - 200 * Discount(x)) <= 43 * Cent
      BY <1>1, <1>2, <1>4, <1>5, <2>1, <2>2, SMTT(30) DEF Cent
    <3>3. QED
      BY <1>1, <1>4, <1>5, <2>1, <3>1, <3>2, SMTT(30) DEF LineNear, Cent
  <2>5. QED
    BY <2>3, <2>4
<1>8. QED
  BY <1>6, <1>7
-----------------------------------------------------------------------------
(* The totals.                                                               *)

\* The tax of the bill T and of the form t, where D is the unrounded one and O the discounts.
LEMMA TaxToACent ==
    ASSUME NEW n \in Nat, n >= 1, NEW T \in Nat, NEW t \in Nat, NEW D \in Nat, NEW O \in Nat,
           2 * O <= OffCent,
           40 * (Cent * T - D - 15 * O) <= 23 * (Cent * n), 40 * (D - Cent * T) <= 23 * (Cent * n),
           2 * (Cent * t - D) <= Cent, -Cent <= 2 * (Cent * t - D)
    PROVE  T - t \in -n..n
BY SMTT(30) DEF Cent, OffCent

\* The total of the bill B from below, where the form has the total a and the discount d.
LEMMA TotalFromBelow ==
    ASSUME NEW n \in Nat, n >= 1, NEW B \in Nat, NEW a \in Nat, NEW U \in Nat,
           NEW d \in Nat, NEW O \in Nat,
           2 * (OffCent * d - O) <= OffCent, -OffCent <= 2 * (OffCent * d - O),
           40 * (U + 100 * O - Cent * B) <= 43 * (Cent * n),
           2 * (Cent * a - U) <= Cent, -Cent <= 2 * (Cent * a - U)
    PROVE  B >= a + d - 2 * n
BY SMTT(30) DEF Cent, OffCent

\* And from above, without a discount.
LEMMA TotalFromAbove ==
    ASSUME NEW n \in Nat, n >= 1, NEW B \in Nat, NEW a \in Nat, NEW U \in Nat, NEW O \in Nat,
           2 * O <= OffCent, 40 * (Cent * B - U - 200 * O) <= 43 * (Cent * n),
           2 * (Cent * a - U) <= Cent, -Cent <= 2 * (Cent * a - U)
    PROVE  B <= a + 2 * n
BY SMTT(30) DEF Cent, OffCent

\* The differences of the lines add up, and the totals of the form are rounded once more.
LEMMA BillIsNear ==
    ASSUME NEW items \in Seq(ValidItem), items # <<>>,
           NEW stored \in Each(Stored, items), NEW lines \in Each(Line, stored),
           NEW s \in Fixed(Sum(Gross, items), 1000), NEW d \in Fixed(Sum(Discount, items), OffCent),
           NEW t \in Fixed(Sum(Tax, items), Cent), NEW a \in Fixed(Sum(Total, items), Cent)
    PROVE  LET bill == Totals(lines)
               n == Len(stored)
               coded == \A i \in 1..n : stored[i].rate \in Coded
           IN  /\ s \in Nat /\ d \in Nat /\ t \in Nat /\ a \in Nat
               /\ bill \in [net : Nat, itbms : Nat, total : Nat]
               /\ bill.net - s \in -n..n
               /\ d = 0 /\ coded => bill.itbms - t \in -n..n
               /\ coded => bill.total >= a + d - 2 * n
               /\ d = 0 => bill.total <= a + 2 * n
<1> DEFINE n == Len(items)
           I == 1..n
           S(f) == SumFunctionOnSet(f, I)
           gross == [i \in I |-> Gross(items[i])]
           off == [i \in I |-> Discount(items[i])]
           duty == [i \in I |-> Tax(items[i])]
           due == [i \in I |-> Total(items[i])]
           net == [i \in I |-> lines[i].net]
           tax == [i \in I |-> lines[i].tax]
           bill == [i \in I |-> lines[i].net + lines[i].tax]
           coded == \A i \in I : stored[i].rate \in Coded
<1>1. n \in Nat /\ n >= 1 /\ DOMAIN items = I /\ \A i \in I : items[i] \in ValidItem
  <2>1. n \in Nat /\ DOMAIN items = I /\ \A i \in I : items[i] \in ValidItem
    BY LenProperties, ElementOfSeq
  <2>2. n # 0
    BY EmptySeq
  <2>3. QED
    BY <2>1, <2>2
<1>2. /\ stored \in [I -> UNION {Stored(items[i]) : i \in I}]
      /\ \A i \in I : stored[i] \in Stored(items[i])
  BY <1>1 DEF Each
<1>3. DOMAIN stored = I /\ Len(stored) = n
  BY <1>1, <1>2
<1>4. /\ lines \in [I -> UNION {Line(stored[i]) : i \in I}]
      /\ \A i \in I : lines[i] \in Line(stored[i])
  BY <1>3 DEF Each
<1>5. \A i \in I : LineNear(items[i], lines[i]) /\ stored[i].rate = items[i].rate
  <2> SUFFICES ASSUME NEW i \in I
               PROVE  LineNear(items[i], lines[i]) /\ stored[i].rate = items[i].rate
    OBVIOUS
  <2>1. items[i] \in ValidItem /\ stored[i] \in Stored(items[i]) /\ lines[i] \in Line(stored[i])
    BY <1>1, <1>2, <1>4
  <2>2. LineNear(items[i], lines[i])
    BY <2>1, LineIsNear
  <2>3. stored[i].rate = items[i].rate
    BY <2>1, StoredLine
  <2>4. QED
    BY <2>2, <2>3
<1>6. /\ Sum(Gross, items) = S(gross) /\ Sum(Discount, items) = S(off)
      /\ Sum(Tax, items) = S(duty) /\ Sum(Total, items) = S(due)
  BY <1>1 DEF Sum, SumFunction
<1>7. Totals(lines) = [net |-> S(net), itbms |-> S(tax), total |-> S(bill)]
  <2>1. DOMAIN lines = I
    BY <1>4
  <2>2. Sum(LAMBDA x : x.net, lines) = S(net)
    BY <2>1 DEF Sum, SumFunction
  <2>3. Sum(LAMBDA x : x.tax, lines) = S(tax)
    BY <2>1 DEF Sum, SumFunction
  <2>4. Sum(LAMBDA x : x.net + x.tax, lines) = S(bill)
    BY <2>1 DEF Sum, SumFunction
  <2> HIDE DEF S, net, tax, bill
  <2>5. QED
    BY <2>2, <2>3, <2>4, Zenon DEF Totals
<1>8. IsFiniteSet(I) /\ Cardinality(I) = n /\ Cent \in Nat
  <2>1. Cent \in Nat
    BY SMTT(30) DEF Cent
  <2>2. QED
    BY <1>1, <2>1, Lines
<1>9. ASSUME NEW i \in I
      PROVE  /\ gross[i] = Gross(items[i]) /\ off[i] = Discount(items[i])
             /\ duty[i] = Tax(items[i]) /\ due[i] = Total(items[i])
             /\ net[i] = lines[i].net /\ tax[i] = lines[i].tax /\ bill[i] = net[i] + tax[i]
             /\ gross[i] \in Nat /\ off[i] \in Nat /\ duty[i] \in Nat /\ due[i] \in Nat
             /\ net[i] \in Nat /\ tax[i] \in Nat /\ bill[i] \in Nat
             /\ LineNear(items[i], lines[i])
  <2>1. items[i] \in ValidItem /\ LineNear(items[i], lines[i])
    BY <1>1, <1>5
  <2>2. lines[i].net \in Nat /\ lines[i].tax \in Nat
    BY <2>1 DEF LineNear
  <2>3. /\ Gross(items[i]) \in Nat /\ Discount(items[i]) \in Nat
        /\ Tax(items[i]) \in Nat /\ Total(items[i]) \in Nat
    BY <2>1, Amounts
  <2>4. QED
    BY <2>1, <2>2, <2>3
<1> HIDE DEF gross, off, duty, due, net, tax, bill
<1>10. /\ SumFunctionOnSet(gross, I) \in Nat /\ SumFunctionOnSet(off, I) \in Nat
       /\ SumFunctionOnSet(duty, I) \in Nat /\ SumFunctionOnSet(due, I) \in Nat
       /\ SumFunctionOnSet(net, I) \in Nat /\ SumFunctionOnSet(tax, I) \in Nat
       /\ SumFunctionOnSet(bill, I) \in Nat
  <2>1. \A f : (\A i \in I : f[i] \in Nat) => SumFunctionOnSet(f, I) \in Nat
    BY <1>8, SumIsNat
  <2>2. QED
    BY <1>9, <2>1
\* A bound for every line is one for the sums, n times.
<1>11. ASSUME NEW x, NEW y, NEW z, \A i \in I : x[i] \in Nat /\ y[i] \in Nat /\ z[i] \in Nat,
              NEW p \in Int, NEW q \in Int, NEW r \in Int, NEW e \in Int,
              \A i \in I : p * x[i] + q * y[i] + r * z[i] <= e
       PROVE  p * SumFunctionOnSet(x, I) + q * SumFunctionOnSet(y, I)
                + r * SumFunctionOnSet(z, I) <= e * n
  <2>1. \A i \in I : x[i] \in Int /\ y[i] \in Int /\ z[i] \in Int
    BY <1>11
  <2> HIDE DEF I, n
  <2>2. QED
    BY <1>8, <1>11, <2>1, SumBound, Zenon
<1>12. ASSUME NEW i \in I
       PROVE  /\ 1000 * net[i] - gross[i] <= 500 /\ gross[i] - 1000 * net[i] <= 500
              /\ items[i].rate \in Coded =>
                   /\ 40 * (Cent * tax[i] - duty[i] - 15 * off[i]) <= 23 * Cent
                   /\ 40 * (duty[i] - Cent * tax[i]) <= 23 * Cent
                   /\ 40 * (due[i] + 100 * off[i] - Cent * bill[i]) <= 43 * Cent
              /\ 40 * (Cent * bill[i] - due[i] - 200 * off[i]) <= 43 * Cent
  <2>1. LineNear(items[i], lines[i])
    BY <1>9
  <2>2. /\ Gross(items[i]) = gross[i] /\ Discount(items[i]) = off[i] /\ Tax(items[i]) = duty[i]
        /\ Total(items[i]) = due[i] /\ lines[i].net = net[i] /\ lines[i].tax = tax[i]
        /\ lines[i].net + lines[i].tax = bill[i]
    BY <1>9
  <2>3. QED
    BY <2>1, <2>2, SMTT(30) DEF LineNear
<1>13. 1000 * S(net) - S(gross) <= 500 * n
  <2>1. PICK p \in Int, q \in Int, r \in Int, e \in Int :
          p = 1000 /\ q = -1 /\ r = 0 /\ e = 500
    OBVIOUS
  <2>2. ASSUME NEW i \in I
        PROVE  p * net[i] + q * gross[i] + r * gross[i] <= e
    <3>1. 1000 * net[i] - gross[i] <= 500
      BY <1>12
    <3>2. net[i] \in Nat /\ gross[i] \in Nat /\ gross[i] \in Nat
      BY <1>9
    <3>3. /\ p * net[i] = 1000 * net[i] /\ q * gross[i] = -gross[i]
          /\ r * gross[i] = 0
      BY <2>1, <3>2
    <3>4. QED
      BY <2>1, <3>1, <3>2, <3>3
  <2>3. p * S(net) + q * S(gross) + r * S(gross) <= e * n
    BY <1>9, <1>11, <2>2, Zenon
  <2>4. QED
    BY <1>1, <1>10, <2>1, <2>3
<1>14. S(gross) - 1000 * S(net) <= 500 * n
  <2>1. PICK p \in Int, q \in Int, r \in Int, e \in Int :
          p = 1 /\ q = -1000 /\ r = 0 /\ e = 500
    OBVIOUS
  <2>2. ASSUME NEW i \in I
        PROVE  p * gross[i] + q * net[i] + r * net[i] <= e
    <3>1. gross[i] - 1000 * net[i] <= 500
      BY <1>12
    <3>2. gross[i] \in Nat /\ net[i] \in Nat /\ net[i] \in Nat
      BY <1>9
    <3>3. /\ p * gross[i] = gross[i] /\ q * net[i] = -1000 * net[i]
          /\ r * net[i] = 0
      BY <2>1, <3>2
    <3>4. QED
      BY <2>1, <3>1, <3>2, <3>3
  <2>3. p * S(gross) + q * S(net) + r * S(net) <= e * n
    BY <1>9, <1>11, <2>2, Zenon
  <2>4. QED
    BY <1>1, <1>10, <2>1, <2>3
<1>15. ASSUME coded
       PROVE  40 * (Cent * S(tax) - S(duty) - 15 * S(off)) <= 23 * (Cent * n)
  <2>1. PICK p \in Int, q \in Int, r \in Int, e \in Int :
          p = 40 * Cent /\ q = -40 /\ r = -600 /\ e = 23 * Cent
    BY SMTT(30) DEF Cent
  <2>2. \A i \in I : items[i].rate \in Coded
    BY <1>5, <1>15
  <2>3. ASSUME NEW i \in I
        PROVE  p * tax[i] + q * duty[i] + r * off[i] <= e
    <3>1. 40 * (Cent * tax[i] - duty[i] - 15 * off[i]) <= 23 * Cent
      BY <1>12, <2>2
    <3>2. tax[i] \in Nat /\ duty[i] \in Nat /\ off[i] \in Nat
      BY <1>9
    <3>3. /\ p * tax[i] = 40 * (Cent * tax[i]) /\ q * duty[i] = -40 * duty[i]
          /\ r * off[i] = -600 * off[i]
      BY <2>1, <3>2, SMTT(30) DEF Cent
    <3>4. \A u \in Int, v \in Int, w \in Int :
            40 * (u - v - 15 * w) = 40 * u + -40 * v + -600 * w
      BY SMTT(30)
    <3>5. Cent * tax[i] \in Int /\ duty[i] \in Int /\ off[i] \in Int
      BY <1>8, <3>2
    <3>6. 40 * (Cent * tax[i] - duty[i] - 15 * off[i])
            = 40 * (Cent * tax[i]) + -40 * duty[i] + -600 * off[i]
      BY <3>4, <3>5
    <3>7. QED
      BY <2>1, <3>1, <3>3, <3>6
  <2>4. p * S(tax) + q * S(duty) + r * S(off) <= e * n
    BY <1>9, <1>11, <2>3, Zenon
  <2>5. QED
    BY <1>1, <1>10, <2>1, <2>4, SMTT(30) DEF Cent
<1>16. ASSUME coded
       PROVE  40 * (S(duty) - Cent * S(tax)) <= 23 * (Cent * n)
  <2>1. PICK p \in Int, q \in Int, r \in Int, e \in Int :
          p = 40 /\ q = -40 * Cent /\ r = 0 /\ e = 23 * Cent
    BY SMTT(30) DEF Cent
  <2>2. \A i \in I : items[i].rate \in Coded
    BY <1>5, <1>16
  <2>3. ASSUME NEW i \in I
        PROVE  p * duty[i] + q * tax[i] + r * tax[i] <= e
    <3>1. 40 * (duty[i] - Cent * tax[i]) <= 23 * Cent
      BY <1>12, <2>2
    <3>2. duty[i] \in Nat /\ tax[i] \in Nat /\ tax[i] \in Nat
      BY <1>9
    <3>3. /\ p * duty[i] = 40 * duty[i] /\ q * tax[i] = -40 * (Cent * tax[i])
          /\ r * tax[i] = 0
      BY <2>1, <3>2, SMTT(30) DEF Cent
    <3>4. QED
      BY <1>8, <2>1, <3>1, <3>2, <3>3, SMTT(30)
  <2>4. p * S(duty) + q * S(tax) + r * S(tax) <= e * n
    BY <1>9, <1>11, <2>3, Zenon
  <2>5. QED
    BY <1>1, <1>10, <2>1, <2>4, SMTT(30) DEF Cent
<1>17. ASSUME coded
       PROVE  40 * (S(due) + 100 * S(off) - Cent * S(bill)) <= 43 * (Cent * n)
  <2>1. PICK p \in Int, q \in Int, r \in Int, e \in Int :
          p = 40 /\ q = 4000 /\ r = -40 * Cent /\ e = 43 * Cent
    BY SMTT(30) DEF Cent
  <2>2. \A i \in I : items[i].rate \in Coded
    BY <1>5, <1>17
  <2>3. ASSUME NEW i \in I
        PROVE  p * due[i] + q * off[i] + r * bill[i] <= e
    <3>1. 40 * (due[i] + 100 * off[i] - Cent * bill[i]) <= 43 * Cent
      BY <1>12, <2>2
    <3>2. due[i] \in Nat /\ off[i] \in Nat /\ bill[i] \in Nat
      BY <1>9
    <3>3. /\ p * due[i] = 40 * due[i] /\ q * off[i] = 4000 * off[i]
          /\ r * bill[i] = -40 * (Cent * bill[i])
      BY <2>1, <3>2, SMTT(30) DEF Cent
    <3>4. \A u \in Int, v \in Int, w \in Int :
            40 * (u + 100 * v - w) = 40 * u + 4000 * v + -40 * w
      OBVIOUS
    <3>5. due[i] \in Int /\ off[i] \in Int /\ Cent * bill[i] \in Int
      BY <1>8, <3>2
    <3>6. 40 * (due[i] + 100 * off[i] - Cent * bill[i])
            = 40 * due[i] + 4000 * off[i] + -40 * (Cent * bill[i])
      BY <3>4, <3>5
    <3>7. QED
      BY <2>1, <3>1, <3>3, <3>6
  <2>4. p * S(due) + q * S(off) + r * S(bill) <= e * n
    BY <1>9, <1>11, <2>3, Zenon
  <2>5. QED
    BY <1>1, <1>10, <2>1, <2>4, SMTT(30) DEF Cent
<1>18. 40 * (Cent * S(bill) - S(due) - 200 * S(off)) <= 43 * (Cent * n)
  <2>1. PICK p \in Int, q \in Int, r \in Int, e \in Int :
          p = 40 * Cent /\ q = -40 /\ r = -8000 /\ e = 43 * Cent
    BY SMTT(30) DEF Cent
  <2>2. ASSUME NEW i \in I
        PROVE  p * bill[i] + q * due[i] + r * off[i] <= e
    <3>1. 40 * (Cent * bill[i] - due[i] - 200 * off[i]) <= 43 * Cent
      BY <1>12
    <3>2. bill[i] \in Nat /\ due[i] \in Nat /\ off[i] \in Nat
      BY <1>9
    <3>3. /\ p * bill[i] = 40 * (Cent * bill[i]) /\ q * due[i] = -40 * due[i]
          /\ r * off[i] = -8000 * off[i]
      BY <2>1, <3>2, SMTT(30) DEF Cent
    <3>4. \A u \in Int, v \in Int, w \in Int :
            40 * (u - v - 200 * w) = 40 * u + -40 * v + -8000 * w
      OBVIOUS
    <3>5. Cent * bill[i] \in Int /\ due[i] \in Int /\ off[i] \in Int
      BY <1>8, <3>2
    <3>6. 40 * (Cent * bill[i] - due[i] - 200 * off[i])
            = 40 * (Cent * bill[i]) + -40 * due[i] + -8000 * off[i]
      BY <3>4, <3>5
    <3>7. QED
      BY <2>1, <3>1, <3>3, <3>6
  <2>3. p * S(bill) + q * S(due) + r * S(off) <= e * n
    BY <1>9, <1>11, <2>2, Zenon
  <2>4. QED
    BY <1>1, <1>10, <2>1, <2>3, SMTT(30) DEF Cent
<1>19. /\ s \in Nat /\ -1000 <= 2 * (1000 * s - S(gross)) /\ 2 * (1000 * s - S(gross)) <= 1000
       /\ d \in Nat /\ 2 * (OffCent * d - S(off)) <= OffCent
                    /\ -OffCent <= 2 * (OffCent * d - S(off))
       /\ t \in Nat /\ 2 * (Cent * t - S(duty)) <= Cent /\ -Cent <= 2 * (Cent * t - S(duty))
       /\ a \in Nat /\ 2 * (Cent * a - S(due)) <= Cent /\ -Cent <= 2 * (Cent * a - S(due))
  <2>1. PICK u \in Nat \ {0} : u = 1000
    OBVIOUS
  <2>2. Cent \in Nat \ {0} /\ OffCent \in Nat \ {0}
    BY SMTT(30) DEF Cent, OffCent
  <2>3. /\ s \in Fixed(S(gross), u) /\ d \in Fixed(S(off), OffCent)
        /\ t \in Fixed(S(duty), Cent) /\ a \in Fixed(S(due), Cent)
    BY <1>6, <2>1
  <2> HIDE DEF S
  <2>4. /\ s \in Nat /\ -u <= 2 * (u * s - S(gross)) /\ 2 * (u * s - S(gross)) <= u
    BY <1>10, <2>3, Rounds, Zenon DEF S
  <2>5. /\ d \in Nat /\ 2 * (OffCent * d - S(off)) <= OffCent
        /\ -OffCent <= 2 * (OffCent * d - S(off))
    BY <1>10, <2>2, <2>3, Rounds, Zenon DEF S
  <2>6. /\ t \in Nat /\ 2 * (Cent * t - S(duty)) <= Cent /\ -Cent <= 2 * (Cent * t - S(duty))
        /\ a \in Nat /\ 2 * (Cent * a - S(due)) <= Cent /\ -Cent <= 2 * (Cent * a - S(due))
    BY <1>10, <2>2, <2>3, Rounds, Zenon DEF S
  <2>7. QED
    BY <2>1, <2>4, <2>5, <2>6
<1> DEFINE N == S(net)
           T == S(tax)
           B == S(bill)
<1>20. N \in Nat /\ T \in Nat /\ B \in Nat /\ Totals(lines) = [net |-> N, itbms |-> T, total |-> B]
  BY <1>7, <1>10
<1>21. N - s \in -n..n
  <2> HIDE DEF S
  <2>1. S(gross) \in Nat /\ S(net) \in Nat
    BY <1>10 DEF S
  <2>2. QED
    BY <1>1, <1>13, <1>14, <1>19, <2>1
<1>22. ASSUME d = 0 PROVE 2 * S(off) <= OffCent
  <2>1. S(off) \in Nat /\ -OffCent <= 2 * (OffCent * 0 - S(off))
    BY <1>10, <1>19, <1>22
  <2> HIDE DEF S
  <2>2. QED
    BY <2>1, SMTT(30) DEF OffCent
<1>23. ASSUME d = 0, coded PROVE T - t \in -n..n
  <2> HIDE DEF n
  <2>1. QED
    BY <1>1, <1>10, <1>15, <1>16, <1>19, <1>22, <1>23, TaxToACent, ZenonT(60)
<1>24. ASSUME coded PROVE B >= a + d - 2 * n
  <2> HIDE DEF n
  <2>1. QED
    BY <1>1, <1>10, <1>17, <1>19, <1>24, TotalFromBelow, ZenonT(60)
<1>25. ASSUME d = 0 PROVE B <= a + 2 * n
  <2> HIDE DEF n
  <2>1. QED
    BY <1>1, <1>10, <1>18, <1>19, <1>22, <1>25, TotalFromAbove, ZenonT(60)
<1> HIDE DEF N, T, B, n
<1>26. QED
  BY <1>3, <1>19, <1>20, <1>21, <1>23, <1>24, <1>25

\* What toFixed makes of the sums of a form is natural.
LEMMA FormTotals ==
    ASSUME NEW items \in Seq(ValidItem)
    PROVE  /\ \A s \in Fixed(Sum(Gross, items), 1000) : s \in Nat
           /\ \A d \in Fixed(Sum(Discount, items), OffCent) : d \in Nat
           /\ \A t \in Fixed(Sum(Tax, items), Cent) : t \in Nat
           /\ \A a \in Fixed(Sum(Total, items), Cent) : a \in Nat
<1> DEFINE I == 1..Len(items)
<1>1. /\ IsFiniteSet(I) /\ DOMAIN items = I
      /\ \A i \in I : items[i] \in ValidItem
  BY Lines, LenProperties, ElementOfSeq
<1>2. \A f : (\A i \in I : f[i] \in Nat) => SumFunctionOnSet(f, I) \in Nat
  BY <1>1, SumIsNat
<1> HIDE DEF I
<1>3. \A i \in I : /\ Gross(items[i]) \in Nat /\ Discount(items[i]) \in Nat
                    /\ Tax(items[i]) \in Nat /\ Total(items[i]) \in Nat
  BY <1>1, Amounts
<1>4. /\ Sum(Gross, items) \in Nat /\ Sum(Discount, items) \in Nat
      /\ Sum(Tax, items) \in Nat /\ Sum(Total, items) \in Nat
  BY <1>1, <1>2, <1>3 DEF Sum, SumFunction
<1>5. Cent \in Nat \ {0} /\ OffCent \in Nat \ {0}
  BY SMTT(30) DEF Cent, OffCent
<1>6. \A s \in Fixed(Sum(Gross, items), 1000) : s \in Nat
  BY <1>4, Rounds, SMTT(30)
<1>7. QED
  BY <1>4, <1>5, <1>6, Rounds, Zenon

-----------------------------------------------------------------------------
(* Numbers in order.                                                         *)

\* A function on 1..n with values in S is a sequence of n of them.
LEMMA FunctionIsSeq ==
    ASSUME NEW n \in Nat, NEW S, NEW T, NEW t \in [1..n -> T], \A i \in 1..n : t[i] \in S
    PROVE  t \in Seq(S) /\ Len(t) = n
<1>1. t \in [1..n -> S]
  OBVIOUS
<1>2. QED
  BY <1>1

\* Some natural numbers have a first one.
LEMMA HasFirst ==
    ASSUME NEW S \in SUBSET Nat, S # {}
    PROVE  FirstOf(S) \in S /\ \A k \in S : FirstOf(S) <= k
<1> DEFINE R == {ss \in Nat \X Nat : ss[1] < ss[2]}
<1>1. R = OpToRel(<, Nat)
  BY DEF OpToRel
<1>2. IsWellFoundedOn(R, Nat)
  BY <1>1, NatLessThanWellFounded, Zenon
<1>3. \E x \in S : \A y \in S : ~(<<y, x>> \in R)
  <2> HIDE DEF R
  <2> QED
    BY <1>2, WFMin
<1>4. \E x \in S : \A y \in S : x <= y
  <2>1. PICK x \in S : \A y \in S : ~(<<y, x>> \in R)
    BY <1>3
  <2>2. ASSUME NEW y \in S PROVE x <= y
    <3>1. <<y, x>> \in Nat \X Nat /\ ~(<<y, x>>[1] < <<y, x>>[2])
      BY <2>1
    <3>2. QED
      BY <3>1
  <2>3. QED
    BY <2>2
<1>5. QED
  BY <1>4 DEF FirstOf

\* If they do not go beyond n they also have a last one: the first that none is beyond.
LEMMA HasLast ==
    ASSUME NEW n \in Nat, NEW S \in SUBSET (1..n), S # {}
    PROVE  LastOf(S) \in S /\ \A k \in S : k <= LastOf(S)
<1> DEFINE B == {b \in Nat : \A k \in S : k <= b}
           m == FirstOf(B)
<1>1. B \in SUBSET Nat /\ n \in B
  OBVIOUS
<1>2. m \in B /\ \A b \in B : m <= b
  BY <1>1, HasFirst
<1> HIDE DEF m
<1>3. m \in Nat /\ \A k \in S : k <= m
  BY <1>2
<1>4. m \in S
  <2> SUFFICES ASSUME m \notin S PROVE FALSE
    OBVIOUS
  <2>1. \A k \in S : k \in Nat /\ k >= 1 /\ k <= m - 1
    BY <1>3
  <2>2. m - 1 \in B
    <3>1. PICK k \in S : TRUE
      OBVIOUS
    <3>2. m - 1 \in Nat
      BY <1>3, <2>1, <3>1
    <3>3. QED
      BY <2>1, <3>2
  <2>3. QED
    BY <1>2, <1>3, <2>2
<1>5. QED
  BY <1>3, <1>4 DEF LastOf

\* q lists numbers of S in order, as many as there are.
Lists(q, S) ==
    q \in [1..Cardinality(S) -> S] /\ \A i, j \in DOMAIN q : i < j => q[i] < q[j]

\* Any set of numbers up to n can be put in order: the last one comes after the others.
LEMMA Ordered ==
    \A n \in Nat : \A S \in SUBSET (1..n) : \E q : Lists(q, S)
<1> DEFINE Good(n) == \A S \in SUBSET (1..n) : \E q : Lists(q, S)
           B == {n \in Nat : ~Good(n)}
<1> SUFFICES ASSUME B # {} PROVE FALSE
  OBVIOUS
<1> DEFINE m == FirstOf(B)
<1>1. m \in B /\ \A b \in B : m <= b
  <2>1. B \in SUBSET Nat
    OBVIOUS
  <2> HIDE DEF B
  <2>2. QED
    BY <2>1, HasFirst
<1> HIDE DEF m
<1>2. m \in Nat /\ \A k \in Nat : k < m => Good(k)
  BY <1>1
<1>3. PICK S \in SUBSET (1..m) : \A q : ~Lists(q, S)
  BY <1>1
<1> HIDE DEF B
<1>4. IsFiniteSet(1..m) /\ IsFiniteSet(S)
  <2>1. IsFiniteSet(1..m)
    BY <1>2, FS_Interval
  <2>2. QED
    BY <2>1, FS_Subset
<1>5. CASE m = 0
  <2>1. S = {}
    BY <1>5
  <2>2. Cardinality(S) = 0
    BY <2>1, FS_EmptySet
  <2>3. Lists([i \in 1..0 |-> 1], S)
    BY <2>2 DEF Lists
  <2>4. QED
    BY <1>3, <2>3
<1>6. CASE m # 0
  <2> DEFINE T == S \ {m}
             c == Cardinality(T)
  <2>1. m - 1 \in Nat /\ T \in SUBSET (1..(m - 1))
    BY <1>2, <1>6
  <2>2. PICK p : Lists(p, T)
    BY <1>2, <2>1
  <2>3. m \in S
    <3> SUFFICES ASSUME m \notin S PROVE FALSE
      OBVIOUS
    <3>1. T = S
      OBVIOUS
    <3>2. QED
      BY <1>3, <2>2, <3>1
  <2>4. c \in Nat /\ Cardinality(S) = c + 1
    <3>1. IsFiniteSet(T) /\ Cardinality(T) = Cardinality(S) - 1
      BY <1>4, <2>3, FS_RemoveElement
    <3>2. Cardinality(T) \in Nat /\ Cardinality(S) \in Nat
      BY <1>4, <3>1, FS_CardinalityType
    <3>3. QED
      BY <3>1, <3>2
  <2>5. p \in [1..c -> T] /\ \A i, j \in 1..c : i < j => p[i] < p[j]
    BY <2>2 DEF Lists
  <2>6. \A k \in T : k \in Int /\ k < m
    BY <2>1, <1>2
  <2> HIDE DEF T, c
  <2> DEFINE q == [i \in 1..(c + 1) |-> IF i = c + 1 THEN m ELSE p[i]]
  <2>7. \A i \in 1..(c + 1) : i = c + 1 \/ i \in 1..c
    BY <2>4
  <2>8. q \in [1..(c + 1) -> S]
    <3>1. \A i \in 1..c : p[i] \in S
      BY <2>5 DEF T
    <3>2. QED
      BY <2>3, <2>7, <3>1
  <2>9. \A i, j \in 1..(c + 1) : i < j => q[i] < q[j]
    <3> SUFFICES ASSUME NEW i \in 1..(c + 1), NEW j \in 1..(c + 1), i < j PROVE q[i] < q[j]
      OBVIOUS
    <3>1. i \in 1..c /\ q[i] = p[i] /\ p[i] \in T
      BY <2>4, <2>5
    <3>2. QED
      BY <2>4, <2>5, <2>6, <2>7, <3>1
  <2>10. Lists(q, S)
    BY <2>4, <2>8, <2>9 DEF Lists
  <2>11. QED
    BY <1>3, <2>10
<1>7. QED
  BY <1>5, <1>6

\* So Ascending puts them in order.
LEMMA InOrder ==
    ASSUME NEW n \in Nat, NEW S \in SUBSET (1..n)
    PROVE  /\ Cardinality(S) \in Nat /\ Ascending(S) \in [1..Cardinality(S) -> S]
           /\ Len(Ascending(S)) = Cardinality(S)
<1>1. IsFiniteSet(1..n) /\ IsFiniteSet(S)
  <2>1. IsFiniteSet(1..n)
    BY FS_Interval
  <2>2. QED
    BY <2>1, FS_Subset
<1>2. Cardinality(S) \in Nat
  BY <1>1, FS_CardinalityType
<1>3. \E q : Lists(q, S)
  BY Ordered
<1>4. Ascending(S) \in [1..Cardinality(S) -> S]
  BY <1>3 DEF Ascending, Lists
<1>5. \A i \in 1..Cardinality(S) : Ascending(S)[i] \in S
  BY <1>4
<1>6. QED
  BY <1>2, <1>4, <1>5, FunctionIsSeq

-----------------------------------------------------------------------------
(* What a sheet says.                                                        *)

\* A cell stands for a natural number, its own unless it is written with a point or with a
\* comma for thousands, and none of these is zero that its own is not.
LEMMA CellNumber ==
    ASSUME NEW c \in Cells
    PROVE  /\ c.n \in Nat /\ ParseNumber(c) \in Nat
           /\ c.kind \notin {"point", "comma"} => ParseNumber(c) = c.n
BY DEF ParseNumber, Cells

\* A cell for the rate says its own, or 7 if it says 0, again unless it is written so.
LEMMA CellRate ==
    ASSUME NEW c \in Cells
    PROVE  \/ c.kind \in {"point", "comma"}
           \/ c.n # 0 /\ Rate(ParseNumber(c)) = c.n \div 1000
           \/ c.n = 0 /\ Rate(ParseNumber(c)) = 7
BY CellNumber DEF Rate

\* A rate is natural.
LEMMA RateIsNat ==
    ASSUME NEW n \in Nat
    PROVE  Rate(n) \in Nat
BY DEF Rate

\* The columns with words of W, and what the last of some columns of a row says.
ColumnsOf(h, W) == {j \in DOMAIN h : h[j] \in W}
LastSays(r, c) == IF c = {} THEN 0 ELSE ParseNumber(r[LastOf(c)])
Priced(h, r) == {j \in ColumnsOf(h, PriceWords) : ParseNumber(r[j]) > 0}

\* The definition of ItemOf, in these words.
LEMMA ItemOfSays ==
    ASSUME NEW h, NEW r
    PROVE  ItemOf(h, r) =
             [quantity |-> LastSays(r, ColumnsOf(h, QuantityWords)) \div 10,
              price |-> LastSays(r, Priced(h, r)),
              rate |-> Rate(LastSays(r, ColumnsOf(h, RateWords))),
              discount |-> LastSays(r, ColumnsOf(h, DiscountWords)) \div 1000,
              blank |-> \A j \in ColumnsOf(h, TextWords) : r[j].kind # "word"]
BY DEF ItemOf, ColumnsOf, LastSays, Priced

\* Columns say a number of one of their cells, or nothing if there are none.
LEMMA LastIsOne ==
    ASSUME NEW r \in Seq(Cells), NEW w \in Nat, w <= Len(r), NEW c \in SUBSET (1..w)
    PROVE  /\ LastSays(r, c) \in Nat
           /\ c = {} => LastSays(r, c) = 0
           /\ c # {} => \E j \in c : r[j] \in Cells /\ LastSays(r, c) = ParseNumber(r[j])
<1>1. ASSUME c # {} PROVE LastOf(c) \in c
  BY <1>1, HasLast
<1>2. \A j \in c : r[j] \in Cells
  <2>1. \A j \in c : j \in 1..Len(r)
    BY LenProperties
  <2>2. QED
    BY <2>1, ElementOfSeq
<1>3. \A j \in c : ParseNumber(r[j]) \in Nat
  BY <1>2, CellNumber
<1>4. QED
  BY <1>1, <1>2, <1>3 DEF LastSays

\* The line of a row is one that a form may have.
LEMMA ItemOfIsItem ==
    ASSUME NEW r \in Seq(Cells), NEW w \in Nat, w <= Len(r), NEW h, DOMAIN h = 1..w
    PROVE  ItemOf(h, r) \in Item
<1>1. \A W : ColumnsOf(h, W) \in SUBSET (1..w)
  BY DEF ColumnsOf
<1>2. Priced(h, r) \in SUBSET (1..w)
  BY <1>1 DEF Priced
<1>3. /\ LastSays(r, ColumnsOf(h, QuantityWords)) \in Nat /\ LastSays(r, Priced(h, r)) \in Nat
      /\ LastSays(r, ColumnsOf(h, RateWords)) \in Nat
      /\ LastSays(r, ColumnsOf(h, DiscountWords)) \in Nat
  BY <1>1, <1>2, LastIsOne
<1>4. \A n \in Nat : n \div 10 \in Nat /\ n \div 1000 \in Nat
  OBVIOUS
<1> DEFINE q == LastSays(r, ColumnsOf(h, QuantityWords)) \div 10
           p == LastSays(r, Priced(h, r))
           t == Rate(LastSays(r, ColumnsOf(h, RateWords)))
           d == LastSays(r, ColumnsOf(h, DiscountWords)) \div 1000
           b == \A j \in ColumnsOf(h, TextWords) : r[j].kind # "word"
<1>5. q \in Nat /\ p \in Nat /\ t \in Nat /\ d \in Nat
  <2>1. q \in Nat /\ d \in Nat
    <3> HIDE DEF LastSays
    <3> QED
      BY <1>3, <1>4
  <2>2. p \in Nat
    BY <1>3
  <2>3. t \in Nat
    BY <1>3, RateIsNat
  <2>4. QED
    BY <2>1, <2>2, <2>3
<1>6. ItemOf(h, r) = [quantity |-> q, price |-> p, rate |-> t, discount |-> d, blank |-> b]
  BY ItemOfSays
<1> HIDE DEF q, p, t, d
<1>7. QED
  BY <1>5, <1>6 DEF Item, b

\* So is the line of a row of a sheet that is no table.
LEMMA PlainItemIsItem ==
    ASSUME NEW r \in Seq(Cells), Len(r) >= 5
    PROVE  PlainItem(r) \in Item
<1>1. \A j \in 1..5 : r[j] \in Cells
  <2>1. \A j \in 1..5 : j \in 1..Len(r)
    BY LenProperties
  <2>2. QED
    BY <2>1, ElementOfSeq
<1>2. \A j \in 1..5 : ParseNumber(r[j]) \in Nat
  BY <1>1, CellNumber
<1>3. ParseNumber(r[2]) \in Nat /\ ParseNumber(r[3]) \in Nat /\ Rate(ParseNumber(r[4])) \in Nat
      /\ ParseNumber(r[5]) \in Nat
  BY <1>2, RateIsNat
<1>4. \A n \in Nat : n \div 10 \in Nat /\ n \div 1000 \in Nat
  OBVIOUS
<1>5. QED
  BY <1>3, <1>4 DEF PlainItem, Item

-----------------------------------------------------------------------------
(* What is billed is what the row says.                                      *)

\* The line of a table is billed as its row says.
LEMMA TableBills ==
    ASSUME NEW r \in Seq(Cells), NEW w \in Nat, w <= Len(r), NEW h, DOMAIN h = 1..w,
           NEW x, x.quantity = ItemOf(h, r).quantity, x.quantity >= 1,
           x.price \in Nat \ {0}, 10 * x.price - ItemOf(h, r).price \in -5..5
    PROVE  Bills(x, ItemOf(h, r).rate, h, r)
<1>1. \A W : ColumnsOf(h, W) \in SUBSET (1..w)
  BY DEF ColumnsOf
<1>2. Priced(h, r) \in SUBSET ColumnsOf(h, PriceWords) /\ Priced(h, r) \in SUBSET (1..w)
  BY <1>1 DEF Priced
<1> DEFINE Q == ColumnsOf(h, QuantityWords)
           P == Priced(h, r)
           R == ColumnsOf(h, RateWords)
<1>3. /\ x.quantity = LastSays(r, Q) \div 10
      /\ 10 * x.price - LastSays(r, P) \in -5..5
      /\ ItemOf(h, r).rate = Rate(LastSays(r, R))
  BY ItemOfSays
<1>4. \E j \in Q : r[j] \in Cells /\ x.quantity = ParseNumber(r[j]) \div 10
  <2>1. Q # {}
    <3>1. Q = {} => x.quantity = 0 \div 10
      BY <1>1, <1>3, LastIsOne
    <3>2. 0 \div 10 = 0
      OBVIOUS
    <3>3. QED
      BY <3>1, <3>2
  <2>2. QED
    BY <1>1, <1>3, <2>1, LastIsOne
<1>5. \E j \in ColumnsOf(h, PriceWords) : r[j] \in Cells /\ 10 * x.price - ParseNumber(r[j]) \in -5..5
  <2>1. P # {}
    <3>1. P = {} => LastSays(r, P) = 0
      BY <1>2, LastIsOne
    <3>2. LastSays(r, P) # 0
      BY <1>3
    <3>3. QED
      BY <3>1, <3>2
  <2>2. QED
    BY <1>2, <1>3, <2>1, LastIsOne
<1>6. \/ R = {} /\ ItemOf(h, r).rate = Rate(0)
      \/ \E j \in R : r[j] \in Cells /\ ItemOf(h, r).rate = Rate(ParseNumber(r[j]))
  BY <1>1, <1>3, LastIsOne
<1> HIDE DEF Q, P, R
<1> DEFINE rate == ItemOf(h, r).rate
<1>7. \/ \E j \in ColumnsOf(h, QuantityWords) : r[j].kind \in {"point", "comma"} \/ x.quantity = r[j].n \div 10
  BY <1>4, CellNumber DEF Q
<1>8. \E j \in ColumnsOf(h, PriceWords) : r[j].kind \in {"point", "comma"} \/ 10 * x.price - r[j].n \in -5..5
  BY <1>5, CellNumber
<1>9. \/ \E j \in ColumnsOf(h, RateWords) : r[j].kind \in {"point", "comma"} \/ (r[j].n # 0 /\ rate = r[j].n \div 1000)
      \/ rate = 7 /\ (ColumnsOf(h, RateWords) = {} \/ \E j \in ColumnsOf(h, RateWords) : r[j].n = 0)
  <2>1. CASE R = {} /\ rate = Rate(0)
    BY <2>1 DEF R, Rate
  <2>2. ASSUME NEW j \in R, r[j] \in Cells, rate = Rate(ParseNumber(r[j]))
        PROVE  \/ r[j].kind \in {"point", "comma"} \/ (r[j].n # 0 /\ rate = r[j].n \div 1000)
               \/ rate = 7 /\ r[j].n = 0
    BY <2>2, CellRate
  <2>3. QED
    BY <1>6, <2>1, <2>2 DEF R
<1> HIDE DEF rate
<1>10. Bills(x, rate, h, r)
  BY <1>7, <1>8, <1>9 DEF Bills, ColumnsOf
<1>11. QED
  BY <1>10 DEF rate

\* The columns of a sheet that is no table.
PlainColumns == <<"Producto", "Cantidad", "Precio", "ITBMS", "Descuento">>

\* Each word heads one of them.
LEMMA PlainColumnsAre ==
    /\ DOMAIN PlainColumns = 1..5
    /\ PlainColumns[2] \in QuantityWords /\ PlainColumns[3] \in PriceWords
    /\ PlainColumns[4] \in RateWords
    /\ \A j \in 1..5 : PlainColumns[j] \in TextWords <=> j = 1
<1>1. /\ DOMAIN PlainColumns = 1..5
      /\ PlainColumns[1] = "Producto" /\ PlainColumns[2] = "Cantidad" /\ PlainColumns[3] = "Precio"
      /\ PlainColumns[4] = "ITBMS" /\ PlainColumns[5] = "Descuento"
  BY DEF PlainColumns
<1>2. \A j \in 1..5 : j = 1 \/ j = 2 \/ j = 3 \/ j = 4 \/ j = 5
  OBVIOUS
<1>3. \A j \in 1..5 : PlainColumns[j] \in TextWords <=> j = 1
  BY <1>1, <1>2 DEF TextWords
<1>4. QED
  BY <1>1, <1>3 DEF QuantityWords, PriceWords, RateWords

\* The line of a sheet that is no table is billed as its row says.
LEMMA PlainBills ==
    ASSUME NEW r \in Seq(Cells), Len(r) >= 5,
           NEW x, x.quantity = PlainItem(r).quantity, 
           10 * x.price - PlainItem(r).price \in -5..5
    PROVE  Bills(x, PlainItem(r).rate, PlainColumns, r)
<1> DEFINE h == PlainColumns
<1>1. \A j \in 1..5 : r[j] \in Cells
  <2>1. \A j \in 1..5 : j \in 1..Len(r)
    BY LenProperties
  <2>2. QED
    BY <2>1, ElementOfSeq
<1>2. 2 \in ColumnsOf(h, QuantityWords) /\ 3 \in ColumnsOf(h, PriceWords) /\ 4 \in ColumnsOf(h, RateWords)
  BY PlainColumnsAre DEF ColumnsOf
<1>3. r[2] \in Cells /\ r[3] \in Cells /\ r[4] \in Cells
  BY <1>1
<1> DEFINE rate == PlainItem(r).rate
<1>4. /\ x.quantity = IF ParseNumber(r[2]) = 0 THEN 100 ELSE ParseNumber(r[2]) \div 10
      /\ 10 * x.price - ParseNumber(r[3]) \in -5..5
      /\ rate = Rate(ParseNumber(r[4]))
  BY DEF PlainItem
<1> HIDE DEF rate, h
<1>5. \/ \E j \in ColumnsOf(h, QuantityWords) : r[j].kind \in {"point", "comma"} \/ x.quantity = r[j].n \div 10
      \/ x.quantity = 100 /\ \E j \in ColumnsOf(h, QuantityWords) : r[j].n = 0
  BY <1>2, <1>3, <1>4, CellNumber
<1>6. \E j \in ColumnsOf(h, PriceWords) : r[j].kind \in {"point", "comma"} \/ 10 * x.price - r[j].n \in -5..5
  BY <1>2, <1>3, <1>4, CellNumber
<1>7. \/ \E j \in ColumnsOf(h, RateWords) : r[j].kind \in {"point", "comma"} \/ (r[j].n # 0 /\ rate = r[j].n \div 1000)
      \/ rate = 7 /\ \E j \in ColumnsOf(h, RateWords) : r[j].n = 0
  BY <1>2, <1>3, <1>4, CellRate
<1>8. Bills(x, rate, h, r)
  BY <1>5, <1>6, <1>7 DEF Bills, ColumnsOf
<1>9. QED
  BY <1>8 DEF rate, h

-----------------------------------------------------------------------------
(* The rows and the columns of a sheet.                                      *)

\* A sheet that is accepted has rows of one length, at least five, among them those that
\* may be lines, and no more columns; a table has such a row.
LEMMA SheetShape ==
    ASSUME NEW s, NEW f \in DOMAIN Sheets, s = Sheets[f]
    PROVE  \E w \in Nat, u \in Nat :
             /\ w >= 5 /\ u <= w /\ DOMAIN Columns(s) = 1..u
             /\ Body(s) \in Seq(Seq(Cells))
             /\ \A i \in DOMAIN Body(s) : Body(s)[i] \in Seq(Cells) /\ Len(Body(s)[i]) = w
             /\ IsTable(s) => 1 \in DOMAIN Body(s)
<1>1. /\ s \in Seq(Seq(Cells))
      /\ \A i \in DOMAIN s : Len(s[i]) = Len(s[1]) /\ Len(s[i]) >= 5
  BY ImportAssumption
<1>2. DOMAIN s = 1..Len(s) /\ Len(s) \in Nat /\ \A i \in 1..Len(s) : s[i] \in Seq(Cells)
  BY <1>1, LenProperties, ElementOfSeq
<1> DEFINE u == IF IsTable(s) THEN Len(s[1]) ELSE 5
           w == IF s = <<>> THEN 5 ELSE Len(s[1])
           b == IF IsTable(s) THEN HeadOf(s) + 1 ELSE LinesFrom(s)
<1>3. IsTable(s) => HeadOf(s) \in 1..Len(s) /\ HeadOf(s) < Len(s)
  <2> SUFFICES ASSUME IsTable(s) PROVE HeadOf(s) \in 1..Len(s) /\ HeadOf(s) < Len(s)
    OBVIOUS
  <2>1. Heads(s) # {} /\ HeadOf(s) < Len(s)
    BY DEF IsTable
  <2>2. DOMAIN FirstRows(s) \subseteq 1..Len(s)
    <3> DEFINE n == IF Len(s) < 5 THEN Len(s) ELSE 5
    <3>1. n \in Nat /\ n <= Len(s)
      BY <1>2
    <3>2. FirstRows(s) = SubSeq(s, 1, n)
      BY DEF FirstRows
    <3> HIDE DEF n
    <3>3. \A i \in 1..n : s[i] \in Seq(Cells)
      BY <1>2, <3>1
    <3>4. SubSeq(s, 1, n) \in Seq(Seq(Cells)) /\ Len(SubSeq(s, 1, n)) = IF 1 <= n THEN n - 1 + 1 ELSE 0
      BY <3>1, <3>3, SubSeqProperties
    <3>5. Len(SubSeq(s, 1, n)) = n /\ DOMAIN SubSeq(s, 1, n) = 1..Len(SubSeq(s, 1, n))
      BY <3>1, <3>4, LenProperties
    <3>6. DOMAIN FirstRows(s) = 1..n
      BY <3>2, <3>5
    <3>7. QED
      BY <1>2, <3>1, <3>6
  <2>3. Heads(s) \in SUBSET (1..Len(s)) /\ Heads(s) \in SUBSET Nat
    BY <2>2 DEF Heads
  <2>4. HeadOf(s) \in Heads(s)
    BY <2>1, <2>3, HasFirst DEF HeadOf
  <2>5. QED
    BY <2>1, <2>3, <2>4
<1>4. LinesFrom(s) \in Nat \ {0}
  <2> DEFINE heads == {i \in DOMAIN s : Header(s[i])[1] \in TextWords}
  <2>1. heads \in SUBSET Nat
    BY <1>2
  <2>2. heads # {} => FirstOf(heads) \in heads
    BY <2>1, HasFirst
  <2>3. LinesFrom(s) = IF heads = {} THEN 6 ELSE 1 + FirstOf(heads)
    BY DEF LinesFrom
  <2> HIDE DEF heads
  <2>4. heads # {} => FirstOf(heads) \in Nat
    BY <2>1, <2>2
  <2>5. CASE heads = {}
    BY <2>3, <2>5
  <2>6. CASE heads # {}
    BY <2>3, <2>4, <2>6
  <2>7. QED
    BY <2>5, <2>6
<1>5. b \in Nat \ {0} /\ Body(s) = SubSeq(s, b, Len(s))
  BY <1>2, <1>3, <1>4 DEF Body
<1>6. IsTable(s) => b <= Len(s)
  BY <1>2, <1>3
<1>7. DOMAIN Columns(s) = 1..u /\ u \in Nat /\ w \in Nat /\ w >= 5 /\ u <= w
  <2>1. s # <<>> => 1 \in DOMAIN s
    BY <1>1, <1>2, EmptySeq
  <2>2. s # <<>> => Len(s[1]) >= 5 /\ Len(s[1]) \in Nat
    BY <1>1, <1>2, <2>1, LenProperties
  <2>3. w \in Nat /\ w >= 5
    BY <2>2
  <2>4. CASE IsTable(s)
    <3>1. s # <<>>
      BY <1>2, <1>3, <2>4, EmptySeq
    <3>2. HeadOf(s) \in DOMAIN s /\ s[HeadOf(s)] \in Seq(Cells) /\ Len(s[HeadOf(s)]) = Len(s[1])
      BY <1>1, <1>2, <1>3, <2>4
    <3>3. DOMAIN Columns(s) = DOMAIN s[HeadOf(s)]
      BY <2>4 DEF Columns, Header
    <3>4. DOMAIN s[HeadOf(s)] = 1..Len(s[1])
      BY <3>2, LenProperties
    <3>5. QED
      BY <2>2, <2>3, <2>4, <3>1, <3>3, <3>4
  <2>5. CASE ~IsTable(s)
    <3>1. Columns(s) = PlainColumns
      BY <2>5 DEF Columns, PlainColumns
    <3>2. QED
      BY <2>3, <2>5, <3>1, PlainColumnsAre
  <2>6. QED
    BY <2>4, <2>5
<1> HIDE DEF b, u, w
<1>8. \A i \in b..Len(s) : s[i] \in Seq(Cells) /\ i \in 1..Len(s)
  BY <1>2, <1>5
<1>9. /\ Body(s) \in Seq(Seq(Cells))
      /\ Len(Body(s)) = IF b <= Len(s) THEN Len(s) - b + 1 ELSE 0
      /\ \A i \in 1..(Len(s) - b + 1) : Body(s)[i] = s[b + i - 1]
  BY <1>2, <1>5, <1>8, SubSeqProperties
<1>10. DOMAIN Body(s) = 1..Len(Body(s)) /\ Len(Body(s)) \in Nat
  BY <1>9, LenProperties
<1>11. \A i \in DOMAIN Body(s) : Body(s)[i] \in Seq(Cells) /\ Len(Body(s)[i]) = w
  <2> SUFFICES ASSUME NEW i \in DOMAIN Body(s)
               PROVE  Body(s)[i] \in Seq(Cells) /\ Len(Body(s)[i]) = w
    OBVIOUS
  <2>1. i \in 1..(Len(s) - b + 1) /\ b + i - 1 \in b..Len(s)
    BY <1>2, <1>5, <1>9, <1>10
  <2>2. Body(s)[i] = s[b + i - 1] /\ b + i - 1 \in 1..Len(s)
    BY <1>8, <1>9, <2>1
  <2>3. s # <<>>
    BY <1>2, <2>2, EmptySeq
  <2>4. QED
    BY <1>1, <1>2, <2>2, <2>3 DEF w
<1>12. IsTable(s) => 1 \in DOMAIN Body(s)
  BY <1>2, <1>5, <1>6, <1>9, <1>10
<1>13. QED
  BY <1>7, <1>9, <1>11, <1>12

-----------------------------------------------------------------------------
(* The lines and the client of a sheet.                                      *)

\* The line that is meant by a row, and the rows that are lines.
Meant(s, r) == IF IsTable(s) THEN ItemOf(Columns(s), r) ELSE PlainItem(r)
Lined(s) == {i \in DOMAIN Body(s) : Described(s, Body(s)[i])}

\* A row that becomes a line is one with a description.
LEMMA TableLined ==
    ASSUME NEW s, IsTable(s)
    PROVE  {i \in DOMAIN Body(s) : ~ItemOf(Columns(s), Body(s)[i]).blank} = Lined(s)
<1>1. \A r : ItemOf(Columns(s), r).blank =
               \A j \in ColumnsOf(Columns(s), TextWords) : r[j].kind # "word"
  BY ItemOfSays
<1>2. \A r : Described(s, r) <=> \E j \in ColumnsOf(Columns(s), TextWords) : r[j].kind = "word"
  BY DEF Described, ColumnsOf
<1>3. QED
  BY <1>1, <1>2 DEF Lined

\* The same in a sheet that is no table.
LEMMA PlainLined ==
    ASSUME NEW s, ~IsTable(s)
    PROVE  {i \in DOMAIN Body(s) :
              Body(s)[i][1].kind = "word" /\ \E j \in 3..Len(Body(s)[i]) : Body(s)[i][j].kind # "empty"}
             = Lined(s)
<1>1. Columns(s) = PlainColumns
  BY DEF Columns, PlainColumns
<1>2. \A r : (\E j \in DOMAIN PlainColumns : PlainColumns[j] \in TextWords /\ r[j].kind = "word")
               <=> r[1].kind = "word"
  BY PlainColumnsAre
<1>3. \A r : Described(s, r) <=> r[1].kind = "word" /\ \E j \in 3..Len(r) : r[j].kind # "empty"
  BY <1>1, <1>2 DEF Described
<1>4. QED
  BY <1>3 DEF Lined

\* The lines of a sheet are those that its rows with a description mean, in order, or the
\* one that is made up.
LEMMA SheetItems ==
    ASSUME NEW s, NEW f \in DOMAIN Sheets, s = Sheets[f]
    PROVE  LET said == Ascending(Lined(s))
               items == ParseSheet(s).items
           IN  /\ Len(said) \in Nat /\ said \in [1..Len(said) -> DOMAIN Body(s)]
               /\ items \in Seq(Item)
               /\ \/ items = <<Item1>>
                  \/ /\ Len(items) = Len(said)
                     /\ \A k \in 1..Len(said) : items[k] = Meant(s, Body(s)[said[k]])
<1>1. PICK w \in Nat, u \in Nat :
        /\ w >= 5 /\ u <= w /\ DOMAIN Columns(s) = 1..u
        /\ Body(s) \in Seq(Seq(Cells))
        /\ \A i \in DOMAIN Body(s) : Body(s)[i] \in Seq(Cells) /\ Len(Body(s)[i]) = w
  BY SheetShape
<1> DEFINE said == Ascending(Lined(s))
           n == Cardinality(Lined(s))
           lines == [k \in DOMAIN said |-> Meant(s, Body(s)[said[k]])]
<1>2. DOMAIN Body(s) = 1..Len(Body(s)) /\ Len(Body(s)) \in Nat
  BY <1>1, LenProperties
<1>3. Lined(s) \in SUBSET (1..Len(Body(s)))
  BY <1>2 DEF Lined
<1>4. n \in Nat /\ said \in [1..n -> Lined(s)] /\ Len(said) = n
  BY <1>2, <1>3, InOrder
<1>5. said \in [1..n -> DOMAIN Body(s)]
  BY <1>2, <1>3, <1>4
<1> HIDE DEF n
<1>6. \A r \in Seq(Cells) : Len(r) = w => Meant(s, r) \in Item
  BY <1>1, ItemOfIsItem, PlainItemIsItem DEF Meant
<1>7. \A k \in 1..n : Meant(s, Body(s)[said[k]]) \in Item
  BY <1>1, <1>5, <1>6
<1>8. lines \in [1..n -> Item] /\ DOMAIN lines = 1..n /\ \A k \in 1..n : lines[k] \in Item
  BY <1>4, <1>7
<1>9. lines \in Seq(Item) /\ Len(lines) = n
  <2> HIDE DEF lines
  <2> QED
    BY <1>4, <1>8, FunctionIsSeq
<1>10. ParseSheet(s).items = OrItem1(lines)
  <2>1. CASE IsTable(s)
    <3>1. ParseSheet(s).items = ExtractItems(Columns(s), Body(s))
      BY <2>1 DEF ParseSheet
    <3>2. ExtractItems(Columns(s), Body(s)) =
            OrItem1([k \in DOMAIN said |-> ItemOf(Columns(s), Body(s)[said[k]])])
      BY <2>1, TableLined DEF ExtractItems
    <3>3. QED
      BY <2>1, <3>1, <3>2 DEF Meant
  <2>2. CASE ~IsTable(s)
    <3>1. ParseSheet(s).items = OrItem1(PlainItems(Body(s)))
      BY <2>2 DEF ParseSheet
    <3>2. PlainItems(Body(s)) = [k \in DOMAIN said |-> PlainItem(Body(s)[said[k]])]
      BY <2>2, PlainLined DEF PlainItems
    <3>3. QED
      BY <2>2, <3>1, <3>2 DEF Meant
  <2>3. QED
    BY <2>1, <2>2
<1>11. Item1 \in Item
  BY DEF Item1, Item
<1>12. \A k \in 1..n : lines[k] = Meant(s, Body(s)[said[k]])
  BY <1>4
<1> HIDE DEF lines, said
<1>13. OrItem1(lines) \in Seq(Item)
  BY <1>9, <1>11 DEF OrItem1
<1>14. OrItem1(lines) = <<Item1>> \/ OrItem1(lines) = lines
  BY DEF OrItem1
<1>15. QED
  BY <1>4, <1>5, <1>9, <1>10, <1>12, <1>13, <1>14 DEF said

\* If there is a cell in the first row, the first one is there.
LEMMA FirstCellIs ==
    ASSUME NEW n \in Nat, NEW w \in Nat, NEW at \in SUBSET ((1..n) \X (1..w)), NEW j, <<1, j>> \in at
    PROVE  FirstCell(at) \in at /\ FirstCell(at) = <<1, FirstCell(at)[2]>>
<1> DEFINE C == {k \in 1..w : <<1, k>> \in at}
           m == FirstOf(C)
<1>1. C \in SUBSET Nat /\ j \in C
  OBVIOUS
<1>2. m \in C /\ \A k \in C : m <= k
  BY <1>1, HasFirst
<1> HIDE DEF m
<1>3. \A q \in at : q[1] \in 1..n /\ q[2] \in 1..w /\ q = <<q[1], q[2]>>
  OBVIOUS
<1>4. \A q \in at : 1 < q[1] \/ (1 = q[1] /\ m <= q[2])
  <2> SUFFICES ASSUME NEW q \in at, ~(1 < q[1]) PROVE 1 = q[1] /\ m <= q[2]
    OBVIOUS
  <2>1. 1 = q[1]
    BY <1>3
  <2>2. q[2] \in C
    BY <1>3, <2>1
  <2>3. QED
    BY <1>2, <2>1, <2>2
<1> DEFINE p == <<1, m>>
<1>5. p \in at /\ p[1] = 1 /\ p[2] = m
  BY <1>2
<1> HIDE DEF C, p
<1>6. \E c \in at : \A q \in at : c[1] < q[1] \/ (c[1] = q[1] /\ c[2] <= q[2])
  BY <1>4, <1>5
<1>7. FirstCell(at) \in at /\ \A q \in at : FirstCell(at)[1] < q[1]
                              \/ (FirstCell(at)[1] = q[1] /\ FirstCell(at)[2] <= q[2])
  BY <1>6, Zenon DEF FirstCell
<1>8. FirstCell(at)[1] = 1
  BY <1>3, <1>5, <1>7
<1>9. QED
  BY <1>3, <1>7, <1>8

\* The client of a table whose headers are clear is the one that its first row names.
LEMMA ClientIsFirst ==
    ASSUME NEW s, NEW f \in DOMAIN Sheets, s = Sheets[f], IsTable(s)
    PROVE  FirstClient(s, ParseSheet(s).client)
<1> DEFINE h == Columns(s)
           rows == Body(s)
           r == rows[1]
           Col(x) == {j \in DOMAIN h : h[j] = x /\ Filled(r[j])}
<1> SUFFICES ASSUME \A j \in DOMAIN h : h[j] \notin Misleading,
                    Col("Cliente") # {}, Col("RUC") # {}
             PROVE  \E i \in Col("Cliente"), j \in Col("RUC") :
                      ParseSheet(s).client = [name |-> r[i].id[1], id |-> r[j].id]
  BY DEF FirstClient
<1>1. PICK w \in Nat, u \in Nat :
        /\ DOMAIN h = 1..u /\ rows \in Seq(Seq(Cells)) /\ 1 \in DOMAIN rows
  BY SheetShape
<1>2. DOMAIN rows = 1..Len(rows) /\ Len(rows) \in Nat
  BY <1>1, LenProperties
<1> DEFINE Under(W) == {p \in (DOMAIN rows \cap 1..10) \X DOMAIN h :
                          h[p[2]] \in W /\ Filled(rows[p[1]][p[2]])}
           names == Under(NameWords)
           ids == Under(TaxIdWords) \ {FirstCell(names)}
           Id(at) == rows[at[1]][at[2]].id
<1>3. \A W : Under(W) \in SUBSET ((1..Len(rows)) \X (1..u))
  BY <1>1, <1>2
<1>4. \A W, j : <<1, j>> \in Under(W) <=> j \in DOMAIN h /\ h[j] \in W /\ Filled(r[j])
  <2>1. 1 \in DOMAIN rows \cap 1..10
    BY <1>1
  <2>2. QED
    BY <2>1
<1>5. /\ \A j \in DOMAIN h : h[j] \in NameWords <=> h[j] = "Cliente"
      /\ \A j \in DOMAIN h : h[j] \in TaxIdWords <=> h[j] = "RUC"
  BY DEF Misleading, NameWords, TaxIdWords
<1> HIDE DEF h, rows, r, Under
<1>6. PICK i \in DOMAIN h : h[i] = "Cliente" /\ Filled(r[i])
  OBVIOUS
<1>7. PICK j \in DOMAIN h : h[j] = "RUC" /\ Filled(r[j])
  OBVIOUS
<1>8. <<1, i>> \in names /\ <<1, j>> \in Under(TaxIdWords)
  BY <1>4, <1>5, <1>6, <1>7
<1> DEFINE a == FirstCell(names)
<1>9. a \in names /\ a = <<1, a[2]>>
  BY <1>2, <1>1, <1>3, <1>8, FirstCellIs
<1> HIDE DEF a
<1>10. a[2] \in Col("Cliente")
  <2>1. a[2] \in DOMAIN h /\ h[a[2]] \in NameWords /\ Filled(r[a[2]])
    BY <1>4, <1>9
  <2>2. QED
    BY <1>5, <2>1
<1>11. <<1, j>> # a
  <2>1. h[a[2]] = "Cliente"
    BY <1>10
  <2>2. <<1, j>>[2] = j /\ "RUC" # "Cliente"
    OBVIOUS
  <2>3. QED
    BY <1>7, <2>1, <2>2
<1>12. <<1, j>> \in ids /\ ids \in SUBSET ((1..Len(rows)) \X (1..u)) /\ ids \subseteq Under(TaxIdWords)
  BY <1>3, <1>8, <1>11 DEF a
<1> DEFINE b == FirstCell(ids)
<1>13. b \in ids /\ b = <<1, b[2]>>
  BY <1>2, <1>1, <1>12, FirstCellIs
<1> HIDE DEF b
<1>14. b[2] \in Col("RUC")
  <2>1. b[2] \in DOMAIN h /\ h[b[2]] \in TaxIdWords /\ Filled(r[b[2]])
    BY <1>4, <1>12, <1>13
  <2>2. QED
    BY <1>5, <2>1
<1>15. ParseSheet(s).client = [name |-> Id(a)[1], id |-> Id(b)]
  <2>1. ParseSheet(s).client = ExtractClient(h, rows)
    BY DEF ParseSheet, h, rows
  <2>2. names # {} /\ ids # {}
    BY <1>8, <1>12
  <2>3. ExtractClient(h, rows) =
          [name |-> IF names = {} THEN "Cliente Generico" ELSE Id(FirstCell(names))[1],
           id |-> IF Under(TaxIdWords) \ (IF names = {} THEN {} ELSE {FirstCell(names)}) = {}
                  THEN <<"0000000", "00">>
                  ELSE Id(FirstCell(Under(TaxIdWords) \ (IF names = {} THEN {} ELSE {FirstCell(names)})))]
    BY DEF ExtractClient, Under
  <2>4. Under(TaxIdWords) \ (IF names = {} THEN {} ELSE {FirstCell(names)}) = ids
    BY <2>2
  <2>5. QED
    BY <2>1, <2>2, <2>3, <2>4 DEF a, b
<1>16. Id(a) = r[a[2]].id /\ Id(b) = r[b[2]].id
  <2>1. a[1] = 1 /\ b[1] = 1
    BY <1>9, <1>13
  <2>2. QED
    BY <2>1 DEF r
<1>17. QED
  BY <1>10, <1>14, <1>15, <1>16

-----------------------------------------------------------------------------
(* The forms that files make.                                                *)

\* An XML has a line for each of its lines, and its client.
LEMMA XmlItems ==
    ASSUME NEW f \in DOMAIN Xmls
    PROVE  LET x == Xmls[f]
           IN  /\ ParseXml(x).items \in Seq(Item) /\ Len(ParseXml(x).items) = Len(x.lines)
               /\ ParseXml(x).client = x.client
<1> DEFINE x == Xmls[f]
           Part == [quantity : Nat \cup {None}, price : Nat \cup {None},
                    rate : Nat \cup {None}, discount : Nat \cup {None}]
           items == ParseXml(x).items
<1>1. x.lines \in Seq(Part)
  BY ImportAssumption
<1>2. DOMAIN x.lines = 1..Len(x.lines) /\ Len(x.lines) \in Nat /\ \A i \in 1..Len(x.lines) : x.lines[i] \in Part
  BY <1>1, LenProperties, ElementOfSeq
<1>3. \A n \in Nat \cup {None} : Or(n, 100) \in Nat /\ Or(n, 0) \in Nat /\ Or(n, 7) \in Nat
  BY DEF Or
<1>4. items = [i \in DOMAIN x.lines |->
       [quantity |-> Or(x.lines[i].quantity, 100), price |-> Or(x.lines[i].price, 0),
        rate |-> IF x.format = "cfdi" THEN 16 ELSE Or(x.lines[i].rate, 7),
        discount |-> IF x.format = "rFE" THEN 0 ELSE Or(x.lines[i].discount, 0),
        blank |-> FALSE]]
  BY DEF ParseXml
<1> HIDE DEF x, items
<1>5. \A i \in 1..Len(x.lines) : items[i] \in Item
  <2> SUFFICES ASSUME NEW i \in 1..Len(x.lines) PROVE items[i] \in Item
    OBVIOUS
  <2> DEFINE l == x.lines[i]
             q == Or(l.quantity, 100)
             p == Or(l.price, 0)
             t == IF x.format = "cfdi" THEN 16 ELSE Or(l.rate, 7)
             d == IF x.format = "rFE" THEN 0 ELSE Or(l.discount, 0)
  <2>1. l \in Part
    BY <1>2
  <2>2. q \in Nat /\ p \in Nat /\ t \in Nat /\ d \in Nat
    BY <1>3, <2>1
  <2>3. items[i] = [quantity |-> q, price |-> p, rate |-> t, discount |-> d, blank |-> FALSE]
    BY <1>2, <1>4
  <2> HIDE DEF q, p, t, d
  <2>4. QED
    BY <2>2, <2>3 DEF Item
<1>6. items \in [1..Len(x.lines) -> Item]
  <2>1. DOMAIN items = 1..Len(x.lines) /\ items = [i \in 1..Len(x.lines) |-> items[i]]
    BY <1>2, <1>4
  <2>2. QED
    BY <1>5, <2>1
<1>7. items \in Seq(Item) /\ Len(items) = Len(x.lines)
  BY <1>2, <1>5, <1>6, FunctionIsSeq
<1>8. ParseXml(x).client = x.client
  BY DEF ParseXml
<1>9. QED
  BY <1>7, <1>8 DEF x, items

\* Where an imported form comes from.
LEMMA FormOfFile ==
    ASSUME NEW f \in ImportedForms
    PROVE  /\ f.file \in DOMAIN Sheets \cup DOMAIN Xmls
           /\ f.file \in DOMAIN Sheets =>
                f.client = ParseSheet(Sheets[f.file]).client /\ f.items = ParseSheet(Sheets[f.file]).items
           /\ f.file \notin DOMAIN Sheets =>
                f.client = ParseXml(Xmls[f.file]).client /\ f.items = ParseXml(Xmls[f.file]).items
<1>1. PICK g \in Accepted : f = Imported(g)
  BY DEF ImportedForms
<1>2. g \in DOMAIN Sheets \cup DOMAIN Xmls
  BY DEF Accepted
<1>3. f.file = g
  BY <1>1 DEF Imported
<1>4. f.client = (IF g \in DOMAIN Sheets THEN ParseSheet(Sheets[g]) ELSE ParseXml(Xmls[g])).client
      /\ f.items = (IF g \in DOMAIN Sheets THEN ParseSheet(Sheets[g]) ELSE ParseXml(Xmls[g])).items
  BY <1>1 DEF Imported
<1>5. QED
  BY <1>2, <1>3, <1>4

\* The lines of a form are lines, whether they are typed or of a file.
LEMMA FormItems ==
    ASSUME NEW f \in Forms \cup ImportedForms
    PROVE  f.items \in Seq(Item)
<1>1. CASE f \in Forms
  BY <1>1, DocumentAssumption DEF Item
<1>2. CASE f \in ImportedForms
  <2>1. CASE f.file \in DOMAIN Sheets
    BY <1>2, <2>1, FormOfFile, SheetItems
  <2>2. CASE f.file \notin DOMAIN Sheets
    BY <1>2, <2>2, FormOfFile, XmlItems
  <2>3. QED
    BY <2>1, <2>2
<1>3. QED
  BY <1>1, <1>2

-----------------------------------------------------------------------------
(* The invariant.                                                            *)

\* A customer keeps the name of the first invoice with its ruc and check digit.
Named ==
    \A k \in Keys :
        customers[k] # None =>
          \E w \in Invoices :
             row[w] # None /\ Key(row[w].form.client) = k /\ row[w].form.client.name = customers[k]

\* An invoice keeps what was computed from its form, and fails only because of its lines.
RowFits(v) ==
    LET r == row[v]
        items == r.form.items
    IN  /\ Valid(items) /\ r.items \in Each(Stored, items)
        /\ r.subtotal \in Fixed(Sum(Gross, items), 1000)
        /\ r.discount \in Fixed(Sum(Discount, items), OffCent)
        /\ r.itbms \in Fixed(Sum(Tax, items), Cent)
        /\ r.total \in Fixed(Sum(Total, items), Cent)
        /\ r.status = "ERROR" => Refused(v)

\* The document is made from the invoice's rows, which do not change, and from a customer
\* whose name does not.
DocFits(v) ==
    LET d == doc[v]
    IN  /\ d.lines \in Each(Line, row[v].items) /\ d.totals = Totals(d.lines)
        /\ d.receiver = Receiver(v)
        /\ IssuerAgrees(v) /\ ~Refused(v)

\* The organization is the one the invoice was created for.
Unchanged(v) ==
    /\ row[v].ruc = IF org.ruc = None THEN Zero ELSE org.ruc
    /\ row[v].dv = IF org.dv = None THEN Zero ELSE org.dv

Papers ==
    /\ TypeOK /\ Named
    /\ \A v \in Invoices : row[v] # None => RowFits(v)
    /\ \A v \in Invoices : doc[v] # None => DocFits(v)
    /\ \A v \in steady : Unchanged(v)

-----------------------------------------------------------------------------
(* The assumptions, and the types of what is computed.                       *)

\* Three values make no set of four.
LEMMA NoFour ==
    ASSUME NEW a, NEW b, NEW c
    PROVE  Cardinality({a, b, c}) # 4
<1>1. IsFiniteSet({a}) /\ Cardinality({a}) = 1
  BY FS_Singleton
<1>2. /\ IsFiniteSet({a} \cup {b})
      /\ Cardinality({a} \cup {b}) = IF b \in {a} THEN Cardinality({a}) ELSE Cardinality({a}) + 1
  BY <1>1, FS_AddElement, Zenon
<1>3. Cardinality({a} \cup {b}) \in {1, 2}
  BY <1>1, <1>2
<1>4. Cardinality(({a} \cup {b}) \cup {c}) =
        IF c \in {a} \cup {b} THEN Cardinality({a} \cup {b}) ELSE Cardinality({a} \cup {b}) + 1
  BY <1>2, FS_AddElement, Zenon
<1>5. ({a} \cup {b}) \cup {c} = {a, b, c}
  OBVIOUS
<1>6. QED
  BY <1>3, <1>4, <1>5

\* The constants that stand for a ruc, or for none, are different.
LEMMA Different == Unusable # None /\ Demo # None /\ Zero # None /\ None \notin Rucs
<1>1. \A a, b, c : Cardinality({a, b, c}) # 4
  BY NoFour
<1>2. Cardinality({Unusable, Demo, Zero, None}) = 4 /\ None \notin Rucs
  BY DocumentAssumption
<1>3. Unusable # None
  <2>1. Unusable = None => {Unusable, Demo, Zero, None} = {Demo, Zero, None}
    OBVIOUS
  <2>2. QED
    BY <1>1, <1>2, <2>1
<1>4. Demo # None
  <2>1. Demo = None => {Unusable, Demo, Zero, None} = {Unusable, Zero, None}
    OBVIOUS
  <2>2. QED
    BY <1>1, <1>2, <2>1
<1>5. Zero # None
  <2>1. Zero = None => {Unusable, Demo, Zero, None} = {Unusable, Demo, None}
    OBVIOUS
  <2>2. QED
    BY <1>1, <1>2, <2>1
<1>6. QED
  BY <1>2, <1>3, <1>4, <1>5

\* A form that is sent has a client with a name and an id of two groups or more.
LEMMA SentForm ==
    ASSUME NEW f \in Sent
    PROVE  /\ f.items \in Seq(Item) /\ f.client.id \in Seq(STRING) /\ Len(f.client.id) >= 2
           /\ Key(f.client) \in Keys /\ f.client.name \in Names
<1>1. f \in Forms \cup ImportedForms /\ f.client.id # <<>>
  BY DEF Sent
<1>2. f.items \in Seq(Item) /\ f.client.id \in Seq(STRING) /\ Len(f.client.id) # 1
  BY <1>1, FormItems, DocumentAssumption
<1>3. Len(f.client.id) \in Nat /\ Len(f.client.id) # 0
  BY <1>1, <1>2, EmptySeq, LenProperties
<1>4. Len(f.client.id) >= 2
  <2>1. \A n \in Nat : n # 0 /\ n # 1 => n >= 2
    OBVIOUS
  <2>2. QED
    BY <1>2, <1>3, <2>1, Zenon
<1>5. Key(f.client) \in Keys /\ f.client.name \in Names
  BY DEF Keys, Names
<1>6. QED
  BY <1>2, <1>4, <1>5

\* What Valid says of the lines.
LEMMA ValidLines ==
    ASSUME NEW items \in Seq(Item), Valid(items)
    PROVE  items \in Seq(ValidItem) /\ items # <<>>
<1>1. DOMAIN items = 1..Len(items) /\ Len(items) \in Nat /\ \A i \in 1..Len(items) : items[i] \in Item
  BY LenProperties, ElementOfSeq
<1>2. \A i \in 1..Len(items) : items[i] \in ValidItem
  BY <1>1 DEF Valid, ValidItem
<1>3. items \in [1..Len(items) -> Item]
  BY LenProperties
<1>4. QED
  BY <1>1, <1>2, <1>3, FunctionIsSeq DEF Valid

\* A row of invoice_items and an item of the document.
StoredItem == [quantity : Nat, price : Nat, subtotal : Nat, rate : Nat, blank : BOOLEAN]
BilledItem == [quantity : Nat, price : Nat, net : Nat, tariff : Nat, tax : Nat]

\* The lines of an invoice are stored one by one.
LEMMA StoredLines ==
    ASSUME NEW items \in Seq(ValidItem), NEW stored \in Each(Stored, items)
    PROVE  /\ stored \in Seq(StoredItem) /\ Len(stored) = Len(items) /\ DOMAIN stored = DOMAIN items
           /\ \A i \in DOMAIN items : stored[i] \in Stored(items[i])
<1>1. DOMAIN items = 1..Len(items) /\ Len(items) \in Nat /\ \A i \in 1..Len(items) : items[i] \in ValidItem
  BY LenProperties, ElementOfSeq
<1>2. DOMAIN stored = 1..Len(items) /\ \A i \in 1..Len(items) : stored[i] \in Stored(items[i])
  BY <1>1 DEF Each
<1>3. stored \in [1..Len(items) -> UNION {Stored(items[i]) : i \in 1..Len(items)}]
  BY <1>1 DEF Each
<1>4. ASSUME NEW i \in 1..Len(items)
      PROVE  stored[i] \in StoredItem
  <2>1. items[i] \in ValidItem /\ stored[i] \in Stored(items[i])
    BY <1>1, <1>2
  <2> DEFINE x == items[i]
             y == stored[i]
  <2>2. /\ y = [quantity |-> x.quantity, price |-> y.price, subtotal |-> y.subtotal,
                rate |-> x.rate, blank |-> x.blank]
        /\ y.price \in Fixed(x.price, 10) /\ y.subtotal \in Fixed(Gross(x), 1000)
    BY <2>1, StoredLine
  <2>3. /\ x.quantity \in Nat /\ x.rate \in Nat /\ x.blank \in BOOLEAN
        /\ x.price \in Nat /\ Gross(x) \in Nat
    BY <2>1, Amounts DEF ValidItem, Item
  <2> HIDE DEF x, y
  <2>4. y.price \in Nat
    BY <2>2, <2>3, Rounds, SMTT(30)
  <2>5. y.subtotal \in Nat
    BY <2>2, <2>3, Rounds, SMTT(30)
  <2>6. y \in StoredItem
    BY <2>2, <2>3, <2>4, <2>5 DEF StoredItem
  <2>7. QED
    BY <2>6 DEF y
<1>5. stored \in Seq(StoredItem) /\ Len(stored) = Len(items)
  BY <1>1, <1>3, <1>4, FunctionIsSeq
<1>6. QED
  BY <1>1, <1>2, <1>5

\* So are those of its document.
LEMMA BilledLines ==
    ASSUME NEW stored \in Seq(StoredItem), NEW lines \in Each(Line, stored)
    PROVE  lines \in Seq(BilledItem) /\ Len(lines) = Len(stored)
<1>1. DOMAIN stored = 1..Len(stored) /\ Len(stored) \in Nat /\ \A i \in 1..Len(stored) : stored[i] \in StoredItem
  BY LenProperties, ElementOfSeq
<1>2. DOMAIN lines = 1..Len(stored) /\ \A i \in 1..Len(stored) : lines[i] \in Line(stored[i])
  BY <1>1 DEF Each
<1>3. lines \in [1..Len(stored) -> UNION {Line(stored[i]) : i \in 1..Len(stored)}]
  BY <1>1 DEF Each
<1>4. ASSUME NEW i \in 1..Len(stored)
      PROVE  lines[i] \in BilledItem
  <2>1. stored[i] \in StoredItem /\ lines[i] \in Line(stored[i])
    BY <1>1, <1>2
  <2> DEFINE x == stored[i]
             most == IF Tariff(x.rate) = 0 THEN {0} ELSE Fixed(x.subtotal * x.rate, 100)
  <2>2. PICK t \in most : lines[i] = [quantity |-> x.quantity, price |-> x.price, net |-> x.subtotal,
                                      tariff |-> Tariff(x.rate), tax |-> t]
    BY <2>1 DEF Line
  <2>3. /\ x.quantity \in Nat /\ x.price \in Nat /\ x.subtotal \in Nat /\ x.rate \in Nat
    BY <2>1 DEF StoredItem
  <2>4. x.subtotal * x.rate \in Nat /\ Tariff(x.rate) \in Nat
    BY <2>3 DEF Tariff
  <2>5. t \in Nat
    BY <2>4, Rounds, SMTT(30)
  <2> HIDE DEF x, most
  <2>6. QED
    BY <2>2, <2>3, <2>4, <2>5 DEF BilledItem
<1>5. QED
  BY <1>1, <1>3, <1>4, FunctionIsSeq

-----------------------------------------------------------------------------
(* Every step keeps it.                                                      *)

\* Nothing has been issued at the start.
LEMMA InitPapers == Init => Papers
<1> SUFFICES ASSUME Init PROVE Papers
  OBVIOUS
<1>1. /\ org \in [ruc : Rucs \cup {None}, dv : {None}, env : {"demo"}]
      /\ customers = [k \in Keys |-> None] /\ row = [v \in Invoices |-> None]
      /\ doc = [v \in Invoices |-> None] /\ steady = {}
  BY DEF Init
<1>2. org \in [ruc : Rucs \cup {Unusable, None}, dv : Rucs \cup {None}, env : {"demo", "prod"}]
  BY <1>1
<1>3. TypeOK
  BY <1>1, <1>2 DEF TypeOK
<1>4. Named
  BY <1>1 DEF Named
<1>5. QED
  BY <1>1, <1>3, <1>4 DEF Papers

\* The organization may change at any time: the documents that are there keep its old data,
\* and their invoices are no longer steady.
LEMMA UpdatePapers ==
    ASSUME Papers, NEW o, Update(o),
           o \in [ruc : Rucs \cup {Unusable, None}, dv : Rucs \cup {None}, env : {"demo", "prod"}]
    PROVE  Papers'
<1>1. /\ org' = o /\ steady' = (IF o = org THEN steady ELSE {})
      /\ UNCHANGED <<customers, row, doc>>
  BY DEF Update
<1>2. TypeOK'
  BY <1>1 DEF Papers, TypeOK
<1>3. Named'
  BY <1>1 DEF Papers, Named
<1>4. ASSUME NEW v \in Invoices, row'[v] # None
      PROVE  RowFits(v)'
  BY <1>1, <1>4 DEF Papers, RowFits, Refused
<1>5. ASSUME NEW v \in Invoices, doc'[v] # None
      PROVE  DocFits(v)'
  <2>1. DocFits(v)
    BY <1>1, <1>5 DEF Papers
  <2>2. Receiver(v)' = Receiver(v)
    BY <1>1 DEF Receiver, ReceiverName, Final
  <2>3. IssuerAgrees(v)'
    BY <1>1, <2>1 DEF DocFits, IssuerAgrees
  <2>4. ~Refused(v)'
    BY <1>1, <2>1 DEF DocFits, Refused
  <2>5. QED
    BY <1>1, <2>1, <2>2, <2>3, <2>4, Zenon DEF DocFits
<1>6. ASSUME NEW v \in steady'
      PROVE  Unchanged(v)'
  BY <1>1, <1>6 DEF Papers, Unchanged
<1>7. QED
  BY <1>2, <1>3, <1>4, <1>5, <1>6 DEF Papers

\* What creating an invoice writes.
LEMMA CreateWrites ==
    ASSUME NEW v \in Invoices, NEW f \in Sent, Create(v, f)
    PROVE  /\ row[v] = None /\ Valid(f.items)
           /\ \E stored \in Each(Stored, f.items), s \in Fixed(Sum(Gross, f.items), 1000),
                 d \in Fixed(Sum(Discount, f.items), OffCent), t \in Fixed(Sum(Tax, f.items), Cent),
                 a \in Fixed(Sum(Total, f.items), Cent) :
                row' = [row EXCEPT ![v] =
                          [form |-> f, items |-> stored, subtotal |-> s,
                           discount |-> d, itbms |-> t, total |-> a,
                           ruc |-> IF org.ruc = None THEN Zero ELSE org.ruc,
                           dv |-> IF org.dv = None THEN Zero ELSE org.dv, status |-> "DRAFT"]]
           /\ FindCustomer(f.client) /\ steady' = steady \cup {v} /\ UNCHANGED <<org, doc>>
BY Zenon DEF Create

\* A customer is found or made; one that is there stays.
LEMMA FindCustomerKeeps ==
    ASSUME NEW f \in Sent, customers \in [Keys -> Names \cup {None}], FindCustomer(f.client)
    PROVE  /\ customers' \in [Keys -> Names \cup {None}] /\ customers'[Key(f.client)] # None
           /\ \A k \in Keys : customers[k] # None => customers'[k] = customers[k]
           /\ \A k \in Keys : customers'[k] # customers[k] =>
                  k = Key(f.client) /\ customers'[k] = f.client.name
<1>1. Key(f.client) \in Keys /\ f.client.name \in Names /\ None \notin Names
  BY SentForm, NullAssumption
<1> DEFINE key == Key(f.client)
           name == f.client.name
<1>2. IF customers[key] # None THEN customers' = customers
      ELSE customers' = [customers EXCEPT ![key] = name]
  BY DEF FindCustomer
<1> HIDE DEF key, name
<1>3. key \in Keys /\ name \in Names /\ None \notin Names
  BY <1>1 DEF key, name
<1>4. /\ customers' \in [Keys -> Names \cup {None}] /\ customers'[key] # None
      /\ \A k \in Keys : customers[k] # None => customers'[k] = customers[k]
      /\ \A k \in Keys : customers'[k] # customers[k] => k = key /\ customers'[k] = name
  BY <1>2, <1>3
<1>5. QED
  BY <1>4, Zenon DEF key, name

\* The new invoice is in order, and nothing that was there has changed.
LEMMA CreatePapers ==
    ASSUME Papers, NEW v \in Invoices, NEW f \in Sent, Create(v, f)
    PROVE  Papers'
<1>1. /\ row[v] = None /\ Valid(f.items) /\ FindCustomer(f.client)
      /\ steady' = steady \cup {v} /\ UNCHANGED <<org, doc>>
  BY CreateWrites
<1>2. PICK stored \in Each(Stored, f.items), s \in Fixed(Sum(Gross, f.items), 1000),
           d \in Fixed(Sum(Discount, f.items), OffCent), t \in Fixed(Sum(Tax, f.items), Cent),
           a \in Fixed(Sum(Total, f.items), Cent) :
          row' = [row EXCEPT ![v] =
                    [form |-> f, items |-> stored, subtotal |-> s,
                     discount |-> d, itbms |-> t, total |-> a,
                     ruc |-> IF org.ruc = None THEN Zero ELSE org.ruc,
                     dv |-> IF org.dv = None THEN Zero ELSE org.dv, status |-> "DRAFT"]]
  BY CreateWrites
<1> DEFINE new == [form |-> f, items |-> stored, subtotal |-> s,
                   discount |-> d, itbms |-> t, total |-> a,
                   ruc |-> IF org.ruc = None THEN Zero ELSE org.ruc,
                   dv |-> IF org.dv = None THEN Zero ELSE org.dv, status |-> "DRAFT"]
<1>3. /\ new.form = f /\ new.items = stored /\ new.subtotal = s /\ new.discount = d
      /\ new.itbms = t /\ new.total = a /\ new.status = "DRAFT"
      /\ new.ruc = (IF org.ruc = None THEN Zero ELSE org.ruc)
      /\ new.dv = (IF org.dv = None THEN Zero ELSE org.dv)
  OBVIOUS
<1>4. TypeOK /\ Named
  BY DEF Papers
<1>5. /\ f.items \in Seq(ValidItem) /\ f.items # <<>> /\ Key(f.client) \in Keys
  BY <1>1, SentForm, ValidLines
<1>6. new \in Row
  <2>1. stored \in Seq(StoredItem)
    BY <1>5, StoredLines
  <2>2. s \in Nat /\ d \in Nat /\ t \in Nat /\ a \in Nat
    BY <1>5, FormTotals
  <2>3. /\ new.ruc \in Rucs \cup {Unusable, Zero} /\ new.dv \in Rucs \cup {Zero}
    BY <1>3, <1>4 DEF TypeOK
  <2>4. QED
    BY <1>3, <2>1, <2>2, <2>3 DEF Row, StoredItem
<1>7. row' = [row EXCEPT ![v] = new]
  BY <1>2
<1> HIDE DEF new
<1>8. /\ row \in [Invoices -> Row \cup {None}] /\ customers \in [Keys -> Names \cup {None}]
      /\ new # None
  BY <1>4, <1>6, NullAssumption DEF TypeOK
<1>9. row'[v] = new /\ \A w \in Invoices : w # v => row'[w] = row[w]
  BY <1>7, <1>8
<1>10. /\ customers' \in [Keys -> Names \cup {None}] /\ customers'[Key(f.client)] # None
       /\ \A k \in Keys : customers[k] # None => customers'[k] = customers[k]
       /\ \A k \in Keys : customers'[k] # customers[k] =>
              k = Key(f.client) /\ customers'[k] = f.client.name
  BY <1>1, <1>8, FindCustomerKeeps
<1>11. \A w \in Invoices : row[w] # None =>
          /\ w # v /\ row'[w] = row[w] /\ Key(row[w].form.client) \in Keys
          /\ customers'[Key(row[w].form.client)] = customers[Key(row[w].form.client)]
  <2> SUFFICES ASSUME NEW w \in Invoices, row[w] # None
               PROVE  /\ w # v /\ row'[w] = row[w] /\ Key(row[w].form.client) \in Keys
                      /\ customers'[Key(row[w].form.client)] = customers[Key(row[w].form.client)]
    OBVIOUS
  <2>1. w # v /\ row'[w] = row[w] /\ row[w].form \in Sent
    BY <1>1, <1>8, <1>9 DEF Row
  <2>2. Key(row[w].form.client) \in Keys
    BY <2>1, SentForm
  <2>3. customers[Key(row[w].form.client)] # None
    BY <1>4 DEF TypeOK
  <2>4. QED
    BY <1>10, <2>1, <2>2, <2>3
<1>12. TypeOK'
  <2>1. row' \in [Invoices -> Row \cup {None}]
    BY <1>6, <1>7, <1>8
  <2>2. ASSUME NEW w \in Invoices
        PROVE  /\ row'[w] # None => customers'[Key(row'[w].form.client)] # None
               /\ doc'[w] # None <=> row'[w] # None /\ row'[w].status = "PROCESSING"
    <3>1. CASE w = v
      <4>1. doc[v] = None
        BY <1>1, <1>4 DEF TypeOK
      <4>2. QED
        BY <1>1, <1>3, <1>9, <1>10, <3>1, <4>1
    <3>2. CASE w # v
      BY <1>1, <1>4, <1>9, <1>11, <3>2 DEF TypeOK
    <3>3. QED
      BY <3>1, <3>2
  <2>3. steady' \subseteq {w \in Invoices : row'[w] # None}
    BY <1>1, <1>4, <1>8, <1>9, <1>11 DEF TypeOK
  <2>4. /\ org' \in [ruc : Rucs \cup {Unusable, None}, dv : Rucs \cup {None}, env : {"demo", "prod"}]
        /\ doc' \in [Invoices -> Document \cup {None}]
    BY <1>1, <1>4 DEF TypeOK
  <2>5. QED
    BY <1>10, <2>1, <2>2, <2>3, <2>4 DEF TypeOK
<1>13. Named'
  <2> SUFFICES ASSUME NEW k \in Keys, customers'[k] # None
               PROVE  \E w \in Invoices : row'[w] # None /\ Key(row'[w].form.client) = k
                                        /\ row'[w].form.client.name = customers'[k]
    BY DEF Named
  <2>1. CASE customers'[k] = customers[k]
    <3>1. PICK w \in Invoices : row[w] # None /\ Key(row[w].form.client) = k
                               /\ row[w].form.client.name = customers[k]
      BY <1>4, <2>1 DEF Named
    <3>2. QED
      BY <1>11, <2>1, <3>1
  <2>2. CASE customers'[k] # customers[k]
    BY <1>3, <1>8, <1>9, <1>10, <2>2
  <2>3. QED
    BY <2>1, <2>2
<1>14. ASSUME NEW w \in Invoices, row'[w] # None
       PROVE  RowFits(w)'
  <2>1. CASE w = v
    BY <1>1, <1>2, <1>3, <1>9, <2>1 DEF RowFits
  <2>2. CASE w # v
    <3>1. RowFits(w) /\ row'[w] = row[w]
      BY <1>9, <1>14, <2>2 DEF Papers
    <3>2. QED
      BY <3>1 DEF RowFits, Refused
  <2>3. QED
    BY <2>1, <2>2
<1>15. ASSUME NEW w \in Invoices, doc'[w] # None
       PROVE  DocFits(w)'
  <2>1. row[w] # None /\ DocFits(w) /\ doc'[w] = doc[w] /\ org' = org
    BY <1>1, <1>4, <1>15 DEF Papers, TypeOK
  <2>2. /\ w # v /\ row'[w] = row[w]
        /\ customers'[Key(row[w].form.client)] = customers[Key(row[w].form.client)]
    BY <1>11, <2>1
  <2>3. Receiver(w)' = Receiver(w)
    BY <2>2, Zenon DEF Receiver, ReceiverName, Final
  <2>4. IssuerAgrees(w)'
    BY <1>1, <2>1, <2>2 DEF DocFits, IssuerAgrees
  <2>5. ~Refused(w)'
    BY <2>1, <2>2 DEF DocFits, Refused
  <2>6. QED
    BY <2>1, <2>2, <2>3, <2>4, <2>5, Zenon DEF DocFits
<1>16. ASSUME NEW w \in steady'
       PROVE  Unchanged(w)'
  <2>1. CASE w = v
    BY <1>1, <1>3, <1>9, <2>1 DEF Unchanged
  <2>2. CASE w # v
    BY <1>1, <1>4, <1>9, <1>16, <2>2 DEF Papers, TypeOK, Unchanged
  <2>3. QED
    BY <2>1, <2>2
<1>17. QED
  BY <1>12, <1>13, <1>14, <1>15, <1>16 DEF Papers

\* The job changes nothing of an invoice but its status.
LEMMA StatusOnly ==
    ASSUME row \in [Invoices -> Row \cup {None}], NEW v \in Invoices, row[v] # None,
           NEW st \in {"ERROR", "PROCESSING"}, row' = [row EXCEPT ![v].status = st]
    PROVE  /\ row' \in [Invoices -> Row \cup {None}] /\ row'[v].status = st
           /\ \A w \in Invoices :
                /\ row'[w] = None <=> row[w] = None
                /\ w # v => row'[w] = row[w]
                /\ /\ row'[w].form = row[w].form /\ row'[w].items = row[w].items
                   /\ row'[w].subtotal = row[w].subtotal /\ row'[w].discount = row[w].discount
                   /\ row'[w].itbms = row[w].itbms /\ row'[w].total = row[w].total
                   /\ row'[w].ruc = row[w].ruc /\ row'[w].dv = row[w].dv
<1> DEFINE new == [row[v] EXCEPT !.status = st]
<1>1. row[v] \in Row /\ None \notin Row
  BY NullAssumption
<1>2. /\ new \in Row /\ new.status = st
      /\ new.form = row[v].form /\ new.items = row[v].items
      /\ new.subtotal = row[v].subtotal /\ new.discount = row[v].discount
      /\ new.itbms = row[v].itbms /\ new.total = row[v].total
      /\ new.ruc = row[v].ruc /\ new.dv = row[v].dv
  BY <1>1 DEF Row
<1>3. row' = [row EXCEPT ![v] = new]
  OBVIOUS
<1> HIDE DEF new
<1>4. row'[v] = new /\ \A w \in Invoices : w # v => row'[w] = row[w]
  BY <1>3
<1>5. row' \in [Invoices -> Row \cup {None}]
  BY <1>2, <1>3
<1>6. ASSUME NEW w \in Invoices
      PROVE  /\ row'[w] = None <=> row[w] = None
             /\ w # v => row'[w] = row[w]
             /\ /\ row'[w].form = row[w].form /\ row'[w].items = row[w].items
                /\ row'[w].subtotal = row[w].subtotal /\ row'[w].discount = row[w].discount
                /\ row'[w].itbms = row[w].itbms /\ row'[w].total = row[w].total
                /\ row'[w].ruc = row[w].ruc /\ row'[w].dv = row[w].dv
  <2>1. CASE w = v
    BY <1>1, <1>2, <1>4, <2>1
  <2>2. CASE w # v
    BY <1>4, <2>2
  <2>3. QED
    BY <2>1, <2>2
<1>7. QED
  BY <1>2, <1>4, <1>5, <1>6

\* A document has the shape of one: what the receiver is called and who issues it included.
LEMMA DocumentType ==
    ASSUME Papers, NEW v \in Invoices, row[v] # None, NEW d \in Documents(v)
    PROVE  /\ d \in Document
           /\ d.lines \in Each(Line, row[v].items) /\ d.totals = Totals(d.lines)
           /\ d.ruc = Issuer(v)[1] /\ d.dv = Issuer(v)[2] /\ d.receiver = Receiver(v)
<1>1. PICK l \in Each(Line, row[v].items) :
        d = [lines |-> l, totals |-> Totals(l), ruc |-> Issuer(v)[1], dv |-> Issuer(v)[2],
             receiver |-> Receiver(v)]
  BY DEF Documents
<1>2. /\ d.lines = l /\ d.totals = Totals(l) /\ d.ruc = Issuer(v)[1] /\ d.dv = Issuer(v)[2]
      /\ d.receiver = Receiver(v)
  BY <1>1
<1> DEFINE r == row[v]
<1>3. TypeOK /\ RowFits(v) /\ r \in Row /\ r.form \in Sent
  BY DEF Papers, TypeOK, Row
<1>4. /\ r.form.items \in Seq(ValidItem) /\ r.form.items # <<>>
      /\ Key(r.form.client) \in Keys
  BY <1>3, SentForm, ValidLines DEF RowFits
<1>5. r.items \in Seq(StoredItem)
  BY <1>3, <1>4, StoredLines DEF RowFits
<1>6. l \in Seq(BilledItem)
  BY <1>5, BilledLines
<1>7. Totals(l) \in [net : Nat, itbms : Nat, total : Nat]
  BY <1>3, <1>4, BillIsNear DEF RowFits
<1>8. Issuer(v)[1] \in Rucs \cup {Demo, Zero} /\ Issuer(v)[2] \in Rucs \cup {Demo, Zero}
  <2>1. /\ r.ruc \in Rucs \cup {Unusable, Zero} /\ r.dv \in Rucs \cup {Zero}
        /\ org.ruc \in Rucs \cup {Unusable, None} /\ org.dv \in Rucs \cup {None}
    BY <1>3 DEF Row, TypeOK
  <2>2. QED
    BY <2>1 DEF Issuer
<1>9. Receiver(v) \in [type : {"01", "02"}, name : Names \cup Unnamed, ruc : Keys \cup {None}]
  <2>1. customers[Key(r.form.client)] \in Names
    BY <1>3, <1>4 DEF TypeOK
  <2>2. ReceiverName(v) \in Names \cup Unnamed
    BY <2>1 DEF ReceiverName, Unnamed
  <2>3. QED
    BY <1>4, <2>2 DEF Receiver
<1> HIDE DEF r
<1>10. d \in Document
  BY <1>1, <1>6, <1>7, <1>8, <1>9 DEF Document, BilledItem
<1>11. QED
  BY <1>2, <1>10

\* The job marks the invoice or writes a document that fits its rows, today's organization
\* and the customer, and it leaves the other invoices alone.
LEMMA ProcessPapers ==
    ASSUME Papers, NEW v \in Invoices, Process(v)
    PROVE  Papers'
<1>1. row[v] # None /\ UNCHANGED <<org, customers, steady>>
  BY DEF Process
<1>2. PICK st \in {"ERROR", "PROCESSING"}, d \in Document \cup {None} :
        /\ row' = [row EXCEPT ![v].status = st] /\ doc' = [doc EXCEPT ![v] = d]
        /\ st = "ERROR" => Refused(v) /\ d = None
        /\ st = "PROCESSING" =>
             /\ ~Refused(v) /\ d \in Document
             /\ d.lines \in Each(Line, row[v].items) /\ d.totals = Totals(d.lines)
             /\ d.ruc = Issuer(v)[1] /\ d.dv = Issuer(v)[2] /\ d.receiver = Receiver(v)
  <2>1. CASE Refused(v)
    BY <2>1 DEF Process
  <2>2. CASE ~Refused(v)
    <3>1. row' = [row EXCEPT ![v].status = "PROCESSING"]
      BY <2>2 DEF Process
    <3>2. PICK d \in Documents(v) : doc' = [doc EXCEPT ![v] = d]
      BY <2>2 DEF Process
    <3>3. QED
      BY <1>1, <2>2, <3>1, <3>2, DocumentType, Zenon
  <2>3. QED
    BY <2>1, <2>2
<1>3. TypeOK /\ Named
  BY DEF Papers
<1>4. /\ row \in [Invoices -> Row \cup {None}] /\ doc \in [Invoices -> Document \cup {None}]
      /\ None \notin Document
  BY <1>3, NullAssumption DEF TypeOK
<1>5. /\ row' \in [Invoices -> Row \cup {None}] /\ row'[v].status = st
      /\ \A w \in Invoices :
           /\ row'[w] = None <=> row[w] = None
           /\ w # v => row'[w] = row[w]
           /\ /\ row'[w].form = row[w].form /\ row'[w].items = row[w].items
              /\ row'[w].subtotal = row[w].subtotal /\ row'[w].discount = row[w].discount
              /\ row'[w].itbms = row[w].itbms /\ row'[w].total = row[w].total
              /\ row'[w].ruc = row[w].ruc /\ row'[w].dv = row[w].dv
  BY <1>1, <1>2, <1>4, StatusOnly, Zenon
<1>6. doc'[v] = d /\ \A w \in Invoices : w # v => doc'[w] = doc[w]
  BY <1>2, <1>4
<1>7. TypeOK'
  <2>1. doc' \in [Invoices -> Document \cup {None}]
    BY <1>2, <1>4
  <2>2. ASSUME NEW w \in Invoices
        PROVE  /\ row'[w] # None => customers'[Key(row'[w].form.client)] # None
               /\ doc'[w] # None <=> row'[w] # None /\ row'[w].status = "PROCESSING"
    <3>1. row'[w] # None => customers'[Key(row'[w].form.client)] # None
      BY <1>1, <1>3, <1>5 DEF TypeOK
    <3>2. CASE w = v
      BY <1>1, <1>2, <1>4, <1>5, <1>6, <3>1, <3>2
    <3>3. CASE w # v
      BY <1>3, <1>5, <1>6, <3>1, <3>3 DEF TypeOK
    <3>4. QED
      BY <3>2, <3>3
  <2>3. steady' \subseteq {w \in Invoices : row'[w] # None}
    BY <1>1, <1>3, <1>5 DEF TypeOK
  <2>4. /\ org' \in [ruc : Rucs \cup {Unusable, None}, dv : Rucs \cup {None}, env : {"demo", "prod"}]
        /\ customers' \in [Keys -> Names \cup {None}]
    BY <1>1, <1>3 DEF TypeOK
  <2>5. QED
    BY <1>5, <2>1, <2>2, <2>3, <2>4 DEF TypeOK
<1>8. Named'
  <2> SUFFICES ASSUME NEW k \in Keys, customers'[k] # None
               PROVE  \E w \in Invoices : row'[w] # None /\ Key(row'[w].form.client) = k
                                        /\ row'[w].form.client.name = customers'[k]
    BY DEF Named
  <2>1. PICK w \in Invoices : row[w] # None /\ Key(row[w].form.client) = k
                             /\ row[w].form.client.name = customers[k]
    BY <1>1, <1>3 DEF Named
  <2>2. QED
    BY <1>1, <1>5, <2>1
<1>9. ASSUME NEW w \in Invoices, row'[w] # None
      PROVE  RowFits(w)'
  <2>1. RowFits(w)
    BY <1>5, <1>9 DEF Papers
  <2>2. row'[w].status = "ERROR" => Refused(w)
    BY <1>2, <1>5, <2>1 DEF RowFits
  <2>3. Refused(w) <=> Refused(w)'
    BY <1>5 DEF Refused
  <2>4. QED
    BY <1>5, <2>1, <2>2, <2>3 DEF RowFits
<1>10. ASSUME NEW w \in Invoices, doc'[w] # None
       PROVE  DocFits(w)'
  <2>1. Receiver(w)' = Receiver(w)
    BY <1>1, <1>5, Zenon DEF Receiver, ReceiverName, Final
  <2>2. Refused(w) <=> Refused(w)'
    BY <1>5 DEF Refused
  <2>3. CASE w = v
    <3>1. /\ st = "PROCESSING" /\ d.lines \in Each(Line, row[v].items) /\ d.totals = Totals(d.lines)
          /\ d.ruc = Issuer(v)[1] /\ d.dv = Issuer(v)[2] /\ d.receiver = Receiver(v)
          /\ ~Refused(v)
      BY <1>2, <1>6, <1>10, <2>3
    <3>2. IssuerAgrees(v)'
      <4> SUFFICES ASSUME v \in steady
                   PROVE  IF org.env = "demo" \/ row[v].ruc = Unusable
                          THEN d.ruc = Demo
                          ELSE d.ruc = row[v].ruc /\ d.dv = row[v].dv
        BY <1>1, <1>5, <1>6 DEF IssuerAgrees
      <4>1. Unchanged(v)
        BY DEF Papers
      <4>2. Issuer(v) = IF org.env = "demo" \/ row[v].ruc = Unusable THEN <<Demo, Demo>>
                        ELSE <<row[v].ruc, row[v].dv>>
        BY <4>1 DEF Issuer, Unchanged
      <4>3. QED
        BY <3>1, <4>2
    <3>3. QED
      BY <1>5, <1>6, <2>1, <2>3, <2>2, <3>1, <3>2, Zenon DEF DocFits
  <2>4. CASE w # v
    <3>1. DocFits(w) /\ doc'[w] = doc[w] /\ row'[w] = row[w]
      BY <1>5, <1>6, <1>10, <2>4 DEF Papers
    <3>2. IssuerAgrees(w)'
      BY <1>1, <3>1 DEF DocFits, IssuerAgrees
    <3>3. ~Refused(w)'
      BY <2>2, <3>1 DEF DocFits
    <3>4. QED
      BY <2>1, <3>1, <3>2, <3>3, Zenon DEF DocFits
  <2>5. QED
    BY <2>3, <2>4
<1>11. ASSUME NEW w \in steady'
       PROVE  Unchanged(w)'
  <2>1. w \in Invoices /\ Unchanged(w)
    BY <1>1, <1>3, <1>11 DEF Papers, TypeOK
  <2>2. QED
    BY <1>1, <1>5, <2>1 DEF Unchanged
<1>12. QED
  BY <1>7, <1>8, <1>9, <1>10, <1>11 DEF Papers

\* Every step keeps it.
LEMMA NextPapers == Papers /\ [Next]_vars => Papers'
<1> SUFFICES ASSUME Papers, [Next]_vars
             PROVE  Papers'
  OBVIOUS
<1> DEFINE Orgs == [ruc : Rucs \cup {Unusable, None}, dv : Rucs \cup {None}, env : {"demo", "prod"}]
<1>1. org \in Orgs
  BY DEF Papers, TypeOK
<1>2. CASE UNCHANGED vars
  <2>1. UNCHANGED <<org, customers, row, doc, steady>>
    BY <1>2 DEF vars
  <2>2. Update(org)
    BY <2>1 DEF Update
  <2>3. QED
    BY <1>1, <2>2, UpdatePapers
<1>3. ASSUME NEW v \in Invoices, Process(v)
      PROVE  Papers'
  BY <1>3, ProcessPapers
<1>4. ASSUME NEW v \in Invoices, NEW f \in Sent, Create(v, f)
      PROVE  Papers'
  BY <1>4, CreatePapers
<1>5. ASSUME NEW r \in Rucs \cup {Unusable, None}, NEW d \in Rucs \cup {None},
             UpdateOrganization(r, d)
      PROVE  Papers'
  <2>1. [org EXCEPT !.ruc = r, !.dv = d] \in Orgs
    BY <1>1
  <2>2. QED
    BY <1>5, <2>1, UpdatePapers DEF UpdateOrganization
<1>6. ASSUME NEW e \in {"demo", "prod"}, NEW r \in Rucs \cup {None}, SaveEnvironment(e, r)
      PROVE  Papers'
  <2>1. [org EXCEPT !.env = e, !.ruc = IF r = None THEN @ ELSE r] \in Orgs
    BY <1>1
  <2>2. QED
    BY <1>6, <2>1, UpdatePapers DEF SaveEnvironment
<1>7. QED
  BY <1>2, <1>3, <1>4, <1>5, <1>6 DEF Next, OrganizationStep

-----------------------------------------------------------------------------
(* What it says.                                                             *)

\* The totals of a document that fits its invoice agree with the invoice's.
LEMMA FitTotals ==
    ASSUME Papers, NEW v \in Invoices, doc[v] # None
    PROVE  TotalsAgree(v)
<1> DEFINE r == row[v]
<1>1. /\ r \in Row /\ r.form \in Sent /\ RowFits(v) /\ DocFits(v)
  BY DEF Papers, TypeOK, Row
<1>2. r.form.items \in Seq(ValidItem) /\ r.form.items # <<>>
  BY <1>1, SentForm, ValidLines DEF RowFits
<1>3. /\ r.items \in Each(Stored, r.form.items) /\ doc[v].lines \in Each(Line, r.items)
      /\ r.subtotal \in Fixed(Sum(Gross, r.form.items), 1000)
      /\ r.discount \in Fixed(Sum(Discount, r.form.items), OffCent)
      /\ r.itbms \in Fixed(Sum(Tax, r.form.items), Cent)
      /\ r.total \in Fixed(Sum(Total, r.form.items), Cent)
      /\ doc[v].totals = Totals(doc[v].lines)
  BY <1>1 DEF RowFits, DocFits
<1> HIDE DEF r
<1> DEFINE items == r.form.items
           stored == r.items
           lines == doc[v].lines
           su == r.subtotal
           di == r.discount
           it == r.itbms
           to == r.total
<1>4. /\ items \in Seq(ValidItem) /\ items # <<>> /\ stored \in Each(Stored, items)
      /\ lines \in Each(Line, stored)
      /\ su \in Fixed(Sum(Gross, items), 1000) /\ di \in Fixed(Sum(Discount, items), OffCent)
      /\ it \in Fixed(Sum(Tax, items), Cent) /\ to \in Fixed(Sum(Total, items), Cent)
  BY <1>2, <1>3
<1> HIDE DEF items, stored, lines, su, di, it, to
<1>5. LET bill == Totals(lines)
          n == Len(stored)
          coded == \A i \in 1..n : stored[i].rate \in Coded
      IN  /\ bill.net - su \in -n..n
          /\ di = 0 /\ coded => bill.itbms - it \in -n..n
          /\ coded => bill.total >= to + di - 2 * n
          /\ di = 0 => bill.total <= to + 2 * n
  BY <1>4, BillIsNear
<1>6. QED
  BY <1>3, <1>5, Zenon DEF TotalsAgree, Coded, r, items, stored, lines, su, di, it, to

\* The receiver of a document is its invoice's client, or bears the name of another with
\* the same ruc and check digit.
LEMMA FitReceiver ==
    ASSUME Papers, NEW v \in Invoices, doc[v] # None
    PROVE  ReceiverAgrees(v)
<1>1. TypeOK /\ Named /\ DocFits(v)
  BY DEF Papers
<1>2. \A w \in Invoices : doc[w] # None =>
         /\ row[w] # None /\ row[w].form \in Sent /\ doc[w].receiver = Receiver(w)
         /\ Key(row[w].form.client) \in Keys
  <2> SUFFICES ASSUME NEW w \in Invoices, doc[w] # None
               PROVE  /\ row[w] # None /\ row[w].form \in Sent /\ doc[w].receiver = Receiver(w)
                      /\ Key(row[w].form.client) \in Keys
    OBVIOUS
  <2>1. row[w] \in Row /\ row[w] # None /\ DocFits(w)
    BY NullAssumption DEF Papers, TypeOK
  <2>2. QED
    BY <2>1, SentForm DEF Row, DocFits
<1> DEFINE c == row[v].form.client
           Printed(n) == IF n = Blank THEN Unnamed ELSE {n}
<1>3. \E w \in Invoices : row[w] # None /\ Key(row[w].form.client) = Key(c)
                         /\ doc[v].receiver.name \in Printed(row[w].form.client.name)
  <2>1. Key(c) \in Keys /\ customers[Key(c)] # None
    BY <1>1, <1>2 DEF TypeOK
  <2>2. PICK w \in Invoices : row[w] # None /\ Key(row[w].form.client) = Key(c)
                             /\ row[w].form.client.name = customers[Key(c)]
    BY <1>1, <2>1 DEF Named
  <2>3. doc[v].receiver.name = ReceiverName(v)
    <3>1. Receiver(v).name = ReceiverName(v)
      BY DEF Receiver
    <3>2. QED
      BY <1>2, <3>1, Zenon
  <2>4. ReceiverName(v) \in Printed(customers[Key(c)])
    BY DEF ReceiverName, Unnamed
  <2>5. QED
    BY <2>2, <2>3, <2>4
<1>4. \A w \in Invoices : doc[w] # None =>
         doc[w].receiver.ruc = IF row[w].form.client.id[1] \in Short THEN None
                               ELSE Key(row[w].form.client)
  <2>1. \A w : Receiver(w).ruc = IF row[w].form.client.id[1] \in Short THEN None
                                 ELSE Key(row[w].form.client)
    BY DEF Receiver, Final
  <2>2. QED
    BY <1>2, <2>1, Zenon
<1>5. doc[v].receiver.ruc = None <=> c.id[1] \in Short
  BY <1>2, <1>4, NullAssumption
<1>6. ASSUME NEW w \in Invoices, row[w] # None, doc[w] # None, doc[v].receiver.ruc # None,
             doc[w].receiver.ruc = doc[v].receiver.ruc, Len(c.id) = 2, Len(row[w].form.client.id) = 2
      PROVE  row[w].form.client.id = c.id
  <2>1. Key(row[w].form.client) = Key(c)
    BY <1>4, <1>6
  <2>2. c.id \in Seq(STRING) /\ row[w].form.client.id \in Seq(STRING)
    BY <1>2, <1>6, SentForm
  <2>3. c.id[1] = row[w].form.client.id[1] /\ c.id[2] = row[w].form.client.id[2]
    BY <2>1 DEF Key
  <2> DEFINE x == c.id
             y == row[w].form.client.id
  <2> HIDE DEF x, y
  <2>4. x \in Seq(STRING) /\ y \in Seq(STRING) /\ Len(x) = 2 /\ Len(y) = 2
        /\ x[1] = y[1] /\ x[2] = y[2]
    BY <1>6, <2>2, <2>3 DEF x, y
  <2>5. x = y
    BY <2>4
  <2>6. QED
    BY <2>5 DEF x, y
<1>7. QED
  BY <1>3, <1>5, <1>6, Zenon DEF ReceiverAgrees

\* An invoice fails because of a line that the form already had without a description or
\* with a price that rounds to zero.
LEMMA FitRefused ==
    ASSUME Papers, NEW v \in Invoices, row[v] # None, row[v].status = "ERROR"
    PROVE  \E i \in DOMAIN row[v].items :
              row[v].form.items[i].blank \/ row[v].form.items[i].price <= 5
<1> DEFINE r == row[v]
<1>1. /\ r.form \in Sent /\ RowFits(v)
  BY DEF Papers, TypeOK, Row
<1>2. r.form.items \in Seq(ValidItem) /\ r.items \in Each(Stored, r.form.items)
  BY <1>1, SentForm, ValidLines DEF RowFits
<1>3. PICK i \in DOMAIN r.items : r.items[i].blank \/ r.items[i].price <= 0
  BY <1>1 DEF RowFits, Refused, BadItem
<1> HIDE DEF r
<1>4. /\ i \in DOMAIN r.form.items /\ r.items[i] \in Stored(r.form.items[i])
  BY <1>2, <1>3, StoredLines
<1> DEFINE x == r.form.items[i]
           y == r.items[i]
<1>5. x \in ValidItem
  BY <1>2, <1>4, LenProperties, ElementOfSeq
<1>6. y.blank = x.blank /\ y.price \in Fixed(x.price, 10)
  BY <1>4, <1>5, StoredLine
<1>7. x.price \in Nat
  BY <1>5 DEF ValidItem, Item
<1> HIDE DEF x, y
<1>8. y.price \in Nat /\ -10 <= 2 * (10 * y.price - x.price)
  BY <1>6, <1>7, Rounds, SMTT(30)
<1>9. y.price <= 0 => x.price <= 5
  BY <1>7, <1>8
<1>10. QED
  BY <1>3, <1>6, <1>9 DEF r, x, y

\* A document that fits its invoice passes what is checked before it is sent, unless its
\* client is called "null".
LEMMA FitSendable ==
    ASSUME Papers, NEW v \in Invoices, doc[v] # None
    PROVE  Sendable(doc[v]) \/ doc[v].receiver.name = NullText
<1> DEFINE r == row[v]
<1>1. /\ r \in Row /\ r.form \in Sent /\ RowFits(v) /\ DocFits(v) /\ doc[v] \in Document /\ TypeOK
  BY DEF Papers, TypeOK, Row
<1>2. r.form.items \in Seq(ValidItem) /\ r.form.items # <<>>
  BY <1>1, SentForm, ValidLines DEF RowFits
<1>3. /\ r.items \in Seq(StoredItem) /\ Len(r.items) = Len(r.form.items)
      /\ doc[v].lines \in Each(Line, r.items)
  BY <1>1, <1>2, StoredLines DEF RowFits, DocFits
<1>4. doc[v].lines # <<>>
  <2>1. Len(doc[v].lines) = Len(r.form.items)
    BY <1>3, BilledLines
  <2>2. Len(r.form.items) # 0
    BY <1>2, EmptySeq
  <2>3. QED
    BY <2>1, <2>2
<1>5. None \notin {doc[v].ruc, doc[v].dv}
  BY <1>1, Different DEF Document
<1>6. doc[v].receiver.name \notin {Blank, None}
  <2>1. doc[v].receiver.name = ReceiverName(v)
    BY <1>1 DEF DocFits, Receiver
  <2>2. Key(r.form.client) \in Keys
    BY <1>1, SentForm
  <2>3. customers[Key(r.form.client)] \in Names /\ None \notin Names
    BY <1>1, <2>2, NullAssumption DEF TypeOK
  <2>4. "CONSUMIDOR FINAL" \in Unnamed /\ "CLIENTE SIN NOMBRE" \in Unnamed
        /\ {None, Blank} \cap Unnamed = {}
    BY NullAssumption DEF Unnamed
  <2>5. QED
    BY <2>1, <2>3, <2>4 DEF ReceiverName
<1>7. Complete(doc[v])
  <2>1. Key(r.form.client) # None
    BY <1>1, SentForm, NullAssumption
  <2>2. QED
    BY <1>1, <2>1 DEF DocFits, Receiver, Complete
<1>8. QED
  BY <1>4, <1>5, <1>6, <1>7 DEF Sendable, Structured

\* The document of an imported invoice bills the lines of the file.
LEMMA FitImport ==
    ASSUME Papers, NEW v \in Invoices, doc[v] # None, row[v].form.file # None
    PROVE  LET f == row[v].form.file
               x == doc[v].lines
               s == Sheets[f]
               said == Ascending(Lined(s))
           IN  IF f \in DOMAIN Sheets
               THEN /\ Len(x) = Len(said)
                    /\ \A i \in DOMAIN x :
                         Bills(x[i], row[v].items[i].rate, Columns(s), Body(s)[said[i]])
                    /\ IsTable(s) => FirstClient(s, row[v].form.client)
               ELSE Len(x) = Len(Xmls[f].lines) /\ row[v].form.client = Xmls[f].client
<1> DEFINE r == row[v]
           form == r.form
           items == form.items
           stored == r.items
           x == doc[v].lines
           f == form.file
<1>1. /\ r \in Row /\ form \in Sent /\ RowFits(v) /\ DocFits(v)
  BY DEF Papers, TypeOK, Row
<1>2. form \in ImportedForms
  BY <1>1, DocumentAssumption DEF Sent
<1>3. items \in Seq(ValidItem) /\ items # <<>>
  BY <1>1, SentForm, ValidLines DEF RowFits
<1>4. stored \in Each(Stored, items) /\ x \in Each(Line, stored) /\ ~Refused(v)
  BY <1>1 DEF RowFits, DocFits
<1>5. /\ DOMAIN items = 1..Len(items) /\ Len(items) \in Nat
      /\ \A i \in 1..Len(items) : items[i] \in ValidItem
  BY <1>3, LenProperties, ElementOfSeq
<1>6. \A i \in DOMAIN stored : ~BadItem(stored[i])
  BY <1>4 DEF Refused
<1> HIDE DEF r, form, items, stored, x, f
<1>7. /\ stored \in Seq(StoredItem) /\ Len(stored) = Len(items) /\ DOMAIN stored = DOMAIN items
      /\ \A i \in DOMAIN items : stored[i] \in Stored(items[i])
  BY <1>3, <1>4, StoredLines
<1>8. x \in Seq(BilledItem) /\ Len(x) = Len(items)
  BY <1>4, <1>7, BilledLines
<1>9. DOMAIN x = 1..Len(items)
  BY <1>8, LenProperties
<1>10. ASSUME NEW i \in 1..Len(items)
       PROVE  /\ x[i].quantity = items[i].quantity /\ items[i].quantity >= 1
              /\ stored[i].rate = items[i].rate
              /\ x[i].price \in Nat \ {0} /\ 10 * x[i].price - items[i].price \in -5..5
              /\ items[i].price # 0
  <2>1. items[i] \in ValidItem /\ stored[i] \in Stored(items[i]) /\ ~BadItem(stored[i])
    BY <1>5, <1>6, <1>7
  <2>2. x[i] \in Line(stored[i])
    BY <1>4, <1>5, <1>7 DEF Each
  <2>3. x[i].quantity = stored[i].quantity /\ x[i].price = stored[i].price
    BY <2>2 DEF Line
  <2>4. /\ stored[i].quantity = items[i].quantity /\ stored[i].rate = items[i].rate
        /\ stored[i].price \in Fixed(items[i].price, 10)
    BY <2>1, StoredLine
  <2>5. items[i].quantity >= 1 /\ items[i].price \in Nat
    BY <2>1 DEF ValidItem, Item
  <2> DEFINE p == stored[i].price
             n == items[i].price
  <2>6. p \in Fixed(n, 10) /\ n \in Nat /\ ~(p <= 0)
    BY <2>1, <2>4, <2>5 DEF BadItem
  <2> HIDE DEF p, n
  <2>7. p \in Nat /\ -10 <= 2 * (10 * p - n) /\ 2 * (10 * p - n) <= 10
    BY <2>6, Rounds, SMTT(30)
  <2>8. p \in Nat \ {0} /\ 10 * p - n \in -5..5 /\ n # 0
    BY <2>6, <2>7
  <2>9. QED
    BY <2>3, <2>4, <2>5, <2>8 DEF p, n
<1>11. ASSUME f \in DOMAIN Sheets
       PROVE  LET s == Sheets[f]
                  said == Ascending(Lined(s))
              IN  /\ Len(x) = Len(said)
                  /\ \A i \in DOMAIN x : Bills(x[i], stored[i].rate, Columns(s), Body(s)[said[i]])
                  /\ IsTable(s) => FirstClient(s, form.client)
  <2> DEFINE s == Sheets[f]
             said == Ascending(Lined(s))
  <2>1. form.client = ParseSheet(s).client /\ items = ParseSheet(s).items
    BY <1>2, <1>11, FormOfFile DEF f, items
  <2>2. IsTable(s) => FirstClient(s, form.client)
    BY <1>11, <2>1, ClientIsFirst
  <2>3. items # <<Item1>>
    <3> SUFFICES ASSUME items = <<Item1>> PROVE FALSE
      OBVIOUS
    <3>1. Len(items) = 1 /\ items[1] = Item1
      OBVIOUS
    <3>2. items[1].price # 0
      BY <1>10, <3>1
    <3>3. QED
      BY <3>1, <3>2 DEF Item1
  <2>4. /\ said \in [1..Len(said) -> DOMAIN Body(s)] /\ Len(items) = Len(said)
        /\ \A k \in 1..Len(said) : items[k] = Meant(s, Body(s)[said[k]])
    BY <1>11, <2>1, <2>3, SheetItems
  <2>5. PICK w \in Nat, u \in Nat :
          /\ w >= 5 /\ u <= w /\ DOMAIN Columns(s) = 1..u
          /\ \A i \in DOMAIN Body(s) : Body(s)[i] \in Seq(Cells) /\ Len(Body(s)[i]) = w
    BY <1>11, SheetShape
  <2> HIDE DEF said, s
  <2>6. ASSUME NEW i \in DOMAIN x
        PROVE  Bills(x[i], stored[i].rate, Columns(s), Body(s)[said[i]])
    <3> DEFINE b == Body(s)[said[i]]
    <3>1. i \in 1..Len(items) /\ said[i] \in DOMAIN Body(s) /\ items[i] = Meant(s, b)
      BY <1>9, <2>4
    <3>2. b \in Seq(Cells) /\ Len(b) = w
      BY <2>5, <3>1
    <3>3. /\ x[i].quantity = items[i].quantity /\ items[i].quantity >= 1
          /\ stored[i].rate = items[i].rate
          /\ x[i].price \in Nat \ {0} /\ 10 * x[i].price - items[i].price \in -5..5
      BY <1>10, <3>1
    <3> HIDE DEF b
    <3>4. CASE IsTable(s)
      <4>1. items[i] = ItemOf(Columns(s), b)
        BY <3>1, <3>4 DEF Meant
      <4>2. Bills(x[i], ItemOf(Columns(s), b).rate, Columns(s), b)
        BY <2>5, <3>2, <3>3, <4>1, TableBills
      <4>3. QED
        BY <3>3, <4>1, <4>2 DEF b
    <3>5. CASE ~IsTable(s)
      <4>1. items[i] = PlainItem(b) /\ Columns(s) = PlainColumns
        BY <3>1, <3>5 DEF Meant, Columns, PlainColumns
      <4>2. Bills(x[i], PlainItem(b).rate, PlainColumns, b)
        BY <2>5, <3>2, <3>3, <4>1, PlainBills
      <4>3. QED
        BY <3>3, <4>1, <4>2 DEF b
    <3>6. QED
      BY <3>4, <3>5
  <2>7. Len(x) = Len(said)
    BY <1>8, <2>4
  <2>8. QED
    BY <2>2, <2>6, <2>7 DEF said, s
<1>12. ASSUME f \notin DOMAIN Sheets
       PROVE  Len(x) = Len(Xmls[f].lines) /\ form.client = Xmls[f].client
  <2>1. f \in DOMAIN Xmls /\ form.client = ParseXml(Xmls[f]).client /\ items = ParseXml(Xmls[f]).items
    BY <1>2, <1>12, FormOfFile DEF f, items
  <2>2. QED
    BY <1>8, <2>1, XmlItems
<1>13. QED
  BY <1>11, <1>12, Zenon DEF r, form, stored, x, f

-----------------------------------------------------------------------------
(* The theorems.                                                             *)

\* The invariant holds in every behaviour.
THEOREM PapersFit == Spec => []Papers
<1>1. Init => Papers
  BY InitPapers
<1>2. Papers /\ [Next]_vars => Papers'
  BY NextPapers
<1>3. QED
  BY <1>1, <1>2, PTL DEF Spec

\* Every variable keeps its shape; an invoice has a customer, and a document exactly if the
\* last run of processInvoice made one.
THEOREM DocumentTypeOK == Spec => []TypeOK
<1>1. Papers => TypeOK
  BY DEF Papers
<1>2. QED
  BY <1>1, PapersFit, PTL

\* Whatever form was accepted, with any number of lines, and whatever the organization did
\* since: the document's totals are the invoice's to a cent or two per line but for what
\* TotalsAgree excepts, its receiver is the invoice's client but for what ReceiverAgrees
\* excepts, and its issuer is the one the invoice was created for while that has not changed.
THEOREM DocumentsMatch == Spec => []DocumentMatchesInvoice
<1>1. Papers => DocumentMatchesInvoice
  <2> SUFFICES ASSUME Papers, NEW v \in Invoices, doc[v] # None
               PROVE  TotalsAgree(v) /\ ReceiverAgrees(v) /\ IssuerAgrees(v)
    BY DEF DocumentMatchesInvoice
  <2>1. IssuerAgrees(v)
    BY DEF Papers, DocFits
  <2>2. QED
    BY <2>1, FitTotals, FitReceiver
<1>2. QED
  BY <1>1, PapersFit, PTL

\* An invoice that was accepted fails only for a line that is blank or free, and a document
\* passes the checks before sending unless its client is called "null".
THEOREM AcceptedIsIssuable == Spec => []Issuable
<1>1. Papers => Issuable
  BY FitRefused, FitSendable DEF Issuable
<1>2. QED
  BY <1>1, PapersFit, PTL

\* Whatever spreadsheet or XML an invoice was imported from, with any number of rows and
\* columns: its document bills a line for each described row and no other, with the numbers
\* that the row has but for those that the code reads otherwise, and to the first client.
THEOREM ImportsAgree == Spec => []ImportAgrees
<1>1. Papers => ImportAgrees
  <2> SUFFICES ASSUME Papers PROVE ImportAgrees
    OBVIOUS
  <2>1. QED
    BY FitImport, Zenon DEF ImportAgrees, Lined
<1>2. QED
  BY <1>1, PapersFit, PTL

=============================================================================
