-------------------------- MODULE InvoiceDocument ---------------------------
(***************************************************************************)
(* From the form, typed or filled from a file, to the document that is     *)
(* signed: what creating an invoice accepts, rounds and stores, whom it    *)
(* makes the customer, and what the processing job writes into the XML from*)
(* these rows, minutes or weeks later, when the organization's own data may*)
(* have changed.                                                           *)
(*                                                                         *)
(* Amounts are integers: quantities in hundredths, prices in thousandths,  *)
(* rates and discounts in whole percents, stored amounts in cents.  The    *)
(* code computes in floating point and rounds with toFixed; on a tie it    *)
(* may go either way.  A tax id is the sequence of its groups: those       *)
(* between dashes or, without dashes, all but the last two digits and the  *)
(* last two.                                                               *)
(***************************************************************************)
EXTENDS InvoiceImport, Functions

CONSTANTS Invoices,
          Forms,     \* what is typed: a client, with name and tax id, and lines
          Short,     \* groups of a tax id with fewer than eight digits
          Rucs,      \* of organizations; a check digit is named by the ruc it belongs to
          Unusable,  \* a ruc that has not 8 to 15 digits
          Demo,      \* the demonstration ruc
          Zero,      \* ten zeros, and the check digit 00
          Blank,     \* a client's name of spaces
          NullText   \* the name "null"

ASSUME DocumentAssumption ==
    /\ \A f \in Forms \cup ImportedForms :
         f.client.id \in Seq(STRING) /\ Len(f.client.id) # 1
    /\ \A f \in Forms :
         /\ f.items \in Seq([quantity : Nat, price : Nat, rate : Nat, discount : Nat,
                             blank : BOOLEAN])
         /\ f.file = None
    /\ Cardinality({Unusable, Demo, Zero, None}) = 4
    /\ {Unusable, Demo, Zero, None} \cap Rucs = {}

VARIABLES
    org,        \* the organization: ruc, check digit and environment
    customers,  \* the customers table: the name by ruc and check digit
    row,        \* invoices and their items
    doc,        \* the documents generated from them
    steady      \* history: invoices since whose creation the organization has not changed

vars == <<org, customers, row, doc, steady>>

Key(c) == <<c.id[1], c.id[2]>>
Sent == {f \in Forms \cup ImportedForms : f.client.name # "" /\ f.client.id # <<>>}
Keys == {Key(f.client) : f \in Sent}
Names == {f.client.name : f \in Sent}
Unnamed == {"CONSUMIDOR FINAL", "CLIENTE SIN NOMBRE"}

Row == [form : Sent, items : Seq([quantity : Nat, price : Nat, subtotal : Nat, rate : Nat,
                                       blank : BOOLEAN]),
        subtotal : Nat, discount : Nat, itbms : Nat, total : Nat,
        ruc : Rucs \cup {Unusable, Zero}, dv : Rucs \cup {Zero},
        status : {"DRAFT", "ERROR", "PROCESSING"}]

Document ==
    [lines : Seq([quantity : Nat, price : Nat, net : Nat, tariff : Nat, tax : Nat]),
     totals : [net : Nat, itbms : Nat, total : Nat],
     ruc : Rucs \cup {Demo, Zero}, dv : Rucs \cup {Demo, Zero},
     receiver : [type : {"01", "02"}, name : Names \cup Unnamed, ruc : Keys \cup {None}]]

\* Nothing that is there is null, and what stands in for a name of spaces is none.
ASSUME NullAssumption ==
    /\ None \notin Row /\ None \notin Document /\ None \notin Keys
    /\ {None, Blank} \cap Unnamed = {} /\ None \notin Names

Init ==
    /\ org \in [ruc : Rucs \cup {None}, dv : {None}, env : {"demo"}]
    /\ customers = [k \in Keys |-> None]
    /\ row = [v \in Invoices |-> None]
    /\ doc = [v \in Invoices |-> None]
    /\ steady = {}

\* toFixed of n / d: the nearest integers.
Fixed(n, d) == {(2 * n + d) \div (2 * d), -((d - 2 * n) \div (2 * d))}

Sum(Amount(_), s) == SumFunction([i \in DOMAIN s |-> Amount(s[i])])

\* The sequences of one element of each Of(x).
Each(Of(_), s) ==
    {t \in [DOMAIN s -> UNION {Of(s[i]) : i \in DOMAIN s}] : \A i \in DOMAIN s : t[i] \in Of(s[i])}

-----------------------------------------------------------------------------
(* Creating an invoice                                                       *)

\* createInvoiceSchema, for a client that is named and has a tax id: a price of zero is
\* allowed, and so are spaces.
Valid(items) ==
    /\ items # <<>>
    /\ \A i \in DOMAIN items :
         items[i].quantity >= 1 /\ items[i].rate <= 100 /\ items[i].discount <= 100

\* calculateItemTotals, in 1 / 10^5, 10^7, 10^9 and 10^9.
Gross(x) == x.quantity * x.price
Discount(x) == Gross(x) * x.discount
Tax(x) == Gross(x) * (100 - x.discount) * x.rate
Total(x) == Gross(x) * (100 - x.discount) * (100 + x.rate)

\* A cent in those of Tax and Total, and of Discount.
Cent == 10000000
OffCent == 100000

\* A row of invoice_items: its subtotal is the amount before the discount.
Stored(x) ==
    {[quantity |-> x.quantity, price |-> p, subtotal |-> g, rate |-> x.rate, blank |-> x.blank] :
        p \in Fixed(x.price, 10), g \in Fixed(Gross(x), 1000)}

\* Faulty variant: customers are told apart by the ruc alone.
FindCustomerByRuc(c) ==
    IF \E k \in Keys : k[1] = c.id[1] /\ customers[k] # None
    THEN UNCHANGED customers
    ELSE customers' = [k \in Keys |-> IF k[1] = c.id[1] THEN c.name ELSE customers[k]]

\* Of the groups of the tax id the first two are the customer's; one that is there already
\* keeps its name.
FindCustomer(c) ==
    IF customers[Key(c)] # None
    THEN UNCHANGED customers
    ELSE customers' = [customers EXCEPT ![Key(c)] = c.name]

\* Faulty variant: the ruc an organization does not have is not replaced.
CreateWithoutRuc(v, f) ==
    LET items == f.items
    IN
    /\ row[v] = None /\ Valid(items)
    /\ \E stored \in Each(Stored, items), s \in Fixed(Sum(Gross, items), 1000),
          d \in Fixed(Sum(Discount, items), OffCent), t \in Fixed(Sum(Tax, items), Cent),
          a \in Fixed(Sum(Total, items), Cent) :
         row' = [row EXCEPT ![v] =
                   [form |-> f, items |-> stored, subtotal |-> s,
                    discount |-> d, itbms |-> t, total |-> a,
                    ruc |-> org.ruc, dv |-> org.dv, status |-> "DRAFT"]]
    /\ FindCustomer(f.client)
    /\ steady' = steady \cup {v}
    /\ UNCHANGED <<org, doc>>

\* One transaction; the totals are rounded from the unrounded sums.  Of the form the
\* client is stored; the lines are kept for the properties only.
Create(v, f) ==
    LET items == f.items
    IN
    /\ row[v] = None /\ Valid(items)
    /\ \E stored \in Each(Stored, items), s \in Fixed(Sum(Gross, items), 1000),
          d \in Fixed(Sum(Discount, items), OffCent), t \in Fixed(Sum(Tax, items), Cent),
          a \in Fixed(Sum(Total, items), Cent) :
         row' = [row EXCEPT ![v] =
                   [form |-> f, items |-> stored, subtotal |-> s,
                    discount |-> d, itbms |-> t, total |-> a,
                    ruc |-> IF org.ruc = None THEN Zero ELSE org.ruc,
                    dv |-> IF org.dv = None THEN Zero ELSE org.dv, status |-> "DRAFT"]]
    /\ FindCustomer(f.client)
    /\ steady' = steady \cup {v}
    /\ UNCHANGED <<org, doc>>

-----------------------------------------------------------------------------
(* The organization                                                          *)

Update(o) ==
    /\ org' = o
    /\ steady' = IF o = org THEN steady ELSE {}
    /\ UNCHANGED <<customers, row, doc>>

\* PUT /api/configuration/organization, where a ruc is required, and PUT
\* /api/admin/organizations/[orgId], where an empty one is null; so is the check digit.
UpdateOrganization(r, d) == Update([org EXCEPT !.ruc = r, !.dv = d])

\* POST /api/settings/hka-credentials: what is not sent stays, the check digit as well.
SaveEnvironment(e, r) == Update([org EXCEPT !.env = e, !.ruc = IF r = None THEN @ ELSE r])

-----------------------------------------------------------------------------
(* Transforming it                                                           *)

\* mapTasaITBMS: 0 (exempt) for the rates it does not know; 1 % is taken for 100 %.
Tariff(rate) == IF rate \in {7, 10, 15} THEN rate ELSE 0

\* Faulty variant: the amount is computed from the rounded unit price.
LineFromPrice(x) ==
    {[quantity |-> x.quantity, price |-> x.price, net |-> n, tariff |-> Tariff(x.rate), tax |-> t] :
        n \in Fixed(x.quantity * x.price, 100),
        t \in IF Tariff(x.rate) = 0 THEN {0} ELSE Fixed(x.subtotal * x.rate, 100)}

\* An item of the document.  discountedPrice is never stored, so the net amount is the one
\* before the discount; taxAmount is a Decimal, which Number.isFinite refuses, so the tax is
\* computed again, from that amount.
Line(x) ==
    {[quantity |-> x.quantity, price |-> x.price, net |-> x.subtotal,
      tariff |-> Tariff(x.rate), tax |-> t] :
        t \in IF Tariff(x.rate) = 0 THEN {0} ELSE Fixed(x.subtotal * x.rate, 100)}

\* Faulty variant: only the organization's ruc of today counts.
IssuerToday(v) ==
    IF org.env = "demo" \/ org.ruc \in {None, Unusable} THEN <<Demo, Demo>>
    ELSE <<org.ruc, IF org.dv = None THEN Zero ELSE org.dv>>

\* getValidRUC of the organization's ruc and check digit or, each for itself, the invoice's.
Issuer(v) ==
    LET r == IF org.ruc = None THEN row[v].ruc ELSE org.ruc
        d == IF org.dv = None THEN row[v].dv ELSE org.dv
    IN  IF org.env = "demo" \/ r = Unusable THEN <<Demo, Demo>> ELSE <<r, d>>

\* normalizarRucReceptor of the customer, whose ruc is the first group of the tax id: with
\* fewer than eight digits it is a final consumer's.
Final(v) == row[v].form.client.id[1] \in Short

ReceiverName(v) ==
    LET name == customers[Key(row[v].form.client)]
    IN  IF name # Blank THEN name
        ELSE IF Final(v) THEN "CONSUMIDOR FINAL" ELSE "CLIENTE SIN NOMBRE"

\* Faulty variant: a final consumer keeps the customer's type.
ReceiverTyped(v) ==
    [type |-> "01", name |-> ReceiverName(v),
     ruc |-> IF Final(v) THEN None ELSE Key(row[v].form.client)]

\* gDatRec: the generator writes no gRucRec for a final consumer.
Receiver(v) ==
    [type |-> IF Final(v) THEN "02" ELSE "01", name |-> ReceiverName(v),
     ruc |-> IF Final(v) THEN None ELSE Key(row[v].form.client)]

\* What transformInvoiceToXMLInput throws on, and validarDatosFactura and generarXMLFactura
\* after it.  normalizeCantidad makes no quantity zero, and the issuer's name is never empty.
BadItem(x) == x.blank \/ x.price <= 0

Refused(v) == \E i \in DOMAIN row[v].items : BadItem(row[v].items[i])

\* calcularTotales.
Totals(l) ==
    [net |-> Sum(LAMBDA x : x.net, l), itbms |-> Sum(LAMBDA x : x.tax, l),
     total |-> Sum(LAMBDA x : x.net + x.tax, l)]

\* What generarXMLFactura may write.
Documents(v) ==
    {[lines |-> l, totals |-> Totals(l), ruc |-> Issuer(v)[1], dv |-> Issuer(v)[2],
      receiver |-> Receiver(v)] : l \in Each(Line, row[v].items)}

\* processInvoice up to the saved XML, as often as it is asked for.
Process(v) ==
    /\ row[v] # None
    /\ IF Refused(v)
       THEN row' = [row EXCEPT ![v].status = "ERROR"] /\ doc' = [doc EXCEPT ![v] = None]
       ELSE /\ row' = [row EXCEPT ![v].status = "PROCESSING"]
            /\ \E d \in Documents(v) : doc' = [doc EXCEPT ![v] = d]
    /\ UNCHANGED <<org, customers, steady>>

\* validateXMLStructure: nothing that a document must have is missing, blank or "null".
Structured(d) ==
    /\ d.lines # <<>>
    /\ d.receiver.name \notin {Blank, NullText, None}
    /\ None \notin {d.ruc, d.dv}

\* What enviarDocumento checks besides: only a final consumer may do without a ruc.
Complete(d) == d.receiver.type = "02" \/ d.receiver.ruc # None

Sendable(d) == Structured(d) /\ Complete(d)

-----------------------------------------------------------------------------
OrganizationStep ==
    \/ \E r \in Rucs \cup {Unusable, None}, d \in Rucs \cup {None} : UpdateOrganization(r, d)
    \/ \E e \in {"demo", "prod"}, r \in Rucs \cup {None} : SaveEnvironment(e, r)

Next ==
    \/ \E v \in Invoices : Process(v) \/ \E f \in Sent : Create(v, f)
    \/ OrganizationStep

Spec == Init /\ [][Next]_vars

-----------------------------------------------------------------------------
(* Properties                                                                *)

\* The shape of every variable; every invoice has a customer, and a document exactly if the
\* last run of the job made one.
TypeOK ==
    /\ org \in [ruc : Rucs \cup {Unusable, None}, dv : Rucs \cup {None}, env : {"demo", "prod"}]
    /\ customers \in [Keys -> Names \cup {None}]
    /\ row \in [Invoices -> Row \cup {None}]
    /\ doc \in [Invoices -> Document \cup {None}]
    /\ \A v \in Invoices :
         /\ row[v] # None => customers[Key(row[v].form.client)] # None
         /\ doc[v] # None <=> row[v] # None /\ row[v].status = "PROCESSING"
    /\ steady \subseteq {v \in Invoices : row[v] # None}

\* The document's net amount is the invoice's subtotal, to a cent per line.  So is its tax,
\* and its total to two cents per line, unless a line has a discount, which the document
\* charges, or a rate the document has no code for, which it does not.
TotalsAgree(v) ==
    LET r == row[v]
        d == doc[v].totals
        n == Len(r.items)
        coded == \A i \in 1..n : r.items[i].rate \in {0, 7, 10, 15}
    IN  /\ d.net - r.subtotal \in -n..n
        /\ r.discount = 0 /\ coded => d.itbms - r.itbms \in -n..n
        /\ coded => d.total >= r.total + r.discount - 2 * n
        /\ r.discount = 0 => d.total <= r.total + 2 * n

\* The document is about the client of its invoice.  It names another one only if that one
\* had the same two groups in its tax id, in an invoice of its own; and two documents with
\* ids of two groups name the same ruc and check digit only if the ids are the same.
ReceiverAgrees(v) ==
    LET c == row[v].form.client
        r == doc[v].receiver
        Printed(n) == IF n = Blank THEN Unnamed ELSE {n}
    IN  /\ \E w \in Invoices :
             row[w] # None /\ Key(row[w].form.client) = Key(c) /\ r.name \in Printed(row[w].form.client.name)
        /\ r.ruc = None <=> c.id[1] \in Short
        /\ \A w \in Invoices :
             /\ row[w] # None /\ doc[w] # None /\ r.ruc # None /\ doc[w].receiver.ruc = r.ruc
             /\ Len(c.id) = 2 /\ Len(row[w].form.client.id) = 2
             => row[w].form.client.id = c.id

\* While the organization does not change, the document's issuer is the invoice's, in
\* production and with a ruc that can be used; the demonstration ruc stands in a document
\* of the demonstration environment and of an organization whose ruc cannot be used.
IssuerAgrees(v) ==
    v \in steady =>
        IF org.env = "demo" \/ row[v].ruc = Unusable
        THEN doc[v].ruc = Demo
        ELSE doc[v].ruc = row[v].ruc /\ doc[v].dv = row[v].dv

\* What the organization signs is what the form said, as far as this code keeps it.
DocumentMatchesInvoice ==
    \A v \in Invoices :
        doc[v] # None => TotalsAgree(v) /\ ReceiverAgrees(v) /\ IssuerAgrees(v)

\* Line x of a document, of an item with that rate, bills the row r of a sheet with columns
\* h, to a hundredth of the quantity, a cent of the price and a percent of the rate: a
\* number that is written with a point or with a comma for thousands is billed as another
\* one, no quantity is one, and no rate, also a rate of zero, is 7.
Bills(x, rate, h, r) ==
    LET Under(W) == {r[j] : j \in {k \in DOMAIN h : h[k] \in W}}
        Says(W, Value(_)) == \E c \in Under(W) : c.kind \in {"point", "comma"} \/ Value(c.n)
        Silent(W) == Under(W) = {} \/ \E c \in Under(W) : c.n = 0
    IN  /\ \/ Says(QuantityWords, LAMBDA n : x.quantity = n \div 10)
           \/ x.quantity = 100 /\ Silent(QuantityWords)
        /\ Says(PriceWords, LAMBDA n : 10 * x.price - n \in -5..5)
        /\ \/ Says(RateWords, LAMBDA n : n # 0 /\ rate = n \div 1000)
           \/ rate = 7 /\ Silent(RateWords)

\* Headers that mean one thing and are taken for another.
Misleading == {"Nombre del producto", "RUC del cliente", "Precio unitario", "Tax"}

\* The client c of a table whose first row names one in full, under headers that are clear.
FirstClient(s, c) ==
    LET h == Columns(s)
        r == Body(s)[1]
        Col(w) == {j \in DOMAIN h : h[j] = w /\ Filled(r[j])}
    IN  \/ \E j \in DOMAIN h : h[j] \in Misleading
        \/ {} \in {Col("Cliente"), Col("RUC")}
        \/ \E i \in Col("Cliente"), j \in Col("RUC") : c = [name |-> r[i].id[1], id |-> r[j].id]

\* Row r of a sheet is a line: it has a description, and in a sheet that is no table also
\* something from the third cell on.
Described(s, r) ==
    /\ \E j \in DOMAIN Columns(s) : Columns(s)[j] \in TextWords /\ r[j].kind = "word"
    /\ IsTable(s) \/ \E j \in 3..Len(r) : r[j].kind # "empty"

\* The document of an invoice that came from a file bills a line for each row with a
\* description (in a sheet that is no table, also with a price or something after it), in
\* order, and no other; and it is the first client's.
ImportAgrees ==
    \A v \in Invoices :
        doc[v] # None /\ row[v].form.file # None =>
          LET f == row[v].form.file
              x == doc[v].lines
              OfSheet(s) ==
                LET said == Ascending({i \in DOMAIN Body(s) : Described(s, Body(s)[i])})
                IN  /\ Len(x) = Len(said)
                    /\ \A i \in DOMAIN x :
                         Bills(x[i], row[v].items[i].rate, Columns(s), Body(s)[said[i]])
                    /\ IsTable(s) => FirstClient(s, row[v].form.client)
          IN  IF f \in DOMAIN Sheets THEN OfSheet(Sheets[f])
              ELSE Len(x) = Len(Xmls[f].lines) /\ row[v].form.client = Xmls[f].client

\* An invoice that was accepted can be issued, except for these: a line without a price or
\* with one that rounds to zero, also the line that an import makes up when it finds none;
\* a description of spaces.  Whatever the generator writes passes the checks before sending,
\* unless the client is called "null".
Issuable ==
    \A v \in Invoices :
        /\ row[v] # None /\ row[v].status = "ERROR" =>
             \E i \in DOMAIN row[v].items :
               row[v].form.items[i].blank \/ row[v].form.items[i].price <= 5
        /\ doc[v] # None => Sendable(doc[v]) \/ doc[v].receiver.name = NullText

=============================================================================
