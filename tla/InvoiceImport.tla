---------------------------- MODULE InvoiceImport ----------------------------
(***************************************************************************)
(* What the form of a new invoice makes of a file: a spreadsheet, read by  *)
(* the words in its header, or an XML in one of three formats.             *)
(*                                                                         *)
(* A sheet is a sequence of rows of one length.  A cell has its kind, the  *)
(* number it stands for, in thousandths (0 if none), and the groups it     *)
(* would have as a tax id.  Kinds: "number"; texts that are numbers,       *)
(* "plain" (10,50 and 1.250,00), "point" (10.50, two decimals) and "comma" *)
(* (1,250.00); "word"; "empty".  A word in a header stands for all that    *)
(* hold the same key words.  An XML's values are in the units of the form; *)
(* one that is missing is None.                                            *)
(***************************************************************************)
EXTENDS Integers, Sequences, FiniteSets

CONSTANTS Sheets,  \* the contents of each spreadsheet, by its name
          Xmls,    \* of each XML: its format, its client and its lines
          None

Cells ==
    [kind : {"number", "plain", "point", "comma", "word", "empty"}, n : Nat, id : Seq(STRING) \ {<<>>}]

ASSUME ImportAssumption ==
    /\ \A f \in DOMAIN Sheets :
         /\ Sheets[f] \in Seq(Seq(Cells))
         /\ \A i \in DOMAIN Sheets[f] :
              Len(Sheets[f][i]) = Len(Sheets[f][1]) /\ Len(Sheets[f][i]) >= 5
    /\ \A f \in DOMAIN Xmls :
         Xmls[f].lines \in Seq([quantity : Nat \cup {None}, price : Nat \cup {None},
                               rate : Nat \cup {None}, discount : Nat \cup {None}])
    /\ DOMAIN Sheets \cap DOMAIN Xmls = {}

\* The tests on headers.  "Precio unitario" holds "nit", and "Tax" is the start of taxId.
NameWords == {"Cliente", "Nombre del producto", "RUC del cliente"}
TaxIdWords == {"RUC", "RUC del cliente", "Precio unitario", "Tax"}
PriceWords == {"Precio", "Precio unitario"}
QuantityWords == {"Cantidad"}
TextWords == {"Producto", "Nombre del producto"}
RateWords == {"ITBMS", "Tax"}
DiscountWords == {"Descuento"}
KnownWords == NameWords \cup (TaxIdWords \ {"Tax"}) \cup PriceWords \cup QuantityWords \cup TextWords

\* Faulty variant: parseFloat of the text as it is, which ends at a comma.
NumberAsWritten(c) ==
    CASE c.kind = "plain" -> (c.n \div 1000) * 1000
      [] c.kind = "comma" -> (c.n \div 1000000) * 1000
      [] OTHER -> c.n

\* parseNumber: points are dropped and the comma is the decimal one, as the comment has it
\* "estilo es-PA"; so 10.50 is 1050, and 1,250.00 is 1.25.
ParseNumber(c) ==
    CASE c.kind = "point" -> c.n * 100
      [] c.kind = "comma" -> c.n \div 1000
      [] OTHER -> c.n

Filled(c) == c.kind # "empty" /\ (c.kind = "number" => c.n # 0)
Header(r) == [j \in DOMAIN r |-> IF Filled(r[j]) THEN r[j].id[1] ELSE ""]

\* A rate that is 0 or not there is 7, in a spreadsheet.
Rate(n) == IF n = 0 THEN 7 ELSE n \div 1000

FirstOf(s) == CHOOSE i \in s : \A k \in s : i <= k
LastOf(s) == CHOOSE i \in s : \A k \in s : k <= i

\* The elements of a set of numbers in order.
Ascending(s) ==
    CHOOSE q \in [1..Cardinality(s) -> s] : \A i, j \in DOMAIN q : i < j => q[i] < q[j]

-----------------------------------------------------------------------------
(* A table                                                                   *)

\* Faulty variant: the client of the last row that names one.
LastCell(at) == CHOOSE p \in at : \A q \in at : q[1] < p[1] \/ (q[1] = p[1] /\ q[2] <= p[2])

\* The first of some cells, row by row.
FirstCell(at) == CHOOSE p \in at : \A q \in at : p[1] < q[1] \/ (p[1] = q[1] /\ p[2] <= q[2])

\* extractClientData, of the first ten rows: the first cell that will do is the name, and
\* the first other one that will do the tax id.  The two may be of two rows, and the client
\* of the first lines is the client of them all.
ExtractClient(h, rows) ==
    LET under(W) == {p \in (DOMAIN rows \cap 1..10) \X DOMAIN h :
                       h[p[2]] \in W /\ Filled(rows[p[1]][p[2]])}
        names == under(NameWords)
        ids == under(TaxIdWords) \ (IF names = {} THEN {} ELSE {FirstCell(names)})
        id(at) == rows[at[1]][at[2]].id
    IN  [name |-> IF names = {} THEN "Cliente Generico" ELSE id(FirstCell(names))[1],
         id |-> IF ids = {} THEN <<"0000000", "00">> ELSE id(FirstCell(ids))]

Item1 == [quantity |-> 100, price |-> 0, rate |-> 7, discount |-> 0, blank |-> FALSE]
OrItem1(lines) == IF lines = <<>> THEN <<Item1>> ELSE lines

\* Faulty variant: a number will do as a description.
AnyItem(h, r) ==
    LET under(W) == {j \in DOMAIN h : h[j] \in W}
        last(c) == IF c = {} THEN 0 ELSE ParseNumber(r[LastOf(c)])
    IN  [quantity |-> last(under(QuantityWords)) \div 10,
         price |-> last({j \in under(PriceWords) : ParseNumber(r[j]) > 0}),
         rate |-> Rate(last(under(RateWords))),
         discount |-> last(under(DiscountWords)) \div 1000,
         blank |-> \A j \in under(TextWords) : r[j].kind = "empty"]

\* The line of a row: the last cell of each kind counts, of prices the last that is not 0.
\* A number is no description.
ItemOf(h, r) ==
    LET under(W) == {j \in DOMAIN h : h[j] \in W}
        last(c) == IF c = {} THEN 0 ELSE ParseNumber(r[LastOf(c)])
    IN  [quantity |-> last(under(QuantityWords)) \div 10,
         price |-> last({j \in under(PriceWords) : ParseNumber(r[j]) > 0}),
         rate |-> Rate(last(under(RateWords))),
         discount |-> last(under(DiscountWords)) \div 1000,
         blank |-> \A j \in under(TextWords) : r[j].kind # "word"]

\* extractItemsWithHeaders: a row without a description is left out; if none is left there
\* is one line without a price.
ExtractItems(h, rows) ==
    LET kept == Ascending({i \in DOMAIN rows : ~ItemOf(h, rows[i]).blank})
    IN  OrItem1([k \in DOMAIN kept |-> ItemOf(h, rows[kept[k]])])

-----------------------------------------------------------------------------
(* No table                                                                  *)

FirstRows(s) == SubSeq(s, 1, IF Len(s) < 5 THEN Len(s) ELSE 5)

\* A label is in the first cell and its value in the second; the last label of a kind counts.
LabelledClient(s) ==
    LET labels(W) == {i \in DOMAIN FirstRows(s) : Header(s[i])[1] \in W}
        valued(W) == {i \in labels(W) : i = LastOf(labels(W)) /\ Filled(s[i][2])}
        names == valued(NameWords)
        ids == valued(TaxIdWords \ NameWords)
    IN  [name |-> IF names = {} THEN "Cliente Generico" ELSE s[LastOf(names)][2].id[1],
         id |-> IF ids = {} THEN <<"0000000", "00">> ELSE s[LastOf(ids)][2].id]

\* The lines begin after the first row whose first cell says so, or with the sixth row.
LinesFrom(s) ==
    LET heads == {i \in DOMAIN s : Header(s[i])[1] \in TextWords}
    IN  IF heads = {} THEN 6 ELSE 1 + FirstOf(heads)

\* A row of extractItemsWithoutHeaders.
PlainItem(r) ==
    LET quantity == ParseNumber(r[2])
    IN  [quantity |-> IF quantity = 0 THEN 100 ELSE quantity \div 10, price |-> ParseNumber(r[3]),
         rate |-> Rate(ParseNumber(r[4])), discount |-> ParseNumber(r[5]) \div 1000, blank |-> FALSE]

\* extractItemsWithoutHeaders: a row of fewer than three cells is none.
PlainItems(rows) ==
    LET kept == Ascending({i \in DOMAIN rows :
                  rows[i][1].kind = "word" /\ \E j \in 3..Len(rows[i]) : rows[i][j].kind # "empty"})
    IN  [k \in DOMAIN kept |-> PlainItem(rows[kept[k]])]

-----------------------------------------------------------------------------
(* A file                                                                    *)

\* detectAndParse: the header is the first of the first five rows with a text in it, and
\* the sheet is a table if one of its words is known.
Heads(s) == {i \in DOMAIN FirstRows(s) : \E j \in DOMAIN s[i] : s[i][j].kind \notin {"empty", "number"}}
HeadOf(s) == FirstOf(Heads(s))
IsTable(s) ==
    /\ Heads(s) # {} /\ HeadOf(s) < Len(s)
    /\ \E j \in DOMAIN s[1] : Header(s[HeadOf(s)])[j] \in KnownWords

\* The rows that may be lines, and their columns.
Body(s) == SubSeq(s, IF IsTable(s) THEN HeadOf(s) + 1 ELSE LinesFrom(s), Len(s))
Columns(s) ==
    IF IsTable(s) THEN Header(s[HeadOf(s)])
    ELSE <<"Producto", "Cantidad", "Precio", "ITBMS", "Descuento">>

ParseSheet(s) ==
    IF IsTable(s)
    THEN [client |-> ExtractClient(Columns(s), Body(s)), items |-> ExtractItems(Columns(s), Body(s))]
    ELSE [client |-> LabelledClient(s), items |-> OrItem1(PlainItems(Body(s)))]

Or(x, default) == IF x = None THEN default ELSE x

\* parseFELPanama, parseGenericInvoice and parseCFDI; a CFDI's discount is an amount and
\* becomes a rate.
ParseXml(x) ==
    [client |-> x.client,
     items |-> [i \in DOMAIN x.lines |->
       [quantity |-> Or(x.lines[i].quantity, 100), price |-> Or(x.lines[i].price, 0),
        rate |-> IF x.format = "cfdi" THEN 16 ELSE Or(x.lines[i].rate, 7),
        discount |-> IF x.format = "rFE" THEN 0 ELSE Or(x.lines[i].discount, 0),
        blank |-> FALSE]]]

\* handleXMLDataExtracted replaces client and lines of the form by those of the file.
Imported(f) ==
    LET data == IF f \in DOMAIN Sheets THEN ParseSheet(Sheets[f]) ELSE ParseXml(Xmls[f])
    IN  [client |-> data.client, items |-> data.items, file |-> f]

\* What validate refuses: a sheet of one row, an XML of another format.
Accepted ==
    {f \in DOMAIN Sheets : Len(Sheets[f]) >= 2}
      \cup {f \in DOMAIN Xmls : Xmls[f].format \in {"rFE", "Invoice", "cfdi"}}

ImportedForms == {Imported(f) : f \in Accepted}

=============================================================================
