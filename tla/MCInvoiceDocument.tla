------------------------- MODULE MCInvoiceDocument --------------------------
(* Two cedulas that share two groups, a ruc with two check digits and one in *)
(* full; carts with every kind of line that is refused, rounded or billed    *)
(* differently; sheets and XMLs that are read as they were meant, and others. *)
EXTENDS InvoiceDocument, TLC

Line_(q, p, r, d, b) ==
    [quantity |-> q, price |-> p, rate |-> r, discount |-> d, blank |-> b]
Plain == <<Line_(100, 250, 7, 0, FALSE)>>
Ana == [name |-> "ana", id |-> <<"8", "123", "456">>]
Luis == [name |-> "luis", id |-> <<"8", "123", "999">>]
Acme == [name |-> "acme", id |-> <<"12345678", "90">>]
Spaces == [name |-> Blank, id |-> <<"12345678", "91">>]
Full == [name |-> NullText, id |-> <<"155738031", "2", "2023", "20">>]

F(c, b) == [client |-> c, items |-> b, file |-> None]

MCForms ==
    { F(Acme, <<>>), F(Full, Plain),
      F(Acme, <<Line_(0, 250, 7, 0, FALSE)>>), F(Acme, <<Line_(100, 250, 7, 0, TRUE)>>),
      F(Acme, <<Line_(1000, 6, 10, 0, FALSE), Line_(33, 456, 15, 0, FALSE)>>),
      F(Spaces, <<Line_(100, 336, 7, 10, FALSE), Line_(100, 150, 0, 100, FALSE)>>) }

Cell(k, n, id) == [kind |-> k, n |-> n, id |-> id]
W(w) == Cell("word", 0, <<w>>)
T(id) == Cell("word", 0, id)
N(n) == Cell("number", n, <<"0.", "25">>)
E == Cell("empty", 0, <<"">>)

MCSheets ==
  [table |-> <<
     <<W("Cliente"), W("RUC"), W("Producto"), W("Cantidad"), W("Precio"), W("ITBMS"), W("Descuento")>>,
     <<W("ana"), T(Ana.id), W("pan"), N(2000), N(250), N(10000), E>>,
     <<W("acme"), T(Acme.id), N(7000), N(1000), N(90), N(7000), E>>,
     <<W("acme"), T(Acme.id), W("sal"), Cell("plain", 1500, <<"1,", "50">>),
       N(120), N(0), N(10000)>> >>,
   traps |-> <<
     <<W("Producto"), W("Cantidad"), W("Precio unitario"), W("Cliente"), W("RUC")>>,
     <<W("pan"), N(500), Cell("point", 10, <<"0.", "01">>), W("acme"), T(Acme.id)>>,
     <<W("sal"), N(200), Cell("comma", 1250000, <<"1,250.", "00">>), W("ana"), T(Ana.id)>> >>,
   simple |-> <<
     <<W("Factura"), E, E, E, E>>, <<W("Cliente"), W("luis"), E, E, E>>, <<W("RUC"), T(Luis.id), E, E, E>>,
     <<W("Producto"), W("Cantidad"), W("Precio"), E, E>>, <<W("pan"), N(200), N(150), E, E>>,
     <<W("pago"), E, E, E, E>>, <<W("sal"), E, N(120), E, E>> >>,
   labels |-> <<
     <<W("Cliente"), W("acme"), E, E, E>>, <<W("RUC"), T(Acme.id), E, E, E>>,
     <<W("Producto"), W("Cantidad"), W("Precio"), E, E>>, <<W("pan"), N(100), N(150), E, E>> >>,
   row |-> << <<W("Producto"), W("Cantidad"), W("Precio"), E, E>> >>]

X(q, p, r, d) == [quantity |-> q, price |-> p, rate |-> r, discount |-> d]
MCXmls ==
  [fel |-> [format |-> "rFE", client |-> Acme, lines |-> <<X(None, 150, 1, 50), X(50, 336, 5, None), X(None, 150, 0, None)>>],
   cfdi |-> [format |-> "cfdi", client |-> Luis, lines |-> <<X(100, 5, None, 5)>>],
   own |-> [format |-> "rFE", client |-> [name |-> "", id |-> <<>>], lines |-> <<>>],
   ubl |-> [format |-> "ubl", client |-> Ana, lines |-> <<X(100, 150, 7, 0)>>]]

MCShort == {"8", "0000000", "0."}
Perms == Permutations(Invoices)

=============================================================================
