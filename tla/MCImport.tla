------------------------------ MODULE MCImport ------------------------------
(* Papers in the layout of the Portal das Finanças, one row of label and      *)
(* value under the other, and files whose objects are put together in every   *)
(* way the reader tells apart.  Amounts are those of real papers.             *)
EXTENDS Import, TLC

MCGlyphs == Word("glyphs")

Words(list) == [k \in DOMAIN list |-> Word(list[k])]

(***************************************************************************)
(* Objects, and the files made of them.                                    *)
(***************************************************************************)
Thing ==
    [type |-> "", pages |-> Absent, kids |-> Absent, contents |-> Absent,
     resources |-> Absent, font |-> Absent, fonts |-> <<>>, wide |-> FALSE,
     toUnicode |-> Absent, stream |-> Absent]

Ref(n) == [ref |-> n]
List(values) == [array |-> values]
Stream(operators) == [filters |-> {"FlateDecode"}, inflates |-> TRUE, program |-> operators, cmap |-> {}]

Catalog == [Thing EXCEPT !.type = "Catalog", !.pages = Ref(2)]
Node(kids, resources) == [Thing EXCEPT !.type = "Pages", !.kids = kids, !.resources = resources]
Leaf(contents, resources) ==
    [Thing EXCEPT !.type = "Page", !.contents = contents, !.resources = resources]
Content(stream) == [Thing EXCEPT !.stream = stream]

Fonts(table) == [direct |-> [Thing EXCEPT !.font = [direct |-> [Thing EXCEPT !.fonts = table]]]]
F1 == Fonts("F1" :> Ref(5))
NarrowFont == Thing
WideFont == [Thing EXCEPT !.wide = TRUE]
MappedFont(map) == [Thing EXCEPT !.wide = TRUE, !.toUnicode = map]

Entry(num, object) == [num |-> num, object |-> object]

NothingSaid ==
    [base |-> None, iva |-> None, stamp |-> None, total |-> None, retention |-> None,
     net |-> None, issuer |-> None, rate |-> None]

File(objectsInOrder) ==
    [pdf |-> TRUE, encrypted |-> FALSE, objectStreams |-> FALSE,
     entries |-> objectsInOrder, says |-> NothingSaid]

(***************************************************************************)
(* Operators.                                                              *)
(***************************************************************************)
Op(op, x, y) == [op |-> op, name |-> "", x |-> x, y |-> y, strings |-> <<>>]
Font(name, size) == [Op("Tf", size, 0) EXCEPT !.name = name]
Put(op, wide, list) ==
    [Op(op, 0, 0) EXCEPT !.strings = [k \in DOMAIN list |-> [wide |-> wide, tokens |-> list[k]]]]

Greeting == <<Words(<<"ola">>)>>

Plain(wide) ==
    << Font("F1", 90), Op("BT", 0, 0), Op("Td", 500, 7000), Put("Tj", wide, Greeting) >>

(* Two columns, rows that drift by less than the tolerance, a coordinate   *)
(* system saved and given back, and lines that follow the leading.         *)
Drifting ==
    << Font("F1", 60), Op("q", 0, 0), Op("cm", 100, 1000), Op("BT", 0, 0),
       Op("Tm", 500, 5060), Put("Tj", FALSE, <<Words(<<"a">>)>>),
       Op("Tm", 900, 5040), Put("Tj", FALSE, <<Words(<<"b">>)>>),
       Op("Tm", 100, 5020), Put("TJ", FALSE, <<Words(<<"c">>), Words(<<"d">>)>>),
       Op("Q", 0, 0), Op("Q", 0, 0), Op("BT", 0, 0), Op("TL", 120, 0),
       Op("TD", 500, 6060), Put("'", FALSE, <<Words(<<"e">>)>>), Op("T*", 0, 0),
       Font("F2", 0), Put("Tj", FALSE, <<Words(<<"f">>)>>) >>

Usual(contents, font) ==
    << Entry(1, Catalog), Entry(2, Node(List(<<Ref(3)>>), F1)), Entry(3, Leaf(contents, Absent)),
       Entry(5, font) >>

Files ==
    { File(Usual(Ref(4), NarrowFont) \o <<Entry(4, Content(Stream(Drifting)))>>),
      File(Usual(Ref(4), WideFont) \o <<Entry(4, Content(Stream(Plain(TRUE))))>>),
      File(Usual(Ref(4), MappedFont(Ref(6))) \o
           << Entry(4, Content(Stream(Plain(TRUE)))),
              Entry(6, Content([Stream(<<>>) EXCEPT !.cmap = {Word("ola")}])) >>),
      \* A map of single bytes on a string written in pairs, which it happens to know or not.
      File(Usual(Ref(4), [NarrowFont EXCEPT !.toUnicode = Ref(6)]) \o
           << Entry(4, Content(Stream(Plain(TRUE) \o <<Put("\"", FALSE, Greeting)>>))),
              Entry(6, Content([Stream(<<>>) EXCEPT !.cmap = {MCGlyphs}])) >>),
      File(Usual(Ref(4), MappedFont([direct |-> Thing])) \o <<Entry(4, Content(Stream(Plain(TRUE))))>>),
      File(Usual(Ref(4), NarrowFont) \o <<Entry(4, Content(Stream(Plain(TRUE))))>>),
      \* Contents that is an array of its own, in the page and elsewhere, and that is nowhere.
      File(Usual(List(<<Ref(4), Ref(6)>>), NarrowFont) \o
           << Entry(4, Content([Stream(<<>>) EXCEPT !.inflates = FALSE])),
              Entry(6, Content(Stream(Plain(FALSE)))) >>),
      File(Usual(Ref(4), NarrowFont) \o <<Entry(4, Absent), Entry(6, Content(Stream(Plain(FALSE))))>>),
      File(Usual(Ref(9), NarrowFont)),
      File(Usual(Ref(4), NarrowFont) \o
           <<Entry(4, Content([Stream(Plain(FALSE)) EXCEPT !.filters = {"LZWDecode"}]))>>),
      \* The first object of a number is read, not the revised one.
      File(Usual(Ref(4), NarrowFont) \o
           << Entry(4, Content([Stream(Plain(FALSE)) EXCEPT !.filters = {}])),
              Entry(4, Content(Stream(Drifting))), Entry(3, Leaf(Absent, Absent)) >>),
      \* A tree that hangs from itself, with a page outside it.
      File(<< Entry(1, Catalog), Entry(2, Node(List(<<Ref(2), Ref(8)>>), Absent)),
              Entry(3, Leaf(Ref(4), F1)), Entry(4, Content(Stream(Plain(FALSE)))), Entry(5, NarrowFont) >>),
      File(<< Entry(1, Catalog), Entry(2, Node(List(<<Ref(3), Ref(2)>>), F1)),
              Entry(3, Leaf(Ref(4), Absent)), Entry(4, Content(Stream(Plain(FALSE)))), Entry(5, NarrowFont) >>),
      \* Two levels, with resources at each and a page that has its own.
      File(<< Entry(1, Catalog), Entry(2, Node(List(<<Ref(6), Ref(3)>>), F1)),
              Entry(6, Node(List(<<Ref(7), Ref(8)>>), Fonts("F2" :> Ref(5)))),
              Entry(7, Leaf(Ref(4), Absent)), Entry(8, Leaf(Ref(4), F1)), Entry(3, Leaf(Ref(4), Absent)),
              Entry(4, Content(Stream(Plain(FALSE)))), Entry(5, NarrowFont) >>),
      \* A page written in place.
      File(<< Entry(1, Catalog), Entry(2, Node(List(<<[direct |-> Leaf(Ref(4), Absent)]>>), F1)),
              Entry(4, Content(Stream(Plain(FALSE)))), Entry(5, NarrowFont) >>),
      File(<<Entry(1, Catalog), Entry(2, Node(Ref(3), Absent)), Entry(3, Absent)>>),
      File(<<Entry(4, Content(Stream(<<>>)))>>),
      File(<<>>),
      [File(<<>>) EXCEPT !.pdf = FALSE],
      [File(<<>>) EXCEPT !.encrypted = TRUE],
      [File(<<Entry(1, Catalog)>>) EXCEPT !.objectStreams = TRUE] }

(***************************************************************************)
(* Papers.                                                                 *)
(***************************************************************************)
Says(base, iva, stamp, total, retention, net) ==
    [base |-> base, iva |-> iva, stamp |-> stamp, total |-> total, retention |-> retention,
     net |-> net, issuer |-> None, rate |-> None]

Amounts ==
    { Says(81301, 18699, 0, 100000, 18699, 81301),      \* as they should be
      Says(90000, 0, 0, 90000, 20001, 69999),           \* no rate gives this withholding
      Says(90000, 20705, 0, 110705, 0, 110705),         \* nor this IVA
      Says(20000, 2900, 0, 22900, 0, 22900),            \* two rates, 6 and 23
      Says(50, 12, 0, 62, 0, 62),
      Says(90000, 20700, 500, 111200, 20700, 90500),    \* stamp duty
      Says(90000, 20700, 0, 110700, 20700, 90500),      \* does not add up
      Says(90000, 0, 0, 90000, None, None),
      Says(81301, None, None, None, None, None),
      Says(None, 18699, None, 100000, None, 100000) }

Parties ==
    { [issuer |-> 123456789, client |-> 999999990, address |-> <<"rua", "lisboa">>],
      [issuer |-> 123456789, client |-> None, address |-> <<"strasse", "DE">>],
      [issuer |-> 123456789, client |-> 111111111, address |-> <<"avenida", "US">>],
      [issuer |-> 123456789, client |-> None, address |-> <<"rua", "portugal">>],
      [issuer |-> 999999990, client |-> 123456789, address |-> <<"rua", "lisboa">>],
      [issuer |-> None, client |-> 123456789, address |-> <<>>],
      [issuer |-> None, client |-> None, address |-> <<"rua">>] }

Line(label, figure) == IF figure = None THEN <<>> ELSE <<Words(label) \o <<Amount(figure)>> >>

(* The rows of a paper.  What a paper does not say has no row.             *)
Rows(says, parties, rate, heading) ==
    << heading, Words(<<"emitida", "em">>) \o <<Day(20260331)>> >> \o
    (IF parties.issuer = None THEN <<>>
     ELSE << Words(<<"dados", "do", "transmitente">>), Words(<<"nome", "ana">>),
             Words(<<"nif">>) \o <<Nif(parties.issuer)>> >>) \o
    << Words(<<"dados", "do", "adquirente">>), Words(<<"nome">>), Words(<<"bento">>) >> \o
    (IF parties.client = None THEN <<>>
     ELSE << Words(<<"identificacao", "fiscal">>) \o <<Nif(parties.client)>> >>) \o
    << Words(<<"morada">> \o parties.address), Words(<<"dados", "da", "prestacao">>),
       Words(<<"descricao", "qtd", "total">>), Words(<<"consultoria", "fiscal">>),
       Words(<<"documento", "emitido", "a", "titulo", "de", "pagamento">>) >> \o
    (IF rate = None THEN <<>> ELSE << <<rate>> \o Words(<<"taxa", "normal">>) >>) \o
    Line(<<"valor", "iliquido">>, says.base) \o
    Line(<<"valor", "do", "iva", "sem", "retencao">>, says.total) \o
    Line(<<"iva">>, says.iva) \o Line(<<"imposto", "do", "selo">>, says.stamp) \o
    Line(<<"total", "a", "pagar">>, says.net) \o Line(<<"total", "do", "documento">>, says.total) \o
    Line(<<"retencao", "na", "fonte", "irs">>, says.retention)

FR == Words(<<"fatura-recibo">>) \o <<Number(1)>>
Invoice == Words(<<"fatura">>)

Laid(row, k) ==
    << Op("Tm", 500, 8000 - 120 * k), Put("Tj", FALSE, <<Front(row)>>),
       Op("Tm", 3000, 8000 - 120 * k + 10), Put("Tj", FALSE, <<<<Last(row)>>>>) >>

Program(list) ==
    <<Font("F1", 90), Op("BT", 0, 0)>> \o FlattenSeq([k \in DOMAIN list |-> Laid(list[k], k)])

Paper(says, parties, rate, heading) ==
    [File(Usual(Ref(4), NarrowFont) \o
          <<Entry(4, Content(Stream(Program(Rows(says, parties, rate, heading)))))>>)
     EXCEPT !.says = [says EXCEPT !.issuer = parties.issuer,
                                  !.rate = IF rate = None THEN None ELSE rate.n]]

Own == [issuer |-> 123456789, client |-> 999999990, address |-> <<"rua", "lisboa">>]

MCDocuments ==
    Files \union
    {Paper(says, parties, None, FR) : says \in Amounts, parties \in Parties} \union
    {Paper(says, Own, rate, Invoice) :
        says \in {s \in Amounts : s.base # None}, rate \in {PercentInFull(2300), Percent(10000)}}

InPlace(things) ==
    {v.direct : v \in {w \in UNION {ToSet(d.kids.array) : d \in {t \in things : IsArray(t.kids)}} :
                        IsDirect(w)}}

MCDictionaries ==
    LET things == UNION {{e.object : e \in ToSet(d.entries)} : d \in MCDocuments} \ {Absent}
    IN  things \union InPlace(things)

MCTypedInto ==
    [number |-> {7, None}, date |-> {Date(2026, 1, 31), None},
     name |-> {<<Word("carla")>>, None}, nif |-> {None, 123456789}, country |-> {"DE", None},
     base |-> {Blank, Text(FALSE, <<Block(900, 3)>>, <<>>), Text(FALSE, <<Block(1, 1), Block(234, 3)>>, <<".">>)},
     ivaRate |-> {Blank, Text(FALSE, <<Block(23, 2)>>, <<>>)},
     retentionRate |-> {Blank, Text(FALSE, <<Block(25, 2)>>, <<>>)}]
=============================================================================
