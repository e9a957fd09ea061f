--------------------------------- MODULE Pdf ---------------------------------
(***************************************************************************)
(* The reader of PDF files (crates/core/src/pdf.rs), one loop turn at a    *)
(* time: the objects of the file, the tree of its pages, and the content   *)
(* of each page, whose text is put together again in rows.                 *)
(*                                                                         *)
(* A document is what its bytes say: the objects in the order they stand,  *)
(* each a dictionary or not, of which the keys the reader asks for are     *)
(* kept.  A key holds Absent, a reference, an array of values or a direct  *)
(* dictionary.  A string is a sequence of tokens.  Of matrices only the    *)
(* translation is kept; lengths are tenths of a point.                     *)
(***************************************************************************)
EXTENDS Integers, SequencesExt, Ranks

CONSTANTS
    Absent,     \* the value of a key a dictionary does not have
    Dictionaries, \* the dictionaries files are made of
    Documents,  \* the documents that may be read
    MaxDepth,   \* how deep the tree of pages is followed: 64 in the program
    Glyphs      \* the token that stands for what a wrong decoder makes of a text

ASSUME MaxDepthAssumption == MaxDepth \in Nat

IsRef(v) == v # Absent /\ "ref" \in DOMAIN v
IsArray(v) == v # Absent /\ "array" \in DOMAIN v
IsDirect(v) == v # Absent /\ "direct" \in DOMAIN v

IsList(list) == list \in Seq(ToSet(list))

(* A dictionary that is written in place is one of Dictionaries too.       *)
IsValue(v) ==
    /\ IsDirect(v) => v.direct \in Dictionaries
    /\ IsArray(v) => IsList(v.array)

IsOperator(o) == o.x \in Int /\ o.y \in Int /\ IsList(o.strings)

ASSUME DocumentsAssumption ==
    /\ Absent \notin Dictionaries
    /\ \A d \in Dictionaries :
          /\ IsValue(d.pages) /\ IsValue(d.kids) /\ IsValue(d.contents)
          /\ IsArray(d.kids) => \A k \in DOMAIN d.kids.array : IsValue(d.kids.array[k])
          /\ d.stream # Absent =>
                /\ IsList(d.stream.program)
                /\ \A k \in DOMAIN d.stream.program : IsOperator(d.stream.program[k])
    /\ \A d \in Documents :
          /\ IsList(d.entries)
          /\ \A k \in DOMAIN d.entries :
                d.entries[k].num \in Int /\ d.entries[k].object \in Dictionaries \union {Absent}

VARIABLES
    document,   \* the document being read
    stage,      \* objects, tree, pages, content, rows, done
    scanned,    \* entries of the document looked at
    objects,    \* the objects kept, by number
    pending,    \* values of the tree still to visit, in order
    pages,      \* the pages found
    page,       \* pages begun
    fonts,      \* the decoders of the page in hand
    streams,    \* its content streams still to read
    program,    \* operators of the stream in hand still to run
    graphics,   \* the state the operators work on
    items,      \* texts placed on the page in hand
    lines,      \* the lines they have been put on so far
    rows,       \* rows of the pages closed
    problems    \* what could not be done

reader == <<document, stage, scanned, objects, pending, pages, page, fonts, streams,
            program, graphics, items, lines, rows, problems>>

IfSo(condition, problem) == IF condition THEN {problem} ELSE {}

(***************************************************************************)
(* Values.                                                                 *)
(***************************************************************************)
(* Only dictionaries are kept as objects: what refers to anything else     *)
(* refers to nothing.                                                      *)
Resolve(v) ==
    IF ~IsRef(v) THEN v
    ELSE IF v.ref \in DOMAIN objects THEN [direct |-> objects[v.ref]] ELSE Absent

Dictionary(v) ==
    LET resolved == Resolve(v)
    IN  IF resolved # Absent /\ "direct" \in DOMAIN resolved THEN resolved.direct ELSE Absent

(* A stream can be read when Flate is its only filter and it inflates.     *)
CannotDecode(object) ==
    /\ object.stream # Absent
    /\ \/ object.stream.filters \ {"FlateDecode"} # {}
       \/ object.stream.filters # {} /\ ~object.stream.inflates

(***************************************************************************)
(* Fonts.                                                                  *)
(***************************************************************************)
Decoder(kind, wide, known) == [kind |-> kind, wide |-> wide, known |-> known]

(* build_font_decoder: the map of characters of the font, when it refers   *)
(* to one; otherwise one byte is one character.                            *)
BuildFontDecoder(font) ==
    LET wide == font # Absent /\ font.wide
        map == IF font = Absent \/ ~IsRef(font.toUnicode) THEN Absent ELSE Dictionary(font.toUnicode)
        mapped == IF map = Absent \/ map.stream = Absent \/ CannotDecode(map) THEN {} ELSE map.stream.cmap
    IN  IF mapped # {} THEN Decoder("CMap", wide, mapped)
        ELSE IF wide THEN Decoder("Silent", wide, {})
        ELSE Decoder("Cp1252", wide, {})

CollectFonts(resources) ==
    LET held == Dictionary(resources)
        table == IF held = Absent THEN Absent ELSE Dictionary(held.font)
    IN  IF table = Absent THEN <<>>
        ELSE [name \in DOMAIN table.fonts |-> BuildFontDecoder(Dictionary(table.fonts[name]))]

(* Characters a map does not know are dropped.  A string written for codes *)
(* of another width is read as other codes: Glyphs stands for what they    *)
(* are, which the map may know or not.                                     *)
Decode(decoder, string) ==
    LET codes == IF string.wide = decoder.wide THEN string.tokens ELSE <<Glyphs>>
    IN  CASE decoder.kind = "Silent" -> <<>>
          [] decoder.kind = "CMap" -> At(codes, {k \in DOMAIN codes : codes[k] \in decoder.known})
          [] decoder.kind = "Cp1252" -> codes

Latin == Decoder("Cp1252", FALSE, {})

(***************************************************************************)
(* Operators of a content stream.                                          *)
(***************************************************************************)
Origin == [x |-> 0, y |-> 0]
Moved(at, x, y) == [x |-> at.x + x, y |-> at.y + y]

(* render_content begins every stream afresh.                              *)
Fresh == [font |-> "", size |-> 0, leading |-> 0, ctm |-> Origin, tm |-> Origin,
          tlm |-> Origin, saved |-> <<>>]

MoveLine(g, x, y) == [g EXCEPT !.tlm = Moved(@, x, y), !.tm = Moved(g.tlm, x, y)]

AfterOperator(g, o) ==
    CASE o.op = "q" -> [g EXCEPT !.saved = <<g.ctm>> \o @]
      [] o.op = "Q" -> IF g.saved = <<>> THEN [g EXCEPT !.ctm = Origin]
                       ELSE [g EXCEPT !.ctm = Head(g.saved), !.saved = Tail(@)]
      [] o.op = "cm" -> [g EXCEPT !.ctm = Moved(@, o.x, o.y)]
      [] o.op = "BT" -> [g EXCEPT !.tm = Origin, !.tlm = Origin]
      [] o.op = "Tf" -> [g EXCEPT !.font = o.name, !.size = o.x]
      [] o.op = "TL" -> [g EXCEPT !.leading = o.x]
      [] o.op = "Td" -> MoveLine(g, o.x, o.y)
      [] o.op = "TD" -> [MoveLine(g, o.x, o.y) EXCEPT !.leading = -o.y]
      [] o.op = "Tm" -> [g EXCEPT !.tm = Moved(Origin, o.x, o.y), !.tlm = Moved(Origin, o.x, o.y)]
      [] o.op \in {"T*", "'", "\""} -> MoveLine(g, 0, -g.leading)
      [] OTHER -> g

Undeclared(g) == g.font \notin DOMAIN fonts

(* show_string, for every string the operator has.                         *)
Shown(g, o) ==
    LET decoder == IF Undeclared(g) THEN Latin ELSE fonts[g.font]
        placed == [k \in DOMAIN o.strings |->
                     [x |-> g.ctm.x + g.tm.x, y |-> g.ctm.y + g.tm.y,
                      size |-> IF g.size > 0 THEN g.size ELSE 100,
                      text |-> Decode(decoder, o.strings[k])]]
    IN  At(placed, {k \in DOMAIN placed : placed[k].text # <<>>})

(***************************************************************************)
(* Rows.                                                                   *)
(***************************************************************************)
Between(n, low, high) == IF n < low THEN low ELSE IF n > high THEN high ELSE n

RowTolerance(size) == Between((size * 45) \div 100, 20, 35)

Distance(a, b) == IF a < b THEN b - a ELSE a - b

Higher(a, b) == a.y > b.y \/ (a.y = b.y /\ a.x < b.x)

NewRow(item) == [y |-> item.y, size |-> item.size, members |-> <<item>>]

Joins(row, item) == Distance(row.y, item.y) <= RowTolerance(row.size)

(* A mutant's form: a row follows the last text put on it.                 *)
PutOnDrifting(list, item) ==
    IF list = <<>> \/ ~Joins(Last(list), item) THEN Append(list, NewRow(item))
    ELSE Append(Front(list),
                [y |-> item.y, size |-> item.size, members |-> Append(Last(list).members, item)])

PutOn(list, item) ==
    IF list = <<>> \/ ~Joins(Last(list), item) THEN Append(list, NewRow(item))
    ELSE LET row == Last(list)
         IN  Append(Front(list),
                    [row EXCEPT !.members = Append(@, item),
                                !.size = IF item.size > @ THEN item.size ELSE @])

(* The texts of a line, from left to right.                                *)
Lefter(a, b) == a.x < b.x

Strung(texts) ==
    LET upTo[k \in 0 .. Len(texts)] == IF k = 0 THEN <<>> ELSE upTo[k - 1] \o texts[k].text
    IN  upTo[Len(texts)]

RowOf(line) == Strung(SortedBy(line.members, Lefter))

(***************************************************************************)
(* Actions.                                                                *)
(***************************************************************************)
Init ==
    /\ document \in Documents
    /\ stage = "objects" /\ scanned = 0 /\ objects = <<>> /\ pending = <<>>
    /\ pages = <<>> /\ page = 0 /\ fonts = <<>> /\ streams = <<>> /\ program = <<>>
    /\ graphics = Fresh /\ items = <<>> /\ lines = <<>> /\ rows = <<>>
    /\ problems = IfSo(document.objectStreams, "object streams")

(* Not a PDF, or one that is encrypted.                                    *)
Refuse ==
    /\ stage = "objects" /\ scanned = 0
    /\ ~document.pdf \/ document.encrypted
    /\ stage' = "done"
    /\ problems' = {IF document.pdf THEN "encrypted" ELSE "not a PDF"}
    /\ UNCHANGED <<document, scanned, objects, pending, pages, page, fonts, streams, program,
                   graphics, items, lines, rows>>

(* A mutant's form: the search goes on after what was kept.                *)
AfterKept(entry) == IF entry.object = Absent THEN scanned ELSE scanned + 1

After(entry) == scanned + 1

(* The first object of a number is the one that counts.                    *)
ScanObject ==
    /\ stage = "objects" /\ document.pdf /\ ~document.encrypted
    /\ scanned < Len(document.entries)
    /\ LET entry == document.entries[scanned + 1] IN
          /\ objects' = IF entry.num \in DOMAIN objects \/ entry.object = Absent THEN objects
                        ELSE [n \in DOMAIN objects \union {entry.num} |->
                              IF n = entry.num THEN entry.object ELSE objects[n]]
          /\ scanned' = After(entry)
    /\ UNCHANGED <<document, stage, pending, pages, page, fonts, streams, program, graphics,
                   items, lines, rows, problems>>

Numbered(type) == InOrder({n \in DOMAIN objects : objects[n].type = type})

Frame(value, resources, depth) == [value |-> value, resources |-> resources, depth |-> depth]

CollectPages ==
    /\ stage = "objects" /\ document.pdf /\ ~document.encrypted
    /\ scanned = Len(document.entries)
    /\ IF DOMAIN objects = {}
       THEN stage' = "done" /\ problems' = {"no objects"} /\ pending' = <<>>
       ELSE /\ stage' = "tree"
            /\ pending' = IF Numbered("Catalog") = <<>> THEN <<>>
                          ELSE <<Frame(objects[Head(Numbered("Catalog"))].pages, Absent, 0)>>
            /\ problems' = problems
    /\ UNCHANGED <<document, scanned, objects, pages, page, fonts, streams, program, graphics,
                   items, lines, rows>>

(* content_objects: one stream or several; an array that is an object of   *)
(* its own was not kept.                                                   *)
ContentObjects(object) ==
    LET held == Resolve(object.contents)
        values == IF IsArray(held) THEN held.array ELSE <<object.contents>>
    IN  At(values, {k \in DOMAIN values : IsRef(values[k]) /\ values[k].ref \in DOMAIN objects})

PageOf(object, resources) == [resources |-> resources, contents |-> ContentObjects(object)]

ResourcesOf(object, inherited) == 
    IF object.resources = Absent THEN inherited ELSE object.resources

Visit ==
    /\ stage = "tree" /\ pending # <<>>
    /\ LET frame == Head(pending)
           node == IF frame.depth > MaxDepth THEN Absent ELSE Dictionary(frame.value)
           resources == ResourcesOf(node, frame.resources)
           kids == Resolve(node.kids)
       IN  \/ /\ node = Absent
              /\ pending' = Tail(pending)
              /\ pages' = pages
           \/ /\ node # Absent /\ node.type = "Page"
              /\ pending' = Tail(pending)
              /\ pages' = Append(pages, PageOf(node, resources))
           \/ /\ node # Absent /\ node.type # "Page"
              /\ pending' = (IF ~IsArray(kids) THEN <<>>
                             ELSE [k \in DOMAIN kids.array |->
                                     Frame(kids.array[k], resources, frame.depth + 1)])
                            \o Tail(pending)
              /\ pages' = pages
    /\ UNCHANGED <<document, stage, scanned, objects, page, fonts, streams, program, graphics,
                   items, lines, rows, problems>>

(* A file whose tree has no page is read through whatever calls itself one.*)
TreeRead ==
    /\ stage = "tree" /\ pending = <<>>
    /\ stage' = "pages"
    /\ LET strays == Numbered("Page") IN
          /\ pages' = IF pages # <<>> THEN pages
                      ELSE [k \in DOMAIN strays |->
                              PageOf(objects[strays[k]], objects[strays[k]].resources)]
          /\ problems' = problems \union IfSo(pages = <<>> /\ strays # <<>>, "page tree")
                                  \union IfSo(pages = <<>> /\ strays = <<>>, "no pages")
    /\ UNCHANGED <<document, scanned, objects, pending, page, fonts, streams, program, graphics,
                   items, lines, rows>>

OpenPage ==
    /\ stage = "pages" /\ page < Len(pages)
    /\ page' = page + 1
    /\ stage' = "content"
    /\ fonts' = CollectFonts(pages[page + 1].resources)
    /\ problems' = problems \union
          IfSo(\E name \in DOMAIN fonts' : fonts'[name].kind = "Silent", "font without a map")
    /\ streams' = pages[page + 1].contents
    /\ items' = <<>>
    /\ UNCHANGED <<document, scanned, objects, pending, pages, program, graphics, lines, rows>>

OpenStream ==
    /\ stage = "content" /\ program = <<>> /\ streams # <<>>
    /\ LET object == objects[Head(streams).ref]
           readable == object.stream # Absent /\ ~CannotDecode(object)
       IN  /\ program' = IF readable THEN object.stream.program ELSE <<>>
           /\ problems' = problems \union IfSo(CannotDecode(object), "stream")
    /\ streams' = Tail(streams)
    /\ graphics' = Fresh
    /\ UNCHANGED <<document, stage, scanned, objects, pending, pages, page, fonts, items, lines,
                   rows>>

Operate ==
    /\ stage = "content" /\ program # <<>>
    /\ LET o == Head(program)
           after == AfterOperator(graphics, o)
       IN  /\ graphics' = after
           /\ items' = items \o Shown(after, o)
           /\ problems' = problems \union
                 IfSo(o.strings # <<>> /\ Undeclared(after) /\ after.font # "", "undeclared font")
    /\ program' = Tail(program)
    /\ UNCHANGED <<document, stage, scanned, objects, pending, pages, page, fonts, streams, lines,
                   rows>>

(* items_to_rows, from the top of the page.                                *)
ClosePage ==
    /\ stage = "content" /\ program = <<>> /\ streams = <<>>
    /\ stage' = "rows"
    /\ items' = SortedBy(items, Higher)
    /\ lines' = <<>>
    /\ UNCHANGED <<document, scanned, objects, pending, pages, page, fonts, streams, program,
                   graphics, rows, problems>>

PutItem ==
    /\ stage = "rows" /\ items # <<>>
    /\ items' = Tail(items)
    /\ lines' = PutOn(lines, Head(items))
    /\ UNCHANGED <<document, stage, scanned, objects, pending, pages, page, fonts, streams,
                   program, graphics, rows, problems>>

KeepRows ==
    /\ stage = "rows" /\ items = <<>>
    /\ stage' = "pages"
    /\ rows' = rows \o [k \in DOMAIN lines |-> RowOf(lines[k])]
    /\ UNCHANGED <<document, scanned, objects, pending, pages, page, fonts, streams, program,
                   graphics, items, lines, problems>>

(* A mutant's form: a document without text is one that says nothing.      *)
FinishQuietly ==
    /\ stage = "pages" /\ page = Len(pages)
    /\ stage' = "done"
    /\ UNCHANGED <<document, scanned, objects, pending, pages, page, fonts, streams, program,
                   graphics, items, lines, rows, problems>>

Finish ==
    /\ stage = "pages" /\ page = Len(pages)
    /\ stage' = "done"
    /\ problems' = problems \union IfSo(pages # <<>> /\ rows = <<>>, "no text")
    /\ UNCHANGED <<document, scanned, objects, pending, pages, page, fonts, streams, program,
                   graphics, items, lines, rows>>

ReaderStep ==
    \/ Refuse \/ ScanObject \/ CollectPages \/ Visit \/ TreeRead
    \/ OpenPage \/ OpenStream \/ Operate \/ ClosePage \/ PutItem
    \/ KeepRows \/ Finish
=============================================================================
