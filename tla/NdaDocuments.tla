---------------------------- MODULE NdaDocuments ----------------------------
(***************************************************************************)
(* NDA documents: the compiler and reader of nda_document.rs with the      *)
(* Merkle root and the signature section, and the file converters of       *)
(* nda_converter.rs.                                                       *)
(*                                                                         *)
(* A string is a sequence of small numbers.  A cell of the string pool is  *)
(* a length or a character; the two bytes of a length are one cell, and a  *)
(* length is kept modulo LengthMod (2^16 in the code).  The hash is a      *)
(* constructor, so two hashes are equal only for equal inputs.             *)
(*                                                                         *)
(* Visual positions and colours are left out; a display command is its     *)
(* type and its content.                                                   *)
(***************************************************************************)
EXTENDS Naturals, Sequences, FiniteSets, SequencesExt, TLC

CONSTANTS
  TripleInputs, Strings,      \* triples, and contents of commands
  LengthMod,                  \* 2^16: what a length prefix can hold
  MaxTriples, MaxCommands,    \* bounds on a document's size
  MAX_TRIPLES,                \* what the reader accepts
  SigMark, SigCells,          \* the signature section's length field and size
  Sheets, SharedItems, Docs, Paragraphs,   \* inputs of the converters
  CsvRows, CsvCols, LineLimit, DumpLimit, DumpWidth, DumpSizes

HEADER_SIZE == 52
TRIPLE_SIZE == 12
COMMAND_SIZE == 17
Bar == 2                      \* the character '|'
Garbled == 9                  \* a byte that is in no UTF-8 text
NoDigit == 8                  \* a character that is no digit, in a converter's input

VARIABLES
  triples, commands,          \* NdaCompiler.triples, NdaCompiler.commands
  doc,                        \* the compiled file, or NoDoc
  damaged,                    \* whether it was changed since
  conv                        \* a converter's input and output, or NoConv

docVars == <<triples, commands, doc, damaged, conv>>
NoDoc == <<>>
NoConv == <<>>

(***************************************************************************)
(* The compiler                                                            *)
(***************************************************************************)
EmptyPool == [at |-> (<<>> :> 0), data |-> <<0>>]

\* A mutant of GetOrAdd: the offset of a new string is that of its text.
GetOrAddText(p, s) ==
  IF s \in DOMAIN p.at THEN p
  ELSE [at |-> p.at @@ (s :> Len(p.data) + 1), data |-> p.data \o <<Len(s) % LengthMod>> \o s]

\* get_or_add_string: a string that is there keeps its offset.
GetOrAdd(p, s) ==
  IF s \in DOMAIN p.at THEN p
  ELSE [at |-> p.at @@ (s :> Len(p.data)), data |-> p.data \o <<Len(s) % LengthMod>> \o s]

Contents == [i \in DOMAIN commands |-> commands[i].content]
Pool == FoldLeft(GetOrAdd, EmptyPool, FlattenSeq(triples) \o Contents)

\* A mutant of NextLevel: the odd one is left out.
NextLevelDropsOdd(l) == [i \in 1 .. Len(l) \div 2 |-> <<1, l[2 * i - 1], l[2 * i]>>]
\* One round of the Merkle tree: pairs are hashed, an odd one is promoted.
NextLevel(l) ==
  [i \in 1 .. (Len(l) + 1) \div 2 |->
     IF 2 * i <= Len(l) THEN <<1, l[2 * i - 1], l[2 * i]>> ELSE l[2 * i - 1]]

RECURSIVE RootOf(_)
RootOf(l) == IF Len(l) = 1 THEN l[1] ELSE RootOf(NextLevel(l))

Leaf(t) == <<0, t[1] \o <<Bar>> \o t[2] \o <<Bar>> \o t[3]>>
MerkleRoot(ts) == IF ts = <<>> THEN <<>> ELSE RootOf([i \in DOMAIN ts |-> Leaf(ts[i])])

Compiled ==
  LET pool == Pool IN
  [magic    |-> TRUE,
   root     |-> MerkleRoot(triples),
   off      |-> HEADER_SIZE + Len(triples) * TRIPLE_SIZE + Len(commands) * COMMAND_SIZE,
   triples  |-> [i \in DOMAIN triples |-> [k \in 1..3 |-> pool.at[triples[i][k]]]],
   commands |-> [i \in DOMAIN commands |->
                   [type |-> commands[i].type, content |-> pool.at[commands[i].content]]],
   pool     |-> pool.data,
   signed   |-> <<>>]

\* compile_signed appends the section; `signed` is what the signature covers.
SigTail == [i \in 1 .. SigCells |-> IF i = 1 THEN SigMark ELSE 0]
CompiledSigned ==
  LET body == Compiled IN [body EXCEPT !.pool = @ \o SigTail, !.signed = <<body>>]

(***************************************************************************)
(* The reader                                                              *)
(***************************************************************************)
DataLen(d) == HEADER_SIZE + Len(d.triples) * TRIPLE_SIZE + Len(d.commands) * COMMAND_SIZE
                + Len(d.pool)
ExpectedMin(d) == HEADER_SIZE + Len(d.triples) * TRIPLE_SIZE + Len(d.commands) * COMMAND_SIZE

\* data[string_pool_offset..]
ReadPool(d) == SubSeq(d.pool, 1 + d.off - ExpectedMin(d), Len(d.pool))

\* A mutant of OffsetValid: the text's end is not looked at.
OffsetValidStart(pool, o) == o = 0 \/ o + 1 <= Len(pool)
OffsetValid(pool, o) ==
  o = 0 \/ (o + 1 <= Len(pool) /\ o + 1 + pool[o + 1] <= Len(pool))

\* NdaDocument::read, Ok or Err.
ReadOk(d) ==
  /\ d.magic
  /\ Len(d.triples) <= MAX_TRIPLES
  /\ d.off <= DataLen(d) /\ d.off >= ExpectedMin(d)
  /\ LET pool == ReadPool(d) IN
     /\ \A i \in DOMAIN d.triples : \A k \in 1..3 : OffsetValid(pool, d.triples[i][k])
     /\ \A i \in DOMAIN d.commands :
          d.commands[i].type \in 1..4 /\ OffsetValid(pool, d.commands[i].content)

\* get_string: [ok, val].  Unlike read, it looks at the encoding.
BytesAt(pool, o) == SubSeq(pool, o + 2, o + 1 + pool[o + 1])
GetString(pool, o) ==
  LET failed == [ok |-> FALSE, val |-> <<>>] IN
  IF o = 0 THEN [ok |-> TRUE, val |-> <<>>]
  ELSE IF o + 1 > Len(pool) THEN failed
  ELSE IF o + 1 + pool[o + 1] > Len(pool) THEN failed
  ELSE IF Garbled \in Range(BytesAt(pool, o)) THEN failed
  ELSE [ok |-> TRUE, val |-> BytesAt(pool, o)]

ReadTriples(d) ==
  [i \in DOMAIN d.triples |-> [k \in 1..3 |-> GetString(ReadPool(d), d.triples[i][k]).val]]
ReadCommands(d) ==
  [i \in DOMAIN d.commands |->
     [type |-> d.commands[i].type, content |-> GetString(ReadPool(d), d.commands[i].content).val]]

TriplesResolve(d) ==
  \A i \in DOMAIN d.triples : \A k \in 1..3 : GetString(ReadPool(d), d.triples[i][k]).ok
\* verify_merkle: recompute_merkle_root fails with the first string that does.
VerifyMerkle(d) == TriplesResolve(d) /\ MerkleRoot(ReadTriples(d)) = d.root

HasSignature(d) ==
  /\ Len(d.pool) >= SigCells \/ DataLen(d) >= HEADER_SIZE + 100
  /\ ReadOk(d)
  /\ Len(d.pool) >= SigCells /\ d.pool[Len(d.pool) - SigCells + 1] = SigMark

\* External: a signature verifies for the bytes that were signed, and no others.
VerifySignature(d) ==
  /\ HasSignature(d) /\ d.signed # <<>>
  /\ [d EXCEPT !.pool = SubSeq(@, 1, Len(@) - SigCells), !.signed = <<>>] = d.signed[1]

(***************************************************************************)
(* The converters                                                          *)
(***************************************************************************)
\* convert_csv: the triples of the cells of the first rows and columns.
Smaller(a, b) == IF a < b THEN a ELSE b
CsvCells(rows) ==
  {[coord |-> <<r, c>>, val |-> rows[r][c]] :
     <<r, c>> \in {<<r, c>> \in (1..Smaller(Len(rows), CsvRows)) \X (1..CsvCols) : c <= Len(rows[r])}}

\* extract_xml_texts over the events of sharedStrings.xml: one entry per <t>.
SharedEvents(items) == FlattenSeq([i \in DOMAIN items |->
  FlattenSeq([k \in DOMAIN items[i] |->
    <<[ev |-> "start", text |-> 0], [ev |-> "text", text |-> items[i][k]], [ev |-> "end", text |-> 0]>>])])

ExtractStep(st, e) ==
  CASE e.ev = "start" -> [st EXCEPT !.inside = TRUE, !.buf = <<>>]
    [] e.ev = "text" /\ st.inside -> [st EXCEPT !.buf = Append(@, e.text)]
    [] e.ev = "end" /\ st.inside -> [st EXCEPT !.inside = FALSE, !.out = Append(@, st.buf)]
    [] OTHER -> st
ExtractXmlTexts(events) ==
  FoldLeft(ExtractStep, [inside |-> FALSE, buf |-> <<>>, out |-> <<>>], events).out

\* A cell of type s holds an index into the shared strings, counted from 0; one
\* that is out of range or no number leaves the coordinate as it is.
SharedCell(shared, idx) == IF idx < Len(shared) THEN <<shared[idx + 1]>> ELSE <<>>
CellValue(shared, cell) ==
  IF cell.coord = 0 \/ cell.value = <<>> THEN <<>>
  ELSE IF cell.type # "s" THEN <<cell.value>>
  ELSE IF NoDigit \in Range(cell.value) THEN <<>>
  ELSE SharedCell(shared, cell.value[1])

\* parse_xlsx_cells: a cell in progress; it is stored at its end tag.
CellEnd(shared, st) ==
  LET val == CellValue(shared, st)
  IN [st EXCEPT !.out = IF val = <<>> THEN @ ELSE (st.coord :> val[1]) @@ @]
\* A mutant: the value of a cell without one is that of the cell before.
CellStepKeeps(shared, st, e) ==
  CASE e.ev = "c" -> [st EXCEPT !.coord = e.coord, !.type = e.type]
    [] e.ev = "v" -> [st EXCEPT !.value = e.value]
    [] OTHER -> CellEnd(shared, st)
CellStep(shared, st, e) ==
  CASE e.ev = "c" -> [st EXCEPT !.coord = e.coord, !.type = e.type, !.value = <<>>]
    [] e.ev = "v" -> [st EXCEPT !.value = @ \o e.value]
    [] OTHER -> CellEnd(shared, st)

CellEvents(sheet) == FlattenSeq([i \in DOMAIN sheet |->
  <<[ev |-> "c", coord |-> sheet[i].coord, type |-> sheet[i].type, value |-> <<>>]>>
  \o (IF sheet[i].value = <<>> THEN <<>>
      ELSE <<[ev |-> "v", coord |-> 0, type |-> "", value |-> sheet[i].value]>>)
  \o <<[ev |-> "end", coord |-> 0, type |-> "", value |-> <<>>]>>])

ParseXlsxCells(sheet, shared) ==
  FoldLeft(LAMBDA st, e : CellStep(shared, st, e),
           [coord |-> 0, type |-> "", value |-> <<>>, out |-> <<>>], CellEvents(sheet)).out

\* parse_docx_paragraphs: a paragraph is a sequence of texts and of paragraphs.
RECURSIVE DocxEvents(_)
DocxEvents(p) ==
  <<[ev |-> "p", text |-> 0]>>
  \o FlattenSeq([i \in DOMAIN p |-> IF p[i].nested # <<>> THEN DocxEvents(p[i].nested)
                                    ELSE <<[ev |-> "t", text |-> p[i].text]>>])
  \o <<[ev |-> "/p", text |-> 0]>>

DocxStep(st, e) ==
  CASE e.ev = "p" -> [st EXCEPT !.inside = TRUE, !.buf = <<>>]
    [] e.ev = "t" /\ st.inside -> [st EXCEPT !.buf = Append(@, e.text)]
    [] e.ev = "/p" /\ st.inside ->
         [st EXCEPT !.inside = FALSE, !.out = IF st.buf = <<>> THEN @ ELSE Append(@, st.buf)]
    [] OTHER -> st
ParseDocx(paras) ==
  FoldLeft(DocxStep, [inside |-> FALSE, buf |-> <<>>, out |-> <<>>],
           FlattenSeq([i \in DOMAIN paras |-> DocxEvents(paras[i])])).out

\* The wrapping of convert_docx; a word is its length.
\* A mutant: the word that does not fit is dropped with its line.
Width(line) == FoldLeft(LAMBDA n, w : n + w, 0, line) + (IF line = <<>> THEN 0 ELSE Len(line) - 1)
WrapStepDrops(st, w) ==
  IF Width(st.line) + 1 + w > LineLimit
  THEN [out |-> Append(st.out, st.line), line |-> <<>>]
  ELSE [st EXCEPT !.line = Append(@, w)]
WrapStep(st, w) ==
  IF Width(st.line) + 1 + w > LineLimit
  THEN [out |-> Append(st.out, st.line), line |-> <<w>>]
  ELSE [st EXCEPT !.line = Append(@, w)]
Wrapped(words) ==
  LET end == FoldLeft(WrapStep, [out |-> <<>>, line |-> <<>>], words)
  IN  IF end.line = <<>> THEN end.out ELSE Append(end.out, end.line)

\* The hex dump of convert_binary: the bytes shown, line by line.
\* A mutant: the last line only if it is full.
DumpLinesFloor(n) ==
  [l \in 1 .. Smaller(n, DumpLimit) \div DumpWidth |-> (l - 1) * DumpWidth + 1 .. Smaller(n, l * DumpWidth)]
DumpLines(n) ==
  [l \in 1 .. (Smaller(n, DumpLimit) + DumpWidth - 1) \div DumpWidth |->
     (l - 1) * DumpWidth + 1 .. Smaller(n, l * DumpWidth)]

-----------------------------------------------------------------------------
DocsInit ==
  /\ triples = <<>> /\ commands = <<>> /\ doc = NoDoc /\ conv = NoConv
  /\ damaged = FALSE

AddTriple ==
  /\ doc = NoDoc /\ conv = NoConv /\ commands = <<>> /\ Len(triples) < MaxTriples
  /\ \E t \in TripleInputs : triples' = Append(triples, t)
  /\ UNCHANGED <<commands, doc, damaged, conv>>

AddCommand ==
  /\ doc = NoDoc /\ conv = NoConv /\ Len(commands) < MaxCommands
  /\ \E s \in Strings : commands' = Append(commands, [type |-> 1, content |-> s])
  /\ UNCHANGED <<triples, doc, damaged, conv>>

Compile ==
  /\ doc = NoDoc /\ conv = NoConv
  /\ doc' \in {Compiled, CompiledSigned}
  /\ UNCHANGED <<triples, commands, damaged, conv>>

\* The file changes on its way to the reader: it is cut, a byte of the pool, an
\* offset, a type or the pool's start is another one.
DamageDocument ==
  /\ doc # NoDoc /\ ~ damaged /\ damaged' = TRUE
  /\ \/ \E n \in 0 .. Len(doc.pool) - 1 : doc' = [doc EXCEPT !.pool = SubSeq(@, 1, n)]
     \/ \E i \in DOMAIN doc.pool : doc' = [doc EXCEPT !.pool[i] = Garbled]
     \/ \E i \in DOMAIN doc.triples, k \in 1..3, o \in 0 .. Len(doc.pool) :
          doc' = [doc EXCEPT !.triples[i][k] = o]
     \/ \E i \in DOMAIN doc.commands, o \in 0 .. Len(doc.pool) :
          doc' = [doc EXCEPT !.commands[i].content = o]
     \/ \E i \in DOMAIN doc.commands : doc' = [doc EXCEPT !.commands[i].type = 0]
     \/ \E n \in {1, 2, 9} : doc' = [doc EXCEPT !.off = @ + n]
     \/ doc' = [doc EXCEPT !.off = @ - 1]
     \/ doc' = [doc EXCEPT !.magic = FALSE]
  /\ UNCHANGED <<triples, commands, conv>>

Convert ==
  /\ doc = NoDoc /\ conv = NoConv /\ triples = <<>> /\ commands = <<>>
  /\ \/ \E rows \in Sheets : conv' = [kind |-> "csv", in |-> rows, out |-> CsvCells(rows)]
     \/ \E items \in SharedItems : conv' = [kind |-> "shared", in |-> items,
                                       out |-> ExtractXmlTexts(SharedEvents(items))]
     \/ \E sheet \in Docs : conv' = [kind |-> "xlsx", in |-> sheet,
                                     out |-> ParseXlsxCells(sheet.cells, sheet.shared)]
     \/ \E paras \in Paragraphs : conv' = [kind |-> "docx", in |-> paras, out |-> ParseDocx(paras)]
     \/ \E words \in BoundedSeq(1 .. 3, 4) : conv' = [kind |-> "wrap", in |-> words, out |-> Wrapped(words)]
     \/ \E n \in DumpSizes : conv' = [kind |-> "dump", in |-> n, out |-> DumpLines(n)]
  /\ UNCHANGED <<triples, commands, doc, damaged>>

DocsNext == AddTriple \/ AddCommand \/ Compile \/ DamageDocument \/ Convert
DocsSpec == DocsInit /\ [][DocsNext]_docVars

-----------------------------------------------------------------------------
Intact == doc # NoDoc /\ ~ damaged
ShortStrings == \A s \in Range(FlattenSeq(triples) \o Contents) : Len(s) < LengthMod

\* What the compiler writes, signed or not, the reader reads back as the same
\* triples and commands, and the root verifies: shared strings, the reserved
\* offset 0 and the signature behind the pool do not disturb each other
\* (compile, compile_signed, read, verify_merkle).
CompiledReads ==
  Intact /\ ShortStrings =>
    /\ ReadOk(doc)
    /\ ReadTriples(doc) = triples /\ ReadCommands(doc) = commands
    /\ VerifyMerkle(doc)
    /\ doc.signed # <<>> => VerifySignature(doc)

\* Whatever happened to the file, the bytes at every offset of a document that
\* was read lie within its pool: get_string fails of nothing but their encoding,
\* and if the root verifies then for no triple (read, get_string,
\* recompute_merkle_root).
Offsets(d) ==
  {d.triples[i][k] : i \in DOMAIN d.triples, k \in 1..3}
    \cup {d.commands[i].content : i \in DOMAIN d.commands}
ReadResolves ==
  doc # NoDoc /\ ReadOk(doc) =>
    LET pool == ReadPool(doc) IN
    /\ \A o \in Offsets(doc) \ {0} :
         /\ o + 1 <= Len(pool) /\ o + 1 + pool[o + 1] <= Len(pool)
         /\ GetString(pool, o).ok \/ Garbled \in Range(BytesAt(pool, o))
    /\ VerifyMerkle(doc) => TriplesResolve(doc)

\* A damaged file that still reads and verifies has the triples that were
\* compiled, as far as "S|P|O" tells them apart (recompute_merkle_root).
MerkleCatches ==
  doc # NoDoc /\ ShortStrings /\ ReadOk(doc) /\ VerifyMerkle(doc) =>
    \A i \in DOMAIN triples : Leaf(ReadTriples(doc)[i]) = Leaf(triples[i])

\* No word of a paragraph is lost or moved by the wrapping (convert_docx).
WrapKeepsWords == conv # NoConv /\ conv.kind = "wrap" => FlattenSeq(conv.out) = conv.in

\* A cell's value is its own, or the shared string it names: a coordinate has
\* that of the last of its cells that has one, and none if none has
\* (parse_xlsx_cells).
CellsOwnValues ==
  conv # NoConv /\ conv.kind = "xlsx" =>
    LET cells == conv.in.cells
        Val(i) == CellValue(conv.in.shared, cells[i])
        valued == {i \in DOMAIN cells : Val(i) # <<>>} IN
    /\ DOMAIN conv.out = {cells[i].coord : i \in valued}
    /\ \A i \in valued : (\A j \in valued : j > i => cells[j].coord # cells[i].coord)
                           => conv.out[cells[i].coord] = Val(i)[1]

\* The dump shows every byte up to its limit once, in lines of the width, and
\* at most the rest of its last line beyond it (convert_binary).
DumpCovers ==
  conv # NoConv /\ conv.kind = "dump" =>
    /\ 1 .. Smaller(conv.in, DumpLimit) \subseteq UNION Range(conv.out)
    /\ UNION Range(conv.out) \subseteq 1 .. conv.in
    /\ \A i, j \in DOMAIN conv.out : i # j => conv.out[i] \intersect conv.out[j] = {}

\* A compiled document reads back whole, every reference in it stays within it, a changed
\* triple is noticed, and the converters move nothing and drop no word, cell or byte that
\* they mean to keep.
DocumentsKept ==
    /\ CompiledReads /\ ReadResolves /\ MerkleCatches
    /\ WrapKeepsWords /\ CellsOwnValues /\ DumpCovers

-----------------------------------------------------------------------------
(* Claims that do not hold; the README's table says why. *)

\* A document that was read can be shown: its strings' encoding is not checked.
ReadResolvesAlways ==
  doc # NoDoc /\ ReadOk(doc) => \A o \in Offsets(doc) : GetString(ReadPool(doc), o).ok

\* A cell that has a value is stored: not one whose shared index is none.
EveryValuedCellStored ==
  conv # NoConv /\ conv.kind = "xlsx" =>
    \A i \in DOMAIN conv.in.cells :
      conv.in.cells[i].coord # 0 /\ conv.in.cells[i].value # <<>>
        => conv.in.cells[i].coord \in DOMAIN conv.out

\* Every string is read back: a longer one loses all but its length modulo 2^16.
LongStringsKept == Intact => ReadTriples(doc) = triples /\ ReadCommands(doc) = commands

\* "Verify the document's Merkle root integrity": the commands are not in it.
MerkleCoversCommands ==
  doc # NoDoc /\ ReadOk(doc) /\ VerifyMerkle(doc) /\ ShortStrings => ReadCommands(doc) = commands

\* An unsigned document has no signature: a text that looks like one is taken for it.
UnsignedHasNone == doc # NoDoc /\ doc.signed = <<>> => ~ HasSignature(doc)

\* A converted sheet has all its cells: 15 rows and 4 columns are kept.
EveryCellStored ==
  conv # NoConv /\ conv.kind = "csv" =>
    \A r \in DOMAIN conv.in : \A c \in DOMAIN conv.in[r] :
      [coord |-> <<r, c>>, val |-> conv.in[r][c]] \in conv.out

\* A shared string is found at its index: an item of several runs shifts the rest.
SharedIndexRight ==
  conv # NoConv /\ conv.kind = "shared" =>
    \A i \in DOMAIN conv.in : SharedCell(conv.out, i - 1) = <<conv.in[i]>>

\* Every text of a paragraph is kept: one inside another ends it.
RECURSIVE TextsOf(_)
TextsOf(p) == UNION {IF p[i].nested # <<>> THEN TextsOf(p[i].nested) ELSE {p[i].text} : i \in DOMAIN p}
ParagraphsKept ==
  conv # NoConv /\ conv.kind = "docx" =>
    UNION {TextsOf(conv.in[i]) : i \in DOMAIN conv.in} \subseteq UNION {Range(conv.out[i]) : i \in DOMAIN conv.out}
=============================================================================
