-------------------------------- MODULE Chunker --------------------------------
(***************************************************************************)
(* chunker.py: a Bulletin's text, cut into the chunks that are indexed.    *)
(* A line is a record of what kind the patterns take it for and how many   *)
(* characters it has; a block and a chunk name their lines by position, so *)
(* what a chunk holds can be told from where it came.                      *)
(*   "row", "sep"   begins with | and has two; sep is |---|---|            *)
(*   "html", "fence" begins with ```html; with ``` only                    *)
(***************************************************************************)
EXTENDS Naturals, Sequences, SequencesExt, FiniteSetsExt

CONSTANTS table_max_chars, section_max_chars, chunk_max_chars, chunk_overlap_chars,
          Footnote        \* a text this long is no footnote

ASSUME ChunkConfigOK ==
    {table_max_chars, section_max_chars, chunk_max_chars, chunk_overlap_chars, Footnote} \subseteq Nat

LineKinds == {"heading", "row", "sep", "blank", "text", "html", "fence"}
IsTable(line) == line.kind \in {"row", "sep"}
Fences(line) == line.kind \in {"html", "fence"}

-----------------------------------------------------------------------------
(* Blocks, line by line: inside is the type of the block that is open.     *)
NewBlock(acc, type, i) ==
    [acc EXCEPT !.blocks = Append(@, [type |-> type, lines |-> <<i>>, heading |-> acc.heading]), !.inside = type]
Continues(acc, i) == [acc EXCEPT !.blocks[Len(acc.blocks)].lines = Append(@, i)]
Adds(acc, type, i) == IF acc.inside = type THEN Continues(acc, i) ELSE NewBlock(acc, type, i)

\* One blank line is tolerated in a table, if a row follows it.
BlankInTable(text, acc, i) ==
    /\ acc.inside = "table" /\ text[i].kind = "blank"
    /\ i < Len(text) /\ IsTable(text[i + 1])

TakesLine(text, acc, i) ==
    CASE acc.inside = "html" -> IF Fences(text[i]) THEN [Continues(acc, i) EXCEPT !.inside = "none"]
                                                   ELSE Continues(acc, i)
      [] acc.inside # "html" /\ text[i].kind = "heading" -> [acc EXCEPT !.heading = i, !.inside = "none"]
      [] acc.inside # "html" /\ text[i].kind = "html" -> NewBlock(acc, "html", i)
      [] acc.inside # "html" /\ IsTable(text[i]) -> Adds(acc, "table", i)
      [] acc.inside # "html" /\ BlankInTable(text, acc, i) -> Continues(acc, i)
      [] OTHER -> Adds(acc, "text", i)

Solid(text, i) == text[i].kind # "blank"
Strip(text, lines) ==
    LET solid == {k \in DOMAIN lines : Solid(text, lines[k])}
    IN IF solid = {} THEN <<>> ELSE SubSeq(lines, Min(solid), Max(solid))

_split_into_blocks(text) ==
    LET all == FoldLeft(LAMBDA acc, i : TakesLine(text, acc, i),
                        [blocks |-> <<>>, heading |-> 0, inside |-> "none"], [i \in DOMAIN text |-> i]).blocks
        stripped == [b \in DOMAIN all |->
                        IF all[b].type = "text" THEN [all[b] EXCEPT !.lines = Strip(text, @)] ELSE all[b]]
    IN SelectSeq(stripped, LAMBDA block : block.lines # <<>>)

-----------------------------------------------------------------------------
Chars(text, lines) ==
    IF lines = <<>> THEN 0 ELSE FoldLeft(LAMBDA n, i : n + text[i].n, Len(lines) - 1, lines)
Joined(text, parts) ==      \* parts with an empty line between them
    IF parts = <<>> THEN 0 ELSE FoldLeft(LAMBDA n, p : n + Chars(text, p), 2 * (Len(parts) - 1), parts)

(* text, table and a footnote become one section if they fit.              *)
_merge_into_sections(text, blocks) ==
    LET TypeAt(i) == IF i \in DOMAIN blocks THEN blocks[i].type ELSE "none"
        Parts(i) == [k \in 1..(IF TypeAt(i + 2) = "text" /\ Chars(text, blocks[i + 2].lines) < Footnote
                               THEN 3 ELSE 2) |-> blocks[i + k - 1].lines]
        Merges(i) == /\ TypeAt(i) = "text" /\ TypeAt(i + 1) = "table"
                     /\ Joined(text, Parts(i)) <= section_max_chars
        Section(i) == [type |-> "section", lines |-> FlattenSeq(Parts(i)),
                       heading |-> IF blocks[i].heading # 0 THEN blocks[i].heading ELSE blocks[i + 1].heading]
        from[i \in 1..(Len(blocks) + 3)] ==
            CASE i > Len(blocks) -> <<>>
              [] i <= Len(blocks) /\ Merges(i) -> <<Section(i)>> \o from[i + Len(Parts(i))]
              [] OTHER -> <<blocks[i]>> \o from[i + 1]
    IN from[1]

-----------------------------------------------------------------------------
(* Pieces of a list: take adds an item to the current piece, which is cut  *)
(* when it is full and starts again with what carry keeps of it.           *)
Flushed(acc) == IF acc.part = <<>> THEN acc.done ELSE Append(acc.done, acc.part)

\* Mutant: what is left at the end is not flushed.
ForgetsLast(acc) == IF acc.done = <<>> THEN Flushed(acc) ELSE acc.done

Cuts(acc) == Flushed(acc)

HeaderOf(text, lines) ==
    LET seps == {k \in DOMAIN lines : text[lines[k]].kind = "sep"}
    IN SubSeq(lines, 1, IF seps = {} THEN 1 ELSE Min(seps))

_chunk_table(text, lines) ==
    LET header == HeaderOf(text, lines)
        empty == Chars(text, header) + 1
        Row(acc, i) ==
            LET full == acc.len + text[i].n + 1 > table_max_chars /\ acc.part # <<>>
            IN IF full THEN [done |-> Append(acc.done, acc.part), part |-> <<i>>, len |-> empty + text[i].n + 1]
                       ELSE [acc EXCEPT !.part = Append(@, i), !.len = @ + text[i].n + 1]
        pieces == Cuts(FoldLeft(Row, [done |-> <<>>, part |-> <<>>, len |-> empty],
                                  SubSeq(lines, Len(header) + 1, Len(lines))))
    IN IF Chars(text, lines) <= table_max_chars \/ pieces = <<>>
       THEN <<lines>> ELSE [p \in DOMAIN pieces |-> header \o pieces[p]]

(* Paragraphs are the maximal runs of lines that are not blank.            *)
Paragraphs(text, lines) ==
    LET Line(acc, i) ==
            CASE ~Solid(text, i) -> [acc EXCEPT !.open = FALSE]
              [] Solid(text, i) /\ acc.open -> [acc EXCEPT !.all[Len(acc.all)] = Append(@, i)]
              [] OTHER -> [all |-> Append(acc.all, <<i>>), open |-> TRUE]
    IN FoldLeft(Line, [all |-> <<>>, open |-> FALSE], lines).all

_chunk_text(text, lines) ==
    LET Paragraph(acc, para) ==
            LET n == Chars(text, para)
                kept == IF chunk_overlap_chars > 0 /\ acc.part # <<>>
                           /\ Chars(text, Last(acc.part)) <= chunk_overlap_chars
                        THEN <<Last(acc.part)>> ELSE <<>>
            IN IF acc.len + n + 2 > chunk_max_chars /\ acc.part # <<>>
               THEN [done |-> Append(acc.done, acc.part), part |-> Append(kept, para),
                     len |-> Joined(text, kept) + n + 2]
               ELSE [acc EXCEPT !.part = Append(@, para), !.len = @ + n + 2]
    IN Cuts(FoldLeft(Paragraph, [done |-> <<>>, part |-> <<>>, len |-> 0], Paragraphs(text, lines)))

(* The chunks of a file, in order; parts are the paragraphs of a text       *)
(* chunk, and one list of lines otherwise.  Ids and the prefix with the     *)
(* document's name are layout.                                             *)
Chunks(text, block) ==
    LET type == IF block.type = "html" THEN "html_fallback" ELSE block.type
        Chunk(parts) == [type |-> type, parts |-> parts, heading |-> block.heading]
        pieces == IF block.type = "section" THEN << <<block.lines>> >>
                  ELSE IF block.type = "table"
                       THEN LET rows == _chunk_table(text, block.lines) IN [p \in DOMAIN rows |-> <<rows[p]>>]
                       ELSE _chunk_text(text, block.lines)
    IN [p \in DOMAIN pieces |-> Chunk(pieces[p])]

chunk_file(text) ==
    LET blocks == _merge_into_sections(text, _split_into_blocks(text))
    IN FlattenSeq([b \in DOMAIN blocks |-> Chunks(text, blocks[b])])

-----------------------------------------------------------------------------
LinesOf(chunk) == FlattenSeq(chunk.parts)

(* Nothing of a Bulletin is lost for the search: every line that is neither *)
(* blank nor a heading is in a chunk.  A cut table repeats its header over  *)
(* every piece, and a chunk is over its limit only if one row, or one       *)
(* paragraph with what overlaps, already is.  A section's table is whole.   *)
ChunksHoldTheFile(text) ==
    LET chunks == chunk_file(text)
        whole == {b \in Range(_split_into_blocks(text)) : b.type = "table"}
    IN /\ \A i \in DOMAIN text : Solid(text, i) /\ text[i].kind # "heading" =>
              \E c \in DOMAIN chunks : i \in Range(LinesOf(chunks[c]))
       /\ \A c \in DOMAIN chunks :
              LET chunk == chunks[c]
                  lines == LinesOf(chunk)
              IN CASE chunk.type = "table" ->
                        \E table \in whole :
                            LET header == HeaderOf(text, table.lines)
                            IN /\ IsPrefix(header, lines) /\ Range(lines) \subseteq Range(table.lines)
                               /\ Chars(text, lines) <= table_max_chars \/ Len(lines) <= Len(header) + 1
                   [] chunk.type = "section" ->
                        \E table \in whole : Range(table.lines) \subseteq Range(lines)
                   [] OTHER -> \/ Joined(text, chunk.parts) <= chunk_max_chars \/ Len(chunk.parts) = 1
                               \/ /\ Len(chunk.parts) = 2
                                  /\ Chars(text, chunk.parts[1]) <= chunk_overlap_chars
=============================================================================
