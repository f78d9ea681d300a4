------------------------------- MODULE HtmlTable -------------------------------
(***************************************************************************)
(* html_table_parser.py: the tags of a report's HTML, cell by cell, into a *)
(* grid of texts, and the grid into a Markdown table.                      *)
(*                                                                         *)
(* A tag is a record; a "cell" stands for <td> or <th> with its text and,  *)
(* when it is closed, its end tag.  The text of a cell is its position, so *)
(* that one can tell where it went; Empty is the text of no cell.          *)
(* Escaping, OCR corrections and the suffixes that make names unique are   *)
(* wording and left out.                                                   *)
(***************************************************************************)
EXTENDS Selection, FiniteSetsExt

Empty == 0
NoTable == [occupied |-> <<>>, header_rows |-> 0, row |-> 0, col |-> 1]

(* _occupied is a function from positions <<row, column>> (from 1, 0 when no *)
(* row was opened) to texts.                                               *)
Tag(tag) == [tag |-> tag]
Cell(rowspan, colspan, th, closed) ==
    [tag |-> "cell", rowspan |-> rowspan, colspan |-> colspan, th |-> th, closed |-> closed]

(* Spans count from 1.  One of 0 or less, which int() takes as well, puts   *)
(* the cell nowhere; it is left out.                                        *)
IsTag(t) ==
    IF t.tag = "cell"
    THEN /\ t = Cell(t.rowspan, t.colspan, t.th, t.closed)
         /\ {t.rowspan, t.colspan} \subseteq Nat \ {0} /\ {t.th, t.closed} \subseteq BOOLEAN
    ELSE t.tag \in {"table", "/table", "tr"}

Put(occupied, more) ==
    [p \in DOMAIN occupied \cup DOMAIN more |-> IF p \in DOMAIN more THEN more[p] ELSE occupied[p]]

(* Past the positions that a rowspan above has taken.                      *)
FreeColumn(t) == CHOOSE c \in t.col..(t.col + Cardinality(DOMAIN t.occupied)) :
                     /\ <<t.row, c>> \notin DOMAIN t.occupied
                     /\ \A d \in t.col..(c - 1) : <<t.row, d>> \in DOMAIN t.occupied

\* Mutant: a cell goes where the last one ended.
NextColumn(t) == t.col

StartColumn(t) == FreeColumn(t)

CellEnds(t, cell, text) ==
    LET c == StartColumn(t)
        spanned == (t.row..(t.row + cell.rowspan - 1)) \X (c..(c + cell.colspan - 1))
    IN IF ~cell.closed THEN [t EXCEPT !.col = c]
       ELSE [t EXCEPT !.occupied = Put(@, [p \in spanned |-> IF p = <<t.row, c>> THEN text ELSE Empty]),
                      !.col = c + cell.colspan,
                      !.header_rows = IF cell.th /\ t.row > @ THEN t.row ELSE @]

\* Rows before the first <tr> are not built.
Built(t) == \E p \in DOMAIN t.occupied : p[1] >= 1

Feed(acc, i, tag) ==
    CASE tag.tag = "table" ->
            IF acc.depth = 0 THEN [acc EXCEPT !.depth = 1, !.in_table = TRUE, !.table = NoTable]
                             ELSE [acc EXCEPT !.depth = @ + 1]
      [] tag.tag = "tr" /\ acc.in_table -> [acc EXCEPT !.table.row = @ + 1, !.table.col = 1]
      [] tag.tag = "cell" /\ acc.in_table -> [acc EXCEPT !.table = CellEnds(@, tag, i)]
      [] tag.tag = "/table" ->
            [acc EXCEPT !.depth = IF @ > 0 THEN @ - 1 ELSE 0,
                        !.tables = IF acc.depth = 1 /\ acc.in_table /\ Built(acc.table)
                                   THEN Append(@, acc.table) ELSE @,
                        !.in_table = @ /\ acc.depth # 1]
      [] OTHER -> acc

(* parse_html_tables: a table that is cut off counts as far as it goes.     *)
parse_html_tables(tags) ==
    LET fed == FoldLeft(LAMBDA acc, i : Feed(acc, i, tags[i]),
                        [depth |-> 0, in_table |-> FALSE, table |-> NoTable, tables |-> <<>>],
                        [i \in DOMAIN tags |-> i])
    IN IF fed.in_table /\ Built(fed.table) THEN Append(fed.tables, fed.table) ELSE fed.tables

-----------------------------------------------------------------------------
_build_grid(t) ==
    LET rows == Max({p[1] : p \in DOMAIN t.occupied})
        cols == Max({p[2] : p \in DOMAIN t.occupied})
    IN [r \in 1..rows |-> [c \in 1..cols |-> IF <<r, c>> \in DOMAIN t.occupied THEN t.occupied[<<r, c>>] ELSE Empty]]

(* A header is the sequence of the texts above its column, > in between;    *)
(* without <th> the headers are invented and hold nothing.  Equal texts are *)
(* not repeated in a header: here no two texts are equal.                  *)
_grid_to_markdown(t) ==
    LET grid == _build_grid(t)
        Above(c) == InOrder([r \in 1..t.header_rows |-> grid[r][c]], Nat \ {Empty})
    IN [headers |-> [c \in DOMAIN grid[1] |-> Above(c)],
        rows |-> SubSeq(grid, t.header_rows + 1, Len(grid))]

-----------------------------------------------------------------------------
Markdown(tags) == LET tables == parse_html_tables(tags) IN [k \in DOMAIN tables |-> _grid_to_markdown(tables[k])]

(* Every place of the output that holds this text.                         *)
Places(markdown, text) ==
    LET Lists(k) == markdown[k].headers \o markdown[k].rows
    IN UNION {UNION {{<<k, l, c>> : c \in {n \in DOMAIN Lists(k)[l] : Lists(k)[l][n] = text}}
                     : l \in DOMAIN Lists(k)} : k \in DOMAIN markdown}

(* In well-formed tables, whatever spans there are, each cell's text comes  *)
(* out exactly once, cells of a row keep their order, and no cell is put    *)
(* where another one spans.                                                *)
CellsComeOut(tags) ==
    LET fed == parse_html_tables(tags)
        cells == {i \in DOMAIN tags : /\ tags[i].tag = "cell" /\ tags[i].closed
                                      /\ \E j \in 1..i : /\ tags[j].tag = "table"
                                                         /\ \A k \in j..i : tags[k].tag # "/table"
                                                         /\ \E k \in j..i : tags[k].tag = "tr"}
    IN \A i \in cells :
          /\ Cardinality(Places(Markdown(tags), i)) = 1
          /\ \A k \in DOMAIN fed : \A p \in DOMAIN fed[k].occupied :
                 fed[k].occupied[p] = i =>
                    \A q \in DOMAIN fed[k].occupied :
                        LET j == fed[k].occupied[q]
                        IN /\ j # Empty /\ j < i => q[1] < p[1] \/ (q[1] = p[1] /\ q[2] < p[2])
                           /\ j # Empty /\ j # i => p[1] \notin q[1]..(q[1] + tags[j].rowspan - 1)
                                                    \/ p[2] \notin q[2]..(q[2] + tags[j].colspan - 1)
=============================================================================
