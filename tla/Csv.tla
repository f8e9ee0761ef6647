-------------------------------- MODULE Csv --------------------------------
(***************************************************************************)
(* The delimiter-separated tables of the preview: parseCsv of              *)
(* web/src/components/csv.ts, and the tables a file stands for, written    *)
(* with quotes, doubled quotes and any of the three row breaks.            *)
(*                                                                         *)
(* A text is a sequence of characters; "quote", "lf" and "cr" are those    *)
(* the parser tells apart besides the delimiter.                           *)
(***************************************************************************)
EXTENDS Integers, Sequences

CONSTANTS
    Chars,    \* the characters of a text
    MaxRows,  \* MAX_CSV_ROWS, the header counted
    MaxCols   \* MAX_CSV_COLS

ASSUME CsvAssumption ==
    /\ {"quote", "lf", "cr"} \subseteq Chars
    /\ MaxRows \in Nat \ {0} /\ MaxCols \in Nat \ {0}

(* The parser's variables; "skip" is the index moved on by one, "stop"    *)
(* the early return.                                                      *)
Start == [rows |-> <<>>, row |-> <<>>, field |-> <<>>, inQuotes |-> FALSE,
          truncated |-> FALSE, skip |-> FALSE, stop |-> FALSE]

PushFieldMutOffByOne(s) ==
    IF Len(s.row) <= MaxCols
    THEN [s EXCEPT !.row = Append(@, s.field), !.field = <<>>]
    ELSE [s EXCEPT !.truncated = TRUE, !.field = <<>>]

pushField(s) ==
    IF Len(s.row) < MaxCols
    THEN [s EXCEPT !.row = Append(@, s.field), !.field = <<>>]
    ELSE [s EXCEPT !.truncated = TRUE, !.field = <<>>]

(* A row past the cap is cut off again and ends the parse.                *)
pushRow(s) ==
    LET p == pushField(s) IN
    IF Len(p.rows) < MaxRows
    THEN [p EXCEPT !.rows = Append(@, p.row), !.row = <<>>]
    ELSE [p EXCEPT !.row = <<>>, !.truncated = TRUE, !.stop = TRUE]

Take(s, ch) == [s EXCEPT !.field = Append(@, ch)]

(* One character of the loop, with the one after it.                      *)
Quoted(s, ch, after) ==
    CASE ch = "quote" /\ after = "quote" -> [Take(s, ch) EXCEPT !.skip = TRUE]
      [] ch = "quote" /\ after # "quote" -> [s EXCEPT !.inQuotes = FALSE]
      [] OTHER -> Take(s, ch)

Plain(s, ch, after, delimiter) ==
    CASE ch = "quote" /\ s.field = <<>> -> [s EXCEPT !.inQuotes = TRUE]
      [] ch = delimiter -> pushField(s)
      [] ch \in {"lf", "cr"} ->
            [pushRow(s) EXCEPT !.skip = (ch = "cr" /\ after = "lf")]
      [] OTHER -> Take(s, ch)

Step(s, ch, after, delimiter) ==
    CASE s.stop -> s
      [] s.skip /\ ~s.stop -> [s EXCEPT !.skip = FALSE]
      [] s.inQuotes /\ ~s.skip /\ ~s.stop -> Quoted(s, ch, after)
      [] OTHER -> Plain(s, ch, after, delimiter)

(* The loop from state s, one character after another; the text is        *)
(* followed by the character "after".                                     *)
Feed(s, text, after, delimiter) ==
    LET next(i) == IF i < Len(text) THEN text[i + 1] ELSE after
        run[i \in 0..Len(text)] ==
            IF i = 0 THEN s ELSE Step(run[i - 1], text[i], next(i), delimiter)
    IN run[Len(text)]

(* The flush of a last row that no break has ended; the first row is the  *)
(* header.                                                                *)
Flush(s) == IF ~s.stop /\ (s.field # <<>> \/ s.row # <<>>) THEN pushRow(s) ELSE s

parseCsv(text, delimiter) ==
    LET end == Flush(Feed(Start, text, "end", delimiter))
    IN [rows |-> end.rows, truncated |-> end.truncated]

----------------------------------------------------------------------------
(* What a file stands for: rows of at least one field each.               *)

Tables == Seq(Seq(Seq(Chars)) \ {<<>>})

Breaks == {<<"lf">>, <<"cr">>, <<"cr", "lf">>}

Styles == [quoteAll : BOOLEAN, ended : BOOLEAN, break : Breaks]

Join(seqs, sep) ==
    LET joined[i \in 0..Len(seqs)] ==
          IF i <= 1 THEN IF i = 0 THEN <<>> ELSE seqs[1] ELSE joined[i - 1] \o sep \o seqs[i]
    IN joined[Len(seqs)]

Escaped(ch) == IF ch = "quote" THEN <<ch, ch>> ELSE <<ch>>

Doubled(field) == Join([i \in 1..Len(field) |-> Escaped(field[i])], <<>>)

Special(delimiter) == {"quote", "lf", "cr", delimiter}

(* A table as text: fields that need quotes have them, others when the    *)
(* style says so; rows are separated, and the last one ended, by its break.*)
WriteField(field, style, delimiter) ==
    IF style.quoteAll \/ \E i \in 1..Len(field) : field[i] \in Special(delimiter)
    THEN <<"quote">> \o Doubled(field) \o <<"quote">>
    ELSE field

WriteRow(row, style, delimiter) ==
    Join([i \in 1..Len(row) |-> WriteField(row[i], style, delimiter)], <<delimiter>>)

Write(table, style, delimiter) ==
    Join([i \in 1..Len(table) |-> WriteRow(table[i], style, delimiter)], style.break)
    \o (IF style.ended /\ table # <<>> THEN style.break ELSE <<>>)

(* The rows of such a text that the parser gives back.  A last row of one *)
(* empty field that no break ends leaves nothing in the text when it has  *)
(* no quotes; when it has, it is dropped all the same (csv.ts:84), though *)
(* the comment at csv.ts:83 says a final row is flushed unless the file   *)
(* ended exactly on a row break.                                          *)
Rows(table, style) ==
    IF ~style.ended /\ table # <<>> /\ table[Len(table)] = << <<>> >>
    THEN SubSeq(table, 1, Len(table) - 1)
    ELSE table

Least(a, b) == IF a < b THEN a ELSE b

Cut(seq, max) == SubSeq(seq, 1, Least(Len(seq), max))

(* The preview of those rows: the first of them and of their fields, and  *)
(* whether anything was left out.                                         *)
Shown(rows) ==
    [rows |-> Cut([i \in 1..Len(rows) |-> Cut(rows[i], MaxCols)], MaxRows),
     truncated |-> \/ Len(rows) > MaxRows
                   \/ \E i \in 1..Len(rows) : Len(rows[i]) > MaxCols]

============================================================================
