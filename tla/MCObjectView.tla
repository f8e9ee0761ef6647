--------------------------- MODULE MCObjectView ---------------------------
(***************************************************************************)
(* ObjectView for TLC: one file of each way to be shown, and small tables  *)
(* that reach every branch of the parser and exceed both of its caps.      *)
(***************************************************************************)
EXTENDS ObjectView, TLC

ViewSymmetry == Permutations(Calls) \cup Permutations(Buckets)

Png == << <<"pics">>, <<"cat", "png">> >>
Tsv == << <<"data", "TSV">> >>
Iso == << <<"disk", "iso">> >>
MCKeys == {Png, Tsv, Iso}
MCMatching == {Png}

Fields == {<<>>, <<"a">>, <<"quote">>, <<"tab", "comma">>, <<"cr", "lf">>,
           <<"a", "quote", "quote">>}
Row1 == {<<f>> : f \in Fields}
Row2 == {<<f, g>> : f, g \in {<<>>, <<"quote">>}}
Row3 == {<< <<"a">>, f, <<>> >> : f \in {<<>>, <<"tab">>}}
TableRows == Row1 \cup Row2 \cup Row3
MCTables ==
    {<<>>} \cup {<<r>> : r \in TableRows} \cup {<<r, s>> : r \in Row2, s \in Row1}
    \cup {<< <<<<"a">>>>, <<<<"a">>>>, r>> : r \in Row1 \cup Row3}

MCChars == {"a", "quote", "lf", "cr", "tab", "comma"}
MCBodies == [table : MCTables, style : Styles]

============================================================================
