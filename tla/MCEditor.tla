------------------------------ MODULE MCEditor ------------------------------
(* Texts that are empty, end a line, fill a row, fill all rows, and fill the *)
(* file.                                                                     *)
EXTENDS Editor

MCTexts == {<<>>, <<"a", "n">>, <<"a", "a", "a">>, <<"n", "n", "n", "a">>, <<"a", "a", "a", "a", "n">>,
            <<"n", "n", "n", "n", "n">>}
=============================================================================
