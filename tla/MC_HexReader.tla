---------------------------- MODULE MC_HexReader ----------------------------
(* Texts for HexReader: three lines in a row, of every kind, the longest ones as
   long as the buffer or a little shorter or longer.                        *)
EXTENDS HexReader

Lines == {
    <<"f", "\n">>, <<"1", " ", "f", "f", "\n">>, <<" ", "f", " ", "#", "z", "\n">>,
    <<"#", "f", "\n">>, <<"\n">>, <<"f", "z", "\n">>, <<"1", "0", "0", "\n">>,
    <<"1", " ", "f", " ", "5", " ", "\n">>, <<"f", " ", "1", " ", "0", "\n">>,
    <<"5", " ", "f", " ", "1", " ", "0", "\n">>, <<"5", " ", "f", "z", "\n">>, <<"1", " ", "\n">>, <<"f", "5">>
}

MCTexts == {a \o b \o c : a, b, c \in Lines}
=============================================================================
