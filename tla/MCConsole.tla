------------------------------- MODULE MCConsole -------------------------------
(* Characters of two pixels by one on screens of three or four columns and two or
   three rows, a text screen of three by two; six keys, so a line is typed, taken
   back and typed again, or two lines are entered, and the cursor passes the right
   edge, the last row and, with Backspace, the upper left corner. The second
   resolution is no multiple of the cell's width, the third does not parse, and with
   the fourth there is no font. The kernel has scrolled the text screen before the
   shell starts. *)
EXTENDS Console

MCSetups == {[text |-> <<"8", "x", "3", "NL">>, width |-> 8, height |-> 3, font |-> TRUE],
             [text |-> <<"7", "x", "2">>, width |-> 7, height |-> 2, font |-> TRUE],
             [text |-> <<"8", ",", "3">>, width |-> 0, height |-> 0, font |-> TRUE],
             [text |-> <<"2", "x", "1">>, width |-> 2, height |-> 1, font |-> FALSE]}
MCBootText == <<"NL", "b", "NL">>
MCKeys == {"c", "p"}
MCCls == <<"c">>
MCHelp == <<"p", "c">>
MCPrograms == {<<"p">>}
MCBanner == <<"f", "NL">>
MCPrompt == <<">", "SP">>
MCHelpMsg == <<"NL", "h", "h", "h", "NL">>
MCQuote == <<"'">>
MCNotRecognized == <<"'", "!", "NL">>
MCOutputs == {<<"o", "o", "o", "o", "o">>, <<>>}

\* The hypothesis of the theorem about what is drawn.
ASSUME ResolutionAssumption == ResolutionsAreRead
===============================================================================
