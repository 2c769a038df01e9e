------------------------------- MODULE Scripts -------------------------------
(***************************************************************************)
(* The shell and what scripts are made of: the commands that the shell     *)
(* knows as lines, Batch knows as bytes of a file with delimiters and      *)
(* spaces between them.                                                    *)
(***************************************************************************)
EXTENDS Shell, Batch

CONSTANTS Before, Between,  \* what may stand in front of a script's lines
          Rests             \* what may follow a script in memory

Blanks == Delimiters \cup {Space}

ASSUME ScriptsAssumption == /\ NUL \notin Chars \cup Blanks
                            /\ Limit \in Nat
                            /\ Before \subseteq Seq(Blanks)
                            /\ Between \subseteq Seq(Blanks)
                            /\ Rests \subseteq Seq(Chars \cup Blanks \cup {NUL})

\* Two lines are the same two lines whether they are typed or written in a script:
\* what strtok makes of the last line entered and the one being typed, with
\* delimiters or spaces before and between them, is the lines of that file but for
\* the spaces they end with. (init/loader.c:377 says these are removed as well;
\* the loop below it removes only the ones a line begins with.)
ScriptLinesAsWritten ==
    entered > 0 =>
      \A before \in Before, between \in Between, rest \in Rests :
         ReadsAsWritten(before \o ex_buffer \o between \o input_buffer, rest)
===============================================================================
