------------------------------- MODULE MCShell -------------------------------
(* Two letters and lines of up to two characters: one line for each thing a line
   can mean, among them a script that is missing, a program that halts, and lines
   that start with a Backspace and name nothing. What a script's lines are follows
   from its bytes, of which all are read here; the files that are compared with what
   their lines should be have up to seven bytes, of which four are read. *)
EXTENDS Scripts

CONSTANTS c, e

Whole == INSTANCE Batch WITH Limit <- 12

MCKeys == {c, e}
MCCls == <<c>>
MCHelp == <<c, c>>
MCHalting == {<<e, e>>}
MCPrograms == {<<e>>} \cup MCHalting
MCBatNames == {<<e, c>>, <<c, e>>}
MCFiles == MCPrograms \cup {<<e, c>>}
\* An executable read as a script holds a line that names nothing.
MCLines == Whole!LdrExecBat_lines(<<e, LF, Space, CR, LF, c, LF, Space, e, e, LF>>, <<>>)
MCBinary == Whole!LdrExecBat_lines(<<c, e>>, <<>>)
MCScript == (<<e, c>> :> MCLines) @@ [file \in MCPrograms |-> MCBinary]

MCBefore == {<<>>, <<LF>>, <<Space>>}
MCBetween == SeqOf({LF, CR, Space}, 2)
MCRests == {<<>>, <<c>>, <<LF, c>>}
===============================================================================
