-------------------------------- MODULE Batch --------------------------------
(***************************************************************************)
(* How a script's bytes become lines: the loop of LdrExecBat in            *)
(* init/loader.c over strtok and strchr of ke/string/string.c. The file is *)
(* read into a buffer of 100 bytes, 99 of them, and nothing terminates     *)
(* what was read: strtok goes on into whatever follows, up to a zero byte. *)
(***************************************************************************)
EXTENDS Integers, FiniteSets, SequencesExt

CONSTANTS CR, LF, Space, NUL,   \* the bytes that mean something
          Limit                 \* the bytes of a file that are read: 99

\* The delimiters LdrExecBat passes, "\r\n".
Delimiters == {CR, LF}

\* The least place from i on that holds one of the bytes in S; memory has one.
First(memory, i, S) == Min({j \in i..Len(memory) : memory[j] \in S})

Others(memory, S) == Range(memory) \ S

\* Mutant: every line is taken to end in two characters, CR and LF.
strtok_TakesTwo(memory, i) ==
    LET start == First(memory, i, Others(memory, Delimiters))
        end == First(memory, start, Delimiters \cup {NUL})
    IN  [found |-> memory[start] # NUL,
         token |-> SubSeq(memory, start, end - 1),
         next |-> IF end + 1 >= Len(memory) THEN 0 ELSE end + 2]

\* One call of strtok with its cursor at place i: leading delimiters are
\* skipped, the token ends before the next one, and the cursor moves behind
\* that or, at the end of the string, to NULL (0 here).
strtok(memory, i) ==
    LET start == First(memory, i, Others(memory, Delimiters))
        end == First(memory, start, Delimiters \cup {NUL})
    IN  [found |-> memory[start] # NUL,
         token |-> SubSeq(memory, start, end - 1),
         next |-> IF memory[end] = NUL THEN 0 ELSE end + 1]

\* A line without the spaces it begins with; those it ends with stay.
WithoutLeadingSpaces(line) ==
    LET kept == {j \in DOMAIN line : line[j] # Space}
    IN  IF kept = {} THEN <<>> ELSE SubSeq(line, Min(kept), Len(line))

\* The lines the loop sees, blank ones empty.
Lines(memory) ==
    LET from[i \in 0..Len(memory)] ==
          IF i = 0 THEN <<>>
          ELSE LET t == strtok(memory, i)
               IN  IF ~ t.found THEN <<>>
                   ELSE <<WithoutLeadingSpaces(t.token)>> \o from[t.next]
    IN  from[1]

\* What is read of a file, in the buffer, and the bytes that follow it: rest,
\* whatever they are, up to the first zero byte.
Read(file) == SubSeq(file, 1, Min({Len(file), Limit}))

LdrExecBat_lines(file, rest) == Lines(Read(file) \o rest \o <<NUL>>)

-----------------------------------------------------------------------------
(* What a script's lines are, said without strtok: between delimiters, in the
   order of their places. *)

IsLineStart(file, i) == /\ file[i] \notin Delimiters
                        /\ i = 1 \/ file[i - 1] \in Delimiters

\* A line without the spaces before and behind it.
Trimmed(line) ==
    LET kept == {j \in DOMAIN line : line[j] # Space}
    IN  IF kept = {} THEN <<>> ELSE SubSeq(line, Min(kept), Max(kept))

LineAt(file, i) ==
    LET ends == {j \in i..Len(file) : file[j] \in Delimiters}
    IN  Trimmed(SubSeq(file, i, IF ends = {} THEN Len(file) ELSE Min(ends) - 1))

\* A line's number is how many begin up to where it does.
LinesOf(file) ==
    LET starts == {i \in DOMAIN file : IsLineStart(file, i)}
        Start(k) == CHOOSE i \in starts : Cardinality({j \in starts : j <= i}) = k
    IN  [k \in 1..Cardinality(starts) |-> LineAt(file, Start(k))]

\* A file up to its last delimiter: its complete lines.
Complete(file) ==
    LET ends == {j \in DOMAIN file : file[j] \in Delimiters}
    IN  IF ends = {} THEN <<>> ELSE SubSeq(file, 1, Max(ends))

\* Is a line what was written, but for spaces behind it? The comment above the
\* loop has those removed as well, and the code keeps them: "cls " is no command.
IsButForSpaces(line, written) ==
    /\ IsPrefix(written, line)
    /\ \A j \in (Len(written) + 1)..Len(line) : line[j] = Space

\* Lines that begin with those that were written.
BeginWith(lines, written) ==
    /\ Len(written) <= Len(lines)
    /\ \A k \in DOMAIN written : IsButForSpaces(lines[k], written[k])

\* Of a file that is read as a whole, with a zero behind it, come its lines; of
\* any other its complete lines come first: only the last may be wrong, and what
\* follows it.
ReadsAsWritten(file, rest) ==
    LET lines == LdrExecBat_lines(file, rest)
    IN  /\ Len(file) <= Limit /\ rest = <<>> =>
              BeginWith(lines, LinesOf(file)) /\ Len(lines) = Len(LinesOf(file))
        /\ BeginWith(lines, LinesOf(Complete(Read(file))))
===============================================================================
