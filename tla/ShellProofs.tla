----------------------------- MODULE ShellProofs -----------------------------
(***************************************************************************)
(* The shell against the keyboard interrupt, for every set of keys, every  *)
(* buffer, every set of programs and scripts and any number of lines.      *)
(* The inductive invariant says when the line entered last is still to be  *)
(* acted upon: always between the poll that saw `exec' and the action, and *)
(* whenever `exec' is up outside of the way from the action to its reset.  *)
(* At the end: that the lines of a script are read as they are written.    *)
(***************************************************************************)
EXTENDS Scripts, Recursions, FiniteSetTheorems, TLAPS

\* Where the shell has seen a line and not acted yet.
Looking == {"strlen", "strcmp", "cls", "help", "nonempty", "empty", "syscall"}

\* Where it has acted, and not taken `exec' down yet.
Acted == {"program", "hlt", "batch", "reset", "bugcheck", "hung"}

\* The line entered last has not been acted upon.
LastIsPending == entered > 0 /\ runs[entered] = 0

Pending == /\ \A k \in 1..MaxLines : runs[k] <= 1
           /\ \A k \in 1..MaxLines : k > entered => runs[k] = 0
           /\ pc \in Looking => exec = 1 /\ LastIsPending
           /\ pc \in {"poll", "prompt"} /\ exec = 1 => LastIsPending
           /\ pc \in {"program", "hlt"} => exec = 1

IInv == TypeOK /\ BackspaceOnlyFirst /\ Pending

\* The shell starts with nothing entered and nothing to act upon.
LEMMA InitIInv == Init => IInv
<1> SUFFICES ASSUME Init
             PROVE  IInv
  OBVIOUS
<1>1. <<>> \in Seq(Chars) /\ Len(<<>>) = 0 /\ <<>> \in Seq(Seq(Keys))
  OBVIOUS
<1>2. IsLine(<<>>)
  BY <1>1, ShellAssumption DEF IsLine
<1>3. TypeOK
  <2>1. runs \in [1..MaxLines -> Nat]
    BY DEF Init
  <2>2. script \in Seq(Seq(Keys))
    BY <1>1 DEF Init
  <2>3. IsLine(input_buffer) /\ IsLine(ex_buffer)
    BY <1>2 DEF Init
  <2>4. measured \in 0..MaxLines /\ entered \in 0..MaxLines
    BY ShellAssumption DEF Init
  <2> QED
    BY <2>1, <2>2, <2>3, <2>4 DEF Init, TypeOK
<1>4. BackspaceOnlyFirst
  BY <1>1 DEF Init, BackspaceOnlyFirst
<1>5. Pending
  <2>1. /\ \A k \in 1..MaxLines : runs[k] = 0
        /\ pc = "poll" /\ exec = 0
    BY DEF Init
  <2> QED
    BY <2>1 DEF Pending, Looking
<1> QED
  BY <1>3, <1>4, <1>5 DEF IInv

\* Acting upon the line entered last keeps the count of every line at one.
LEMMA ActingOnce ==
    ASSUME IInv, pc \in Looking, NEW what, ActUpon(what), UNCHANGED entered
    PROVE  /\ runs' \in [1..MaxLines -> Nat]
           /\ misread' \in BOOLEAN
           /\ \A k \in 1..MaxLines : runs'[k] <= 1
           /\ \A k \in 1..MaxLines : k > entered' => runs'[k] = 0
<1>1. /\ runs \in [1..MaxLines -> Nat]
      /\ entered \in 1..MaxLines
      /\ runs[entered] = 0
  BY ShellAssumption DEF IInv, TypeOK, Pending, LastIsPending
<1>2. runs' = [runs EXCEPT ![entered] = @ + 1]
  BY DEF ActUpon
<1>3. misread' \in BOOLEAN
  BY DEF ActUpon, IInv, TypeOK
<1> QED
  BY <1>1, <1>2, <1>3, ShellAssumption DEF IInv, Pending

\* A key stroke keeps the invariant, wherever it falls.
LEMMA KeyKeepsIInv ==
    ASSUME IInv, NEW key \in Chars \cup {Enter}, int21h_handler(key)
    PROVE  IInv'
<1>1. CASE /\ key = Backspace
           /\ input_buffer # <<>>
           /\ input_buffer' = SubSeq(input_buffer, 1, Len(input_buffer) - 1)
           /\ UNCHANGED <<ex_buffer, exec, entered, rushed>>
  <2>1. /\ IsLine(input_buffer')
        /\ \A i \in 2..Len(input_buffer') : input_buffer'[i] # Backspace
    BY <1>1, ShellAssumption DEF IInv, TypeOK, IsLine, BackspaceOnlyFirst
  <2> QED
    BY <1>1, <2>1
    DEF int21h_handler, IInv, TypeOK, IsLine, BackspaceOnlyFirst, Pending, LastIsPending
<1>2. CASE /\ key = Enter
           /\ entered < MaxLines
           /\ SetExecBuffer
           /\ input_buffer' = <<>>
           /\ entered' = entered + 1
           /\ rushed' = (rushed \/ ~ Idle)
  <2>1. /\ IsLine(input_buffer') /\ IsLine(ex_buffer')
        /\ rushed' \in BOOLEAN
        /\ entered' \in 1..MaxLines
        /\ exec' = 1
    BY <1>2, ShellAssumption DEF IInv, TypeOK, IsLine, SetExecBuffer
  <2>2. UNCHANGED <<pc, isBat, measured, script, runs, misread>>
    BY DEF int21h_handler
  <2>3. TypeOK'
    BY <2>1, <2>2 DEF IInv, TypeOK, IsLine
  <2>4. BackspaceOnlyFirst'
    BY <1>2 DEF BackspaceOnlyFirst
  <2>5. Pending'
    BY <1>2, <2>1, <2>2, ShellAssumption DEF IInv, TypeOK, Pending, LastIsPending
  <2> QED
    BY <2>3, <2>4, <2>5 DEF IInv
<1>3. CASE /\ key # Enter
           /\ key = Backspace => input_buffer = <<>>
           /\ Len(input_buffer) < BufSize - 1
           /\ input_buffer' = Append(input_buffer, key)
           /\ UNCHANGED <<ex_buffer, exec, entered, rushed>>
  <2>0. /\ key \in Chars
        /\ input_buffer \in Seq(Chars)
        /\ Len(input_buffer) \in Nat
    BY <1>3 DEF IInv, TypeOK, IsLine
  <2>2. /\ input_buffer' \in Seq(Chars)
        /\ Len(input_buffer') = Len(input_buffer) + 1
        /\ \A i \in 1..Len(input_buffer) : input_buffer'[i] = input_buffer[i]
        /\ input_buffer'[Len(input_buffer) + 1] = key
    BY <1>3, <2>0
  <2>3. IsLine(input_buffer')
    BY <1>3, <2>0, <2>2, ShellAssumption DEF IsLine
  <2>4. ASSUME NEW i \in 2..Len(input_buffer')
        PROVE  input_buffer'[i] # Backspace
    <3>1. CASE i <= Len(input_buffer)
      BY <3>1, <2>0, <2>2 DEF IInv, BackspaceOnlyFirst
    <3>2. CASE i = Len(input_buffer) + 1
      <4>1. Len(input_buffer) > 0
        BY <3>2, <2>0
      <4>2. input_buffer # <<>>
        BY <4>1
      <4> QED
        BY <3>2, <4>2, <2>2, <1>3
    <3> QED
      BY <3>1, <3>2, <2>0, <2>2
  <2>1. /\ IsLine(input_buffer')
        /\ \A i \in 2..Len(input_buffer') : input_buffer'[i] # Backspace
    BY <2>3, <2>4
  <2> QED
    BY <1>3, <2>1
    DEF int21h_handler, IInv, TypeOK, IsLine, BackspaceOnlyFirst, Pending, LastIsPending
<1> QED
  BY <1>1, <1>2, <1>3 DEF int21h_handler, Inserts, HasRoom

\* A step of the shell keeps the invariant: it acts only while the line is
\* pending, and comes back to the poll with `exec' down or the line pending.
LEMMA ShellStepKeepsIInv == ASSUME IInv, ShellStep PROVE IInv'
<1> USE DEF Goto
<1>0. SUFFICES TypeOK' /\ Pending'
  <2>1. UNCHANGED input_buffer
    BY DEF ShellStep, keyboard, Poll, IsBatFile_strlen, IsBatFile_strcmp,
           NsExec_cls, NsExec_help, NsExec_nonempty, NsExec_empty, LdrLoadPe,
           ProgramReturns, ProgramHalts, LdrExecBat, BatchLine, BatchEnd,
           NsExec_reset, NsExec_prompt
  <2> QED
    BY <2>1 DEF IInv, BackspaceOnlyFirst
<1> DEFINE pcs == {"poll", "strlen", "strcmp", "cls", "help", "nonempty", "empty",
                   "syscall", "program", "hlt", "batch", "reset", "prompt",
                   "bugcheck", "hung"}
<1>a. /\ UNCHANGED keyboard /\ pc' \in pcs /\ exec' \in {0, 1} /\ isBat' \in BOOLEAN
      /\ measured' \in 0..MaxLines /\ script' \in Seq(Seq(Keys))
      /\ runs' \in [1..MaxLines -> Nat] /\ misread' \in BOOLEAN
      => TypeOK'
  BY DEF IInv, TypeOK, IsLine, keyboard
<1>b. TypeOK /\ Pending
  BY DEF IInv
<1>1. CASE Poll
  BY <1>a, <1>b, <1>1 DEF Poll, TypeOK, Pending, Looking, LastIsPending, keyboard
<1>2. CASE IsBatFile_strlen
  BY <1>a, <1>b, <1>2 DEF IsBatFile_strlen, TypeOK, Pending, Looking, LastIsPending, keyboard
<1>3. CASE IsBatFile_strcmp
  <2>1. isBat' \in BOOLEAN
    BY <1>3 DEF IsBatFile_strcmp
  <2> QED
    BY <1>a, <1>b, <1>3, <2>1
    DEF IsBatFile_strcmp, TypeOK, Pending, Looking, LastIsPending, keyboard
<1>4. CASE NsExec_cls
  <2>1. CASE ex_buffer = Cls
    BY <1>a, <1>b, <1>4, <2>1, ActingOnce
    DEF NsExec_cls, TypeOK, Pending, Looking, LastIsPending, keyboard
  <2>2. CASE ex_buffer # Cls
    BY <1>a, <1>b, <1>4, <2>2
    DEF NsExec_cls, TypeOK, Pending, Looking, LastIsPending, keyboard
  <2> QED
    BY <2>1, <2>2
<1>5. CASE NsExec_help
  <2>1. CASE ex_buffer = Help
    BY <1>a, <1>b, <1>5, <2>1, ActingOnce
    DEF NsExec_help, TypeOK, Pending, Looking, LastIsPending, keyboard
  <2>2. CASE ex_buffer # Help
    BY <1>a, <1>b, <1>5, <2>2
    DEF NsExec_help, TypeOK, Pending, Looking, LastIsPending, keyboard
  <2> QED
    BY <2>1, <2>2
<1>6. CASE NsExec_nonempty
  BY <1>a, <1>b, <1>6 DEF NsExec_nonempty, TypeOK, Pending, Looking, LastIsPending, keyboard
<1>7. CASE NsExec_empty
  <2>1. CASE ex_buffer = <<>>
    BY <1>a, <1>b, <1>7, <2>1, ActingOnce
    DEF NsExec_empty, TypeOK, Pending, Looking, LastIsPending, keyboard
  <2>2. CASE ex_buffer # <<>>
    BY <1>a, <1>b, <1>7, <2>2
    DEF NsExec_empty, TypeOK, Pending, Looking, LastIsPending, keyboard
  <2> QED
    BY <2>1, <2>2
<1>8. CASE LdrLoadPe
  BY <1>a, <1>b, <1>8, ActingOnce
  DEF LdrLoadPe, TypeOK, Pending, Looking, LastIsPending, keyboard
<1>9. CASE ProgramReturns
  BY <1>a, <1>b, <1>9 DEF ProgramReturns, TypeOK, Pending, Looking, LastIsPending, keyboard
<1>10. CASE ProgramHalts
  BY <1>a, <1>b, <1>10 DEF ProgramHalts, TypeOK, Pending, Looking, LastIsPending, keyboard
<1>11. CASE LdrExecBat
  <2>1. script' \in Seq(Seq(Keys))
    BY <1>b, <1>11, ShellAssumption DEF LdrExecBat, TypeOK
  <2> QED
    BY <1>a, <1>b, <1>11, <2>1, ActingOnce
    DEF LdrExecBat, TypeOK, Pending, Looking, LastIsPending, keyboard
<1>12. CASE BatchLine
  <2>1. script' \in Seq(Seq(Keys))
    BY <1>b, <1>12 DEF BatchLine, TypeOK
  <2> QED
    BY <1>a, <1>b, <1>12, <2>1
    DEF BatchLine, TypeOK, Pending, Looking, LastIsPending, keyboard
<1>13. CASE BatchEnd
  BY <1>a, <1>b, <1>13 DEF BatchEnd, TypeOK, Pending, Looking, LastIsPending, keyboard
<1>14. CASE NsExec_reset
  BY <1>a, <1>b, <1>14 DEF NsExec_reset, TypeOK, Pending, Looking, LastIsPending, keyboard
<1>15. CASE NsExec_prompt
  BY <1>a, <1>b, <1>15 DEF NsExec_prompt, TypeOK, Pending, Looking, LastIsPending, keyboard
<1> QED
  BY <1>1, <1>2, <1>3, <1>4, <1>5, <1>6, <1>7, <1>8, <1>9, <1>10, <1>11, <1>12,
     <1>13, <1>14, <1>15 DEF ShellStep

\* Every step of the shell and of the keyboard keeps the invariant.
LEMMA StepKeepsIInv == IInv /\ [Next]_vars => IInv'
<1> SUFFICES ASSUME IInv, [Next]_vars
             PROVE  IInv'
  OBVIOUS
<1>1. CASE \E key \in Chars \cup {Enter} : int21h_handler(key)
  BY <1>1, KeyKeepsIInv
<1>2. CASE ShellStep
  BY <1>2, ShellStepKeepsIInv
<1>3. CASE UNCHANGED vars
  BY <1>3 DEF vars, keyboard, IInv, TypeOK, IsLine, BackspaceOnlyFirst, Pending,
              Looking, LastIsPending
<1> QED
  BY <1>1, <1>2, <1>3 DEF Next

\* In every reachable state the line entered last is pending where it must be.
THEOREM ShellInvariant == Spec => []IInv
BY InitIInv, StepKeepsIInv, PTL DEF Spec

\* Every variable of the shell stays in its type: no line outgrows its buffer.
THEOREM ShellTypeCorrect == Spec => []TypeOK
<1>1. IInv => TypeOK
  BY DEF IInv
<1> QED
  BY <1>1, ShellInvariant, PTL

\* No line is acted upon twice, wherever the interrupts fall.
THEOREM ShellActsAtMostOnce == Spec => []ActedUponAtMostOnce
<1>1. IInv => ActedUponAtMostOnce
  BY DEF IInv, Pending, ActedUponAtMostOnce
<1> QED
  BY <1>1, ShellInvariant, PTL

\* The flag stays up from the poll that saw it until NsExec has acted.
THEOREM ShellExecIsHeld == Spec => []ExecIsHeld
<1>1. IInv => ExecIsHeld
  BY DEF IInv, Pending, Looking, ExecIsHeld
<1> QED
  BY <1>1, ShellInvariant, PTL

\* A Backspace is a character of a line only at its start.
THEOREM ShellBackspaceOnlyFirst == Spec => []BackspaceOnlyFirst
<1>1. IInv => BackspaceOnlyFirst
  BY DEF IInv
<1> QED
  BY <1>1, ShellInvariant, PTL

-----------------------------------------------------------------------------
(* A user who waits *)

\* What the shell knows of a line that nobody replaced since it was seen: every
\* look at it tells the same, and only where all have been done it is acted upon.
Served ==
    ~ rushed =>
      /\ ~ misread
      /\ \A k \in 1..MaxLines : k < entered => runs[k] = 1
      /\ pc \in Acted => runs[entered] = 1
      /\ pc = "prompt" => exec = 0
      /\ pc \in {"poll", "prompt"} /\ exec = 0 /\ entered > 0 => runs[entered] = 1
      /\ pc = "strcmp" => measured = entered
      /\ pc \in {"cls", "help", "nonempty", "empty", "syscall"} => isBat = (ex_buffer \in BatNames)
      /\ pc \in {"help", "nonempty", "empty", "syscall"} => ex_buffer # Cls
      /\ pc \in {"nonempty", "empty", "syscall"} => ex_buffer # Help
      /\ pc = "empty" => ex_buffer = <<>>
      /\ pc = "syscall" => ex_buffer # <<>>

\* A line means what the shell takes it for after all its looks.
LEMMA Meanings ==
    ASSUME NEW line
    PROVE  /\ line = Cls => Meaning(line) = "cls"
           /\ line = Help => Meaning(line) = "help"
           /\ line = <<>> => Meaning(line) = "nothing"
           /\ line \notin {Cls, Help, <<>>} =>
                /\ line \in BatNames =>
                     Meaning(line) = IF line \in Files THEN "script" ELSE "unknown"
                /\ line \notin BatNames =>
                     Meaning(line) = IF line \in Programs THEN "program" ELSE "unknown"
BY ShellAssumption DEF Meaning

\* Acting upon a line as what it is: it has been acted upon once, and so have all
\* before it.
LEMMA ActingServes ==
    ASSUME IInv, Served, pc \in Looking, ~ rushed, NEW what, ActUpon(what),
           what = Meaning(ex_buffer)
    PROVE  /\ ~ misread' /\ runs'[entered] = 1
           /\ \A k \in 1..MaxLines : k < entered => runs'[k] = 1
<1>1. /\ runs \in [1..MaxLines -> Nat] /\ entered \in 1..MaxLines /\ runs[entered] = 0
  BY ShellAssumption DEF IInv, TypeOK, Pending, LastIsPending
<1>2. runs' = [runs EXCEPT ![entered] = @ + 1]
  BY DEF ActUpon
<1>3. ~ misread'
  BY DEF ActUpon, Served
<1>4. \A k \in 1..MaxLines : k < entered => runs'[k] = 1
  BY <1>1, <1>2, ShellAssumption DEF Served
<1> QED
  BY <1>1, <1>2, <1>3, <1>4

\* A key leaves the line alone, or the user did not wait, or the shell was idle.
LEMMA KeyServes ==
    ASSUME IInv, Served, NEW key \in Chars \cup {Enter}, int21h_handler(key)
    PROVE  Served'
<1>1. UNCHANGED <<pc, isBat, measured, script, runs, misread>>
  BY DEF int21h_handler
<1>2. CASE UNCHANGED <<ex_buffer, exec, entered, rushed>>
  BY <1>1, <1>2 DEF Served, Acted
<1>3. CASE exec' = 1 /\ entered' = entered + 1 /\ rushed' = (rushed \/ ~ Idle)
  <2> SUFFICES ASSUME ~ rushed'
               PROVE  Served'
    BY DEF Served
  <2>1. ~ rushed /\ pc = "poll" /\ exec = 0
    BY <1>3 DEF Idle
  <2>2. entered \in Nat
    BY ShellAssumption DEF IInv, TypeOK
  <2>3. \A k \in 1..MaxLines : k < entered' => runs[k] = 1
    BY <1>3, <2>1, <2>2, ShellAssumption DEF Served
  <2> QED
    BY <1>1, <1>3, <2>1, <2>3 DEF Served, Acted
<1> QED
  BY <1>2, <1>3 DEF int21h_handler, SetExecBuffer

\* A step of the shell looks at the line once more or acts upon it as what it is.
LEMMA ShellStepServes ==
    ASSUME IInv, Served, ShellStep
    PROVE  Served'
<1> USE DEF Goto
<1> SUFFICES ASSUME ~ rushed'
             PROVE  Served'
  BY DEF Served
<1>0. UNCHANGED keyboard
  BY DEF ShellStep, keyboard, Poll, IsBatFile_strlen, IsBatFile_strcmp,
         NsExec_cls, NsExec_help, NsExec_nonempty, NsExec_empty, LdrLoadPe,
         ProgramReturns, ProgramHalts, LdrExecBat, BatchLine, BatchEnd,
         NsExec_reset, NsExec_prompt
<1>a. ex_buffer' = ex_buffer /\ entered' = entered /\ rushed' = rushed /\ ~ rushed
  BY <1>0 DEF keyboard
<1>1. CASE Poll
  BY <1>a, <1>1 DEF Poll, Served, Acted
<1>2. CASE IsBatFile_strlen
  BY <1>a, <1>2 DEF IsBatFile_strlen, Served, Acted
<1>3. CASE IsBatFile_strcmp
  <2>1. isBat' = (ex_buffer \in BatNames)
    BY <1>a, <1>3 DEF IsBatFile_strcmp, Served
  <2> QED
    BY <1>a, <1>3, <2>1 DEF IsBatFile_strcmp, Served, Acted
<1>4. CASE NsExec_cls
  <2>1. CASE ex_buffer = Cls
    <3>1. pc' = "reset" /\ pc \in Looking /\ ActUpon("cls")
      BY <1>4, <2>1 DEF NsExec_cls, Looking
    <3>2. /\ ~ misread' /\ runs'[entered] = 1
          /\ \A k \in 1..MaxLines : k < entered => runs'[k] = 1
      BY <1>a, <2>1, <3>1, Meanings, ActingServes
    <3> QED
      BY <1>a, <3>1, <3>2 DEF Served
  <2>2. CASE ex_buffer # Cls
    BY <1>a, <1>4, <2>2 DEF NsExec_cls, Served, Acted
  <2> QED
    BY <2>1, <2>2
<1>5. CASE NsExec_help
  <2>1. CASE ex_buffer = Help
    <3>1. pc' = "reset" /\ pc \in Looking /\ ActUpon("help")
      BY <1>5, <2>1 DEF NsExec_help, Looking
    <3>2. /\ ~ misread' /\ runs'[entered] = 1
          /\ \A k \in 1..MaxLines : k < entered => runs'[k] = 1
      BY <1>a, <2>1, <3>1, Meanings, ActingServes
    <3> QED
      BY <1>a, <3>1, <3>2 DEF Served
  <2>2. CASE ex_buffer # Help
    BY <1>a, <1>5, <2>2 DEF NsExec_help, Served, Acted
  <2> QED
    BY <2>1, <2>2
<1>6. CASE NsExec_nonempty
  BY <1>a, <1>6 DEF NsExec_nonempty, Served, Acted
<1>7. CASE NsExec_empty
  <2>1. ex_buffer = <<>>
    BY <1>a, <1>7 DEF NsExec_empty, Served
  <2>2. pc' = "reset" /\ pc \in Looking /\ ActUpon("nothing")
    BY <1>7, <2>1 DEF NsExec_empty, Looking
  <2>3. /\ ~ misread' /\ runs'[entered] = 1
        /\ \A k \in 1..MaxLines : k < entered => runs'[k] = 1
    BY <1>a, <2>1, <2>2, Meanings, ActingServes
  <2> QED
    BY <1>a, <2>2, <2>3 DEF Served
<1>8. CASE LdrLoadPe
  <2>1. /\ pc \in Looking /\ pc' \in {"reset", "hlt", "program"}
        /\ ex_buffer \notin {Cls, Help, <<>>} /\ ex_buffer \notin BatNames
    BY <1>a, <1>8 DEF LdrLoadPe, Served, Looking
  <2>2. ActUpon(Meaning(ex_buffer))
    BY <1>8, <2>1, Meanings DEF LdrLoadPe
  <2>3. /\ ~ misread' /\ runs'[entered] = 1
        /\ \A k \in 1..MaxLines : k < entered => runs'[k] = 1
    BY <1>a, <2>1, <2>2, ActingServes
  <2> QED
    BY <1>a, <2>1, <2>3 DEF Served
<1>9. CASE ProgramReturns
  BY <1>a, <1>9 DEF ProgramReturns, Served, Acted
<1>10. CASE ProgramHalts
  BY <1>a, <1>10 DEF ProgramHalts, Served, Acted
<1>11. CASE LdrExecBat
  <2>1. /\ pc \in Looking /\ pc' \in {"reset", "batch"}
        /\ ex_buffer \notin {Cls, Help, <<>>} /\ ex_buffer \in BatNames
    BY <1>a, <1>11 DEF LdrExecBat, Served, Looking
  <2>2. ActUpon(Meaning(ex_buffer))
    BY <1>11, <2>1, Meanings DEF LdrExecBat
  <2>3. /\ ~ misread' /\ runs'[entered] = 1
        /\ \A k \in 1..MaxLines : k < entered => runs'[k] = 1
    BY <1>a, <2>1, <2>2, ActingServes
  <2> QED
    BY <1>a, <2>1, <2>3 DEF Served
<1>12. CASE BatchLine
  BY <1>a, <1>12 DEF BatchLine, Served, Acted
<1>13. CASE BatchEnd
  BY <1>a, <1>13 DEF BatchEnd, Served, Acted
<1>14. CASE NsExec_reset
  BY <1>a, <1>14 DEF NsExec_reset, Served, Acted
<1>15. CASE NsExec_prompt
  BY <1>a, <1>15 DEF NsExec_prompt, Served, Acted
<1> QED
  BY <1>1, <1>2, <1>3, <1>4, <1>5, <1>6, <1>7, <1>8, <1>9, <1>10, <1>11, <1>12,
     <1>13, <1>14, <1>15 DEF ShellStep

\* A user who waits until the shell is idle gets each line acted upon once and as
\* what it is, whatever is typed between two looks of the shell at ex_buffer.
THEOREM ShellServesPatientUser == Spec => []PatientUserIsServed
<1>1. Init => Served
  BY DEF Init, Served, Acted
<1>2. IInv /\ Served /\ [Next]_vars => Served'
  <2> SUFFICES ASSUME IInv, Served, [Next]_vars
               PROVE  Served'
    OBVIOUS
  <2>1. CASE UNCHANGED vars
    BY <2>1 DEF vars, keyboard, Served, Acted
  <2> QED
    BY <2>1, KeyServes, ShellStepServes DEF Next
<1>3. IInv /\ Served => PatientUserIsServed
  <2> SUFFICES ASSUME IInv, Served, ~ rushed, Idle, NEW k \in 1..entered
               PROVE  runs[k] = 1
    BY DEF Served, PatientUserIsServed
  <2>1. k \in 1..MaxLines /\ k <= entered /\ entered \in 1..MaxLines
    BY ShellAssumption DEF IInv, TypeOK
  <2> QED
    BY <2>1 DEF Served, Idle
<1> QED
  BY <1>1, <1>2, <1>3, ShellInvariant, PTL DEF Spec

-----------------------------------------------------------------------------
(* The lines of scripts, for files and delimiters of any length, any number of
   bytes read and whatever follows them in memory. *)

\* Memory up to its last byte, a zero.
Terminated(memory, S) == /\ memory \in Seq(S) /\ Len(memory) > 0
                         /\ memory[Len(memory)] = NUL /\ NUL \notin Delimiters

\* A place from i on with a byte in T, and none before.
IsFirst(f, memory, i, T) == /\ f \in i..Len(memory) /\ memory[f] \in T
                            /\ \A j \in i..(f - 1) : memory[j] \notin T

\* The first place with one of some bytes is that, if there is one.
LEMMA FirstIsFirst ==
    ASSUME NEW S, NEW memory \in Seq(S), NEW i \in Nat \ {0}, NEW T,
           \E j \in i..Len(memory) : memory[j] \in T
    PROVE  IsFirst(First(memory, i, T), memory, i, T)
<1> DEFINE P == {j \in i..Len(memory) : memory[j] \in T}
<1>1. P \in SUBSET Nat /\ P # {}
  OBVIOUS
<1>2. PICK m \in P : \A k \in P : m <= k
  BY <1>1, LeastElement
<1>3. Min(P) \in P /\ \A k \in P : Min(P) <= k
  BY <1>2, Zenon DEF Min
<1>4. First(memory, i, T) = Min(P)
  BY DEF First
<1> HIDE DEF P
<1>5. First(memory, i, T) \in i..Len(memory) /\ memory[First(memory, i, T)] \in T
  BY <1>3, <1>4 DEF P
<1>6. ASSUME NEW j \in i..(First(memory, i, T) - 1), memory[j] \in T
      PROVE  FALSE
  <2>1. j \in P /\ ~ First(memory, i, T) <= j
    BY <1>5, <1>6 DEF P
  <2> QED
    BY <1>3, <1>4, <2>1
<1> QED
  BY <1>5, <1>6 DEF IsFirst

\* Where a call of strtok begins its token, where it ends it, and where its cursor
\* is then.
TokenStart(memory, i) == First(memory, i, Others(memory, Delimiters))
TokenEnd(memory, i) == First(memory, TokenStart(memory, i), Delimiters \cup {NUL})

LEMMA OneToken ==
    ASSUME NEW S, NEW memory, Terminated(memory, S), NEW i \in 1..Len(memory)
    PROVE  /\ TokenStart(memory, i) \in i..Len(memory)
           /\ memory[TokenStart(memory, i)] \notin Delimiters
           /\ \A j \in i..(TokenStart(memory, i) - 1) : memory[j] \in Delimiters
           /\ IsFirst(TokenEnd(memory, i), memory, TokenStart(memory, i), Delimiters \cup {NUL})
           /\ strtok(memory, i).found = (memory[TokenStart(memory, i)] # NUL)
           /\ strtok(memory, i).token
                = SubSeq(memory, TokenStart(memory, i), TokenEnd(memory, i) - 1)
           /\ strtok(memory, i).token \in Seq(S)
           /\ strtok(memory, i).next
                = IF memory[TokenEnd(memory, i)] = NUL THEN 0 ELSE TokenEnd(memory, i) + 1
           /\ strtok(memory, i).next \in {0} \cup ((i + 1)..Len(memory))
<1> DEFINE start == TokenStart(memory, i)
           end == TokenEnd(memory, i)
           other == Others(memory, Delimiters)
<1>1. /\ memory \in Seq(S) /\ Len(memory) \in Nat \ {0}
      /\ memory[Len(memory)] = NUL /\ NUL \notin Delimiters
  BY DEF Terminated
<1>2. \A j \in 1..Len(memory) : memory[j] \in other <=> memory[j] \notin Delimiters
  BY <1>1 DEF Others, Range
<1> HIDE DEF other
<1>3. IsFirst(start, memory, i, other)
  <2>1. Len(memory) \in i..Len(memory) /\ memory[Len(memory)] \in other
    BY <1>1, <1>2
  <2> QED
    BY <1>1, <2>1, FirstIsFirst DEF TokenStart, other
<1> HIDE DEF start
<1>4. /\ start \in i..Len(memory) /\ memory[start] \notin Delimiters
      /\ \A j \in i..(start - 1) : memory[j] \in Delimiters
  BY <1>1, <1>2, <1>3 DEF IsFirst
<1>5. IsFirst(end, memory, start, Delimiters \cup {NUL})
  <2>1. Len(memory) \in start..Len(memory) /\ memory[Len(memory)] \in Delimiters \cup {NUL}
    BY <1>1, <1>4
  <2>2. start \in Nat \ {0}
    BY <1>4
  <2> QED
    BY <1>1, <2>1, <2>2, FirstIsFirst DEF TokenEnd, start
<1> HIDE DEF end
<1>6. end \in start..Len(memory) /\ (memory[end] # NUL => end < Len(memory))
  <2>1. end \in start..Len(memory)
    BY <1>5 DEF IsFirst
  <2> QED
    BY <1>1, <1>4, <2>1
<1>7. strtok(memory, i) = [found |-> memory[start] # NUL,
                           token |-> SubSeq(memory, start, end - 1),
                           next |-> IF memory[end] = NUL THEN 0 ELSE end + 1]
  BY DEF strtok, start, end, TokenStart, TokenEnd
<1>8. SubSeq(memory, start, end - 1) \in Seq(S)
  <2>1. \A j \in start..(end - 1) : j \in 1..Len(memory)
    BY <1>4, <1>6
  <2> QED
    BY <1>1, <1>4, <1>6, <2>1
<1>9. (IF memory[end] = NUL THEN 0 ELSE end + 1) \in {0} \cup ((i + 1)..Len(memory))
  BY <1>1, <1>4, <1>6
<1> QED
  <2>1. /\ strtok(memory, i).found = (memory[start] # NUL)
        /\ strtok(memory, i).token = SubSeq(memory, start, end - 1)
        /\ strtok(memory, i).next = IF memory[end] = NUL THEN 0 ELSE end + 1
    <3> DEFINE found == memory[start] # NUL
               token == SubSeq(memory, start, end - 1)
               next == IF memory[end] = NUL THEN 0 ELSE end + 1
    <3>1. strtok(memory, i) = [found |-> found, token |-> token, next |-> next]
      BY <1>7
    <3> HIDE DEF found, token, next
    <3>2. /\ strtok(memory, i).found = found /\ strtok(memory, i).token = token
          /\ strtok(memory, i).next = next
      BY <3>1
    <3> QED
      BY <3>2 DEF found, token, next
  <2> QED
    BY <1>4, <1>5, <1>8, <1>9, <2>1 DEF start, end

\* What is left of a line without the spaces before it is a string.
LEMMA SpacesRemoved ==
    ASSUME NEW S, NEW line \in Seq(S)
    PROVE  WithoutLeadingSpaces(line) \in Seq(S)
<1> DEFINE kept == {j \in DOMAIN line : line[j] # Space}
<1>1. CASE kept = {}
  BY <1>1 DEF WithoutLeadingSpaces
<1>2. CASE kept # {}
  <2>1. kept \in SUBSET Nat /\ kept \subseteq 1..Len(line)
    OBVIOUS
  <2>2. PICK m \in kept : \A k \in kept : m <= k
    BY <1>2, <2>1, LeastElement
  <2>3. Min(kept) \in kept
    BY <2>2, Zenon DEF Min
  <2>4. Min(kept) \in 1..Len(line)
    BY <2>1, <2>3
  <2>5. WithoutLeadingSpaces(line) = SubSeq(line, Min(kept), Len(line))
    BY <1>2 DEF WithoutLeadingSpaces
  <2> HIDE DEF kept
  <2> QED
    BY <2>4, <2>5
<1> QED
  BY <1>1, <1>2

\* The lines from a place on: one, and those from where strtok's cursor is then.
LinesFrom(memory, i, from) ==
    IF i = 0 THEN <<>>
    ELSE IF ~ strtok(memory, i).found THEN <<>>
         ELSE <<WithoutLeadingSpaces(strtok(memory, i).token)>> \o from[strtok(memory, i).next]

\* A table of the lines from each place on.
IsTable(from, memory) ==
    from = [i \in 0..Len(memory) |-> LinesFrom(memory, i, from)]

\* They are strings, if those further on are.
LEMMA LinesAreStrings ==
    ASSUME NEW S, NEW memory, Terminated(memory, S), NEW i \in 0..Len(memory), NEW from,
           \A j \in {0} \cup ((i + 1)..Len(memory)) : from[j] \in Seq(Seq(S))
    PROVE  LinesFrom(memory, i, from) \in Seq(Seq(S))
<1>1. CASE i = 0 \/ ~ strtok(memory, i).found
  BY <1>1 DEF LinesFrom
<1>2. CASE i # 0 /\ strtok(memory, i).found
  <2> DEFINE line == WithoutLeadingSpaces(strtok(memory, i).token)
             next == strtok(memory, i).next
  <2>1. strtok(memory, i).token \in Seq(S) /\ next \in {0} \cup ((i + 1)..Len(memory))
    BY <1>2, OneToken
  <2>2. line \in Seq(S)
    BY <2>1, SpacesRemoved
  <2>3. LinesFrom(memory, i, from) = <<line>> \o from[next]
    BY <1>2 DEF LinesFrom
  <2>4. from[next] \in Seq(Seq(S))
    BY <2>1
  <2> HIDE DEF line, next
  <2> QED
    BY <2>2, <2>3, <2>4
<1> QED
  BY <1>1, <1>2

\* They depend on nothing but the lines further on.
LEMMA LinesLookAhead ==
    ASSUME NEW S, NEW memory, Terminated(memory, S), NEW i \in 0..Len(memory),
           NEW from, NEW other,
           \A j \in {0} \cup ((i + 1)..Len(memory)) : from[j] = other[j]
    PROVE  LinesFrom(memory, i, from) = LinesFrom(memory, i, other)
<1>1. CASE i = 0 \/ ~ strtok(memory, i).found
  BY <1>1 DEF LinesFrom
<1>2. CASE i # 0 /\ strtok(memory, i).found
  <2>1. i \in 1..Len(memory)
    BY <1>2
  <2>2. strtok(memory, i).next \in {0} \cup ((i + 1)..Len(memory))
    BY <2>1, OneToken
  <2>3. from[strtok(memory, i).next] = other[strtok(memory, i).next]
    BY <2>2
  <2> QED
    BY <2>3 DEF LinesFrom
<1> QED
  BY <1>1, <1>2

\* There is such a table: it is filled from the end.
LEMMA TableExists ==
    ASSUME NEW S, NEW memory, Terminated(memory, S)
    PROVE  \E from : IsTable(from, memory)
<1> DEFINE last == Len(memory)
           V == [0..last -> Seq(Seq(S))]
           a == [i \in 0..last |-> <<>>]
           Filled(v, i) == [v EXCEPT ![i] = LinesFrom(memory, i, v)]
           F == [k \in 1..last |-> [v \in V |-> Filled(v, last + 1 - k)]]
<1>1. last \in Nat \ {0}
  BY DEF Terminated
<1>2. ASSUME NEW k \in 1..last, NEW v \in V
      PROVE  /\ last + 1 - k \in 1..last /\ F[k][v] = Filled(v, last + 1 - k)
             /\ Filled(v, last + 1 - k) \in V
  <2>1. last + 1 - k \in 1..last
    BY <1>1
  <2>2. \A j \in 0..last : v[j] \in Seq(Seq(S))
    OBVIOUS
  <2>3. LinesFrom(memory, last + 1 - k, v) \in Seq(Seq(S))
    <3> DEFINE p == last + 1 - k
    <3>1. p \in 1..last
      BY <2>1
    <3> HIDE DEF V, p
    <3>2. \A j \in {0} \cup ((p + 1)..last) : v[j] \in Seq(Seq(S))
      BY <1>1, <2>2, <3>1
    <3>3. LinesFrom(memory, p, v) \in Seq(Seq(S))
      BY <1>1, <3>1, <3>2, LinesAreStrings
    <3> QED
      BY <3>3 DEF p
  <2> QED
    BY <2>1, <2>3
<1>3. Recursive(0, last, V, a, F)
  <2>1. a \in V
    OBVIOUS
  <2>2. ASSUME NEW k \in (0 + 1)..last, NEW v \in V PROVE F[k][v] \in V
    <3>1. k \in 1..last
      BY <1>1
    <3> HIDE DEF V, F, Filled
    <3> QED
      BY <1>2, <3>1
  <2> HIDE DEF V, a, F
  <2> QED
    BY <1>1, <2>1, <2>2 DEF Recursive
<1>4. PICK f \in [0..last -> V] :
         f[0] = a /\ \A k \in (0 + 1)..last : f[k] = F[k][f[k - 1]]
  <2> HIDE DEF V, a, F
  <2> QED
    BY <1>3, Recursion
<1>5. ASSUME NEW k \in 0..(last - 1)
      PROVE  f[k] \in V /\ f[k + 1] = Filled(f[k], last - k) /\ last - k \in 1..last
  <2>1. k + 1 \in (0 + 1)..last /\ (k + 1) - 1 = k /\ last + 1 - (k + 1) = last - k /\ k \in 0..last
    BY <1>1
  <2>2. f[k] \in V
    BY <2>1, <1>4
  <2>3. f[k + 1] = F[k + 1][f[k]] /\ F[k + 1][f[k]] = Filled(f[k], last - k)
    <3> HIDE DEF V, F, Filled
    <3> QED
      BY <1>1, <1>2, <1>4, <2>1, <2>2
  <2> QED
    BY <1>1, <2>2, <2>3
\* Behind k steps the last k places have their lines.
<1> DEFINE Good(v, k) ==
              v[0] = <<>> /\ \A i \in (last + 1 - k)..last : v[i] = LinesFrom(memory, i, v)
           Sound == {k \in 0..last : Good(f[k], k)}
<1>6. 0 \in Sound
  BY <1>1, <1>4
<1>7. ASSUME NEW k \in 0..(last - 1), k \in Sound
      PROVE  k + 1 \in Sound
  <2> DEFINE v == f[k]
             u == f[k + 1]
             p == last - k
  <2>1. v \in V /\ u = Filled(v, p) /\ p \in 1..last /\ Good(v, k)
    BY <1>5, <1>7
  <2> HIDE DEF v, u
  <2>2. /\ \A i \in 0..last : i # p => u[i] = v[i]
        /\ u[p] = LinesFrom(memory, p, v)
    BY <2>1
  <2>3. ASSUME NEW i \in p..last PROVE u[i] = LinesFrom(memory, i, u)
    <3>1. \A j \in {0} \cup ((i + 1)..last) : v[j] = u[j]
      BY <1>1, <2>1, <2>2
    <3>2. LinesFrom(memory, i, v) = LinesFrom(memory, i, u)
      <4>1. i \in 0..Len(memory)
        BY <1>1, <2>1
      <4> HIDE DEF V, F, Filled, Good
      <4> QED
        BY <3>1, <4>1, LinesLookAhead
    <3>3. i # p => v[i] = LinesFrom(memory, i, v)
      <4> HIDE DEF V, Filled
      <4> QED
        BY <1>1, <2>1
    <3> QED
      BY <2>1, <2>2, <3>2, <3>3
  <2>4. Good(u, k + 1)
    <3>1. u[0] = <<>> /\ last + 1 - (k + 1) = p
      BY <1>1, <2>1, <2>2
    <3> QED
      BY <2>3, <3>1
  <2>5. k + 1 \in 0..last
    BY <1>1
  <2> QED
    BY <2>4, <2>5 DEF u
<1>8. last \in Sound
  <2>1. 0 \in Int /\ last \in Int /\ last \in 0..last
    BY <1>1
  <2> HIDE DEF Sound, last
  <2> QED
    BY <1>6, <1>7, <2>1, AllAlong
<1>9. f[last] \in V /\ Good(f[last], last) /\ last + 1 - last = 1
  BY <1>1, <1>4, <1>8
<1> DEFINE from == f[last]
<1> HIDE DEF from
<1>10. \A i \in 0..last : from[i] = LinesFrom(memory, i, from)
  <2>1. from[0] = LinesFrom(memory, 0, from)
    BY <1>9 DEF LinesFrom, from
  <2>2. \A i \in 1..last : from[i] = LinesFrom(memory, i, from)
    BY <1>9 DEF from
  <2> QED
    BY <2>1, <2>2
<1>11. IsTable(from, memory)
  BY <1>9, <1>10 DEF IsTable, from
<1> QED
  BY <1>11

\* Every table of the lines holds strings, and the one that Lines chose is one.
LEMMA LinesAreInTable ==
    ASSUME NEW S, NEW memory, Terminated(memory, S)
    PROVE  \E from \in [0..Len(memory) -> Seq(Seq(S))] :
              /\ Lines(memory) = from[1]
              /\ \A i \in 0..Len(memory) : from[i] = LinesFrom(memory, i, from)
<1> DEFINE from == CHOOSE f : IsTable(f, memory)
           last == Len(memory)
<1>1. last \in Nat \ {0}
  BY DEF Terminated
<1>2. IsTable(from, memory)
  BY TableExists
<1>3. Lines(memory) = from[1]
  BY Zenon DEF Lines, IsTable, LinesFrom
<1> HIDE DEF from
<1>4. \A i \in 0..last : from[i] = LinesFrom(memory, i, from)
  BY <1>2 DEF IsTable
<1> DEFINE Sound == {k \in 0..last : \A i \in {0} \cup ((last + 1 - k)..last) : from[i] \in Seq(Seq(S))}
<1>5. from[0] \in Seq(Seq(S))
  <2>1. from[0] = LinesFrom(memory, 0, from)
    BY <1>1, <1>4
  <2>2. from[0] = <<>>
    BY <2>1, Zenon DEF LinesFrom
  <2> QED
    BY <2>2
<1>6. 0 \in Sound
  BY <1>1, <1>5
<1>7. ASSUME NEW k \in 0..(last - 1), k \in Sound
      PROVE  k + 1 \in Sound
  <2> DEFINE p == last - k
  <2>1. /\ p \in 1..last /\ last + 1 - (k + 1) = p /\ last + 1 - k = p + 1
        /\ k + 1 \in 0..last
    BY <1>1
  <2>2. \A j \in {0} \cup ((p + 1)..last) : from[j] \in Seq(Seq(S))
    BY <1>7, <2>1
  <2> HIDE DEF p
  <2>3. p \in 0..last
    BY <1>1, <2>1
  <2>4. LinesFrom(memory, p, from) \in Seq(Seq(S))
    BY <2>2, <2>3, LinesAreStrings
  <2>5. \A j \in {0} \cup (p..last) : from[j] \in Seq(Seq(S))
    <3> SUFFICES ASSUME NEW j \in {0} \cup (p..last) PROVE from[j] \in Seq(Seq(S))
      OBVIOUS
    <3>1. j = p \/ j \in {0} \cup ((p + 1)..last)
      BY <1>1, <2>1
    <3> QED
      BY <1>4, <2>2, <2>3, <2>4, <3>1, Zenon
  <2> QED
    BY <2>1, <2>5
<1>8. last \in Sound
  <2>1. 0 \in Int /\ last \in Int /\ last \in 0..last
    BY <1>1
  <2> HIDE DEF Sound, last
  <2> QED
    BY <1>6, <1>7, <2>1, AllAlong
<1>9. \A i \in 0..last : from[i] \in Seq(Seq(S))
  <2>1. \A i \in 0..last : i \in {0} \cup ((last + 1 - last)..last)
    BY <1>1
  <2> QED
    BY <1>8, <2>1
<1>10. from \in [0..last -> Seq(Seq(S))]
  BY <1>2, <1>9 DEF IsTable
<1> QED
  BY <1>3, <1>4, <1>10

-----------------------------------------------------------------------------
(* Lines in order. *)

\* A sequence that goes up through a set of places.
Enumerates(at, P) ==
    /\ at \in Seq(Nat)
    /\ \A k \in 1..Len(at) : at[k] \in P
    /\ \A p \in P : \E k \in 1..Len(at) : at[k] = p
    /\ \A k, l \in 1..Len(at) : k < l => at[k] < at[l]

\* An increasing sequence tells how many of its set are not above each one.
LEMMA NumbersInOrder ==
    ASSUME NEW P, NEW at, Enumerates(at, P)
    PROVE  /\ Cardinality(P) = Len(at)
           /\ \A k \in 1..Len(at) : Cardinality({p \in P : p <= at[k]}) = k
<1> DEFINE n == Len(at)
           Upto(k) == {p \in P : \E l \in 1..k : at[l] = p}
           Sound == {k \in 0..n : IsFiniteSet(Upto(k)) /\ Cardinality(Upto(k)) = k}
<1>1. n \in Nat /\ at \in [1..n -> Nat]
  BY DEF Enumerates
<1>2. 0 \in Sound
  <2>1. Upto(0) = {}
    OBVIOUS
  <2> HIDE DEF Upto
  <2> QED
    BY <1>1, <2>1, FS_EmptySet
<1>3. ASSUME NEW k \in 0..(n - 1), k \in Sound
      PROVE  k + 1 \in Sound
  <2>1. k + 1 \in 1..n /\ k + 1 \in 0..n
    BY <1>1
  <2>2. Upto(k + 1) = Upto(k) \cup {at[k + 1]}
    <3>1. at[k + 1] \in P
      BY <2>1 DEF Enumerates
    <3>2. \A l \in 1..(k + 1) : l \in 1..k \/ l = k + 1
      BY <1>1
    <3>3. \A l \in 1..k : l \in 1..(k + 1)
      OBVIOUS
    <3>4. k + 1 \in 1..(k + 1)
      OBVIOUS
    <3> QED
      BY <3>1, <3>2, <3>3, <3>4
  <2>3. at[k + 1] \notin Upto(k)
    <3> SUFFICES ASSUME NEW l \in 1..k, at[l] = at[k + 1] PROVE FALSE
      OBVIOUS
    <3>1. l \in 1..n /\ l < k + 1
      BY <1>1
    <3>2. at[l] < at[k + 1]
      BY <2>1, <3>1 DEF Enumerates
    <3> QED
      BY <1>1, <2>1, <3>1, <3>2
  <2> HIDE DEF Upto
  <2>4. IsFiniteSet(Upto(k)) /\ Cardinality(Upto(k)) = k
    BY <1>3
  <2>5. IsFiniteSet(Upto(k + 1)) /\ Cardinality(Upto(k + 1)) = k + 1
    <3>1. /\ IsFiniteSet(Upto(k) \cup {at[k + 1]})
          /\ Cardinality(Upto(k) \cup {at[k + 1]}) = Cardinality(Upto(k)) + 1
      BY <2>3, <2>4, FS_AddElement, Zenon
    <3> QED
      BY <2>2, <2>4, <3>1
  <2> QED
    BY <2>1, <2>5
<1>4. 0..n \subseteq Sound
  <2>1. 0 \in Int /\ n \in Int
    BY <1>1
  <2> HIDE DEF Sound, n
  <2> QED
    BY <1>2, <1>3, <2>1, AllAlong
<1>5. Upto(n) = P
  BY DEF Enumerates
<1>6. ASSUME NEW k \in 1..n PROVE Upto(k) = {p \in P : p <= at[k]}
  <2>1. ASSUME NEW l \in 1..k PROVE at[l] <= at[k]
    <3>1. l \in 1..n /\ (l < k \/ l = k)
      BY <1>1
    <3>2. l < k => at[l] < at[k]
      BY <3>1 DEF Enumerates
    <3> QED
      BY <1>1, <3>1, <3>2
  <2>2. ASSUME NEW l \in 1..n, at[l] <= at[k] PROVE l \in 1..k
    <3>1. k < l => at[k] < at[l]
      BY DEF Enumerates
    <3> QED
      BY <1>1, <2>2, <3>1
  <2>3. \A p \in P : \E l \in 1..n : at[l] = p
    BY DEF Enumerates
  <2> QED
    BY <2>1, <2>2, <2>3
<1> HIDE DEF Upto
<1>7. Cardinality(P) = n
  BY <1>1, <1>4, <1>5
<1>8. \A k \in 1..n : Cardinality(Upto(k)) = k
  BY <1>1, <1>4
<1> QED
  BY <1>6, <1>7, <1>8, Zenon

\* The places where lines begin.
Starts(file) == {i \in DOMAIN file : IsLineStart(file, i)}

\* A line of a file with the spaces it ends with.
CutLineAt(file, i) ==
    LET ends == {j \in i..Len(file) : file[j] \in Delimiters}
    IN  WithoutLeadingSpaces(SubSeq(file, i, IF ends = {} THEN Len(file) ELSE Min(ends) - 1))

\* The lines of a file are those at these places, one after the other.
LEMMA LinesInOrder ==
    ASSUME NEW file, NEW at, Enumerates(at, Starts(file))
    PROVE  LinesOf(file) = [k \in 1..Len(at) |-> LineAt(file, at[k])]
<1> DEFINE P == Starts(file)
           Rank(i) == Cardinality({j \in P : j <= i})
           Start(k) == CHOOSE i \in P : Rank(i) = k
<1>1. Cardinality(P) = Len(at) /\ \A k \in 1..Len(at) : Rank(at[k]) = k
  BY NumbersInOrder
<1>2. LinesOf(file) = [k \in 1..Cardinality(P) |-> LineAt(file, Start(k))]
  BY DEF LinesOf, Starts
<1> HIDE DEF P
<1>3. ASSUME NEW k \in 1..Len(at) PROVE Start(k) = at[k]
  <2>1. at[k] \in P /\ Rank(at[k]) = k
    BY <1>1 DEF Enumerates, P
  <2> HIDE DEF Rank
  <2>2. Start(k) \in P /\ Rank(Start(k)) = k
    BY <2>1
  <2> HIDE DEF Start
  <2>3. PICK l \in 1..Len(at) : at[l] = Start(k)
    BY <2>2 DEF Enumerates, P
  <2>4. Rank(at[l]) = l
    BY <1>1
  <2> QED
    BY <2>2, <2>3, <2>4
<1> HIDE DEF Start
<1> QED
  BY <1>1, <1>2, <1>3

-----------------------------------------------------------------------------
(* What strtok cuts out of a text that something follows in memory. *)

\* A text without a zero at the start of memory, that ends with a delimiter or has
\* a zero behind it.
IsText(text, memory, S) ==
    /\ Terminated(memory, S) /\ text \in Seq(S) /\ Len(text) < Len(memory)
    /\ \A j \in 1..Len(text) : text[j] = memory[j] /\ text[j] # NUL
    /\ memory[Len(text) + 1] = NUL \/ Len(text) = 0 \/ text[Len(text)] \in Delimiters

\* Where no line is cut: a text's start, and behind a delimiter.
IsBetween(text, i) == /\ i \in 1..(Len(text) + 1)
                      /\ i = 1 \/ text[i - 1] \in Delimiters

\* The places from one on where lines begin.
StartsFrom(text, i) == {p \in Starts(text) : i <= p}

\* When only delimiters are left, no line begins, and a zero behind them is found.
LEMMA NoMoreLines ==
    ASSUME NEW S, NEW text, NEW memory, IsText(text, memory, S),
           NEW i \in 1..(Len(text) + 1), \A j \in i..Len(text) : text[j] \in Delimiters
    PROVE  /\ StartsFrom(text, i) = {}
           /\ memory[Len(text) + 1] = NUL => ~ strtok(memory, i).found
<1> DEFINE n == Len(text)
           start == TokenStart(memory, i)
<1>1. /\ n \in Nat /\ Len(memory) \in Nat /\ n < Len(memory) /\ text \in Seq(S)
      /\ i \in 1..Len(memory) /\ NUL \notin Delimiters /\ Terminated(memory, S)
      /\ \A j \in 1..n : text[j] = memory[j]
  BY DEF IsText, Terminated
<1>2. StartsFrom(text, i) = {}
  <2> SUFFICES ASSUME NEW p \in StartsFrom(text, i) PROVE FALSE
    OBVIOUS
  <2>1. p \in 1..n /\ i <= p /\ text[p] \notin Delimiters
    BY <1>1 DEF StartsFrom, Starts, IsLineStart
  <2>2. p \in i..n
    BY <1>1, <2>1
  <2> QED
    BY <2>1, <2>2
<1>3. ASSUME memory[n + 1] = NUL PROVE ~ strtok(memory, i).found
  <2>1. /\ start \in i..Len(memory) /\ memory[start] \notin Delimiters
        /\ \A j \in i..(start - 1) : memory[j] \in Delimiters
        /\ strtok(memory, i).found = (memory[start] # NUL)
    BY <1>1, OneToken
  <2> HIDE DEF start
  <2>2. ~ start < n + 1
    <3> SUFFICES ASSUME start < n + 1 PROVE FALSE
      OBVIOUS
    <3>1. start \in i..n /\ start \in 1..n
      BY <1>1, <2>1
    <3> QED
      BY <1>1, <2>1, <3>1
  <2>3. ~ start > n + 1
    <3> SUFFICES ASSUME start > n + 1 PROVE FALSE
      OBVIOUS
    <3>1. n + 1 \in i..(start - 1)
      BY <1>1, <2>1
    <3> QED
      BY <1>1, <1>3, <2>1, <3>1
  <2>4. start = n + 1
    BY <1>1, <2>1, <2>2, <2>3
  <2> QED
    BY <1>3, <2>1, <2>4
<1> QED
  BY <1>2, <1>3

\* A token that begins in the text ends in it, or with it and before a zero.
LEMMA TokenEndsInText ==
    ASSUME NEW S, NEW text, NEW memory, IsText(text, memory, S), NEW i \in 1..Len(text),
           TokenStart(memory, i) <= Len(text)
    PROVE  /\ TokenStart(memory, i) \in i..Len(text)
           /\ text[TokenStart(memory, i)] \notin Delimiters
           /\ \A j \in i..(TokenStart(memory, i) - 1) : text[j] \in Delimiters
           /\ strtok(memory, i).found
           /\ TokenEnd(memory, i) \in (TokenStart(memory, i) + 1)..(Len(text) + 1)
           /\ \A j \in TokenStart(memory, i)..(TokenEnd(memory, i) - 1) : text[j] \notin Delimiters
           /\ TokenEnd(memory, i) <= Len(text) => text[TokenEnd(memory, i)] \in Delimiters
           /\ TokenEnd(memory, i) = Len(text) + 1 => memory[TokenEnd(memory, i)] = NUL
           /\ strtok(memory, i).token
                = SubSeq(text, TokenStart(memory, i), TokenEnd(memory, i) - 1)
           /\ strtok(memory, i).next
                = IF TokenEnd(memory, i) <= Len(text) THEN TokenEnd(memory, i) + 1 ELSE 0
<1> DEFINE n == Len(text)
           start == TokenStart(memory, i)
           end == TokenEnd(memory, i)
<1>1. /\ n \in Nat \ {0} /\ Len(memory) \in Nat /\ n < Len(memory)
      /\ text \in Seq(S) /\ memory \in Seq(S)
      /\ i \in 1..Len(memory) /\ NUL \notin Delimiters /\ Terminated(memory, S)
      /\ \A j \in 1..n : text[j] = memory[j] /\ text[j] # NUL
      /\ memory[n + 1] = NUL \/ text[n] \in Delimiters
  BY DEF IsText, Terminated
<1>2. /\ start \in i..Len(memory) /\ memory[start] \notin Delimiters
      /\ \A j \in i..(start - 1) : memory[j] \in Delimiters
      /\ IsFirst(end, memory, start, Delimiters \cup {NUL})
      /\ strtok(memory, i).found = (memory[start] # NUL)
      /\ strtok(memory, i).token = SubSeq(memory, start, end - 1)
      /\ strtok(memory, i).next = IF memory[end] = NUL THEN 0 ELSE end + 1
  <2>1. i \in 1..Len(memory) /\ Terminated(memory, S)
    BY <1>1
  <2> HIDE DEF start, end
  <2>2. /\ start \in i..Len(memory) /\ memory[start] \notin Delimiters
        /\ \A j \in i..(start - 1) : memory[j] \in Delimiters
    BY <2>1, OneToken DEF start
  <2>3. IsFirst(end, memory, start, Delimiters \cup {NUL})
    BY <2>1, OneToken DEF start, end
  <2>4. strtok(memory, i).found = (memory[start] # NUL)
    BY <2>1, OneToken DEF start
  <2>5. strtok(memory, i).token = SubSeq(memory, start, end - 1)
    BY <2>1, OneToken DEF start, end
  <2>6. strtok(memory, i).next = IF memory[end] = NUL THEN 0 ELSE end + 1
    BY <2>1, OneToken DEF end
  <2> QED
    BY <2>2, <2>3, <2>4, <2>5, <2>6
<1>3. start <= n
  OBVIOUS
<1> HIDE DEF start, end
<1>4. start \in i..n /\ start \in 1..n /\ text[start] \notin Delimiters /\ memory[start] # NUL
  BY <1>1, <1>2, <1>3
<1>5. \A j \in i..(start - 1) : text[j] \in Delimiters
  <2>1. \A j \in i..(start - 1) : j \in 1..n
    BY <1>1, <1>4
  <2> QED
    BY <1>1, <1>2, <2>1
<1>6. /\ end \in start..Len(memory) /\ memory[end] \in Delimiters \cup {NUL}
      /\ \A j \in start..(end - 1) : memory[j] \notin Delimiters /\ memory[j] # NUL
  BY <1>2 DEF IsFirst
<1>7. end # start
  BY <1>1, <1>4, <1>6
<1>8. end <= n + 1
  <2> SUFFICES ASSUME end > n + 1 PROVE FALSE
    BY <1>1, <1>6
  <2>1. n \in start..(end - 1) /\ n + 1 \in start..(end - 1) /\ n \in 1..n
    BY <1>1, <1>4, <1>6
  <2> QED
    BY <1>1, <1>6, <2>1
<1>9. end \in (start + 1)..(n + 1)
  BY <1>1, <1>4, <1>6, <1>7, <1>8
<1>10. \A j \in start..(end - 1) : j \in 1..n
  BY <1>1, <1>4, <1>9
<1>11. \A j \in start..(end - 1) : text[j] \notin Delimiters
  BY <1>1, <1>6, <1>10
<1>12. end <= n => end \in 1..n /\ text[end] \in Delimiters /\ memory[end] # NUL
  BY <1>1, <1>4, <1>6, <1>9
<1>13. end = n + 1 => memory[end] = NUL
  <2> SUFFICES ASSUME end = n + 1, memory[n + 1] # NUL PROVE FALSE
    OBVIOUS
  <2>1. n \in start..(end - 1)
    BY <1>1, <1>4, <1>9
  <2> QED
    BY <1>1, <1>11, <2>1
<1>14. SubSeq(memory, start, end - 1) = SubSeq(text, start, end - 1)
  BY <1>1, <1>4, <1>9, <1>10
<1>15. strtok(memory, i).next = IF end <= n THEN end + 1 ELSE 0
  <2>1. end <= n \/ end = n + 1
    BY <1>1, <1>9
  <2>2. ~ n + 1 <= n
    BY <1>1
  <2> QED
    BY <1>2, <1>12, <1>13, <2>1, <2>2
<1> QED
  BY <1>2, <1>4, <1>5, <1>9, <1>11, <1>12, <1>13, <1>14, <1>15 DEF start, end

\* It is the line of the file that begins there.
LEMMA TokenIsLine ==
    ASSUME NEW S, NEW text, NEW memory, IsText(text, memory, S), NEW i \in 1..Len(text),
           TokenStart(memory, i) <= Len(text)
    PROVE  WithoutLeadingSpaces(strtok(memory, i).token) = CutLineAt(text, TokenStart(memory, i))
<1> DEFINE n == Len(text)
           start == TokenStart(memory, i)
           end == TokenEnd(memory, i)
           ends == {j \in start..n : text[j] \in Delimiters}
<1>1. /\ start \in i..n /\ end \in (start + 1)..(n + 1) /\ n \in Nat
      /\ \A j \in start..(end - 1) : text[j] \notin Delimiters
      /\ end <= n => text[end] \in Delimiters
      /\ strtok(memory, i).token = SubSeq(text, start, end - 1)
  <2>1. n \in Nat
    BY DEF IsText
  <2> HIDE DEF start, end
  <2>2. start \in i..n /\ end \in (start + 1)..(n + 1)
    BY TokenEndsInText DEF start, end
  <2>3. \A j \in start..(end - 1) : text[j] \notin Delimiters
    BY TokenEndsInText DEF start, end
  <2>4. end <= n => text[end] \in Delimiters
    BY TokenEndsInText DEF end
  <2>5. strtok(memory, i).token = SubSeq(text, start, end - 1)
    BY TokenEndsInText DEF start, end
  <2> QED
    BY <2>1, <2>2, <2>3, <2>4, <2>5
<1> HIDE DEF start, end
<1>2. CutLineAt(text, start)
         = WithoutLeadingSpaces(SubSeq(text, start, IF ends = {} THEN n ELSE Min(ends) - 1))
  BY DEF CutLineAt
<1>3. (IF ends = {} THEN n ELSE Min(ends) - 1) = end - 1
  <2>1. CASE end <= n
    <3>1. end \in ends /\ \A j \in ends : j \in Nat /\ end <= j
      BY <1>1, <2>1
    <3>2. Min(ends) \in ends /\ Min(ends) <= end
      <4> HIDE DEF ends
      <4>1. end <= end
        BY <1>1
      <4> QED
        BY <3>1, <4>1, Zenon DEF Min
    <3>3. Min(ends) = end
      BY <1>1, <3>1, <3>2
    <3> HIDE DEF ends
    <3> QED
      BY <3>1, <3>3
  <2>2. CASE end = n + 1
    <3>1. ends = {}
      BY <1>1, <2>2
    <3> QED
      BY <1>1, <2>2, <3>1
  <2> QED
    BY <1>1, <2>1, <2>2
<1> HIDE DEF ends
<1> QED
  BY <1>1, <1>2, <1>3 DEF start

\* The lines cut from a place on begin with the text's from there, in order, and
\* are all of them if a zero follows the text.
LinesAgree(text, memory, i, lines) ==
    \E at : /\ Enumerates(at, StartsFrom(text, i))
            /\ Len(at) <= Len(lines)
            /\ \A k \in 1..Len(at) : lines[k] = CutLineAt(text, at[k])
            /\ memory[Len(text) + 1] = NUL => Len(lines) = Len(at)

\* Without lines they do.
LEMMA NoLinesAgree ==
    ASSUME NEW S, NEW text, NEW memory, IsText(text, memory, S),
           NEW i \in 1..(Len(text) + 1), \A j \in i..Len(text) : text[j] \in Delimiters,
           NEW lines \in Seq(Seq(S)), ~ strtok(memory, i).found => lines = <<>>
    PROVE  LinesAgree(text, memory, i, lines)
<1>1. /\ StartsFrom(text, i) = {}
      /\ memory[Len(text) + 1] = NUL => ~ strtok(memory, i).found
  BY NoMoreLines
<1>2. Enumerates(<<>>, {}) /\ Len(<<>>) = 0 /\ Len(lines) \in Nat
  BY DEF Enumerates
<1>3. memory[Len(text) + 1] = NUL => Len(lines) = 0
  BY <1>1, <1>2
<1>4. \A k \in 1..0 : lines[k] = CutLineAt(text, <<>>[k])
  OBVIOUS
<1>5. 0 <= Len(lines)
  BY <1>2
<1> QED
  BY <1>1, <1>2, <1>3, <1>4, <1>5, Zenon DEF LinesAgree

\* A place before all of a set goes before what enumerates it.
LEMMA OneBefore ==
    ASSUME NEW P, NEW at, Enumerates(at, P), NEW p \in Nat, \A q \in P : p < q
    PROVE  Enumerates(<<p>> \o at, {p} \cup P)
<1> DEFINE all == <<p>> \o at
<1>1. at \in Seq(Nat) /\ Len(at) \in Nat /\ <<p>> \in Seq(Nat) /\ Len(<<p>>) = 1
  BY DEF Enumerates
<1>2. /\ all \in Seq(Nat) /\ Len(all) = 1 + Len(at) /\ all[1] = p
      /\ \A k \in 1..Len(at) : all[k + 1] = at[k]
  BY <1>1
<1> HIDE DEF all
<1>3. \A k \in 1..Len(all) : k = 1 \/ (k - 1 \in 1..Len(at) /\ all[k] = at[k - 1])
  <2> SUFFICES ASSUME NEW k \in 1..Len(all), k # 1
               PROVE  k - 1 \in 1..Len(at) /\ all[k] = at[k - 1]
    OBVIOUS
  <2>1. k - 1 \in 1..Len(at) /\ (k - 1) + 1 = k
    BY <1>1, <1>2
  <2>2. all[(k - 1) + 1] = at[k - 1]
    BY <1>2, <2>1
  <2> QED
    BY <2>1, <2>2
<1>4. \A k \in 1..Len(all) : all[k] \in {p} \cup P
  BY <1>2, <1>3 DEF Enumerates
<1>5. \A q \in {p} \cup P : \E k \in 1..Len(all) : all[k] = q
  <2>1. 1 \in 1..Len(all)
    BY <1>1, <1>2
  <2>2. ASSUME NEW q \in P PROVE \E k \in 1..Len(all) : all[k] = q
    <3>1. PICK k \in 1..Len(at) : at[k] = q
      BY DEF Enumerates
    <3>2. k + 1 \in 1..Len(all) /\ all[k + 1] = q
      BY <1>1, <1>2, <3>1
    <3> QED
      BY <3>2
  <2> QED
    BY <1>2, <2>1, <2>2
<1>6. ASSUME NEW k \in 1..Len(all), NEW l \in 1..Len(all), k < l
      PROVE  all[k] < all[l]
  <2>1. l - 1 \in 1..Len(at) /\ all[l] = at[l - 1]
    BY <1>1, <1>2, <1>3, <1>6
  <2>2. CASE k = 1
    <3>1. at[l - 1] \in P
      BY <2>1 DEF Enumerates
    <3> QED
      BY <1>2, <2>1, <2>2, <3>1
  <2>3. CASE k # 1
    <3>1. k - 1 \in 1..Len(at) /\ all[k] = at[k - 1] /\ k - 1 < l - 1
      BY <1>1, <1>2, <1>3, <1>6, <2>3
    <3> QED
      BY <2>1, <3>1 DEF Enumerates
  <2> QED
    BY <2>2, <2>3
<1> QED
  BY <1>2, <1>4, <1>5, <1>6 DEF Enumerates, all

\* Between a line's start and what follows it no other line begins.
LEMMA NextStarts ==
    ASSUME NEW S, NEW text \in Seq(S), NEW i, IsBetween(text, i),
           NEW start \in i..Len(text), NEW end \in (start + 1)..(Len(text) + 1),
           text[start] \notin Delimiters,
           \A j \in i..(start - 1) : text[j] \in Delimiters,
           \A j \in start..(end - 1) : text[j] \notin Delimiters,
           end <= Len(text) => text[end] \in Delimiters
    PROVE  StartsFrom(text, i) = {start} \cup StartsFrom(text, end + 1)
<1>1. Len(text) \in Nat /\ i \in 1..(Len(text) + 1) /\ DOMAIN text = 1..Len(text)
      /\ (i = 1 \/ text[i - 1] \in Delimiters)
  BY DEF IsBetween
<1>2. start \in StartsFrom(text, i)
  <2>1. start = 1 \/ text[start - 1] \in Delimiters
    <3>1. start = i \/ start - 1 \in i..(start - 1)
      BY <1>1
    <3> QED
      BY <1>1, <3>1
  <2> QED
    BY <1>1, <2>1 DEF StartsFrom, Starts, IsLineStart
<1>3. ASSUME NEW p \in StartsFrom(text, i), p # start PROVE p \in StartsFrom(text, end + 1)
  <2>1. /\ p \in Starts(text) /\ p \in i..Len(text) /\ text[p] \notin Delimiters
        /\ p = 1 \/ text[p - 1] \in Delimiters
    BY <1>1 DEF StartsFrom, Starts, IsLineStart
  <2>2. ~ p < start
    <3> SUFFICES ASSUME p < start PROVE FALSE
      OBVIOUS
    <3>1. p \in i..(start - 1)
      BY <1>1, <2>1
    <3> QED
      BY <2>1, <3>1
  <2>3. ~ p <= end
    <3> SUFFICES ASSUME p <= end PROVE FALSE
      OBVIOUS
    <3>1. p # 1 /\ p - 1 \in start..(end - 1)
      BY <1>1, <1>3, <2>1, <2>2
    <3> QED
      BY <2>1, <3>1
  <2>4. end + 1 <= p
    BY <1>1, <2>1, <2>3
  <2> QED
    BY <2>1, <2>4 DEF StartsFrom
<1>4. StartsFrom(text, end + 1) \subseteq StartsFrom(text, i)
  <2> SUFFICES ASSUME NEW p \in Starts(text), end + 1 <= p PROVE i <= p
    BY DEF StartsFrom
  <2>1. p \in Nat
    BY <1>1 DEF Starts
  <2> QED
    BY <1>1, <2>1
<1> QED
  BY <1>2, <1>3, <1>4

\* The token's line is the first of those that begin there or further on.
LEMMA FirstOfTheRest ==
    ASSUME NEW S, NEW text, NEW memory, IsText(text, memory, S), NEW i \in 1..Len(text),
           IsBetween(text, i), TokenStart(memory, i) <= Len(text)
    PROVE  StartsFrom(text, i)
             = {TokenStart(memory, i)} \cup StartsFrom(text, TokenEnd(memory, i) + 1)
<1> DEFINE start == TokenStart(memory, i)
           end == TokenEnd(memory, i)
<1>1. text \in Seq(S)
  BY DEF IsText
<1>2. /\ start \in i..Len(text) /\ end \in (start + 1)..(Len(text) + 1)
      /\ text[start] \notin Delimiters
      /\ \A l \in i..(start - 1) : text[l] \in Delimiters
  BY TokenEndsInText
<1>3. /\ \A l \in start..(end - 1) : text[l] \notin Delimiters
      /\ end <= Len(text) => text[end] \in Delimiters
  BY TokenEndsInText
<1> HIDE DEF start, end
<1>4. StartsFrom(text, i) = {start} \cup StartsFrom(text, end + 1)
  BY <1>1, <1>2, <1>3, NextStarts
<1> QED
  BY <1>4 DEF start, end

\* The line cut at a place, and the lines behind it, agree if these do.
LEMMA NextLineAgrees ==
    ASSUME NEW S, NEW text, NEW memory, IsText(text, memory, S),
           NEW from \in [0..Len(memory) -> Seq(Seq(S))],
           \A i \in 0..Len(memory) : from[i] = LinesFrom(memory, i, from),
           NEW i \in Int, IsBetween(text, i),
           \A j \in (i + 1)..(Len(text) + 1) :
              IsBetween(text, j) => LinesAgree(text, memory, j, from[j])
    PROVE  LinesAgree(text, memory, i, from[i])
<1> DEFINE n == Len(text)
           start == TokenStart(memory, i)
           end == TokenEnd(memory, i)
           tail == from[IF end <= n THEN end + 1 ELSE 0]
<1>1. /\ n \in Nat /\ Len(memory) \in Nat /\ n < Len(memory) /\ text \in Seq(S)
      /\ i \in 1..(n + 1) /\ i \in 1..Len(memory) /\ i \in 0..Len(memory)
      /\ Terminated(memory, S)
      /\ \A j \in 1..n : text[j] = memory[j]
  BY DEF IsText, Terminated, IsBetween
<1>2. CASE \A j \in i..n : text[j] \in Delimiters
  <2>1. ~ strtok(memory, i).found => from[i] = <<>>
    BY <1>1 DEF LinesFrom
  <2>2. from[i] \in Seq(Seq(S))
    BY <1>1
  <2> QED
    BY <1>1, <1>2, <2>1, <2>2, NoLinesAgree
<1>3. CASE ~ \A j \in i..n : text[j] \in Delimiters
  <2>1. PICK j \in i..n : text[j] \notin Delimiters
    BY <1>3
  <2>2. i \in 1..n /\ j \in 1..n
    BY <1>1, <2>1
  <2>3. start <= n
    <3>1. start \in i..Len(memory) /\ \A l \in i..(start - 1) : memory[l] \in Delimiters
      BY <1>1, OneToken
    <3> HIDE DEF start
    <3> SUFFICES ASSUME ~ start <= n PROVE FALSE
      OBVIOUS
    <3>2. j \in i..(start - 1)
      BY <1>1, <2>1, <3>1
    <3> QED
      BY <1>1, <2>1, <2>2, <3>1, <3>2
  <2>4. /\ start \in i..n /\ text[start] \notin Delimiters
        /\ \A l \in i..(start - 1) : text[l] \in Delimiters
        /\ end \in (start + 1)..(n + 1)
    BY <2>2, <2>3, TokenEndsInText
  <2>5. /\ \A l \in start..(end - 1) : text[l] \notin Delimiters
        /\ end <= n => text[end] \in Delimiters
        /\ end = n + 1 => memory[end] = NUL
    BY <2>2, <2>3, TokenEndsInText
  <2>6. /\ strtok(memory, i).found
        /\ strtok(memory, i).next = IF end <= n THEN end + 1 ELSE 0
    BY <2>2, <2>3, TokenEndsInText
  <2>7. WithoutLeadingSpaces(strtok(memory, i).token) = CutLineAt(text, start)
    BY <2>2, <2>3, TokenIsLine
  <2> HIDE DEF start, end
  <2>8. from[i] = <<CutLineAt(text, start)>> \o tail
    <3>1. i # 0
      BY <1>1
    <3>2. from[i] = LinesFrom(memory, i, from)
      BY <1>1
    <3> QED
      BY <2>6, <2>7, <3>1, <3>2, Zenon DEF LinesFrom
  <2>9. StartsFrom(text, i) = {start} \cup StartsFrom(text, end + 1)
    BY <2>2, <2>3, FirstOfTheRest DEF start, end
  <2>10. tail \in Seq(Seq(S)) /\ LinesAgree(text, memory, end + 1, tail)
    <3>1. CASE end <= n
      <4>1. end + 1 \in (i + 1)..(n + 1) /\ end + 1 \in 0..Len(memory)
        BY <1>1, <2>4, <3>1
      <4>2. IsBetween(text, end + 1)
        BY <1>1, <2>4, <2>5, <3>1, <4>1 DEF IsBetween
      <4>3. tail = from[end + 1]
        BY <3>1
      <4> HIDE DEF tail
      <4> QED
        BY <4>1, <4>2, <4>3
    <3>2. CASE ~ end <= n
      <4>1. tail = from[0] /\ 0 \in 0..Len(memory) /\ from[0] = LinesFrom(memory, 0, from)
        BY <1>1, <3>2
      <4>2. tail = <<>>
        BY <4>1, Zenon DEF LinesFrom
      <4>3. StartsFrom(text, end + 1) = {}
        BY <1>1, <2>4, <3>2 DEF StartsFrom, Starts
      <4> HIDE DEF tail
      <4>4. Enumerates(<<>>, {}) /\ Len(<<>>) = 0 /\ 0 <= 0
        BY DEF Enumerates
      <4>5. \A k \in 1..0 : tail[k] = CutLineAt(text, <<>>[k])
        OBVIOUS
      <4>6. LinesAgree(text, memory, end + 1, tail)
        BY <4>2, <4>3, <4>4, <4>5, Zenon DEF LinesAgree
      <4> QED
        BY <4>2, <4>6
    <3> QED
      BY <3>1, <3>2
  <2> HIDE DEF tail
  <2>11. PICK at : /\ Enumerates(at, StartsFrom(text, end + 1))
                   /\ Len(at) <= Len(tail)
                   /\ \A k \in 1..Len(at) : tail[k] = CutLineAt(text, at[k])
                   /\ memory[n + 1] = NUL => Len(tail) = Len(at)
    BY <2>10 DEF LinesAgree
  <2> DEFINE all == <<start>> \o at
             line == CutLineAt(text, start)
  <2>12. Enumerates(all, StartsFrom(text, i))
    <3>1. \A q \in StartsFrom(text, end + 1) : start < q
      BY <1>1, <2>4 DEF StartsFrom, Starts
    <3>2. start \in Nat
      BY <1>1, <2>4
    <3> QED
      BY <2>9, <2>11, <3>1, <3>2, OneBefore
  <2> HIDE DEF line
  <2>13. at \in Seq(Nat) /\ start \in Nat
    BY <1>1, <2>4, <2>11 DEF Enumerates
  <2>14. /\ Len(all) = 1 + Len(at) /\ all[1] = start
         /\ \A k \in 1..Len(at) : all[k + 1] = at[k]
    BY <2>13
  <2>15. /\ Len(from[i]) = 1 + Len(tail) /\ from[i][1] = line
         /\ \A k \in 1..Len(tail) : from[i][k + 1] = tail[k]
    <3>1. from[i] = <<line>> \o tail
      BY <2>8 DEF line
    <3>2. tail \in Seq(Seq(S))
      BY <2>10
    <3>3. /\ Len(<<line>> \o tail) = 1 + Len(tail) /\ (<<line>> \o tail)[1] = line
          /\ \A k \in 1..Len(tail) : (<<line>> \o tail)[k + 1] = tail[k]
      BY <3>2
    <3> QED
      BY <3>1, <3>3
  <2> HIDE DEF all
  <2>16. Len(at) \in Nat /\ Len(tail) \in Nat
    BY <2>10, <2>13
  <2>17. ASSUME NEW k \in 1..Len(all) PROVE from[i][k] = CutLineAt(text, all[k])
    <3>1. CASE k = 1
      BY <2>14, <2>15, <3>1 DEF line
    <3>2. CASE k # 1
      <4>1. k - 1 \in 1..Len(at) /\ k - 1 \in 1..Len(tail) /\ (k - 1) + 1 = k
        BY <2>11, <2>14, <2>16, <3>2
      <4>2. all[(k - 1) + 1] = at[k - 1] /\ from[i][(k - 1) + 1] = tail[k - 1]
        BY <2>14, <2>15, <4>1
      <4> QED
        BY <2>11, <4>1, <4>2
    <3> QED
      BY <3>1, <3>2
  <2>18. Len(all) <= Len(from[i]) /\ (memory[n + 1] = NUL => Len(from[i]) = Len(all))
    BY <2>11, <2>14, <2>15, <2>16
  <2> QED
    BY <2>12, <2>17, <2>18, Zenon DEF LinesAgree
<1> QED
  BY <1>2, <1>3

\* The last of some places.
LEMMA GreatestPlace ==
    ASSUME NEW n \in Nat, NEW P, P \subseteq 1..n, P # {}
    PROVE  \E x \in P : \A y \in P : x >= y
<1> DEFINE negative == {n - j : j \in P}
<1>1. negative \in SUBSET Nat /\ negative # {}
  <2>1. \A j \in P : n - j \in Nat
    OBVIOUS
  <2> QED
    BY <2>1, Zenon
<1>2. PICK m \in negative : \A k \in negative : m <= k
  BY <1>1, LeastElement
<1>3. PICK x \in P : m = n - x
  BY <1>2
<1>4. ASSUME NEW y \in P PROVE x >= y
  <2>1. n - x <= n - y
    BY <1>2, <1>3
  <2> QED
    BY <1>3, <2>1
<1> QED
  BY <1>4

\* A line without the spaces before it is the trimmed one but for those behind it.
LEMMA CutButForSpaces ==
    ASSUME NEW S, NEW line \in Seq(S)
    PROVE  IsButForSpaces(WithoutLeadingSpaces(line), Trimmed(line))
<1> DEFINE kept == {j \in DOMAIN line : line[j] # Space}
           n == Len(line)
<1>0. n \in Nat /\ kept \subseteq 1..n /\ kept \in SUBSET Nat
  OBVIOUS
<1>1. CASE kept = {}
  <2>1. WithoutLeadingSpaces(line) = <<>> /\ Trimmed(line) = <<>>
    BY <1>1 DEF WithoutLeadingSpaces, Trimmed
  <2> QED
    BY <2>1 DEF IsButForSpaces, IsPrefix
<1>2. CASE kept # {}
  <2> DEFINE first == Min(kept)
             last == Max(kept)
  <2>1. first \in kept /\ last \in kept /\ \A j \in kept : first <= j /\ j <= last
    <3>1. PICK m \in kept : \A k \in kept : m <= k
      BY <1>0, <1>2, LeastElement
    <3>2. PICK x \in kept : \A k \in kept : x >= k
      BY <1>0, <1>2, GreatestPlace
    <3> HIDE DEF kept
    <3>3. first \in kept /\ \A k \in kept : first <= k
      BY <3>1, Zenon DEF Min
    <3>4. last \in kept /\ \A k \in kept : last >= k
      BY <3>2, Zenon DEF Max
    <3> QED
      BY <1>0, <3>3, <3>4
  <2>2. WithoutLeadingSpaces(line) = SubSeq(line, first, n) /\ Trimmed(line) = SubSeq(line, first, last)
    BY <1>2 DEF WithoutLeadingSpaces, Trimmed
  <2>3. first \in 1..n /\ last \in first..n /\ \A j \in (last + 1)..n : line[j] = Space
    <3> HIDE DEF first, last
    <3>1. first \in 1..n /\ last \in first..n
      BY <1>0, <2>1
    <3>2. ASSUME NEW j \in (last + 1)..n PROVE line[j] = Space
      <4>1. j \in 1..n /\ ~ j <= last
        BY <3>1
      <4>2. j \notin kept
        <5> HIDE DEF kept
        <5> QED
          BY <2>1, <4>1
      <4> QED
        BY <4>1, <4>2
    <3> QED
      BY <3>1, <3>2
  <2> HIDE DEF first, last, kept
  <2> DEFINE cut == SubSeq(line, first, n)
             trim == SubSeq(line, first, last)
  <2>4. /\ cut \in Seq(S) /\ Len(cut) = n - first + 1
        /\ \A j \in 1..(n - first + 1) : cut[j] = line[first + j - 1]
    BY <1>0, <2>3
  <2>5. /\ trim \in Seq(S) /\ Len(trim) = last - first + 1
        /\ \A j \in 1..(last - first + 1) : trim[j] = line[first + j - 1]
    BY <1>0, <2>3
  <2>6. trim = SubSeq(cut, 1, Len(trim)) /\ Len(trim) <= Len(cut)
    <3>1. Len(trim) <= Len(cut) /\ Len(trim) \in Nat /\ Len(cut) \in Nat
      BY <1>0, <2>3, <2>4, <2>5
    <3>2. \A j \in 1..Len(trim) : trim[j] = cut[j]
      BY <1>0, <2>3, <2>4, <2>5
    <3> HIDE DEF cut, trim
    <3>3. /\ SubSeq(cut, 1, Len(trim)) \in Seq(S) /\ Len(SubSeq(cut, 1, Len(trim))) = Len(trim)
          /\ \A j \in 1..Len(trim) : SubSeq(cut, 1, Len(trim))[j] = cut[j]
      BY <2>4, <3>1
    <3> QED
      BY <2>5, <3>1, <3>2, <3>3
  <2>7. \A j \in (Len(trim) + 1)..Len(cut) : cut[j] = Space
    <3> SUFFICES ASSUME NEW j \in (Len(trim) + 1)..Len(cut) PROVE cut[j] = Space
      OBVIOUS
    <3>1. j \in 1..(n - first + 1) /\ first + j - 1 \in (last + 1)..n
      BY <1>0, <2>3, <2>4, <2>5
    <3> HIDE DEF cut, trim
    <3> QED
      BY <2>3, <2>4, <3>1
  <2> HIDE DEF cut, trim
  <2>8. IsPrefix(trim, cut)
    BY <2>6 DEF IsPrefix
  <2> QED
    BY <2>2, <2>7, <2>8 DEF IsButForSpaces, cut, trim
<1> QED
  BY <1>1, <1>2

\* So it is for each line of a text.
LEMMA LineButForSpaces ==
    ASSUME NEW S, NEW text \in Seq(S), NEW i \in 1..Len(text)
    PROVE  IsButForSpaces(CutLineAt(text, i), LineAt(text, i))
<1> DEFINE ends == {j \in i..Len(text) : text[j] \in Delimiters}
           line == SubSeq(text, i, IF ends = {} THEN Len(text) ELSE Min(ends) - 1)
<1>1. line \in Seq(S)
  <2>1. CASE ends = {}
    BY <2>1
  <2>2. CASE ends # {}
    <3>1. ends \in SUBSET Nat
      OBVIOUS
    <3>2. PICK m \in ends : \A k \in ends : m <= k
      BY <2>2, <3>1, LeastElement
    <3> HIDE DEF ends
    <3>3. Min(ends) \in ends
      BY <3>2, Zenon DEF Min
    <3>4. Min(ends) \in i..Len(text)
      BY <3>3 DEF ends
    <3> QED
      BY <2>2, <3>4
  <2> QED
    BY <2>1, <2>2
<1>2. CutLineAt(text, i) = WithoutLeadingSpaces(line) /\ LineAt(text, i) = Trimmed(line)
  BY DEF CutLineAt, LineAt
<1> HIDE DEF line
<1> QED
  BY <1>1, <1>2, CutButForSpaces

\* What is cut from the start of memory begins with the lines of the text there, and
\* has no more if a zero follows the text.
LEMMA TextIsCut ==
    ASSUME NEW S, NEW text, NEW memory, IsText(text, memory, S)
    PROVE  /\ BeginWith(Lines(memory), LinesOf(text))
           /\ memory[Len(text) + 1] = NUL => Len(Lines(memory)) = Len(LinesOf(text))
<1> DEFINE n == Len(text)
<1>1. n \in Nat /\ Len(memory) \in Nat /\ n < Len(memory) /\ Terminated(memory, S) /\ text \in Seq(S)
  BY DEF IsText, Terminated
<1>2. PICK from \in [0..Len(memory) -> Seq(Seq(S))] :
         /\ Lines(memory) = from[1]
         /\ \A i \in 0..Len(memory) : from[i] = LinesFrom(memory, i, from)
  BY <1>1, LinesAreInTable
<1> DEFINE Agrees(i) == IsBetween(text, i) => LinesAgree(text, memory, i, from[i])
           Sound == {k \in 0..n : \A i \in (n + 1 - k)..(n + 1) : Agrees(i)}
<1>3. ASSUME NEW p \in 1..(n + 1), \A i \in (p + 1)..(n + 1) : Agrees(i)
      PROVE  Agrees(p)
  <2>1. p \in Int
    OBVIOUS
  <2> QED
    BY <1>2, <1>3, <2>1, NextLineAgrees
<1> HIDE DEF Agrees
<1>4. 0 \in Sound
  <2>1. Agrees(n + 1)
    BY <1>1, <1>3
  <2>2. \A i \in (n + 1 - 0)..(n + 1) : i = n + 1
    BY <1>1
  <2> QED
    BY <1>1, <2>1, <2>2
<1>5. ASSUME NEW k \in 0..(n - 1), k \in Sound PROVE k + 1 \in Sound
  <2> DEFINE p == n - k
  <2>1. /\ p \in 1..(n + 1) /\ n + 1 - k = p + 1 /\ n + 1 - (k + 1) = p
        /\ k + 1 \in 0..n
    BY <1>1
  <2>2. \A i \in (p + 1)..(n + 1) : Agrees(i)
    BY <1>5, <2>1
  <2> HIDE DEF p
  <2>3. Agrees(p)
    BY <1>3, <2>1, <2>2
  <2>4. \A i \in p..(n + 1) : i = p \/ i \in (p + 1)..(n + 1)
    BY <1>1, <2>1
  <2>5. \A i \in p..(n + 1) : Agrees(i)
    BY <2>2, <2>3, <2>4, Zenon
  <2> QED
    BY <2>1, <2>5
<1>6. n \in Sound
  <2>1. 0 \in Int /\ n \in Int /\ n \in 0..n
    BY <1>1
  <2> HIDE DEF Sound, n
  <2> QED
    BY <1>4, <1>5, <2>1, AllAlong
<1>7. LinesAgree(text, memory, 1, from[1])
  <2>1. 1 \in (n + 1 - n)..(n + 1) /\ IsBetween(text, 1)
    BY <1>1 DEF IsBetween
  <2> QED
    BY <1>6, <2>1 DEF Agrees
<1> DEFINE lines == from[1]
<1>8. lines \in Seq(Seq(S))
  <2>1. 1 \in 0..Len(memory)
    BY <1>1
  <2> QED
    BY <2>1
<1> HIDE DEF lines
<1>9. PICK at : /\ Enumerates(at, StartsFrom(text, 1))
                /\ Len(at) <= Len(lines)
                /\ \A k \in 1..Len(at) : lines[k] = CutLineAt(text, at[k])
                /\ memory[n + 1] = NUL => Len(lines) = Len(at)
  BY <1>7 DEF LinesAgree, lines
<1>10. StartsFrom(text, 1) = Starts(text)
  BY <1>1 DEF StartsFrom, Starts
<1>11. LinesOf(text) = [k \in 1..Len(at) |-> LineAt(text, at[k])]
  BY <1>9, <1>10, LinesInOrder
<1>12. Len(at) \in Nat /\ Len(lines) \in Nat /\ \A k \in 1..Len(at) : at[k] \in 1..n
  <2>1. Len(at) \in Nat /\ \A k \in 1..Len(at) : at[k] \in Starts(text)
    BY <1>9, <1>10 DEF Enumerates
  <2>2. Starts(text) \subseteq 1..n
    BY <1>1 DEF Starts
  <2>3. Len(lines) \in Nat
    BY <1>8
  <2> QED
    BY <2>1, <2>2, <2>3
<1>13. Len(LinesOf(text)) = Len(at) /\ DOMAIN LinesOf(text) = 1..Len(at)
  BY <1>11, <1>12
<1>14. ASSUME NEW k \in 1..Len(at) PROVE IsButForSpaces(lines[k], LinesOf(text)[k])
  <2>1. lines[k] = CutLineAt(text, at[k]) /\ LinesOf(text)[k] = LineAt(text, at[k])
    BY <1>9, <1>11
  <2>2. IsButForSpaces(CutLineAt(text, at[k]), LineAt(text, at[k]))
    BY <1>1, <1>12, LineButForSpaces
  <2> QED
    BY <2>1, <2>2
<1>15. Lines(memory) = lines
  BY <1>2 DEF lines
<1> QED
  BY <1>9, <1>13, <1>14, <1>15 DEF BeginWith

\* A script without a zero is read as it is written, however long it is and whatever
\* follows it in memory: LdrExecBat executes the lines of a file that fits what is
\* read and has a zero behind it, and the complete lines of any other first.
THEOREM ScriptIsReadAsWritten ==
    ASSUME NEW S, NUL \notin Delimiters, Limit \in Nat,
           NEW file \in Seq(S), NEW rest \in Seq(S), \A i \in 1..Len(file) : file[i] # NUL
    PROVE  ReadsAsWritten(file, rest)
<1> DEFINE T == S \cup {NUL}
           read == Read(file)
           before == read \o rest
           memory == before \o <<NUL>>
           lines == LdrExecBat_lines(file, rest)
<1>1. /\ read \in Seq(S) /\ Len(read) <= Len(file) /\ Len(read) \in Nat
      /\ \A i \in 1..Len(read) : read[i] = file[i]
      /\ Len(file) <= Limit => read = file
  <2> DEFINE sizes == {Len(file), Limit}
             size == Min(sizes)
  <2>1. sizes \in SUBSET Nat /\ Len(file) \in sizes /\ Limit \in sizes /\ sizes # {}
    OBVIOUS
  <2>2. PICK m \in sizes : \A k \in sizes : m <= k
    BY <2>1, LeastElement
  <2> HIDE DEF sizes
  <2>3. size \in sizes /\ \A k \in sizes : size <= k
    BY <2>2, Zenon DEF Min
  <2>4. read = SubSeq(file, 1, size)
    BY DEF Read, sizes
  <2>5. size \in Nat /\ size <= Len(file) /\ (Len(file) <= Limit => size = Len(file))
    <3>1. size = Len(file) \/ size = Limit
      BY <2>3 DEF sizes
    <3>2. size <= Len(file) /\ size <= Limit
      BY <2>1, <2>3
    <3> QED
      BY <3>1, <3>2
  <2> HIDE DEF size
  <2>6. /\ SubSeq(file, 1, size) \in Seq(S) /\ Len(SubSeq(file, 1, size)) = size
        /\ \A i \in 1..size : SubSeq(file, 1, size)[i] = file[i]
        /\ size = Len(file) => SubSeq(file, 1, size) = file
    BY <2>5
  <2> QED
    BY <2>4, <2>5, <2>6
<1> HIDE DEF read
<1>2. /\ before \in Seq(S) /\ Len(before) = Len(read) + Len(rest)
      /\ \A i \in 1..Len(read) : before[i] = read[i]
      /\ Len(rest) \in Nat
  BY <1>1
<1>3. rest = <<>> => before = read
  BY <1>1
<1> HIDE DEF before
<1>4. /\ memory \in Seq(T) /\ Len(memory) = Len(before) + 1 /\ memory[Len(before) + 1] = NUL
      /\ \A i \in 1..Len(before) : memory[i] = before[i]
  <2>1. before \in Seq(T) /\ <<NUL>> \in Seq(T) /\ Len(before) \in Nat
    BY <1>2
  <2> HIDE DEF T
  <2> QED
    BY <2>1
<1> HIDE DEF memory
<1>5. Terminated(memory, T)
  BY <1>1, <1>2, <1>4 DEF Terminated
<1>6. lines = Lines(memory)
  BY DEF LdrExecBat_lines, memory, before, read
<1>7. \A i \in 1..Len(read) : memory[i] = read[i] /\ read[i] # NUL
  <2> SUFFICES ASSUME NEW i \in 1..Len(read) PROVE memory[i] = read[i] /\ read[i] # NUL
    OBVIOUS
  <2>1. i \in 1..Len(before) /\ i \in 1..Len(file)
    BY <1>1, <1>2
  <2> QED
    BY <1>1, <1>2, <1>4, <2>1
<1> HIDE DEF lines
<1>8. ASSUME Len(file) <= Limit, rest = <<>>
      PROVE  BeginWith(lines, LinesOf(file)) /\ Len(lines) = Len(LinesOf(file))
  <2>1. read = file /\ before = file
    BY <1>1, <1>3, <1>8
  <2>2. file \in Seq(T)
    OBVIOUS
  <2>3. IsText(file, memory, T) /\ memory[Len(file) + 1] = NUL
    BY <1>1, <1>4, <1>5, <1>7, <2>1, <2>2 DEF IsText
  <2> QED
    BY <1>6, <2>3, TextIsCut
<1>9. BeginWith(lines, LinesOf(Complete(read)))
  <2> DEFINE ends == {j \in DOMAIN read : read[j] \in Delimiters}
             text == Complete(read)
  <2>1. CASE ends = {}
    <3>1. text = <<>>
      BY <2>1 DEF Complete
    <3> HIDE DEF text
    <3>2. IsText(<<>>, memory, T)
      BY <1>1, <1>2, <1>4, <1>5 DEF IsText
    <3> QED
      BY <1>6, <3>1, <3>2, TextIsCut DEF text
  <2>2. CASE ends # {}
    <3>1. ends \subseteq 1..Len(read)
      BY <1>1
    <3>2. Max(ends) \in ends
      <4>1. ends \in SUBSET Nat /\ Len(read) \in Nat
        BY <1>1, <3>1
      <4>2. PICK x \in ends : \A y \in ends : x >= y
        BY <2>2, <3>1, <4>1, GreatestPlace
      <4> HIDE DEF ends
      <4> QED
        BY <4>2, Zenon DEF Max
    <3> DEFINE m == Max(ends)
    <3>3. m \in 1..Len(read) /\ read[m] \in Delimiters
      BY <3>2
    <3>4. text = SubSeq(read, 1, m)
      BY <2>2 DEF Complete
    <3> HIDE DEF m, ends, text
    <3>5. /\ text \in Seq(S) /\ Len(text) = m
          /\ \A i \in 1..m : text[i] = read[i] /\ i \in 1..Len(read)
      BY <1>1, <3>3, <3>4
    <3>6. text \in Seq(T) /\ text[m] \in Delimiters
      BY <3>3, <3>5
    <3>7. Len(text) < Len(memory)
      BY <1>1, <1>2, <1>4, <3>3, <3>5
    <3>8. \A i \in 1..Len(text) : text[i] = memory[i] /\ text[i] # NUL
      BY <1>7, <3>5
    <3>9. IsText(text, memory, T)
      BY <1>5, <3>5, <3>6, <3>7, <3>8 DEF IsText
    <3> QED
      BY <1>6, <3>9, TextIsCut DEF text
  <2> QED
    BY <2>1, <2>2
<1> QED
  BY <1>8, <1>9 DEF ReadsAsWritten, lines, read

\* What was typed is read from a script as it was typed, whatever stands before and
\* between the lines and follows the file.
THEOREM ShellScriptsAsWritten == Spec => []ScriptLinesAsWritten
<1>1. IInv => ScriptLinesAsWritten
  <2> SUFFICES ASSUME IInv, NEW before \in Before, NEW between \in Between, NEW rest \in Rests
               PROVE  ReadsAsWritten(before \o ex_buffer \o between \o input_buffer, rest)
    BY DEF ScriptLinesAsWritten
  <2> DEFINE S == Chars \cup Blanks \cup {NUL}
             T == Chars \cup Blanks
             file == before \o ex_buffer \o between \o input_buffer
  <2>1. before \in Seq(Blanks) /\ between \in Seq(Blanks) /\ rest \in Seq(S)
    BY ScriptsAssumption
  <2>2. ex_buffer \in Seq(Chars) /\ input_buffer \in Seq(Chars)
    BY DEF IInv, TypeOK, IsLine
  <2>3. /\ before \in Seq(T) /\ between \in Seq(T)
        /\ ex_buffer \in Seq(T) /\ input_buffer \in Seq(T)
    BY <2>1, <2>2
  <2>4. NUL \notin T /\ NUL \notin Delimiters /\ Limit \in Nat
    BY ScriptsAssumption DEF Blanks
  <2>5. file \in Seq(T)
    <3> HIDE DEF T
    <3> QED
      BY <2>3
  <2>6. file \in Seq(S) /\ \A i \in 1..Len(file) : file[i] # NUL
    <3> HIDE DEF file
    <3>1. \A i \in 1..Len(file) : file[i] \in T
      <4> HIDE DEF T
      <4> QED
        BY <2>5
    <3> QED
      BY <2>4, <2>5, <3>1
  <2> HIDE DEF S, file
  <2> QED
    BY <2>1, <2>4, <2>6, ScriptIsReadAsWritten DEF file
<1> QED
  BY <1>1, ShellInvariant, PTL

===============================================================================
