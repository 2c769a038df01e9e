-------------------------------- MODULE Shell --------------------------------
(***************************************************************************)
(* The native shell and the keyboard interrupt it shares a buffer with.    *)
(* KiUserInit polls `exec' in ring 3 with interrupts on; int21h_handler    *)
(* edits a line and, on Enter, copies it into ex_buffer and sets `exec'.   *)
(* Nothing locks ex_buffer: the interrupt may strike between any two reads *)
(* of the shell. System calls run with interrupts off (the IDT holds       *)
(* interrupt gates), so a call, and a whole batch script, is not cut.      *)
(***************************************************************************)
EXTENDS Integers, Sequences

CONSTANTS Keys,         \* characters a key may give, Backspace and Enter apart
          Backspace, Enter,
          BufSize,      \* sizeof(input_buffer)
          Cls, Help,    \* the two commands of the shell
          BatNames,     \* lines that end in ".bat"
          Files,        \* lines that name a file fopen finds
          Programs,     \* those of them that are executables
          Halting,      \* the executables that run hlt, as bsod.c does
          Script,       \* the commands each file holds, read as a batch script
          MaxLines      \* bound: how often Enter is pressed

ASSUME ShellAssumption == /\ Backspace \notin Keys
                          /\ Enter \notin Keys \cup {Backspace}
                          /\ BufSize \in Nat \ {0}
                          /\ MaxLines \in Nat
                          /\ Halting \subseteq Programs /\ Programs \subseteq Files
                          /\ <<>> \notin Files
                          /\ Script \in [Files -> Seq(Seq(Keys))]
                          /\ {Cls, Help, <<>>} \cap BatNames = {}
                          /\ Cls # Help /\ <<>> \notin {Cls, Help}

Chars == Keys \cup {Backspace}

VARIABLES input_buffer, \* the line being typed, input_pos characters long
          ex_buffer,    \* the line last entered
          exec,         \* 1 when ex_buffer waits for the shell
          pc,           \* where the shell is
          isBat,        \* NsExec's argument
          measured,     \* which line strlen measured in IsBatFile
          script,       \* what strtok has not handed out yet
          \* What was asked of the shell, and what it did:
          entered,      \* how many lines were entered
          runs,         \* how often each of them was acted upon
          misread,      \* a line was acted upon as something it is not
          rushed        \* a line was entered before the shell was idle again

keyboard == <<input_buffer, ex_buffer, entered, rushed>>
vars == <<keyboard, exec, pc, isBat, measured, script, runs, misread>>

Idle == pc = "poll" /\ exec = 0

\* The processor has stopped: in KeBugCheck, or in hlt with interrupts off.
Stopped == pc \in {"bugcheck", "hung"}

InterruptsOn == pc # "batch" /\ ~ Stopped

-----------------------------------------------------------------------------
(* The keyboard interrupt *)

\* Mutant: the line is copied and the shell is not told.
SetExecBuffer_Silent == /\ ex_buffer' = input_buffer
                        /\ exec' = exec

SetExecBuffer == /\ ex_buffer' = input_buffer
                 /\ exec' = 1

\* Mutant: a character is stored where the terminator belongs.
HasRoom_Overlong == Len(input_buffer) < BufSize

HasRoom == Len(input_buffer) < BufSize - 1

\* The last branch of the handler: a Backspace ends up here on an empty line.
Inserts(key) == key # Enter /\ (key = Backspace => input_buffer = <<>>)

\* A scancode past the end of kb[] may read any character: what key a code
\* gives is not told apart from what the user typed.
int21h_handler(key) ==
    /\ InterruptsOn
    /\ \/ /\ key = Backspace
          /\ input_buffer # <<>>
          /\ input_buffer' = SubSeq(input_buffer, 1, Len(input_buffer) - 1)
          /\ UNCHANGED <<ex_buffer, exec, entered, rushed>>
       \/ /\ key = Enter
          /\ entered < MaxLines
          /\ SetExecBuffer
          /\ input_buffer' = <<>>
          /\ entered' = entered + 1
          /\ rushed' = (rushed \/ ~ Idle)
       \/ /\ Inserts(key)
          /\ HasRoom
          /\ input_buffer' = Append(input_buffer, key)
          /\ UNCHANGED <<ex_buffer, exec, entered, rushed>>
    /\ UNCHANGED <<pc, isBat, measured, script, runs, misread>>

-----------------------------------------------------------------------------
(* What is done about a line *)

\* What a line is, by the help message and by the names the shell knows.
Meaning(line) ==
    CASE line = Cls  -> "cls"
      [] line = Help -> "help"
      [] line = <<>> -> "nothing"
      [] line \in BatNames -> IF line \in Files THEN "script" ELSE "unknown"
      [] OTHER -> IF line \in Programs THEN "program" ELSE "unknown"

\* The line in ex_buffer is acted upon as what.
ActUpon(what) ==
    /\ runs' = [runs EXCEPT ![entered] = @ + 1]
    /\ misread' = (misread \/ what # Meaning(ex_buffer))

-----------------------------------------------------------------------------
(* KiUserInit and NsExec, one action per look at the shared buffer *)

Goto(from, to) == pc = from /\ pc' = to

\* Mutant: the flag is taken down as soon as it is seen.
Poll_Clears == /\ Goto("poll", "strlen")
               /\ exec = 1
               /\ exec' = 0
               /\ UNCHANGED <<keyboard, isBat, measured, script, runs, misread>>

Poll == /\ Goto("poll", "strlen")
        /\ exec = 1
        /\ UNCHANGED <<keyboard, exec, isBat, measured, script, runs, misread>>

IsBatFile_strlen == /\ Goto("strlen", "strcmp")
                    /\ measured' = entered
                    /\ UNCHANGED <<keyboard, exec, isBat, script, runs, misread>>

\* The suffix is looked for where the line measured ended: in another line
\* that place may or may not read ".bat".
IsBatFile_strcmp ==
    /\ Goto("strcmp", "cls")
    /\ isBat' \in IF measured = entered THEN {ex_buffer \in BatNames} ELSE BOOLEAN
    /\ UNCHANGED <<keyboard, exec, measured, script, runs, misread>>

NsExec_cls == /\ IF ex_buffer = Cls
                 THEN Goto("cls", "reset") /\ ActUpon("cls")
                 ELSE Goto("cls", "help") /\ UNCHANGED <<runs, misread>>
              /\ UNCHANGED <<keyboard, exec, isBat, measured, script>>

NsExec_help == /\ IF ex_buffer = Help
                  THEN Goto("help", "reset") /\ ActUpon("help")
                  ELSE Goto("help", "nonempty") /\ UNCHANGED <<runs, misread>>
               /\ UNCHANGED <<keyboard, exec, isBat, measured, script>>

\* Mutant: an empty line goes to the loader like any other.
NsExec_nonempty_Always ==
    /\ Goto("nonempty", "syscall")
    /\ UNCHANGED <<keyboard, exec, isBat, measured, script, runs, misread>>

NsExec_nonempty == /\ Goto("nonempty", IF ex_buffer # <<>> THEN "syscall" ELSE "empty")
                   /\ UNCHANGED <<keyboard, exec, isBat, measured, script, runs, misread>>

\* The last else-if looks again: a line entered meanwhile falls through it.
NsExec_empty == /\ IF ex_buffer = <<>>
                   THEN Goto("empty", "reset") /\ ActUpon("nothing")
                   ELSE Goto("empty", "prompt") /\ UNCHANGED <<runs, misread>>
                /\ UNCHANGED <<keyboard, exec, isBat, measured, script>>

\* System call 2: the image is loaded, and its entry point returned to ring 3.
LdrLoadPe == /\ pc = "syscall" /\ ~ isBat
             /\ \/ /\ ex_buffer \notin Programs
                   /\ pc' = "reset"
                   /\ ActUpon("unknown")
                \/ /\ ex_buffer \in Programs
                   /\ pc' = IF ex_buffer \in Halting THEN "hlt" ELSE "program"
                   /\ ActUpon("program")
             /\ UNCHANGED <<keyboard, exec, isBat, measured, script>>

\* The program returns to NsExec.
ProgramReturns == /\ Goto("program", "reset")
                  /\ UNCHANGED <<keyboard, exec, isBat, measured, script, runs, misread>>

\* hlt is privileged: in ring 3 it traps, and idt_gpf stops in KeBugCheck.
ProgramHalts == /\ Goto("hlt", "bugcheck")
                /\ UNCHANGED <<keyboard, exec, isBat, measured, script, runs, misread>>

\* System call 4: the file's lines are handed to NsExec in ring 0.
LdrExecBat == /\ pc = "syscall" /\ isBat
              /\ \/ /\ ex_buffer \in Files
                    /\ pc' = "batch"
                    /\ script' = Script[ex_buffer]
                    /\ ActUpon("script")
                 \/ /\ ex_buffer \notin Files
                    /\ pc' = "reset"
                    /\ UNCHANGED script
                    /\ ActUpon("unknown")
              /\ UNCHANGED <<keyboard, exec, isBat, measured>>

\* One turn of the strtok loop. NsExec(line, 0) treats a ".bat" line as any
\* other and ends with exec = 0; hlt in ring 0 waits for an interrupt that
\* is switched off; a line of blanks is skipped.
BatchLine == /\ pc = "batch" /\ script # <<>>
             /\ script' = Tail(script)
             /\ \/ /\ Head(script) = <<>>
                   /\ UNCHANGED <<pc, exec>>
                \/ /\ Head(script) \in Halting
                   /\ pc' = "hung"
                   /\ UNCHANGED exec
                \/ /\ Head(script) \notin Halting \cup {<<>>}
                   /\ exec' = 0
                   /\ UNCHANGED pc
             /\ UNCHANGED <<keyboard, isBat, measured, runs, misread>>

BatchEnd == /\ Goto("batch", "reset") /\ script = <<>>
            /\ UNCHANGED <<keyboard, exec, isBat, measured, script, runs, misread>>

\* Mutant: the flag stays up.
NsExec_reset_Forgets ==
    /\ Goto("reset", "prompt")
    /\ UNCHANGED <<keyboard, exec, isBat, measured, script, runs, misread>>

NsExec_reset == /\ Goto("reset", "prompt")
                /\ exec' = 0
                /\ UNCHANGED <<keyboard, isBat, measured, script, runs, misread>>

NsExec_prompt == /\ Goto("prompt", "poll")
                 /\ UNCHANGED <<keyboard, exec, isBat, measured, script, runs, misread>>

-----------------------------------------------------------------------------

Init == /\ input_buffer = <<>> /\ ex_buffer = <<>>
        /\ exec = 0
        /\ pc = "poll"
        /\ isBat = FALSE
        /\ measured = 0
        /\ script = <<>>
        /\ entered = 0
        /\ runs = [k \in 1..MaxLines |-> 0]
        /\ misread = FALSE
        /\ rushed = FALSE

ShellStep == \/ Poll \/ IsBatFile_strlen \/ IsBatFile_strcmp
             \/ NsExec_cls \/ NsExec_help \/ NsExec_nonempty \/ NsExec_empty
             \/ LdrLoadPe \/ ProgramReturns \/ ProgramHalts
             \/ LdrExecBat \/ BatchLine \/ BatchEnd
             \/ NsExec_reset \/ NsExec_prompt

Next == \/ \E key \in Chars \cup {Enter} : int21h_handler(key)
        \/ ShellStep

Spec == Init /\ [][Next]_vars

\* The processor runs the shell whenever it does not serve an interrupt.
FairSpec == Spec /\ WF_vars(ShellStep)

-----------------------------------------------------------------------------
(* Properties *)

IsLine(s) == s \in Seq(Chars) /\ Len(s) < BufSize

TypeOK == /\ IsLine(input_buffer) /\ IsLine(ex_buffer)
          /\ exec \in {0, 1}
          /\ pc \in {"poll", "strlen", "strcmp", "cls", "help", "nonempty", "empty",
                     "syscall", "program", "hlt", "batch", "reset", "prompt",
                     "bugcheck", "hung"}
          /\ isBat \in BOOLEAN
          /\ measured \in 0..MaxLines
          /\ script \in Seq(Seq(Keys))
          /\ entered \in 0..MaxLines
          /\ runs \in [1..MaxLines -> Nat]
          /\ misread \in BOOLEAN
          /\ rushed \in BOOLEAN

\* However Enter falls between the steps of the shell, a line is never acted
\* upon twice: `exec' is cleared before the next poll by every branch that
\* acted, and the one that falls through has not acted.
ActedUponAtMostOnce == \A k \in 1..MaxLines : runs[k] <= 1

\* A user who waits for the shell to be idle before pressing Enter is served
\* as a single-threaded shell would: each line once, as what it is.
PatientUserIsServed ==
    ~ rushed => /\ ~ misread
                /\ Idle => \A k \in 1..entered : runs[k] = 1

\* Until NsExec has acted, the flag it was started for stays up, so a line
\* that slips in before the shell has looked is still seen.
ExecIsHeld ==
    pc \in {"strlen", "strcmp", "cls", "help", "nonempty", "empty", "syscall",
           "program", "hlt"}
        => exec = 1

\* Line editing: a Backspace is kept as a character only where there was
\* nothing to erase, at the start of a line.
BackspaceOnlyFirst ==
    \A i \in 2..Len(input_buffer) : input_buffer[i] # Backspace

\* A line entered while the shell was idle is acted upon, unless the user
\* does not wait for it or the processor stops.
PatientLineIsRun ==
    \A k \in 1..MaxLines :
        (entered = k /\ ~ rushed) ~> (runs[k] = 1 \/ rushed \/ Stopped)

\* The line entered last has been acted upon when its flag is taken down.
NoLineIsDropped == exec = 0 /\ entered > 0 => runs[entered] = 1

\* Executing hlt in a program raises a general protection fault.
HaltIsTrapped == pc # "hung"
===============================================================================
