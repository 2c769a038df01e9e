------------------------------ MODULE Interrupts ------------------------------
(***************************************************************************)
(* Interrupts from the boot of the kernel to the shell: the gates of       *)
(* ke/idt/idt.c with their stubs in idt.asm, the system calls that pass    *)
(* their result through tmp_res, the disk that is polled while its         *)
(* interrupt is not masked (ke/disk/disk.c), and kernel_main from DiskInit *)
(* on. The slave's vectors start at 0x28, so the disk's line 14 has vector *)
(* 0x2E, the gate of system calls.                                         *)
(* An interrupt the processor can take is taken before the code goes on.   *)
(***************************************************************************)
EXTENDS Pic, Sequences, SequencesExt

CONSTANTS Lines,       \* the lines that devices use, of both controllers
          Numbers,     \* system call numbers that ring 3 and programs use
          MaxSectors,  \* bound: sectors read from one file
          MaxCalls,    \* bound: system calls made on behalf of one script
          MaxDepth     \* bound: system calls under way at a time

Timer == 0
Keyboard == 1
PrimaryAta == 14

ASSUME InterruptsAssumption == /\ {Timer, Keyboard, PrimaryAta} \subseteq Lines
                               /\ Lines \subseteq (0..15) \ {Cascade}
                               /\ Numbers \subseteq Nat
                               /\ MaxSectors \in Nat \ {0}
                               /\ {MaxCalls, MaxDepth} \subseteq Nat

VARIABLES latches,   \* a request outlives the line that made it: so in QEMU; in
                     \* an 8259A it is gone when the line falls
          irr, isr,  \* of the controllers
          IFlag,     \* the processor takes interrupts
          scancode,  \* one waits in the keyboard controller
          drive,     \* "idle", "busy", or "ready" to hand out a sector
          c,         \* disk_read_sector: bit 3 of the status was seen
          sectors,   \* read from the file that is being read
          main,      \* where kernel_main is, or ring 3
          calls,     \* the system calls that are under way, innermost last
          tmp_res,   \* of idt.asm
          eax,
          buffer,    \* the screen buffer is allocated
          \* What happened:
          owed,      \* the result the code that runs has to find in eax
          mistaken,  \* how often the disk's interrupt was served as a call
          drewAtNull \* a pixel was written through the missing buffer

controllers == <<irr, isr>>
reading == <<drive, c, sectors>>
results == <<tmp_res, eax, owed>>
vars == <<latches, controllers, IFlag, scancode, reading, main, calls, results,
          buffer, mistaken, drewAtNull>>

None == "none"
Current == Last(calls)
Stopped == main \in {"stopped", "off"}

Taken(irq) == ~ Stopped /\ IFlag /\ Shown(irr, isr, irq)

\* No interrupt comes before the next step of the code.
Running == ~ Stopped /\ (IFlag => \A irq \in irr : ~ Allowed(isr, irq))

InMain(place) == Running /\ calls = <<>> /\ main = place
InCall(place) == Running /\ calls # <<>> /\ Current.place = place

-----------------------------------------------------------------------------
(* The gates *)

idt(vector) ==
    CASE vector \in {0, 6, 8, 11, 13, 14} -> "KeBugCheck"
      [] vector = 33 -> "int21h"
      [] vector = 46 -> "int2eh"
      [] OTHER -> "no_interrupt"

\* Mutant: type 0xEF, a trap gate.
idt_set_Trap(flag) == flag

\* Type 0xEE, an interrupt gate: what becomes of the interrupt flag behind it.
idt_set(flag) == FALSE

\* Mutants: the line is not taken out of service; the slave is told, too.
no_interrupt_handler_Silent(inService) == inService
no_interrupt_handler_Slave(inService) ==
    LET slave == inService \cap SlaveLines
    IN  EndOfInterrupt(inService) \ {s \in slave : \A t \in slave : s <= t}

\* Whatever controller the interrupt came from, the master alone is told.
no_interrupt_handler(inService) == EndOfInterrupt(inService)

no_interrupt(irq) ==
    /\ Taken(irq)
    /\ idt(Vector(irq)) = "no_interrupt"
    /\ irr' = irr \ {irq}
    /\ isr' = no_interrupt_handler(InService(isr, irq))
    /\ UNCHANGED <<latches, IFlag, scancode, reading, main, calls, results,
                   buffer, mistaken, drewAtNull>>

\* PrintChar draws a blank for a Backspace, and a character if there is a font,
\* which is loaded after the buffer was allocated. What the key does to the
\* line is in module Shell.
PrintChar(key) == drewAtNull' = (drewAtNull \/ (key = "backspace" /\ ~ buffer))

int21h_handler(key) ==
    /\ Taken(Keyboard)
    /\ idt(Vector(Keyboard)) = "int21h"
    /\ irr' = irr \ {Keyboard}
    /\ isr' = EndOfInterrupt(InService(isr, Keyboard))
    /\ scancode' = FALSE
    /\ PrintChar(key)
    /\ UNCHANGED <<latches, IFlag, reading, main, calls, results, buffer, mistaken>>

-----------------------------------------------------------------------------
(* System calls *)

\* What syscall_dispatcher returns. Numbers 2, 4 and 0x4F read a file first;
\* 0xB4 returns SUCCESS where the machine does not go off at once.
Results(number) ==
    CASE number = 2 -> {"entry", "NULL"}
      [] number \in {4, 79} -> {"SUCCESS", "OBJECT_NAME_NOT_FOUND"}
      [] number \in {1, 46} -> {"SUCCESS"}
      [] number = 180 -> {"SUCCESS", "NOT_SUPPORTED", "INVALID_PARAMETER"}
      [] OTHER -> {"INVALID_SYSTEM_SERVICE"}

ReadsFile(number) == number \in {2, 4, 79}

\* The stub and the dispatcher, entered on top of the calls under way.
int2eh(under, number, byDisk) ==
    /\ \E res \in Results(number) :
          calls' = Append(under, [number |-> number, byDisk |-> byDisk, flag |-> IFlag,
                                  place |-> IF ReadsFile(number) THEN "file" ELSE "end",
                                  res |-> res, made |-> 0])
    /\ IFlag' = idt_set(IFlag)

\* No code is interrupted with the number of a system call in eax: where
\* the disk may interrupt, eax holds what disk_read_sector saw last, or 0.
int2eh_ByDisk ==
    /\ Taken(PrimaryAta)
    /\ idt(Vector(PrimaryAta)) = "int2eh"
    /\ irr' = irr \ {PrimaryAta}
    /\ isr' = InService(isr, PrimaryAta)
    /\ int2eh(calls, 0, TRUE)
    /\ mistaken' = mistaken + 1
    /\ UNCHANGED <<latches, scancode, reading, main, results, buffer, drewAtNull>>

CallGoesTo(place) == calls' = [calls EXCEPT ![Len(calls)].place = place]

\* The file was read, or there is none. A script goes on with its lines.
FileRead ==
    /\ InCall("file") /\ drive = "idle"
    /\ CallGoesTo(IF Current.number = 4 /\ Current.res = "SUCCESS" THEN "lines" ELSE "end")
    /\ sectors' = 0
    /\ UNCHANGED <<latches, controllers, IFlag, scancode, drive, c, main, results,
                   buffer, mistaken, drewAtNull>>

\* LdrExecBat runs NsExec, which makes system calls; so do the programs it runs.
NestedCall(number) ==
    /\ InCall("lines") /\ owed = None
    /\ Len(calls) < MaxDepth
    /\ Current.made < MaxCalls
    /\ int2eh(Append(Front(calls), [Current EXCEPT !.made = @ + 1]), number, FALSE)
    /\ UNCHANGED <<latches, controllers, scancode, reading, main, results, buffer,
                   mistaken, drewAtNull>>

LinesEnd ==
    /\ InCall("lines") /\ owed = None
    /\ CallGoesTo("end")
    /\ UNCHANGED <<latches, controllers, IFlag, scancode, reading, main, results,
                   buffer, mistaken, drewAtNull>>

\* Mutant: eax is stored before syscall_handler is called.
StoreResult_Early ==
    /\ InCall("end")
    /\ tmp_res' = "number"
    /\ CallGoesTo("stored")
    /\ UNCHANGED <<latches, controllers, IFlag, scancode, reading, main, eax, owed,
                   buffer, mistaken, drewAtNull>>

\* mov dword[tmp_res], eax
StoreResult ==
    /\ InCall("end")
    /\ tmp_res' = Current.res
    /\ CallGoesTo("stored")
    /\ UNCHANGED <<latches, controllers, IFlag, scancode, reading, main, eax, owed,
                   buffer, mistaken, drewAtNull>>

\* The interrupted code has the result of the last call in eax. If it was
\* looking at the status of the drive, STATUS_INVALID_SYSTEM_SERVICE has bit 3.
Return ==
    /\ InCall("stored")
    /\ eax' = tmp_res
    /\ calls' = Front(calls)
    /\ IFlag' = Current.flag
    /\ owed' = IF Current.byDisk THEN owed ELSE Current.res
    /\ c' \in IF Current.byDisk /\ drive # "idle" THEN {c, TRUE} ELSE {c}

\* Mutant: int2eh ends the interrupt it may have been, at both controllers.
iretd_Eoi == /\ Return
             /\ isr' = no_interrupt_handler_Slave(isr)
             /\ UNCHANGED <<latches, irr, scancode, drive, sectors, main, tmp_res, buffer,
                            mistaken, drewAtNull>>

\* mov eax, [tmp_res] and iretd. The controllers are told nothing.
iretd == /\ Return
         /\ UNCHANGED <<latches, controllers, scancode, drive, sectors, main, tmp_res,
                        buffer, mistaken, drewAtNull>>

\* The caller takes its result from eax.
Use == /\ Running /\ owed # None
       /\ owed' = None
       /\ UNCHANGED <<latches, controllers, IFlag, scancode, reading, main, calls,
                      tmp_res, eax, buffer, mistaken, drewAtNull>>

\* Call 0xB4 with ShutdownPowerOff or ShutdownReboot.
NtShutdownSystem ==
    /\ InCall("end") /\ Current.number = 180
    /\ main' = "off"
    /\ UNCHANGED <<latches, controllers, IFlag, scancode, reading, calls, results,
                   buffer, mistaken, drewAtNull>>

-----------------------------------------------------------------------------
(* disk_read_sector *)

Reads == \/ \E place \in {"DiskInit", "boot.ini", "font"} : InMain(place)
         \/ InCall("file")

\* outb(0x1F7, 0x20)
ReadCommand ==
    /\ Reads /\ drive = "idle" /\ sectors < MaxSectors
    /\ drive' = "busy"
    /\ c' = FALSE
    /\ sectors' = sectors + 1
    /\ UNCHANGED <<latches, controllers, IFlag, scancode, main, calls, results, buffer,
                   mistaken, drewAtNull>>

\* Mutant: the loop ends with any status.
ReadStatus_Any ==
    /\ Reads /\ drive # "idle" /\ ~ c
    /\ c' = TRUE
    /\ irr' = IF latches THEN irr ELSE irr \ {PrimaryAta}
    /\ UNCHANGED <<latches, isr, IFlag, scancode, drive, sectors, main, calls, results,
                   buffer, mistaken, drewAtNull>>

\* c = insb(0x1F7), until bit 3 is set. The drive takes its request back.
ReadStatus ==
    /\ Reads /\ drive # "idle" /\ ~ c
    /\ c' = (drive = "ready")
    /\ irr' = IF latches THEN irr ELSE irr \ {PrimaryAta}
    /\ UNCHANGED <<latches, isr, IFlag, scancode, drive, sectors, main, calls, results,
                   buffer, mistaken, drewAtNull>>

\* The 256 words are fetched.
ReadWords ==
    /\ Reads /\ drive # "idle" /\ c
    /\ drive' = "idle"
    /\ c' = FALSE
    /\ UNCHANGED <<latches, controllers, IFlag, scancode, sectors, main, calls, results,
                   buffer, mistaken, drewAtNull>>

-----------------------------------------------------------------------------
(* kernel_main, and ring 3 *)

Goto(from, to) == InMain(from) /\ drive = "idle" /\ main' = to /\ sectors' = 0

DiskInit ==
    /\ Goto("DiskInit", "enable_interrupts") /\ sectors > 0
    /\ UNCHANGED <<latches, controllers, IFlag, scancode, drive, c, calls, results,
                   buffer, mistaken, drewAtNull>>

enable_interrupts ==
    /\ Goto("enable_interrupts", "boot.ini")
    /\ IFlag' = TRUE
    /\ UNCHANGED <<latches, controllers, scancode, drive, c, calls, results, buffer,
                   mistaken, drewAtNull>>

\* Without boot.ini kernel_main returns, to a jump to itself in kernel.asm.
ReadBootIni ==
    /\ \/ sectors = 0 /\ Goto("boot.ini", "returned")
       \/ sectors > 0 /\ Goto("boot.ini", "buffer")
    /\ UNCHANGED <<latches, controllers, IFlag, scancode, drive, c, calls, results,
                   buffer, mistaken, drewAtNull>>

\* kmalloc of the screen buffer, and the same return if there is no memory.
AllocateBuffer ==
    /\ \/ buffer' = TRUE /\ Goto("buffer", "font")
       \/ UNCHANGED buffer /\ Goto("buffer", "returned")
    /\ UNCHANGED <<latches, controllers, IFlag, scancode, drive, c, calls, results,
                   mistaken, drewAtNull>>

\* LoadPsfFont, with a font or without, and jump_usermode.
LoadPsfFont ==
    /\ Goto("font", "ring3")
    /\ UNCHANGED <<latches, controllers, IFlag, scancode, drive, c, calls, results,
                   buffer, mistaken, drewAtNull>>

SystemCall(number) ==
    /\ InMain("ring3") /\ owed = None
    /\ int2eh(calls, number, FALSE)
    /\ UNCHANGED <<latches, controllers, scancode, reading, main, results, buffer,
                   mistaken, drewAtNull>>

RunsProgram == owed = None /\ (InMain("ring3") \/ InCall("lines"))

\* A program causes an exception whose gate leads to KeBugCheck, or halts in
\* a script.
Fault ==
    /\ RunsProgram
    /\ main' = "stopped"
    /\ UNCHANGED <<latches, controllers, IFlag, scancode, reading, calls, results,
                   buffer, mistaken, drewAtNull>>

\* Or one whose gate leads to no_interrupt, like a breakpoint.
Trap ==
    /\ RunsProgram
    /\ isr' = no_interrupt_handler(isr)
    /\ UNCHANGED <<latches, irr, IFlag, scancode, reading, main, calls, results,
                   buffer, mistaken, drewAtNull>>

-----------------------------------------------------------------------------
(* The devices *)

KeyPressed ==
    /\ ~ scancode
    /\ scancode' = TRUE
    /\ irr' = irr \cup {Keyboard}
    /\ UNCHANGED <<latches, isr, IFlag, reading, main, calls, results, buffer,
                   mistaken, drewAtNull>>

\* Where requests do not outlive their line, the status may be read first.
DriveReady ==
    /\ drive = "busy"
    /\ drive' = "ready"
    /\ irr' \in {irr \cup {PrimaryAta}} \cup (IF latches THEN {} ELSE {irr})
    /\ UNCHANGED <<latches, isr, IFlag, scancode, c, sectors, main, calls, results,
                   buffer, mistaken, drewAtNull>>

Request(irq) ==
    /\ irr' = irr \cup {irq}
    /\ UNCHANGED <<latches, isr, IFlag, scancode, reading, main, calls, results,
                   buffer, mistaken, drewAtNull>>

-----------------------------------------------------------------------------

Init == /\ latches \in BOOLEAN
        /\ irr = {} /\ isr = {}
        /\ IFlag = FALSE
        /\ scancode = FALSE
        /\ drive = "idle" /\ c = FALSE /\ sectors = 0
        /\ main = "DiskInit"
        /\ calls = <<>>
        /\ tmp_res = None /\ eax = None /\ owed = None
        /\ buffer = FALSE
        /\ mistaken = 0
        /\ drewAtNull = FALSE

Processor == \/ \E irq \in Lines : no_interrupt(irq)
             \/ int2eh_ByDisk
             \/ FileRead
             \/ \E number \in Numbers : NestedCall(number)
             \/ LinesEnd \/ StoreResult \/ iretd \/ Use \/ NtShutdownSystem
             \/ ReadCommand \/ ReadStatus \/ ReadWords
             \/ DiskInit \/ enable_interrupts \/ ReadBootIni \/ AllocateBuffer
             \/ LoadPsfFont
             \/ \E number \in Numbers : SystemCall(number)
             \/ Fault \/ Trap

KeyServed == \E key \in {"backspace", "other"} : int21h_handler(key)

Devices == \/ KeyPressed \/ DriveReady
           \/ \E irq \in Lines \ {Keyboard, PrimaryAta} : Request(irq)

Next == Processor \/ KeyServed \/ Devices

Spec == Init /\ [][Next]_vars

\* The processor does not stand still, and a drive gets ready. Timer ticks are
\* too rare to win every time over a key that waits.
FairSpec == Spec /\ WF_vars(Processor) /\ WF_vars(DriveReady) /\ SF_vars(KeyServed)

-----------------------------------------------------------------------------
(* Properties *)

AllResults == UNION {Results(number) : number \in Numbers \cup {0}}

TypeOK ==
    /\ latches \in BOOLEAN
    /\ irr \subseteq Lines
    /\ isr \subseteq Lines \cup {Cascade}
    /\ IFlag \in BOOLEAN
    /\ scancode \in BOOLEAN
    /\ drive \in {"idle", "busy", "ready"}
    /\ c \in BOOLEAN
    /\ sectors \in 0..MaxSectors
    /\ main \in {"DiskInit", "enable_interrupts", "boot.ini", "buffer", "font", "ring3",
                 "returned", "stopped", "off"}
    /\ calls \in Seq([number : Numbers \cup {0}, byDisk : BOOLEAN, flag : BOOLEAN,
                      place : {"file", "lines", "end", "stored"}, res : AllResults,
                      made : 0..MaxCalls])
    /\ {tmp_res, eax, owed} \subseteq AllResults \cup {None}
    /\ buffer \in BOOLEAN
    /\ mistaken \in Nat
    /\ drewAtNull \in BOOLEAN

\* Between int 0x2E and the next instruction of the caller an interrupt may
\* come, and the disk's has the stub of the system calls overwrite eax. The
\* caller finds the result of its own call all the same, calls of scripts and
\* of their programs included.
ResultReachesCaller == owed # None => eax = owed

\* The disk's interrupt is mistaken for a system call once at most, and only
\* before ring 3 is entered: since neither controller is told of its end, the
\* slave never lets line 14 through again, whatever else it serves.
MistakenOnlyAtBoot ==
    /\ mistaken <= 1
    /\ main = "ring3" => \A i \in DOMAIN calls : ~ calls[i].byDisk

\* disk_read_sector fetches words only from a drive that is ready, even if the
\* mistaken call overwrote the status it had read.
WordsOnlyWhenReady == c => drive = "ready"

\* No interrupt is served inside a system call: what a call does to the heap,
\* the descriptors, the line being executed and the disk is not cut, which the
\* models of these rest on.
CallsAreNotCut ==
    [][calls # <<>> => isr' \subseteq isr /\ irr \ {PrimaryAta} \subseteq irr']_controllers

\* A key that waits is read in the end, though line 14 stays in service for
\* good, unless the machine stops.
KeysAreRead == scancode ~> (~ scancode \/ Stopped)

\* Nothing is drawn before there is a buffer to draw into. (Violated: keys
\* are echoed as soon as interrupts are on.)
NothingDrawnAtNull == ~ drewAtNull
================================================================================
