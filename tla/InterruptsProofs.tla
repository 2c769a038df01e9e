--------------------------- MODULE InterruptsProofs ---------------------------
(***************************************************************************)
(* Interrupts, for every set of lines and of system calls, files of any    *)
(* length, scripts that make any number of calls and any depth of calls.   *)
(* Everything turns on line 14: once it, or a line of the slave before it, *)
(* was served it is shut for good, since only the master is told of the    *)
(* end; and by the time ring 3 is entered either it is shut, or requests   *)
(* do not outlive the read that made them. At the end: that descriptors    *)
(* say what was asked for.                                                 *)
(***************************************************************************)
EXTENDS Interrupts, Gdt, SequenceTheorems, TLAPS

\* The slave does not let line 14 through.
Shut == \E s \in isr \cap SlaveLines : s <= PrimaryAta

\* Nothing but the cascade is left in service at the master, and that by line 14.
Service ==
    /\ isr \cap MasterLines \subseteq {Cascade}
    /\ Cascade \in isr => Shut
    /\ mistaken # 0 => Shut
    /\ mistaken <= 1

BeforeInterrupts == main \in {"DiskInit", "enable_interrupts"}
InRing3 == main \in {"ring3", "stopped", "off"}

\* Interrupts are off inside a call, and back on behind the outermost.
Masking ==
    /\ BeforeInterrupts => ~ IFlag /\ calls = <<>>
    /\ calls # <<>> => ~ IFlag
    /\ ~ BeforeInterrupts => IF calls = <<>> THEN IFlag ELSE calls[1].flag
    /\ \A i \in 2..Len(calls) : ~ calls[i].flag

\* Whoever makes a call executes a script. The disk's mistaken call is alone.
Stack ==
    /\ \A i \in 1..(Len(calls) - 1) : calls[i].place = "lines"
    /\ \A i \in 1..Len(calls) : calls[i].byDisk <=> ~ InRing3
    /\ \A i \in 1..Len(calls) :
          calls[i].byDisk => /\ Len(calls) = 1
                             /\ calls[i].number = 0
                             /\ calls[i].place \in {"end", "stored"}
    /\ calls # <<>> /\ Current.place = "stored" => tmp_res = Current.res

\* A result is waited for in ring 3, by a program or by a script.
Owed ==
    owed # None => /\ eax = owed
                   /\ main = "ring3"
                   /\ calls # <<>> => Current.place = "lines"

\* Who uses the drive, and when line 14 may request.
Drive ==
    /\ drive # "idle" => \/ main \in {"DiskInit", "boot.ini", "font"}
                         \/ main = "ring3" /\ calls # <<>> /\ Current.place = "file"
    /\ c => drive = "ready"
    /\ calls # <<>> /\ Current.byDisk =>
          drive # "busy" /\ (~ latches => PrimaryAta \notin irr)
    /\ drive = "busy" /\ IFlag /\ PrimaryAta \in irr => Shut
    /\ ~ latches /\ PrimaryAta \in irr => drive = "ready" /\ ~ c
    /\ latches /\ main = "boot.ini" /\ sectors > 0 /\ drive # "busy"
          => PrimaryAta \in irr \/ Shut
    /\ latches /\ main \in {"buffer", "font", "ring3"} => Shut

IInv == TypeOK /\ Service /\ Masking /\ Stack /\ Owed /\ Drive

Call == [number : Numbers \cup {0}, byDisk : BOOLEAN, flag : BOOLEAN,
         place : {"file", "lines", "end", "stored"}, res : AllResults,
         made : 0..MaxCalls]

-----------------------------------------------------------------------------
(* The controllers *)

\* Of the end of an interrupt the slave learns nothing.
LEMMA EndOfInterruptAtMaster ==
    ASSUME NEW inService
    PROVE  /\ EndOfInterrupt(inService) \subseteq inService
           /\ EndOfInterrupt(inService) \cap SlaveLines = inService \cap SlaveLines
BY DEF EndOfInterrupt, MasterLines, SlaveLines

\* An interrupt that is served at once leaves the master as it was, and the
\* slave with one more line in service.
LEMMA ServedAndEnded ==
    ASSUME isr \subseteq 0..15, isr \cap MasterLines \subseteq {Cascade},
           NEW irq \in (0..15) \ {Cascade}, Allowed(isr, irq)
    PROVE  EndOfInterrupt(InService(isr, irq)) =
               IF irq \in MasterLines THEN isr ELSE isr \cup {irq}
<1>1. CASE irq \in MasterLines
  <2>1. InService(isr, irq) = isr \cup {irq} /\ irq \notin isr
    BY <1>1 DEF InService, AtMaster, Allowed
  <2>2. \A s \in isr \cap MasterLines : irq < s
    BY <1>1 DEF Allowed, AtMaster
  <2>3. EndOfInterrupt(isr \cup {irq}) = (isr \cup {irq}) \ {irq}
    BY <1>1, <2>1, <2>2 DEF EndOfInterrupt, MasterLines
  <2> QED
    BY <1>1, <2>1, <2>3
<1>2. CASE irq \notin MasterLines
  <2>1. isr \cap MasterLines = {}
    BY <1>2 DEF Allowed, AtMaster, Cascade
  <2>2. InService(isr, irq) = isr \cup {irq, Cascade}
    BY <1>2 DEF InService, AtMaster
  <2>3. EndOfInterrupt(isr \cup {irq, Cascade}) = (isr \cup {irq, Cascade}) \ {Cascade}
    BY <1>2, <2>1 DEF EndOfInterrupt, MasterLines, Cascade
  <2> QED
    BY <1>2, <2>1, <2>2, <2>3 DEF MasterLines, Cascade
<1> QED
  BY <1>1, <1>2

\* Line 14 is let through unless it is shut.
LEMMA AllowedUnlessShut ==
    ASSUME TypeOK, Service
    PROVE  Allowed(isr, PrimaryAta) <=> ~ Shut
BY DEF TypeOK, Service, Allowed, Shut, AtMaster, PrimaryAta, Cascade, MasterLines,
       SlaveLines

\* No request that can be taken is left where the code goes on: line 14's is shut.
LEMMA RunningIsUndisturbed ==
    ASSUME TypeOK, Service, Running, IFlag, PrimaryAta \in irr
    PROVE  Shut
BY AllowedUnlessShut DEF Running

-----------------------------------------------------------------------------
(* The stack of calls *)

\* The calls under way are a sequence of calls.
LEMMA CallsTyped == ASSUME TypeOK PROVE calls \in Seq(Call)
BY DEF TypeOK, Call

\* The innermost call, and what is left when it returns.
LEMMA Innermost ==
    ASSUME NEW stack \in Seq(Call), stack # <<>>
    PROVE  /\ Len(stack) \in Nat \ {0}
           /\ Last(stack) = stack[Len(stack)]
           /\ Last(stack) \in Call
           /\ Front(stack) \in Seq(Call)
           /\ Len(Front(stack)) = Len(stack) - 1
           /\ \A i \in 1..(Len(stack) - 1) : Front(stack)[i] = stack[i]
           /\ Front(stack) = <<>> <=> Len(stack) = 1
<1>1. Len(stack) \in Nat \ {0}
  BY EmptySeq
<1>2. \A i \in 1..Len(stack) : stack[i] \in Call
  BY ElementOfSeq
<1>3. Last(stack) = stack[Len(stack)] /\ Last(stack) \in Call
  BY <1>1, <1>2 DEF Last
<1>4. /\ Front(stack) \in Seq(Call)
      /\ Len(Front(stack)) = Len(stack) - 1
      /\ \A i \in 1..(Len(stack) - 1) : Front(stack)[i] = stack[i]
  <2>1. Front(stack) = SubSeq(stack, 1, Len(stack) - 1)
    BY DEF Front
  <2>2. ASSUME NEW k \in Nat \ {0}, k = Len(stack)
        PROVE  /\ SubSeq(stack, 1, k - 1) \in Seq(Call)
               /\ Len(SubSeq(stack, 1, k - 1)) = k - 1
               /\ \A i \in 1..(k - 1) : SubSeq(stack, 1, k - 1)[i] = stack[i]
    BY <2>2
  <2> QED
    BY <1>1, <2>1, <2>2
<1>5. Front(stack) = <<>> <=> Len(stack) = 1
  BY <1>1, <1>4, EmptySeq
<1> QED
  BY <1>1, <1>3, <1>4, <1>5

\* The innermost call goes on.
LEMMA InnermostGoesOn ==
    ASSUME calls \in Seq(Call), calls # <<>>,
           NEW place \in {"file", "lines", "end", "stored"}, CallGoesTo(place)
    PROVE  /\ calls' \in Seq(Call)
           /\ calls' # <<>>
           /\ Len(calls') = Len(calls)
           /\ \A i \in 1..(Len(calls) - 1) : calls'[i] = calls[i]
           /\ Current' = [Current EXCEPT !.place = place]
           /\ Current' = calls'[Len(calls)]
           /\ Current = calls[Len(calls)]
<1>1. /\ Len(calls) \in Nat \ {0}
      /\ Current = calls[Len(calls)]
      /\ Current \in Call
  BY Innermost DEF Current
<1> DEFINE moved == [Current EXCEPT !.place = place]
<1>2. moved \in Call
  BY <1>1 DEF Call
<1>3. calls' = [calls EXCEPT ![Len(calls)] = moved]
  BY <1>1 DEF CallGoesTo
<1>4. /\ calls' \in Seq(Call)
      /\ Len(calls') = Len(calls)
      /\ \A j \in 1..Len(calls) :
            calls'[j] = IF j = Len(calls) THEN moved ELSE calls[j]
  <2> HIDE DEF moved
  <2>1. Len(calls) \in 1..Len(calls)
    BY <1>1
  <2> QED
    BY <1>2, <1>3, <2>1, ExceptSeq
<1>5. calls' # <<>>
  BY <1>1, <1>4, EmptySeq
<1>6. Current' = calls'[Len(calls')]
  BY DEF Current, Last
<1> QED
  BY <1>1, <1>4, <1>5, <1>6

\* A call is entered on top of others.
LEMMA CallEntered ==
    ASSUME NEW under \in Seq(Call), NEW number \in Numbers \cup {0}, NEW byDisk \in BOOLEAN,
           int2eh(under, number, byDisk), TypeOK
    PROVE  /\ calls' \in Seq(Call)
           /\ calls' # <<>>
           /\ Len(calls') = Len(under) + 1
           /\ \A i \in 1..Len(under) : calls'[i] = under[i]
           /\ Current' = calls'[Len(under) + 1]
           /\ Current'.number = number
           /\ Current'.byDisk = byDisk
           /\ Current'.flag = IFlag
           /\ Current'.place = IF ReadsFile(number) THEN "file" ELSE "end"
           /\ ~ IFlag'
<1>1. PICK res \in Results(number) :
         calls' = Append(under, [number |-> number, byDisk |-> byDisk, flag |-> IFlag,
                                 place |-> IF ReadsFile(number) THEN "file" ELSE "end",
                                 res |-> res, made |-> 0])
  BY DEF int2eh
<1> DEFINE new == [number |-> number, byDisk |-> byDisk, flag |-> IFlag,
                   place |-> IF ReadsFile(number) THEN "file" ELSE "end",
                   res |-> res, made |-> 0]
<1>2. new \in Call
  BY InterruptsAssumption DEF Call, AllResults, TypeOK
<1>3. /\ calls' \in Seq(Call)
      /\ calls' # <<>>
      /\ Len(calls') = Len(under) + 1
      /\ \A i \in 1..Len(under) : calls'[i] = under[i]
      /\ calls'[Len(under) + 1] = new
  <2> HIDE DEF new
  <2>1. calls' = Append(under, new)
    BY <1>1 DEF new
  <2> QED
    BY <1>2, <2>1, AppendProperties
<1>4. Current' = calls'[Len(under) + 1]
  BY <1>3 DEF Current, Last
<1> QED
  BY <1>3, <1>4 DEF int2eh, idt_set

-----------------------------------------------------------------------------
(* The invariant *)

\* The invariant holds where kernel_main comes to DiskInit.
LEMMA InitIInv == Init => IInv
<1> SUFFICES ASSUME Init
             PROVE  IInv
  OBVIOUS
<1>1. <<>> \in Seq(Call) /\ Len(<<>>) = 0
  BY EmptySeq
<1>2. TypeOK
  <2>1. calls \in Seq(Call)
    BY <1>1 DEF Init
  <2>2. sectors \in 0..MaxSectors
    BY InterruptsAssumption DEF Init
  <2> QED
    BY <2>1, <2>2 DEF Init, TypeOK, Call
<1>3. Service /\ Masking /\ Stack /\ Owed /\ Drive
  BY <1>1 DEF Init, Service, Masking, BeforeInterrupts, Stack, Owed, Drive, MasterLines,
              Cascade, PrimaryAta, SlaveLines, Shut
<1> QED
  BY <1>2, <1>3 DEF IInv

\* A step that leaves the calls and the code alone, and lets the slave forget
\* nothing, keeps what is said of the calls.
LEMMA ServingKeepsIInv ==
    ASSUME IInv,
           UNCHANGED <<latches, IFlag, reading, main, calls, results, buffer, mistaken>>,
           scancode' \in BOOLEAN, drewAtNull' \in BOOLEAN,
           irr' \subseteq irr, PrimaryAta \in irr => PrimaryAta \in irr',
           isr' \subseteq Lines \cup {Cascade},
           isr' \cap MasterLines \subseteq isr \cap MasterLines,
           isr \cap SlaveLines \subseteq isr'
    PROVE  IInv'
<1>1. TypeOK'
  BY DEF IInv, TypeOK, reading, results
<1>2. Shut => Shut'
  BY DEF Shut
<1>3. Service'
  <2>1. Cascade \in isr' => Cascade \in isr
    BY DEF MasterLines, Cascade
  <2> QED
    BY <1>2, <2>1 DEF IInv, Service
<1>4. Masking' /\ Stack' /\ Owed'
  BY DEF IInv, Masking, BeforeInterrupts, InRing3, Stack, Owed, Current, results
<1>5. Drive'
  BY <1>2 DEF IInv, Drive, Current, reading
<1> QED
  BY <1>1, <1>3, <1>4, <1>5 DEF IInv

\* Interrupts that are served at once, and exceptions taken for interrupts.
LEMMA InterruptKeepsIInv ==
    ASSUME IInv, \/ \E irq \in Lines : no_interrupt(irq)
                 \/ \E key \in {"backspace", "other"} : int21h_handler(key)
                 \/ Trap
    PROVE  IInv'
<1>0. /\ isr \subseteq Lines \cup {Cascade} /\ Lines \cup {Cascade} \subseteq 0..15
      /\ isr \cap MasterLines \subseteq {Cascade}
      /\ Lines \subseteq (0..15) \ {Cascade}
      /\ irr \subseteq Lines
  BY InterruptsAssumption DEF IInv, TypeOK, Service, Cascade
<1>1. ASSUME NEW irq \in Lines, Allowed(isr, irq), isr' = EndOfInterrupt(InService(isr, irq))
      PROVE  /\ isr' \subseteq Lines \cup {Cascade}
             /\ isr' \cap MasterLines \subseteq isr \cap MasterLines
             /\ isr \cap SlaveLines \subseteq isr'
  <2>1. isr' = IF irq \in MasterLines THEN isr ELSE isr \cup {irq}
    <3>1. irq \in (0..15) \ {Cascade} /\ isr \subseteq 0..15
      BY <1>0
    <3> QED
      BY <1>0, <1>1, <3>1, ServedAndEnded
  <2> QED
    BY <1>0, <2>1
<1>2. ASSUME NEW irq \in Lines, no_interrupt(irq)
      PROVE  IInv'
  <2>1. irq # PrimaryAta
    BY <1>2 DEF no_interrupt, idt, Vector, MasterLines, PrimaryAta
  <2>2. Allowed(isr, irq) /\ isr' = EndOfInterrupt(InService(isr, irq))
    BY <1>2 DEF no_interrupt, no_interrupt_handler, Taken, Shown
  <2> QED
    BY <1>1, <1>2, <2>1, <2>2, ServingKeepsIInv DEF no_interrupt, IInv, TypeOK
<1>3. ASSUME NEW key \in {"backspace", "other"}, int21h_handler(key)
      PROVE  IInv'
  <2>1. Keyboard \in Lines /\ Keyboard # PrimaryAta
    BY InterruptsAssumption DEF Keyboard, PrimaryAta
  <2>2. Allowed(isr, Keyboard) /\ isr' = EndOfInterrupt(InService(isr, Keyboard))
    BY <1>3 DEF int21h_handler, Taken, Shown
  <2>3. drewAtNull' \in BOOLEAN
    BY <1>3 DEF int21h_handler, PrintChar
  <2> QED
    BY <1>1, <1>3, <2>1, <2>2, <2>3, ServingKeepsIInv DEF int21h_handler
<1>4. CASE Trap
  <2>1. isr' = EndOfInterrupt(isr)
    BY <1>4 DEF Trap, no_interrupt_handler
  <2>2. /\ isr' \subseteq isr
        /\ isr \cap SlaveLines \subseteq isr'
    BY <2>1, EndOfInterruptAtMaster
  <2> QED
    BY <1>0, <1>4, <2>2, ServingKeepsIInv DEF Trap, IInv, TypeOK
<1> QED
  BY <1>2, <1>3, <1>4

\* What is said of each call, said of the innermost.
LEMMA CurrentCall ==
    ASSUME IInv, calls # <<>>
    PROVE  /\ Current \in Call
           /\ Current.byDisk <=> ~ InRing3
           /\ Current.byDisk => /\ Len(calls) = 1
                                /\ Current.number = 0
                                /\ Current.place \in {"end", "stored"}
           /\ ~ BeforeInterrupts
           /\ Len(calls) = 1 => Current.flag
           /\ Len(calls) # 1 => ~ Current.flag
<1>1. /\ Len(calls) \in Nat \ {0}
      /\ Current = calls[Len(calls)]
      /\ Current \in Call
  BY CallsTyped, Innermost DEF IInv, Current
<1>2. Len(calls) \in 1..Len(calls) /\ (Len(calls) = 1 \/ Len(calls) \in 2..Len(calls))
  <2>1. \A n \in Nat \ {0} : n \in 1..n /\ (n = 1 \/ n \in 2..n)
    OBVIOUS
  <2> QED
    BY <1>1, <2>1, Zenon
<1>3. /\ Current.byDisk <=> ~ InRing3
      /\ Current.byDisk => /\ Len(calls) = 1
                           /\ Current.number = 0
                           /\ Current.place \in {"end", "stored"}
  BY <1>1, <1>2, Zenon DEF IInv, Stack
<1>4. ~ BeforeInterrupts
  BY DEF IInv, Masking
<1>5. /\ Len(calls) = 1 => Current.flag
      /\ Len(calls) # 1 => ~ Current.flag
  BY <1>1, <1>2, <1>4, Zenon DEF IInv, Masking
<1> QED
  BY <1>1, <1>3, <1>4, <1>5

\* A device that requests leaves the code alone.
LEMMA DeviceKeepsIInv == ASSUME IInv, Devices PROVE IInv'
<1>1. CASE KeyPressed \/ \E irq \in Lines \ {Keyboard, PrimaryAta} : Request(irq)
  <2>0. /\ scancode' \in BOOLEAN
        /\ UNCHANGED <<latches, isr, IFlag, reading, main, calls, results, buffer,
                       mistaken, drewAtNull>>
    BY <1>1 DEF KeyPressed, Request, IInv, TypeOK
  <2>1. irr' \subseteq Lines /\ (PrimaryAta \in irr' <=> PrimaryAta \in irr)
    <3>1. PICK irq \in Lines \ {PrimaryAta} : irr' = irr \cup {irq}
      <4>1. Keyboard \in Lines /\ Keyboard # PrimaryAta
        BY InterruptsAssumption DEF Keyboard, PrimaryAta
      <4> QED
        BY <1>1, <4>1 DEF KeyPressed, Request
    <3> QED
      BY <3>1 DEF IInv, TypeOK
  <2>2. TypeOK'
    BY <2>0, <2>1 DEF IInv, TypeOK, reading, results
  <2>3. Service' /\ Masking' /\ Stack' /\ Owed' /\ Drive'
    BY <2>0, <2>1 DEF IInv, Service, Masking, BeforeInterrupts, Stack, InRing3, Owed, Drive, Shut,
                Current, reading, results
  <2> QED
    BY <2>2, <2>3 DEF IInv
<1>2. CASE DriveReady
  <2>1. TypeOK'
    BY <1>2, InterruptsAssumption DEF DriveReady, IInv, TypeOK, results
  <2>2. Service' /\ Masking' /\ Stack' /\ Owed'
    BY <1>2 DEF DriveReady, IInv, Service, Masking, BeforeInterrupts, Stack, InRing3, Owed,
                Shut, Current, results
  <2>3. Drive'
    BY <1>2 DEF DriveReady, IInv, TypeOK, Drive, Shut, Current
  <2> QED
    BY <2>1, <2>2, <2>3 DEF IInv
<1> QED
  BY <1>1, <1>2 DEF Devices

\* Reading a sector changes no call; commands are given where the drive's
\* request is shut or was served.
LEMMA ReadingKeepsIInv ==
    ASSUME IInv, ReadCommand \/ ReadStatus \/ ReadWords
    PROVE  IInv'
<1>0. /\ UNCHANGED <<latches, isr, IFlag, scancode, main, calls, results, buffer,
                     mistaken, drewAtNull>>
      /\ irr' \subseteq irr
      /\ latches => irr' = irr
  BY DEF ReadCommand, ReadStatus, ReadWords, controllers
<1>1. TypeOK'
  <2>1. drive' \in {"idle", "busy", "ready"} /\ c' \in BOOLEAN
    BY DEF ReadCommand, ReadStatus, ReadWords, IInv, TypeOK
  <2>2. sectors' \in 0..MaxSectors
    BY InterruptsAssumption DEF ReadCommand, ReadStatus, ReadWords, IInv, TypeOK
  <2> QED
    BY <1>0, <2>1, <2>2 DEF IInv, TypeOK, results
<1>2. Service' /\ Masking' /\ Stack' /\ Owed'
  BY <1>0 DEF IInv, Service, Masking, BeforeInterrupts, Stack, InRing3, Owed, Shut, Current,
              results
<1>3. Drive'
  <2>1. CASE ReadCommand
    <3>1. \/ main \in {"DiskInit", "boot.ini", "font"} /\ calls = <<>>
          \/ main = "ring3" /\ calls # <<>> /\ Current.place = "file" /\ ~ Current.byDisk
      BY <2>1, CurrentCall DEF ReadCommand, Reads, InMain, InCall, Running, Stopped, InRing3
    <3>2. IFlag /\ PrimaryAta \in irr => Shut
      BY <2>1, RunningIsUndisturbed DEF ReadCommand, Reads, InMain, InCall, IInv
    <3>3. drive = "idle" /\ drive' = "busy" /\ c' = FALSE /\ irr' = irr
      BY <2>1 DEF ReadCommand, controllers
    <3> QED
      BY <1>0, <3>1, <3>2, <3>3 DEF IInv, Drive, Shut, Current
  <2>2. CASE ReadStatus
    <3>1. /\ drive' = drive /\ sectors' = sectors
          /\ c' => drive = "ready"
          /\ ~ latches => PrimaryAta \notin irr'
      BY <2>2 DEF ReadStatus
    <3> QED
      BY <1>0, <3>1 DEF IInv, Drive, Shut, Current
  <2>3. CASE ReadWords
    BY <2>3, <1>0 DEF ReadWords, IInv, Drive, Shut, Current, controllers
  <2> QED
    BY <2>1, <2>2, <2>3
<1> QED
  BY <1>1, <1>2, <1>3 DEF IInv

\* kernel_main goes on only when no interrupt is due: behind boot.ini, of which a
\* sector was read with interrupts on, line 14 was served if it can be.
LEMMA MainKeepsIInv ==
    ASSUME IInv, \/ DiskInit \/ enable_interrupts \/ ReadBootIni \/ AllocateBuffer
                 \/ LoadPsfFont
    PROVE  IInv'
<1>0. /\ UNCHANGED <<latches, controllers, scancode, drive, c, calls, results, mistaken,
                     drewAtNull>>
      /\ calls = <<>> /\ drive = "idle" /\ sectors' = 0
      /\ main' # "DiskInit"
      /\ ~ InRing3
      /\ Running
  BY DEF DiskInit, enable_interrupts, ReadBootIni, AllocateBuffer, LoadPsfFont, Goto, InMain,
         InRing3
<1>1. TypeOK'
  <2>1. /\ IFlag' \in BOOLEAN /\ buffer' \in BOOLEAN
        /\ main' \in {"enable_interrupts", "boot.ini", "buffer", "font", "ring3", "returned"}
    BY DEF DiskInit, enable_interrupts, ReadBootIni, AllocateBuffer, LoadPsfFont, Goto, IInv,
           TypeOK
  <2>2. sectors' \in 0..MaxSectors
    BY <1>0, InterruptsAssumption
  <2> QED
    BY <1>0, <2>1, <2>2 DEF IInv, TypeOK, controllers, results
<1>2. Service' /\ Stack'
  <2>1. Len(calls') = 0
    BY <1>0
  <2> QED
    BY <1>0, <2>1 DEF IInv, Service, Stack, Shut, controllers, results
<1>3. Masking'
  <2>1. Len(calls') = 0
    BY <1>0
  <2>2. IF main' = "enable_interrupts" THEN ~ IFlag' ELSE IFlag'
    BY <1>0 DEF DiskInit, enable_interrupts, ReadBootIni, AllocateBuffer, LoadPsfFont, Goto,
                InMain, IInv, Masking, BeforeInterrupts
  <2> QED
    BY <1>0, <2>1, <2>2 DEF Masking, BeforeInterrupts
<1>4. Owed'
  BY <1>0 DEF IInv, Owed, InRing3, results
<1>5. Drive'
  <2>1. latches /\ main' \in {"buffer", "font", "ring3"} => Shut
    <3>1. CASE ReadBootIni /\ main' = "buffer"
      <4>1. main = "boot.ini" /\ sectors > 0
        BY <3>1 DEF ReadBootIni, Goto, InMain
      <4>2. IFlag
        BY <1>0, <4>1 DEF IInv, Masking, BeforeInterrupts
      <4> QED
        BY <1>0, <4>1, <4>2, RunningIsUndisturbed DEF IInv, Drive
    <3>2. CASE AllocateBuffer \/ LoadPsfFont
      BY <3>2 DEF AllocateBuffer, LoadPsfFont, Goto, InMain, IInv, Drive
    <3> QED
      BY <3>1, <3>2 DEF DiskInit, enable_interrupts, ReadBootIni, Goto
  <2> QED
    BY <1>0, <2>1 DEF IInv, Drive, Shut, controllers
<1> QED
  BY <1>1, <1>2, <1>3, <1>4, <1>5 DEF IInv

\* A call returns a result that tmp_res still holds; nothing but scripts is below
\* it. Only the mistaken call may find the drive at work, and then it is ready.
LEMMA ReturnKeepsIInv == ASSUME IInv, iretd PROVE IInv'
<1>0. /\ calls # <<>> /\ Current.place = "stored"
      /\ eax' = tmp_res
      /\ calls' = Front(calls)
      /\ IFlag' = Current.flag
      /\ owed' = IF Current.byDisk THEN owed ELSE Current.res
      /\ UNCHANGED <<latches, irr, isr, scancode, drive, sectors, main, tmp_res,
                     buffer, mistaken, drewAtNull>>
      /\ InRing3 => main = "ring3"
  BY DEF iretd, Return, InCall, Running, Stopped, InRing3, controllers
<1>1. /\ Len(calls) \in Nat \ {0}
      /\ Front(calls) \in Seq(Call)
      /\ Len(Front(calls)) = Len(calls) - 1
      /\ \A i \in 1..(Len(calls) - 1) : Front(calls)[i] = calls[i]
      /\ Front(calls) = <<>> <=> Len(calls) = 1
      /\ Front(calls) # <<>> => Last(Front(calls)) = Front(calls)[Len(calls) - 1]
  BY <1>0, CallsTyped, Innermost DEF IInv
<1>2. /\ Current \in Call
      /\ Current.byDisk <=> ~ InRing3
      /\ Current.byDisk => Len(calls) = 1 /\ Current.place \in {"end", "stored"}
      /\ ~ BeforeInterrupts
      /\ Len(calls) = 1 => Current.flag
      /\ Len(calls) # 1 => ~ Current.flag
  BY <1>0, CurrentCall
<1>3. tmp_res = Current.res
  BY <1>0 DEF IInv, Stack
<1>4. c' \in BOOLEAN /\ (c' => drive = "ready") /\ (c => c')
  <2>1. c' \in IF Current.byDisk /\ drive # "idle" THEN {c, TRUE} ELSE {c}
    BY DEF iretd, Return
  <2>2. Current.byDisk /\ drive # "idle" => drive = "ready"
    BY <1>0 DEF IInv, TypeOK, Drive
  <2> QED
    BY <2>1, <2>2 DEF IInv, TypeOK, Drive
<1>5. TypeOK'
  <2>1. calls' \in Seq(Call)
    BY <1>0, <1>1
  <2>2. /\ IFlag' \in BOOLEAN
        /\ {tmp_res, eax', owed'} \subseteq AllResults \cup {None}
    BY <1>0, <1>2 DEF IInv, TypeOK, Call
  <2> QED
    BY <1>0, <1>4, <2>1, <2>2 DEF IInv, TypeOK, Call
<1>6. Service'
  BY <1>0 DEF IInv, Service, Shut
<1>7. Masking'
  <2>1. CASE Len(calls) = 1
    BY <1>0, <1>1, <1>2, <2>1 DEF Masking, BeforeInterrupts
  <2>2. CASE Len(calls) # 1
    <3>1. calls' # <<>> /\ ~ IFlag'
      BY <1>0, <1>1, <1>2, <2>2
    <3>2. calls'[1] = calls[1] /\ \A i \in 2..Len(calls') : calls'[i] = calls[i] /\ i \in 2..Len(calls)
      BY <1>0, <1>1, <2>2
    <3> QED
      BY <1>0, <1>2, <3>1, <3>2, Zenon DEF IInv, Masking, BeforeInterrupts
  <2> QED
    BY <2>1, <2>2
<1>8. \A i \in 1..Len(calls') :
         calls'[i] = calls[i] /\ i \in 1..Len(calls) /\ i \in 1..(Len(calls) - 1)
  BY <1>0, <1>1
<1>9. calls' # <<>> => Current'.place = "lines"
  <2> SUFFICES ASSUME calls' # <<>>
               PROVE  Current'.place = "lines"
    OBVIOUS
  <2>1. Len(calls) - 1 \in 1..(Len(calls) - 1)
    BY <1>0, <1>1
  <2>2. Current' = calls[Len(calls) - 1]
    BY <1>0, <1>1, <2>1 DEF Current
  <2> QED
    BY <2>1, <2>2 DEF IInv, Stack
<1>10. Stack'
  <2>1. \A i \in 1..(Len(calls') - 1) : calls'[i].place = "lines"
    <3>1. \A i \in 1..(Len(calls') - 1) : i \in 1..Len(calls')
      BY <1>0, <1>1
    <3> QED
      BY <1>8, <3>1, Zenon DEF IInv, Stack
  <2>2. \A i \in 1..Len(calls') : calls'[i].byDisk <=> ~ InRing3'
    BY <1>0, <1>8, Zenon DEF IInv, Stack, InRing3
  <2>3. \A i \in 1..Len(calls') : ~ calls'[i].byDisk
    <3> SUFFICES ASSUME NEW i \in 1..Len(calls'), calls'[i].byDisk
                 PROVE  FALSE
      OBVIOUS
    <3>1. Len(calls) = 1
      BY <1>8, Zenon DEF IInv, Stack
    <3> QED
      BY <1>0, <1>1, <3>1
  <2> QED
    BY <1>9, <2>1, <2>2, <2>3, Zenon DEF Stack
<1>11. owed = None
  BY <1>0 DEF IInv, Owed
<1>12. Owed'
  BY <1>0, <1>2, <1>3, <1>9, <1>11 DEF Owed
<1>13. Drive'
  <2>1. CASE Current.byDisk
    <3>1. calls' = <<>>
      BY <1>0, <1>1, <1>2, <2>1
    <3> QED
      BY <1>0, <1>2, <1>4, <2>1, <3>1 DEF IInv, Drive, Shut, InRing3
  <2>2. CASE ~ Current.byDisk
    <3>1. main = "ring3" /\ drive = "idle" /\ c' = c
      BY <1>0, <1>2, <2>2 DEF IInv, Drive, InRing3, iretd, Return
    <3>2. calls' # <<>> => ~ Current'.byDisk
      <4> SUFFICES ASSUME calls' # <<>>
                   PROVE  ~ Current'.byDisk
        OBVIOUS
      <4>1. /\ Len(calls) - 1 \in 1..Len(calls)
            /\ Current' = calls[Len(calls) - 1]
        BY <1>0, <1>1 DEF Current
      <4> QED
        BY <3>1, <4>1, Zenon DEF IInv, Stack, InRing3
    <3> QED
      BY <1>0, <3>1, <3>2 DEF IInv, Drive, Shut
  <2> QED
    BY <2>1, <2>2
<1> QED
  BY <1>5, <1>6, <1>7, <1>10, <1>12, <1>13 DEF IInv

\* Line 14 is taken for a system call outside of calls and before ring 3, where
\* nobody waits for a result, and only once: it stays in service.
LEMMA MistakenCallKeepsIInv == ASSUME IInv, int2eh_ByDisk PROVE IInv'
<1>0. /\ IFlag /\ ~ Stopped /\ PrimaryAta \in irr /\ Allowed(isr, PrimaryAta)
      /\ irr' = irr \ {PrimaryAta}
      /\ isr' = isr \cup {PrimaryAta, Cascade}
      /\ int2eh(calls, 0, TRUE)
      /\ mistaken' = mistaken + 1
      /\ UNCHANGED <<latches, scancode, drive, c, sectors, main, tmp_res, eax, owed, buffer,
                     drewAtNull>>
  <2>1. InService(isr, PrimaryAta) = isr \cup {PrimaryAta, Cascade}
    BY DEF InService, AtMaster, MasterLines, PrimaryAta
  <2>2. /\ IFlag /\ ~ Stopped /\ PrimaryAta \in irr /\ Allowed(isr, PrimaryAta)
        /\ isr' = InService(isr, PrimaryAta)
    BY DEF int2eh_ByDisk, Taken, Shown
  <2> QED
    BY <2>1, <2>2 DEF int2eh_ByDisk, reading, results
<1>1. ~ Shut
  BY <1>0, AllowedUnlessShut DEF IInv
<1>2. calls = <<>> /\ ~ BeforeInterrupts
  BY <1>0 DEF IInv, Masking
<1>3. ~ InRing3
  <2>1. main # "ring3"
    BY <1>0, <1>1, <1>2 DEF IInv, Drive
  <2> QED
    BY <1>0, <2>1 DEF Stopped, InRing3
<1>4. drive # "busy" /\ mistaken = 0
  BY <1>0, <1>1 DEF IInv, Drive, Service
<1>5. /\ calls' \in Seq(Call)
      /\ calls' # <<>>
      /\ Len(calls') = 1
      /\ Current' = calls'[1]
      /\ Current'.number = 0
      /\ Current'.byDisk = TRUE
      /\ Current'.flag = IFlag
      /\ Current'.place = "end"
      /\ ~ IFlag' /\ IFlag' \in BOOLEAN
  <2>1. calls \in Seq(Call) /\ Len(calls) = 0
    BY <1>2, EmptySeq
  <2>2. ~ ReadsFile(0) /\ 0 \in Numbers \cup {0} /\ TRUE \in BOOLEAN
    BY DEF ReadsFile
  <2>3. IFlag' \in BOOLEAN
    BY <1>0 DEF int2eh, idt_set
  <2>4. /\ calls' \in Seq(Call)
        /\ calls' # <<>>
        /\ Len(calls') = Len(calls) + 1
        /\ Current' = calls'[Len(calls) + 1]
        /\ Current'.number = 0
        /\ Current'.byDisk = TRUE
        /\ Current'.flag = IFlag
        /\ Current'.place = IF ReadsFile(0) THEN "file" ELSE "end"
        /\ ~ IFlag'
    BY <1>0, <2>1, <2>2, CallEntered DEF IInv
  <2> QED
    BY <2>1, <2>2, <2>3, <2>4
<1>6. Shut'
  BY <1>0 DEF Shut, PrimaryAta, SlaveLines
<1>7. TypeOK'
  <2>1. isr' \subseteq Lines \cup {Cascade}
    BY <1>0, InterruptsAssumption DEF IInv, TypeOK
  <2> QED
    BY <1>0, <1>5, <2>1 DEF IInv, TypeOK, Call
<1>8. Service'
  <2>1. isr' \cap MasterLines \subseteq {Cascade}
    BY <1>0 DEF IInv, Service, PrimaryAta, MasterLines
  <2> QED
    BY <1>0, <1>4, <1>6, <2>1 DEF Service
<1>9. Masking'
  <2>1. \A i \in 2..Len(calls') : FALSE
    BY <1>5
  <2> QED
    BY <1>0, <1>2, <1>5, <2>1 DEF Masking, BeforeInterrupts
<1>10. Stack'
  <2>1. /\ \A i \in 1..(Len(calls') - 1) : FALSE
        /\ \A i \in 1..Len(calls') : i = 1
    BY <1>5
  <2> QED
    BY <1>0, <1>3, <1>5, <2>1 DEF Stack, InRing3
<1>11. Owed'
  BY <1>0, <1>3 DEF IInv, Owed, InRing3
<1>12. Drive'
  BY <1>0, <1>3, <1>4, <1>5, <1>6 DEF IInv, Drive, InRing3
<1> QED
  BY <1>7, <1>8, <1>9, <1>10, <1>11, <1>12 DEF IInv

\* The innermost call goes on, in steps that leave the machine alone but may store
\* its result.
LEMMA CallGoesOnKeepsIInv ==
    ASSUME IInv, FileRead \/ LinesEnd \/ StoreResult
    PROVE  IInv'
<1>1. /\ calls # <<>> /\ Running
      /\ UNCHANGED <<latches, irr, isr, IFlag, scancode, drive, c, main, eax, owed, buffer,
                     mistaken, drewAtNull>>
      /\ sectors' \in {0, sectors}
      /\ tmp_res' \in {tmp_res, Current.res}
  BY DEF FileRead, LinesEnd, StoreResult, InCall, controllers, reading, results
<1>2. /\ Current \in Call
      /\ Current.byDisk <=> ~ InRing3
      /\ Current.byDisk => /\ Len(calls) = 1
                           /\ Current.number = 0
                           /\ Current.place \in {"end", "stored"}
  BY <1>1, CurrentCall
<1>3. PICK place \in {"lines", "end", "stored"} :
         /\ CallGoesTo(place)
         /\ place = "stored" => tmp_res' = Current.res
         /\ place = "lines" => ~ Current.byDisk
  BY <1>2 DEF FileRead, LinesEnd, StoreResult, InCall
<1>4. (drive = "idle" \/ main # "ring3") /\ owed = None
  <2>1. Current.place # "lines" \/ owed = None
    BY DEF FileRead, LinesEnd, StoreResult, InCall
  <2>2. Current.place # "file" \/ drive = "idle"
    BY DEF FileRead, LinesEnd, StoreResult, InCall
  <2> QED
    BY <1>1, <2>1, <2>2 DEF IInv, Owed, Drive
<1>5. /\ calls' \in Seq(Call)
      /\ calls' # <<>>
      /\ Len(calls') = Len(calls)
      /\ \A i \in 1..(Len(calls) - 1) : calls'[i] = calls[i]
      /\ Current' = [Current EXCEPT !.place = place]
      /\ Current' = calls'[Len(calls)]
      /\ Current = calls[Len(calls)]
  BY <1>1, <1>3, CallsTyped, InnermostGoesOn DEF IInv
<1>6. /\ Current'.place = place
      /\ Current'.number = Current.number
      /\ Current'.byDisk = Current.byDisk
      /\ Current'.flag = Current.flag
      /\ Current'.res = Current.res
  BY <1>2, <1>5 DEF Call
<1>7. Len(calls) \in Nat \ {0}
  BY <1>1, CallsTyped, Innermost DEF IInv
<1>8. \A i \in 1..Len(calls) : \/ i = Len(calls)
                               \/ i \in 1..(Len(calls) - 1)
  BY <1>7
<1>9. TypeOK'
  <2>1. tmp_res' \in AllResults \cup {None} /\ sectors' \in 0..MaxSectors
    BY <1>1, <1>2, InterruptsAssumption DEF IInv, TypeOK, Call
  <2> QED
    BY <1>1, <1>5, <2>1 DEF IInv, TypeOK, Call
<1>10. Service' /\ Owed'
  BY <1>1, <1>4 DEF IInv, Service, Shut, Owed
<1>11. Masking'
  <2>1. \A i \in 1..Len(calls) : calls'[i].flag = calls[i].flag
    BY <1>5, <1>6, <1>8, Zenon
  <2>2. 1 \in 1..Len(calls) /\ \A i \in 2..Len(calls) : i \in 1..Len(calls)
    BY <1>7
  <2> QED
    BY <1>1, <1>5, <2>1, <2>2, Zenon DEF IInv, Masking, BeforeInterrupts
<1>12. Stack'
  <2>1. \A i \in 1..Len(calls) : calls'[i].byDisk = calls[i].byDisk
    BY <1>5, <1>6, <1>8, Zenon
  <2>2. \A i \in 1..Len(calls') : calls'[i].byDisk <=> ~ InRing3'
    BY <1>1, <1>5, <2>1, Zenon DEF IInv, Stack, InRing3
  <2>3. \A i \in 1..(Len(calls') - 1) : calls'[i].place = "lines"
    BY <1>5, Zenon DEF IInv, Stack
  <2>4. ASSUME NEW i \in 1..Len(calls'), calls'[i].byDisk
        PROVE  /\ Len(calls') = 1
               /\ calls'[i].number = 0
               /\ calls'[i].place \in {"end", "stored"}
    <3>1. calls[i].byDisk /\ i \in 1..Len(calls)
      BY <1>5, <2>1, <2>4, Zenon
    <3>2. Len(calls) = 1
      BY <3>1, Zenon DEF IInv, Stack
    <3>3. i = Len(calls)
      BY <3>1, <3>2
    <3> QED
      BY <1>2, <1>3, <1>5, <1>6, <2>4, <3>2, <3>3
  <2>5. calls' # <<>> /\ Current'.place = "stored" => tmp_res' = Current'.res
    BY <1>3, <1>6
  <2> QED
    BY <2>2, <2>3, <2>4, <2>5 DEF Stack
<1>13. Drive'
  <2>1. /\ drive # "idle" => main \in {"DiskInit", "boot.ini", "font"}
        /\ latches /\ main = "boot.ini" /\ sectors' > 0 => sectors' = sectors
    BY <1>1, <1>4 DEF IInv, Drive
  <2>2. Current'.byDisk => Current.byDisk
    BY <1>6
  <2> QED
    BY <1>1, <1>5, <2>1, <2>2 DEF IInv, Drive, Shut
<1> QED
  BY <1>9, <1>10, <1>11, <1>12, <1>13 DEF IInv

\* Ring 3, or a script, makes a system call: what is under the new call executes
\* scripts.
LEMMA CallMadeKeepsIInv ==
    ASSUME IInv, Running, main = "ring3", owed = None, drive = "idle",
           NEW under \in Seq(Call), Len(under) = Len(calls),
           \A i \in 1..Len(calls) : /\ under[i].place = "lines"
                                    /\ ~ under[i].byDisk
                                    /\ under[i].flag = calls[i].flag,
           NEW number \in Numbers \cup {0}, int2eh(under, number, FALSE),
           UNCHANGED <<latches, controllers, scancode, reading, main, results, buffer,
                       mistaken, drewAtNull>>
    PROVE  IInv'
<1>0. UNCHANGED <<latches, irr, isr, scancode, drive, c, sectors, main, tmp_res, eax, owed,
                  buffer, mistaken, drewAtNull>>
  BY DEF controllers, reading, results
<1>1. /\ calls' \in Seq(Call)
      /\ calls' # <<>>
      /\ Len(calls') = Len(under) + 1
      /\ \A i \in 1..Len(under) : calls'[i] = under[i]
      /\ Current' = calls'[Len(under) + 1]
      /\ Current'.byDisk = FALSE
      /\ Current'.flag = IFlag
      /\ Current'.place = IF ReadsFile(number) THEN "file" ELSE "end"
      /\ ~ IFlag'
  BY CallEntered DEF IInv
<1>2. Len(calls) \in Nat /\ (calls = <<>> <=> Len(calls) = 0)
  BY CallsTyped, EmptySeq, LenProperties DEF IInv
<1>3. \A i \in 1..Len(calls') : \/ i = Len(calls) + 1
                                \/ i \in 1..Len(calls)
  BY <1>1, <1>2
<1>4. TypeOK'
  <2>1. IFlag' \in BOOLEAN
    BY DEF int2eh, idt_set
  <2> QED
    BY <1>0, <1>1, <2>1 DEF IInv, TypeOK, Call
<1>5. Service' /\ Owed'
  BY <1>0 DEF IInv, Service, Shut, Owed
<1>6. Masking'
  <2>1. ~ BeforeInterrupts
    BY DEF BeforeInterrupts
  <2>2. CASE calls = <<>>
    <3>1. Len(calls') = 1 /\ calls'[1].flag = IFlag /\ IFlag
      <4>1. IFlag
        BY <2>1, <2>2 DEF IInv, Masking
      <4>2. Len(under) = 0
        BY <1>2, <2>2
      <4>3. Len(under) + 1 = 1
        BY <4>2
      <4> QED
        BY <1>1, <4>1, <4>3, Zenon
    <3>2. \A i \in 2..Len(calls') : FALSE
      BY <3>1
    <3> QED
      BY <1>0, <1>1, <2>1, <3>1, <3>2, Zenon DEF Masking, BeforeInterrupts
  <2>3. CASE calls # <<>>
    <3>1. ~ IFlag /\ calls[1].flag /\ \A i \in 2..Len(calls) : ~ calls[i].flag
      BY <2>1, <2>3 DEF IInv, Masking
    <3>2. 1 \in 1..Len(calls)
      BY <1>2, <2>3
    <3>3. calls'[1].flag = calls[1].flag
      BY <1>1, <3>2, Zenon
    <3>4. ASSUME NEW i \in 2..Len(calls'), calls'[i].flag
          PROVE  FALSE
      <4>1. CASE i = Len(calls) + 1
        BY <1>1, <3>1, <3>4, <4>1
      <4>2. CASE i \in 2..Len(calls)
        <5>1. i \in 1..Len(calls)
          BY <4>2
        <5> QED
          BY <1>1, <3>1, <3>4, <4>2, <5>1, Zenon
      <4> QED
        BY <1>1, <1>2, <4>1, <4>2
    <3> QED
      BY <1>0, <1>1, <2>1, <3>1, <3>3, <3>4, Zenon DEF Masking, BeforeInterrupts
  <2> QED
    BY <2>2, <2>3
<1>7. Stack'
  <2>1. ASSUME NEW i \in 1..Len(calls')
        PROVE  ~ calls'[i].byDisk
    <3>1. CASE i = Len(calls) + 1
      BY <1>1, <3>1
    <3>2. CASE i \in 1..Len(calls)
      BY <1>1, <3>2, Zenon
    <3> QED
      BY <1>3, <3>1, <3>2
  <2>2. \A i \in 1..(Len(calls') - 1) : calls'[i].place = "lines"
    <3>1. \A i \in 1..(Len(calls') - 1) : i \in 1..Len(calls)
      BY <1>1, <1>2
    <3> QED
      BY <1>1, <3>1, Zenon
  <2>3. Current'.place # "stored"
    BY <1>1
  <2>4. InRing3'
    BY <1>0 DEF InRing3
  <2> QED
    BY <2>1, <2>2, <2>3, <2>4, Zenon DEF Stack
<1>8. Drive'
  BY <1>0, <1>1 DEF IInv, Drive, Shut
<1> QED
  BY <1>4, <1>5, <1>6, <1>7, <1>8 DEF IInv

\* A system call, from its gate to the return to its caller.
LEMMA SystemCallKeepsIInv ==
    ASSUME IInv, NEW number \in Numbers, SystemCall(number) \/ NestedCall(number)
    PROVE  IInv'
<1>1. CASE SystemCall(number)
  <2>1. Running /\ main = "ring3" /\ calls = <<>> /\ owed = None
    BY <1>1 DEF SystemCall, InMain
  <2>2. drive = "idle"
    BY <2>1 DEF IInv, Drive
  <2>3. calls \in Seq(Call) /\ Len(calls) = 0
    BY <2>1, EmptySeq
  <2>4. \A i \in 1..Len(calls) : FALSE
    BY <2>3
  <2> QED
    BY <1>1, <2>1, <2>2, <2>3, <2>4, CallMadeKeepsIInv DEF SystemCall
<1>2. CASE NestedCall(number)
  <2>1. /\ Running /\ calls # <<>> /\ Current.place = "lines" /\ owed = None
        /\ Current.made < MaxCalls
    BY <1>2 DEF NestedCall, InCall
  <2>2. /\ Current \in Call
        /\ Current.byDisk <=> ~ InRing3
        /\ Current.byDisk => Current.place \in {"end", "stored"}
    BY <2>1, CurrentCall
  <2>3. main = "ring3" /\ drive = "idle"
    BY <2>1, <2>2 DEF Running, Stopped, InRing3, IInv, Drive
  <2> DEFINE caller == [Current EXCEPT !.made = @ + 1]
             under == Append(Front(calls), caller)
  <2>4. /\ caller \in Call
        /\ caller.place = "lines" /\ ~ caller.byDisk /\ caller.flag = Current.flag
    <3>1. Current.made + 1 \in 0..MaxCalls
      BY <2>1, <2>2, InterruptsAssumption DEF Call
    <3> QED
      BY <2>1, <2>2, <2>3, <3>1 DEF Call, InRing3
  <2>5. /\ Len(calls) \in Nat \ {0}
        /\ Front(calls) \in Seq(Call)
        /\ Len(Front(calls)) = Len(calls) - 1
        /\ \A i \in 1..(Len(calls) - 1) : Front(calls)[i] = calls[i]
        /\ Current = calls[Len(calls)]
    BY <2>1, CallsTyped, Innermost DEF IInv, Current
  <2> HIDE DEF caller
  <2>6. /\ under \in Seq(Call)
        /\ Len(under) = Len(Front(calls)) + 1
        /\ \A i \in 1..Len(Front(calls)) : under[i] = Front(calls)[i]
        /\ under[Len(Front(calls)) + 1] = caller
    BY <2>4, <2>5, AppendProperties
  <2> HIDE DEF under
  <2>7. Len(under) = Len(calls) /\ under[Len(calls)] = caller
    BY <2>5, <2>6
  <2>8. ASSUME NEW i \in 1..Len(calls)
        PROVE  /\ under[i].place = "lines"
               /\ ~ under[i].byDisk
               /\ under[i].flag = calls[i].flag
    <3>1. CASE i = Len(calls)
      BY <2>4, <2>5, <2>7, <3>1
    <3>2. CASE i \in 1..(Len(calls) - 1)
      <4>1. under[i] = calls[i]
        BY <2>5, <2>6, <3>2
      <4> QED
        BY <2>3, <3>2, <4>1, Zenon DEF IInv, Stack, InRing3
    <3> QED
      BY <2>5, <3>1, <3>2
  <2>9. int2eh(under, number, FALSE)
    BY <1>2 DEF NestedCall, under, caller
  <2> QED
    BY <1>2, <2>1, <2>3, <2>6, <2>7, <2>8, <2>9, CallMadeKeepsIInv DEF NestedCall
<1> QED
  BY <1>1, <1>2

\* A result is taken, or the machine stops.
LEMMA CodeKeepsIInv == ASSUME IInv, Use \/ NtShutdownSystem \/ Fault PROVE IInv'
<1>1. /\ UNCHANGED <<latches, irr, isr, IFlag, scancode, drive, c, sectors, calls, tmp_res,
                     eax, buffer, mistaken, drewAtNull>>
      /\ \/ main' = main /\ owed' = None
         \/ main' \in {"stopped", "off"} /\ owed' = owed
  BY DEF Use, NtShutdownSystem, Fault, controllers, reading, results
<1>2. main' # main => main = "ring3" /\ owed = None /\ drive = "idle"
  <2>1. CASE NtShutdownSystem
    <3>1. calls # <<>> /\ Current.place = "end" /\ Current.number = 180 /\ ~ Stopped
      BY <2>1 DEF NtShutdownSystem, InCall, Running
    <3>2. ~ Current.byDisk
      BY <3>1, CurrentCall
    <3>3. main = "ring3"
      BY <3>1, <3>2, CurrentCall DEF InRing3, Stopped
    <3> QED
      BY <3>1, <3>3 DEF IInv, Owed, Drive
  <2>2. CASE Fault
    <3>1. /\ owed = None /\ ~ Stopped
          /\ \/ calls = <<>> /\ main = "ring3"
             \/ calls # <<>> /\ Current.place = "lines"
      BY <2>2 DEF Fault, RunsProgram, InMain, InCall, Running
    <3>2. main = "ring3"
      BY <3>1, CurrentCall DEF InRing3, Stopped
    <3> QED
      BY <3>1, <3>2 DEF IInv, Drive
  <2> QED
    BY <2>1, <2>2 DEF Use
<1>3. TypeOK'
  BY <1>1 DEF IInv, TypeOK
<1>4. Service' /\ Owed'
  BY <1>1, <1>2 DEF IInv, Service, Shut, Owed, Current
<1>5. Masking' /\ Stack'
  <2>1. (InRing3' <=> InRing3) /\ (BeforeInterrupts' <=> BeforeInterrupts)
    BY <1>1, <1>2 DEF InRing3, BeforeInterrupts
  <2> QED
    BY <1>1, <2>1 DEF IInv, Masking, Stack, Current
<1>6. Drive'
  BY <1>1, <1>2 DEF IInv, Drive, Shut, Current
<1> QED
  BY <1>3, <1>4, <1>5, <1>6 DEF IInv

\* Every step keeps the invariant.
LEMMA StepKeepsIInv == IInv /\ [Next]_vars => IInv'
<1> SUFFICES ASSUME IInv, [Next]_vars
             PROVE  IInv'
  OBVIOUS
<1>1. CASE \/ \E irq \in Lines : no_interrupt(irq)
           \/ KeyServed
           \/ Trap
  BY <1>1, InterruptKeepsIInv DEF KeyServed
<1>2. CASE int2eh_ByDisk
  BY <1>2, MistakenCallKeepsIInv
<1>3. CASE FileRead \/ LinesEnd \/ StoreResult
  BY <1>3, CallGoesOnKeepsIInv
<1>4. CASE \E number \in Numbers : SystemCall(number) \/ NestedCall(number)
  BY <1>4, SystemCallKeepsIInv
<1>5. CASE iretd
  BY <1>5, ReturnKeepsIInv
<1>6. CASE Use \/ NtShutdownSystem \/ Fault
  BY <1>6, CodeKeepsIInv
<1>7. CASE ReadCommand \/ ReadStatus \/ ReadWords
  BY <1>7, ReadingKeepsIInv
<1>8. CASE DiskInit \/ enable_interrupts \/ ReadBootIni \/ AllocateBuffer \/ LoadPsfFont
  BY <1>8, MainKeepsIInv
<1>9. CASE Devices
  BY <1>9, DeviceKeepsIInv
<1>10. CASE UNCHANGED vars
  BY <1>10 DEF vars, controllers, reading, results, IInv, TypeOK, Service, Masking, Stack, Owed,
               Drive, Shut, BeforeInterrupts, InRing3, Current
<1> QED
  BY <1>1, <1>2, <1>3, <1>4, <1>5, <1>6, <1>7, <1>8, <1>9, <1>10 DEF Next, Processor

-----------------------------------------------------------------------------
(* What follows *)

\* The invariant holds in every state.
LEMMA AlwaysIInv == Spec => []IInv
BY InitIInv, StepKeepsIInv, PTL DEF Spec

\* The variables of the machine keep their types, stacks of calls of any depth.
THEOREM TypeCorrect == Spec => []TypeOK
<1>1. IInv => TypeOK
  BY DEF IInv
<1> QED
  BY <1>1, AlwaysIInv, PTL

\* Whoever made a system call finds its own result in eax, however the calls nest
\* and whenever line 14 is taken for one.
THEOREM CallerGetsItsResult == Spec => []ResultReachesCaller
<1>1. IInv => ResultReachesCaller
  BY DEF IInv, Owed, ResultReachesCaller
<1> QED
  BY <1>1, AlwaysIInv, PTL

\* The disk's interrupt is taken for a system call once at most, before ring 3.
THEOREM MistakenOnce == Spec => []MistakenOnlyAtBoot
<1>1. IInv => MistakenOnlyAtBoot
  <2> SUFFICES ASSUME IInv
               PROVE  MistakenOnlyAtBoot
    OBVIOUS
  <2>1. mistaken <= 1
    BY DEF IInv, Service
  <2>2. ASSUME main = "ring3", NEW i \in DOMAIN calls
        PROVE  ~ calls[i].byDisk
    <3>1. i \in 1..Len(calls)
      BY <2>2, CallsTyped, LenProperties DEF IInv
    <3> QED
      BY <2>2, <3>1, Zenon DEF IInv, Stack, InRing3
  <2> QED
    BY <2>1, <2>2 DEF MistakenOnlyAtBoot
<1> QED
  BY <1>1, AlwaysIInv, PTL

\* disk_read_sector fetches words from a drive that is ready.
THEOREM WordsFetchedWhenReady == Spec => []WordsOnlyWhenReady
<1>1. IInv => WordsOnlyWhenReady
  BY DEF IInv, Drive, WordsOnlyWhenReady
<1> QED
  BY <1>1, AlwaysIInv, PTL

\* Inside a system call no interrupt is served: lines come out of service by a
\* trap of a program alone, and no request but the disk's is taken back.
THEOREM CallsRunUncut == Spec => CallsAreNotCut
<1>1. ASSUME IInv, [Next]_vars, calls # <<>>
      PROVE  isr' \subseteq isr /\ irr \ {PrimaryAta} \subseteq irr'
  <2>0. ~ IFlag
    BY <1>1 DEF IInv, Masking
  <2>1. CASE Devices
    BY <2>1 DEF Devices, KeyPressed, DriveReady, Request
  <2>2. CASE Trap
    BY <2>2, EndOfInterruptAtMaster DEF Trap, no_interrupt_handler
  <2>3. CASE ReadStatus
    BY <2>3 DEF ReadStatus
  <2>4. CASE \/ \E irq \in Lines : no_interrupt(irq)
             \/ int2eh_ByDisk
             \/ KeyServed
    BY <2>0, <2>4 DEF no_interrupt, int2eh_ByDisk, KeyServed, int21h_handler, Taken
  <2>5. CASE \/ FileRead \/ (\E number \in Numbers : NestedCall(number)) \/ LinesEnd
             \/ StoreResult \/ iretd \/ Use \/ NtShutdownSystem \/ ReadCommand \/ ReadWords
             \/ DiskInit \/ enable_interrupts \/ ReadBootIni \/ AllocateBuffer \/ LoadPsfFont
             \/ (\E number \in Numbers : SystemCall(number)) \/ Fault
    BY <2>5 DEF FileRead, NestedCall, LinesEnd, StoreResult, iretd, Use, NtShutdownSystem,
                ReadCommand, ReadWords, DiskInit, enable_interrupts, ReadBootIni,
                AllocateBuffer, LoadPsfFont, SystemCall, Fault, controllers
  <2>6. CASE UNCHANGED vars
    BY <2>6 DEF vars, controllers
  <2> QED
    BY <1>1, <2>1, <2>2, <2>3, <2>4, <2>5, <2>6 DEF Next, Processor
<1> DEFINE Uncut == calls # <<>> => isr' \subseteq isr /\ irr \ {PrimaryAta} \subseteq irr'
<1>2. IInv /\ [Next]_vars => [Uncut]_controllers
  BY <1>1
<1> QED
  BY <1>2, AlwaysIInv, PTL DEF Spec, CallsAreNotCut

-----------------------------------------------------------------------------
(* The segment descriptors: what kernel_main asks of a segment is what the
   processor gets. The leaves name their prover: Zenon writes out numbers of
   this size. *)

\* Dividing by 256 once: the lowest byte and the rest.
LEMMA LowByte ==
    ASSUME NEW n \in Nat
    PROVE  /\ n \div 256 \in Nat /\ n % 256 \in 0..255
           /\ n = 256 * (n \div 256) + (n % 256)
BY SMTT(10)

\* Dividing by 256 again moves on to the next byte.
LEMMA NextByte ==
    ASSUME NEW n \in Nat
    PROVE  /\ n \div 65536 = (n \div 256) \div 256
           /\ n \div 16777216 = (n \div 65536) \div 256
<1>1. n \div 65536 = (n \div 256) \div 256
  BY SMTT(10)
<1>2. n \div 16777216 = (n \div 65536) \div 256
  BY SMTT(10)
<1> QED
  BY <1>1, <1>2

\* A word is the sum of its bytes, each in its place.
LEMMA BytesOfWord ==
    ASSUME NEW n \in Word
    PROVE  /\ n % 256 \in Byte /\ (n \div 256) % 256 \in Byte
           /\ (n \div 65536) % 256 \in Byte /\ (n \div 16777216) % 256 \in Byte
           /\ n = (n % 256) + 256 * ((n \div 256) % 256)
                    + 65536 * ((n \div 65536) % 256) + 16777216 * ((n \div 16777216) % 256)
<1> DEFINE n1 == n \div 256
           n2 == n \div 65536
           n3 == n \div 16777216
<1>1. n \in Nat /\ n < 4294967296
  BY SMT DEF Word
<1>2. n3 < 256
  BY <1>1, SMTT(10)
<1>3. n2 = n1 \div 256 /\ n3 = n2 \div 256
  BY <1>1, NextByte, SMT
<1>4. n1 \in Nat /\ n % 256 \in 0..255 /\ n = 256 * n1 + (n % 256)
  BY <1>1, LowByte, SMT
<1> HIDE DEF n1, n2, n3
<1>5. n2 \in Nat /\ n1 % 256 \in 0..255 /\ n1 = 256 * n2 + (n1 % 256)
  BY <1>3, <1>4, LowByte, SMT
<1>6. n3 \in Nat /\ n2 % 256 \in 0..255 /\ n2 = 256 * n3 + (n2 % 256)
  <2>1. n3 = n2 \div 256 /\ n2 \in Nat
    BY <1>3, <1>5
  <2> QED
    BY <2>1, LowByte, SMTT(20)
<1>7. n3 % 256 = n3
  BY <1>2, <1>6, SMT
<1>8. n = (n % 256) + 256 * (n1 % 256) + 65536 * (n2 % 256) + 16777216 * (n3 % 256)
  BY <1>4, <1>5, <1>6, <1>7, SMT
<1>9. n3 % 256 \in 0..255
  BY <1>2, <1>6, <1>7, SMT
<1> QED
  BY <1>4, <1>5, <1>6, <1>8, <1>9, SMT DEF Byte, n1, n2, n3

\* A limit of at most 20 bits fits its field.
LEMMA BytesOfLimit ==
    ASSUME NEW n \in Nat, n < 1048576
    PROVE  /\ (n \div 65536) % 16 \in 0..15
           /\ n = (n % 256) + 256 * ((n \div 256) % 256) + 65536 * ((n \div 65536) % 16)
<1> DEFINE n1 == n \div 256
           n2 == n \div 65536
<1>1. n2 < 16
  BY SMTT(10)
<1>2. n1 \in Nat /\ n % 256 \in 0..255 /\ n = 256 * n1 + (n % 256)
  BY LowByte, SMT
<1>3. n2 = n1 \div 256
  BY NextByte, SMT
<1> HIDE DEF n1, n2
<1>4. n2 \in Nat /\ n1 = 256 * n2 + (n1 % 256)
  BY <1>2, <1>3, LowByte, SMT
<1>5. n2 % 16 = n2
  BY <1>1, <1>4, SMT
<1>6. n2 % 16 \in 0..15
  BY <1>1, <1>4, <1>5, SMT
<1>7. n = (n % 256) + 256 * (n1 % 256) + 65536 * (n2 % 16)
  BY <1>2, <1>4, <1>5, SMT
<1> QED
  BY <1>6, <1>7, SMT DEF n1, n2

\* Only what encodeGdtEntry refuses loses bits of its limit.
LEMMA LimitInUnits ==
    ASSUME NEW source \in Structured, Accepted(source)
    PROVE  /\ Units(source) \in Nat /\ Units(source) < 1048576
           /\ InPages(source.limit) => source.limit = 4096 * Units(source) + 4095
           /\ ~ InPages(source.limit) => source.limit = Units(source)
<1>1. source.limit \in Nat /\ source.limit < 4294967296
  BY SMT DEF Structured, Word
<1>2. CASE InPages(source.limit)
  <2>1. Units(source) = source.limit \div 4096 /\ source.limit % 4096 = 4095
    BY <1>2, SMT DEF Units, Accepted
  <2>2. /\ source.limit \div 4096 \in Nat /\ source.limit \div 4096 < 1048576
        /\ source.limit = 4096 * (source.limit \div 4096) + (source.limit % 4096)
    BY <1>1, SMTT(10)
  <2> QED
    BY <1>2, <2>1, <2>2, SMT
<1>3. CASE ~ InPages(source.limit)
  BY <1>1, <1>3, SMT DEF Units, InPages
<1> QED
  BY <1>2, <1>3

\* encodeGdtEntry writes eight bytes, whatever it is given.
THEOREM EncodedAsBytes ==
    ASSUME NEW source \in Structured
    PROVE  encodeGdtEntry(source) \in Byte \X Byte \X Byte \X Byte \X Byte \X Byte \X Byte \X Byte
<1>1. source.base \in Word /\ source.limit \in Word /\ source.type \in Byte
  BY SMT DEF Structured
<1>2. Units(source) \in Nat
  BY <1>1, SMTT(10) DEF Word, Units
<1>3. Units(source) \div 65536 \in Nat
  BY <1>2, SMTT(10)
<1>4. (Units(source) \div 65536) % 16 \in 0..15
  BY <1>3, SMT
<1>5. Flags(source) + ((Units(source) \div 65536) % 16) \in Byte
  BY <1>4, SMT DEF Flags, Byte
<1>6. Units(source) % 256 \in Byte /\ (Units(source) \div 256) % 256 \in Byte
  BY <1>2, LowByte, SMT DEF Byte
<1> QED
  BY <1>1, <1>5, <1>6, BytesOfWord, SMTT(30) DEF encodeGdtEntry

\* Every segment encodeGdtEntry accepts, from the flat ones of gdt_structured to
\* the TSS, is read back by the processor with its base, its type and exactly its
\* limit, whether it is counted in bytes or in pages.
THEOREM SegmentsAreAsAsked ==
    ASSUME NEW source \in Structured, Accepted(source)
    PROVE  Decode(encodeGdtEntry(source)) = source
<1> DEFINE target == encodeGdtEntry(source)
           limit == Units(source)
<1>1. source.base \in Word
  BY SMT DEF Structured
<1>2. limit \in Nat /\ limit < 1048576
  BY LimitInUnits, SMT
<1>3. /\ target[1] = limit % 256 /\ target[2] = (limit \div 256) % 256
      /\ target[3] = source.base % 256 /\ target[4] = (source.base \div 256) % 256
      /\ target[5] = (source.base \div 65536) % 256
      /\ target[8] = (source.base \div 16777216) % 256
      /\ target[6] = source.type
      /\ target[7] = Flags(source) + ((limit \div 65536) % 16)
  BY SMT DEF encodeGdtEntry
<1> HIDE DEF limit, target
<1>4. target[7] % 16 = (limit \div 65536) % 16 /\ (target[7] >= 128 <=> InPages(source.limit))
  BY <1>2, <1>3, BytesOfLimit, SMTT(30) DEF Flags
<1>5. LimitField(target) = limit
  BY <1>2, <1>3, <1>4, BytesOfLimit, SMT DEF LimitField
<1>6. Decode(target).limit = source.limit
  BY <1>4, <1>5, LimitInUnits, SMT DEF Decode, limit
<1>7. Decode(target).base = source.base
  BY <1>1, <1>3, BytesOfWord, SMT DEF Decode
<1>8. Decode(target) = [base |-> source.base, limit |-> source.limit, type |-> source.type]
  BY <1>3, <1>6, <1>7, SMT DEF Decode
<1> QED
  BY <1>8, SMT DEF Structured, target
===============================================================================
