---------------------------------- MODULE Pic ----------------------------------
(***************************************************************************)
(* The two 8259A interrupt controllers as _start (init/kernel.asm) leaves  *)
(* them: nothing masked, fixed priorities, no automatic end of interrupt,  *)
(* the slave on line 2 of the master. `irr' holds the lines that request,  *)
(* `isr' those in service, of both controllers; line 8 is the slave's      *)
(* first.                                                                  *)
(***************************************************************************)
EXTENDS Integers

Cascade == 2
MasterLines == 0..7
SlaveLines == 8..15

\* ICW2: the master's vectors start at 0x20, the slave's at 0x28.
Vector(irq) == IF irq \in MasterLines THEN 32 + irq ELSE 40 + irq - 8

\* Line of the master a request comes in by.
AtMaster(irq) == IF irq \in MasterLines THEN irq ELSE Cascade

\* Each controller lets a request through that comes before all it has in service.
Allowed(isr, irq) ==
    /\ \A s \in isr \cap MasterLines : AtMaster(irq) < s
    /\ irq \in SlaveLines => \A s \in isr \cap SlaveLines : irq < s

\* Of two requests, the one on the master's lower line is first, or the slave's.
Before(a, b) == \/ AtMaster(a) < AtMaster(b)
                \/ AtMaster(a) = AtMaster(b) /\ a <= b

\* The request the processor is shown.
Shown(irr, isr, irq) ==
    /\ irq \in irr /\ Allowed(isr, irq)
    /\ \A other \in irr : Allowed(isr, other) => Before(irq, other)

\* The processor acknowledges it.
InService(isr, irq) == isr \cup {irq, AtMaster(irq)}

\* outb(0x20, 0x20): the master takes its first line out of service.
EndOfInterrupt(isr) ==
    isr \ {s \in isr \cap MasterLines : \A t \in isr \cap MasterLines : s <= t}
================================================================================
