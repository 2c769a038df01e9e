----------------------------- MODULE MCInterrupts -----------------------------
(* The timer, the keyboard, the disk, and a mouse on line 12 of the slave, which
   comes before the disk. One call of each kind: 2 and 4 read files and the latter
   calls in turn, 0xB4 may not return, 0 is no call's number. *)
EXTENDS Interrupts

MCLines == {Timer, Keyboard, 12, PrimaryAta}
MCNumbers == {0, 2, 4, 180}
================================================================================
