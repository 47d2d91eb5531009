---------------------------- MODULE MCInterrupts ----------------------------
\* Model values for Interrupts: two vectors of one class and one below it.
EXTENDS Interrupts

MCVectors == {49, 65, 66}
MCClasses == {0, 3, 4}
MCViolationVectors == {49}
=============================================================================
