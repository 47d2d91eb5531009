----------------------------- MODULE MCDoorbell -----------------------------
\* Model values for Doorbell: ticks of one and two cycles, and no timer.  A
\* one-cycle periodic tick is re-armed by service_timers before the horizon.
EXTENDS Doorbell

MCSpans == {0, 1, 2}
=============================================================================
