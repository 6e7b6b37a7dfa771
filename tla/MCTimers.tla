------------------------------- MODULE MCTimers -------------------------------
EXTENDS Timers, TLC

MCDurations == {1, 2, 3}
=============================================================================
