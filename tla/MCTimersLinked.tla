---------------------------- MODULE MCTimersLinked ----------------------------
EXTENDS TimersLinked, TLC

MCDurations == {1, 3}

\* The list objects are interchangeable, and so are the tables of setTimeout.
MCSymmetry == Permutations(Lists) \cup Permutations(Timeouts)
=============================================================================
