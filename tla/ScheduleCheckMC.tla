-------------------------- MODULE ScheduleCheckMC --------------------------
EXTENDS ScheduleCheck

\* Not known, one socket, the other, both.
MCBindings == SUBSET {0, 1}
=============================================================================
