----------------------------- MODULE IdleLoopMC -----------------------------
\* TLC instances of IdleLoop: threads, jobs and the two absences are model
\* values of the configurations.
EXTENDS IdleLoop
=============================================================================
