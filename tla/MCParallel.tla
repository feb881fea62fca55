----------------------------- MODULE MCParallel -----------------------------
EXTENDS Parallel

\* A tool, a pure node before an approval, and a node that fails.
MCRegion == <<<<"tool">>, <<"pure", "approval">>, <<"fail">>>>
\* A branch that stores a schedule.
MCSchedule == <<<<"schedule">>>>
=============================================================================
