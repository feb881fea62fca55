---------------------------- MODULE MCChildGraph ----------------------------
EXTENDS ChildGraph

MCTasks == 1..2
MCLimits == 1..2
\* A single child.
MCSingle == 1..1
=============================================================================
