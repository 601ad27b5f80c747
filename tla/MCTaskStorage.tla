----------------------------- MODULE MCTaskStorage -----------------------------
\* TaskStorage for TLC: the tasks.
EXTENDS TaskStorage

TwoTasks == 1..2
=================================================================================
