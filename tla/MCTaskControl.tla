----------------------------- MODULE MCTaskControl -----------------------------
\* TaskControl for TLC: the tasks and the states they are loaded with.
EXTENDS TaskControl

TwoTasks == 1..2

\* What an exit leaves behind.
CleanlyStored == {"Processing", "Paused", "Cancelled", "Finished", "Error", "LoadError"}
=================================================================================
