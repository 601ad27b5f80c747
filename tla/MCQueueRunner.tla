----------------------------- MODULE MCQueueRunner -----------------------------
\* QueueRunner for TLC.
EXTENDS QueueRunner
=================================================================================
