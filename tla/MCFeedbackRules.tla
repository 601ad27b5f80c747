---------------------------- MODULE MCFeedbackRules ----------------------------
\* FeedbackRules for TLC: the two threads of a copy, two questions.
EXTENDS FeedbackRules
=================================================================================
