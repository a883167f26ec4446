---------------------------- MODULE MCQueueScreen ----------------------------
EXTENDS QueueScreen
=============================================================================
