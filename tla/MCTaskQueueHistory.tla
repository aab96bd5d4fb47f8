------------------------- MODULE MCTaskQueueHistory -------------------------
\* The instances of MCTaskQueue for TaskQueueHistory.
EXTENDS MCTaskQueue, TaskQueueHistory
=============================================================================
