----------------------------- MODULE MCUsermode -----------------------------
\* The four processes that kernel_main creates, in its order.
EXTENDS UsermodeProperties

Created == <<"task-a", "task-b", "user-sched", "desktop">>
=============================================================================
