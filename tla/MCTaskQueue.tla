---- MODULE MCTaskQueue ----
EXTENDS TaskQueue
====
