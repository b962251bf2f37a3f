---------------------------- MODULE MCSyncFifo ----------------------------
\* fifo_sync with three words: not a power of two, so the index wraps early.
EXTENDS SyncFifo
============================================================================
