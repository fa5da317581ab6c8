------------------------ MODULE ForwardingWorkers ------------------------
(* The forwarding workers, which the other threads know by number.          *)
EXTENDS Naturals

CONSTANT NWorkers   \* g_forwardingWorkers

Workers == 0 .. NWorkers - 1
=============================================================================
