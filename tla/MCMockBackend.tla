---------------------------- MODULE MCMockBackend ----------------------------
(* Instances of MockBackend for TLC.                                        *)
EXTENDS MockBackend

(* More outputs than MAX_OUTPUTS; room for two samples, less a byte.        *)
Limits == {[count |-> 4, bytes |-> 100], [count |-> 4, bytes |-> 2 * SAMPLE_SIZE - 1]}
=============================================================================
