-------------------------- MODULE MCDecodeSession ---------------------------
(* Four modes.  A client that is not the shim: one session polled while      *)
(* chunks of every shape arrive; frames in flight when the format changes.   *)
(* The shim: one session with frames of every size; two sessions that share  *)
(* the connection and the queue.                                             *)
EXTENDS DecodeSession

MCModes ==
  { [client |-> "any", synchronous |-> TRUE, options |-> {},
     sessions |-> 1, frames |-> 3, largest |-> 4],
    [client |-> "any", synchronous |-> FALSE, options |-> {},
     sessions |-> 1, frames |-> 2, largest |-> 2],
    [client |-> "shim", synchronous |-> FALSE, options |-> Options,
     sessions |-> 1, frames |-> 2, largest |-> 4],
    [client |-> "shim", synchronous |-> FALSE, options |-> {[chunked |-> FALSE, callback |-> TRUE]},
     sessions |-> 2, frames |-> 2, largest |-> 1] }
=============================================================================
