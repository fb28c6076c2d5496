--------------------------- MODULE MCEncodeBackend ---------------------------
(* Instances of EncodeBackend for TLC.                                      *)
EXTENDS EncodeBackend

OneEntry == {0}
TwoEntries == {0, 1}
OneShape == {"nv12"}
OneShapeEach == [e \in Entries |-> "nv12"]
OneSlot == [e \in Entries |-> 1]
=============================================================================
