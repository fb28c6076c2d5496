----------------------- MODULE IOSurfacePoolDirectory -----------------------
(***************************************************************************)
(* The launcher-registered IOSurfaces, shared by every connection of one   *)
(* worker process behind a mutex.  An entry has a shape (width, height and  *)
(* pixel format) and a number of slots; its only mutable state is the flag  *)
(* "claimed", so the directory is the set of claimed entry ids.             *)
(*                                                                         *)
(* This module has no variables: it defines the two operations on that set  *)
(* for the modules that model the connections.                              *)
(***************************************************************************)
EXTENDS Naturals

CONSTANTS
  Entries,    \* entry ids: positions in the directory's Vec, scanned in order
  Shapes,     \* the (width, height, pixel_format) triples a request may name
  ShapeOf,    \* the shape each entry was registered with
  SlotCount   \* the number of slots packed into each entry's surface

ASSUME DirectoryAssumption ==
  /\ Entries \subseteq Nat
  /\ ShapeOf \in [Entries -> Shapes]
  /\ SlotCount \in [Entries -> Nat]

(* Mutant: one surface is shared across the pools of a shape.               *)
MatchingShared(claimed, shape) == {e \in Entries : ShapeOf[e] = shape}

(* The entries a request for a shape may take: unclaimed, with that shape.  *)
Matching(claimed, shape) == {e \in Entries \ claimed : ShapeOf[e] = shape}

(* The entry take_matching returns, as a set of at most one id: the first   *)
(* unclaimed match in directory order, or nothing.                          *)
take_matching(claimed, shape) ==
  {e \in Matching(claimed, shape) : \A f \in Matching(claimed, shape) : e <= f}

(* Mutant: of several entries only the first is released.                   *)
release_first(claimed, ids) == claimed \ {e \in ids : \A f \in ids : e <= f}

(* Releasing entries clears their flags, whoever holds them.                *)
release_entries(claimed, ids) == claimed \ ids

=============================================================================
