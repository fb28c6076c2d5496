-------------------------- MODULE AbstractEncoder ---------------------------
(***************************************************************************)
(* What a backend promises to the client of its encode requests, whichever  *)
(* backend it is (trait Backend).  The client gets leases on buffers, hands *)
(* a lease it holds to a session as a frame, and is given the session's     *)
(* outputs in the order in which they became ready.  A frame is known by    *)
(* its lease, <<buffer id, generation>>.                                    *)
(*                                                                         *)
(* No lease is issued twice; a frame comes only from a lease that the       *)
(* client holds, and ends the hold; an output comes only from a frame, goes *)
(* to the session of the frame, and is given out once.  A finished output   *)
(* draws a ticket above those of the session's outputs that wait, and no    *)
(* output is given out before one with a smaller ticket.                    *)
(***************************************************************************)
EXTENDS Naturals

CONSTANTS
  Sessions,
  Leases,
  Tickets,  \* natural numbers that tell the outputs of a session apart
  Returns   \* a released output gives its lease back to the client

VARIABLES
  issued,    \* the leases handed out so far
  held,      \* the leases the client may write and submit
  encoding,  \* frames that are not finished: [session, lease]
  ready,     \* per session: the outputs not given out yet, ticket -> lease
  given      \* outputs given out: [session, lease]

vars == <<issued, held, encoding, ready, given>>

Init ==
  /\ issued = {} /\ held = {} /\ encoding = {} /\ given = {}
  /\ ready = [s \in Sessions |-> [t \in {} |-> t]]

Frame(s, l) == [session |-> s, lease |-> l]

Lease(l) ==
  /\ issued' = issued \cup {l} /\ held' = held \cup {l}
  /\ UNCHANGED <<encoding, ready, given>>

Submit(s, l) ==
  /\ encoding' = encoding \cup {Frame(s, l)}
  /\ held' = held \ {l}
  /\ UNCHANGED <<issued, ready, given>>

(* The waiting outputs `waiting`, and the one of lease l behind them.       *)
Queued(waiting, t, l) ==
  [u \in DOMAIN waiting \cup {t} |-> IF u = t THEN l ELSE waiting[u]]

Last(waiting, t) == \A u \in DOMAIN waiting : u < t

(* The waiting outputs with tickets in T.                                   *)
Only(waiting, T) == [u \in T |-> waiting[u]]

Finish(f, t) ==
  /\ Last(ready[f.session], t)
  /\ encoding' = encoding \ {f}
  /\ ready' = [ready EXCEPT ![f.session] = Queued(@, t, f.lease)]
  /\ UNCHANGED <<issued, held, given>>

(* A backend that encodes within the request.                               *)
Encode(s, l, t) ==
  /\ Last(ready[s], t)
  /\ held' = held \ {l}
  /\ ready' = [ready EXCEPT ![s] = Queued(@, t, l)]
  /\ UNCHANGED <<issued, encoding, given>>

(* The outputs T are given out: none that is older stays behind.            *)
Deliver(s, T) ==
  /\ \A t \in T, u \in DOMAIN ready[s] : u < t => u \in T
  /\ given' = given \cup {Frame(s, ready[s][t]) : t \in T}
  /\ ready' = [ready EXCEPT ![s] = Only(@, DOMAIN @ \ T)]
  /\ UNCHANGED <<issued, held, encoding>>

(* Recycled leases, discarded frames and outputs, a session's end.          *)
Discard ==
  /\ UNCHANGED <<issued, given>>
  /\ held' \subseteq held
  /\ encoding' \subseteq encoding
  /\ ready' = [s \in Sessions |-> ready'[s]]
  /\ \A s \in Sessions : \E T \in SUBSET DOMAIN ready[s] : ready'[s] = Only(ready[s], T)

(* The output of a lease is given up, dequeued or not.                      *)
Return(l) ==
  /\ held' = held \cup {l}
  /\ ready' = [s \in Sessions |->
                 Only(ready[s], {t \in DOMAIN ready[s] : ready[s][t] # l})]
  /\ UNCHANGED <<issued, encoding, given>>

Next ==
  \/ Discard
  \/ \E l \in Leases \ issued : Lease(l)
  \/ \E f \in encoding, t \in Tickets : Finish(f, t)
  \/ \E l \in held, s \in Sessions : Submit(s, l) \/ \E t \in Tickets : Encode(s, l, t)
  \/ \E s \in Sessions : \E T \in SUBSET DOMAIN ready[s] : Deliver(s, T)
  \/ Returns /\ \E l \in issued \ held : Return(l)

Spec == Init /\ [][Next]_vars
=============================================================================
