----------------------------- MODULE TcpBridge ------------------------------
(***************************************************************************)
(* The broker's TCP bridge.  An accept thread hands every guest connection *)
(* to a thread of its own, which dials the worker's Unix socket and then   *)
(* runs two copying threads, guest to worker and worker to guest.  Each    *)
(* copier owns one half of both sockets, so a socket is only closed when   *)
(* both copiers are done: until then the other side learns of an end       *)
(* through the shutdown(Write) a copier does last.                         *)
(***************************************************************************)
EXTENDS Naturals

CONSTANTS
    Guests,     \* the guest connections, one each
    Faults      \* "accept": accept() fails; "clone": try_clone() fails

VARIABLES
    acceptor,   \* the accept thread: "unstarted", "listening", "stopped"
    running,    \* TcpBridgeHandle.running
    worker,     \* the worker process: "none", "booting", "serving", "exited"
    conns       \* per guest: both ends of its connection, and the relay

bridge == << acceptor, running, conns >>

(***************************************************************************)
(* guest: the guest's end.  stage: "backlog" before accept(), "dialing" in *)
(* connect_worker_with_retry, "relaying" once both copiers run, "dropped"  *)
(* when bridge_connection returned without them.  up, down: the copiers    *)
(* run.  unix_shut, tcp_shut: the halves that have been shut down.         *)
(* backend: the worker's end, whose thread owns a Backend.                 *)
(***************************************************************************)
Idle == [guest |-> "idle", stage |-> "none", up |-> FALSE, down |-> FALSE,
         unix_shut |-> FALSE, tcp_shut |-> FALSE, backend |-> "none"]

BridgeInit ==
    /\ acceptor = "unstarted"
    /\ running = FALSE
    /\ conns = [g \in Guests |-> Idle]

\* Both copiers are gone, and every clone of the two sockets with them.
RelayOver(g) ==
    /\ conns[g].stage = "relaying"
    /\ ~ conns[g].up
    /\ ~ conns[g].down

GuestSeesEOF(g) ==
    conns[g].tcp_shut \/ conns[g].stage = "dropped" \/ RelayOver(g)

WorkerSeesEOF(g) ==
    conns[g].unix_shut \/ conns[g].stage = "dropped" \/ RelayOver(g)

\* The listener goes away with whatever has not been accepted.
ListenerClosed ==
    /\ acceptor' = "stopped"
    /\ conns' = [g \in Guests |->
           IF conns[g].stage = "backlog" THEN [conns[g] EXCEPT !.stage = "dropped"]
           ELSE conns[g]]

-----------------------------------------------------------------------------
(* The guests. *)

GuestDials(g) ==
    /\ conns[g].guest = "idle"
    /\ acceptor = "listening"
    /\ conns' = [conns EXCEPT ![g].guest = "open", ![g].stage = "backlog"]
    /\ UNCHANGED << acceptor, running, worker >>

GuestCloses(g) ==
    /\ conns[g].guest = "open"
    /\ conns' = [conns EXCEPT ![g].guest = "closed"]
    /\ UNCHANGED << acceptor, running, worker >>

-----------------------------------------------------------------------------
(* accept_loop. *)

AcceptConnection(g) ==
    /\ acceptor = "listening"
    /\ running
    /\ conns[g].stage = "backlog"
    /\ conns' = [conns EXCEPT ![g].stage = "dialing"]
    /\ UNCHANGED << acceptor, running, worker >>

\* The flag is seen before or after an accept(): that stream is dropped too.
AcceptorStops ==
    /\ acceptor = "listening"
    /\ ~ running
    /\ ListenerClosed
    /\ UNCHANGED << running, worker >>

\* An error other than WouldBlock ends the loop; the broker is not told.
AcceptFails ==
    /\ "accept" \in Faults
    /\ acceptor = "listening"
    /\ ListenerClosed
    /\ UNCHANGED << running, worker >>

-----------------------------------------------------------------------------
(* bridge_connection. *)

Relaying(g) ==
    [conns EXCEPT ![g].stage = "relaying", ![g].up = TRUE, ![g].down = TRUE,
                  ![g].backend = "open"]

ConnectWorker(g) ==
    /\ conns[g].stage = "dialing"
    /\ worker = "serving"
    /\ conns' = Relaying(g)
    /\ UNCHANGED << acceptor, running, worker >>

\* NotFound and ConnectionRefused are retried for five seconds.
ConnectGivesUp(g) ==
    /\ conns[g].stage = "dialing"
    /\ worker # "serving"
    /\ conns' = [conns EXCEPT ![g].stage = "dropped"]
    /\ UNCHANGED << acceptor, running, worker >>

\* The worker has been dialled, but the sockets cannot be cloned.
CloneFails(g) ==
    /\ "clone" \in Faults
    /\ conns[g].stage = "dialing"
    /\ worker = "serving"
    /\ conns' = [conns EXCEPT ![g].stage = "dropped", ![g].backend = "open"]
    /\ UNCHANGED << acceptor, running, worker >>

UpstreamEndsUnshut(g) ==
    /\ conns[g].up
    /\ conns[g].guest = "closed" \/ conns[g].backend = "closed"
    /\ conns' = [conns EXCEPT ![g].up = FALSE]
    /\ UNCHANGED << acceptor, running, worker >>

\* The guest's bytes end, or the worker no longer takes them.
UpstreamEnds(g) ==
    /\ conns[g].up
    /\ conns[g].guest = "closed" \/ conns[g].backend = "closed"
    /\ conns' = [conns EXCEPT ![g].up = FALSE, ![g].unix_shut = TRUE]
    /\ UNCHANGED << acceptor, running, worker >>

DownstreamEndsUnshut(g) ==
    /\ conns[g].down
    /\ conns[g].backend = "closed" \/ conns[g].guest = "closed"
    /\ conns' = [conns EXCEPT ![g].down = FALSE]
    /\ UNCHANGED << acceptor, running, worker >>

\* The worker's bytes end, or the guest no longer takes them.
DownstreamEnds(g) ==
    /\ conns[g].down
    /\ conns[g].backend = "closed" \/ conns[g].guest = "closed"
    /\ conns' = [conns EXCEPT ![g].down = FALSE, ![g].tcp_shut = TRUE]
    /\ UNCHANGED << acceptor, running, worker >>

-----------------------------------------------------------------------------
(* The worker process, as its sockets show it. *)

\* run_server has bound the socket.
WorkerBinds ==
    /\ worker = "booting"
    /\ worker' = "serving"
    /\ UNCHANGED bridge

\* handle_connection returns, and its Backend is dropped: at the end of the
\* stream, or before it on a request that is too large.
WorkerCloses(g) ==
    /\ conns[g].backend = "open"
    /\ conns' = [conns EXCEPT ![g].backend = "closed"]
    /\ UNCHANGED << acceptor, running, worker >>

\* With the process, its end of every connection is gone.
BackendsGone ==
    [g \in Guests |->
        IF conns[g].backend = "open" THEN [conns[g] EXCEPT !.backend = "closed"]
        ELSE conns[g]]

WorkerExits ==
    /\ worker \in {"booting", "serving"}
    /\ worker' = "exited"
    /\ conns' = BackendsGone
    /\ UNCHANGED << acceptor, running >>

\* With the broker's process go its threads and its ends of every socket.
BrokerSocketsGone ==
    [g \in Guests |->
        [conns[g] EXCEPT !.stage = IF @ = "none" THEN @ ELSE "dropped",
                         !.up = FALSE, !.down = FALSE]]

BridgeNext ==
    \/ \E g \in Guests :
           \/ GuestDials(g) \/ GuestCloses(g) \/ WorkerCloses(g)
           \/ AcceptConnection(g) \/ ConnectWorker(g) \/ ConnectGivesUp(g)
           \/ CloneFails(g) \/ UpstreamEnds(g) \/ DownstreamEnds(g)
    \/ AcceptorStops \/ AcceptFails
    \/ WorkerBinds \/ WorkerExits

-----------------------------------------------------------------------------
(* Properties. *)

(***************************************************************************)
(* The end of one side of a relay reaches the other.  A guest that dialled *)
(* is not left hanging on a worker that is gone or was never there: its    *)
(* connection ends, wherever in the bridge it was.  A guest that goes away *)
(* takes its backend in the worker with it, which gives back the surfaces  *)
(* the backend has claimed, also when it left while its connection was     *)
(* still being dialled.                                                    *)
(***************************************************************************)
EndsPropagate ==
    \A g \in Guests :
     /\ (conns[g].guest = "open" /\ (worker = "exited" \/ conns[g].backend = "closed"))
            ~> (conns[g].guest = "closed")
     /\ (conns[g].guest = "closed" /\ conns[g].backend = "open")
            ~> (conns[g].backend = "closed")
=============================================================================
