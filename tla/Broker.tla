------------------------------- MODULE Broker -------------------------------
(***************************************************************************)
(* vt-ferry-broker from main to exit: it allocates the surfaces, starts    *)
(* the worker, the bridge and the child command, polls the two processes   *)
(* in turn, and on every way out drops what it has acquired, last first.   *)
(* The worker, the child, the guests and a signal act at any time.         *)
(***************************************************************************)
EXTENDS TcpBridge

VARIABLES
    pc,                 \* where main is
    transport,          \* "tcp" or "vsock"
    hold_after_child,   \* the command-line flag
    entries,            \* the surfaces: "none", "held", "dropped", "forgotten"
    child,              \* "none", "running", "succeeded", "failed"
    outcome,            \* "none", then "ok", "error", "exec" or "killed"
    poll_failed         \* history: some try_wait() returned an error

process == << pc, transport, hold_after_child, entries, child, outcome, poll_failed >>
vars == << bridge, worker, process >>

Init ==
    /\ BridgeInit
    /\ worker = "none"
    /\ pc = "allocate"
    /\ transport \in {"tcp", "vsock"}
    /\ hold_after_child \in BOOLEAN
    /\ entries = "none"
    /\ child = "none"
    /\ outcome = "none"
    /\ poll_failed = FALSE

-----------------------------------------------------------------------------
(* Starting up.  A step that fails leaves with what is held so far. *)

\* allocate_pools and register_ports.
AllocatePools ==
    /\ pc = "allocate"
    /\ \/ pc' = "spawn_worker" /\ entries' = "held" /\ UNCHANGED outcome
       \/ pc' = "exit" /\ outcome' = "error" /\ UNCHANGED entries
    /\ UNCHANGED << bridge, worker, transport, hold_after_child, child, poll_failed >>

SpawnWorker ==
    /\ pc = "spawn_worker"
    /\ \/ /\ pc' = IF transport = "tcp" THEN "start_bridge" ELSE "exec"
          /\ worker' = "booting"
          /\ UNCHANGED outcome
       \/ pc' = "drop_entries" /\ outcome' = "error" /\ UNCHANGED worker
    /\ UNCHANGED << bridge, transport, hold_after_child, entries, child, poll_failed >>

\* TcpBridgeHandle::start.
StartBridge ==
    /\ pc = "start_bridge"
    /\ \/ /\ pc' = "spawn_child"
          /\ acceptor' = "listening"
          /\ running' = TRUE
          /\ UNCHANGED outcome
       \/ pc' = "drop_worker" /\ outcome' = "error" /\ UNCHANGED << acceptor, running >>
    /\ UNCHANGED << conns, worker, transport, hold_after_child, entries, child, poll_failed >>

SpawnChild ==
    /\ pc = "spawn_child"
    /\ \/ pc' = "poll_child" /\ child' = "running" /\ UNCHANGED outcome
       \/ pc' = "drop_bridge" /\ outcome' = "error" /\ UNCHANGED child
    /\ UNCHANGED << bridge, worker, transport, hold_after_child, entries, poll_failed >>

\* With vsock the process becomes the child command, and supervises nothing;
\* when that fails, the worker has been forgotten already.
Exec ==
    /\ pc = "exec"
    /\ entries' = "forgotten"
    /\ \/ pc' = "replaced" /\ outcome' = "exec" /\ child' = "running"
       \/ pc' = "ended" /\ outcome' = "error" /\ UNCHANGED child
    /\ UNCHANGED << bridge, worker, transport, hold_after_child, poll_failed >>

-----------------------------------------------------------------------------
(* Supervising. *)

PollChild ==
    /\ pc = "poll_child"
    /\ \/ child = "running" /\ pc' = "poll_worker" /\ UNCHANGED outcome
       \/ /\ child = "succeeded"
          /\ pc' = IF hold_after_child THEN "hold" ELSE "drop_bridge"
          /\ outcome' = "ok"
       \/ child = "failed" /\ pc' = "drop_bridge" /\ outcome' = "error"
    /\ UNCHANGED << bridge, worker, transport, hold_after_child, entries, child, poll_failed >>

PollWorkerIgnored ==
    /\ pc = "poll_worker"
    /\ pc' = "poll_child"
    /\ UNCHANGED << bridge, worker, transport, hold_after_child, entries, child, outcome,
                    poll_failed >>

PollWorker ==
    /\ pc = "poll_worker"
    /\ pc' = IF worker = "exited" THEN "kill_child" ELSE "poll_child"
    /\ UNCHANGED << bridge, worker, transport, hold_after_child, entries, child, outcome,
                    poll_failed >>

\* try_wait() fails, on the child or on the worker: main returns at once.
PollFails ==
    /\ "poll" \in Faults
    /\ pc \in {"poll_child", "poll_worker"}
    /\ pc' = "drop_bridge"
    /\ outcome' = "error"
    /\ poll_failed' = TRUE
    /\ UNCHANGED << bridge, worker, transport, hold_after_child, entries, child >>

KillChildOmitted ==
    /\ pc = "kill_child"
    /\ pc' = "drop_bridge"
    /\ outcome' = "error"
    /\ UNCHANGED << bridge, worker, transport, hold_after_child, entries, child, poll_failed >>

\* kill() and wait(): the child may have exited by itself in the meantime.
KillChild ==
    /\ pc = "kill_child"
    /\ child' = IF child = "running" THEN "failed" ELSE child
    /\ pc' = "drop_bridge"
    /\ outcome' = "error"
    /\ UNCHANGED << bridge, worker, transport, hold_after_child, entries, poll_failed >>

\* wait_for_termination_signal: the handler cannot be installed, or a signal
\* has come.
HoldEnds ==
    /\ pc = "hold"
    /\ pc' = "drop_bridge"
    /\ outcome' \in {"ok", "error"}
    /\ UNCHANGED << bridge, worker, transport, hold_after_child, entries, child, poll_failed >>

-----------------------------------------------------------------------------
(* Leaving. *)

DropBridgeUnjoined ==
    /\ pc = "drop_bridge"
    /\ running' = FALSE
    /\ pc' = "drop_worker"
    /\ UNCHANGED << acceptor, conns, worker, transport, hold_after_child, entries, child,
                    outcome, poll_failed >>

\* Drop for TcpBridgeHandle: the flag, a connection to wake the accept
\* thread, and a join.
DropBridge ==
    /\ pc = "drop_bridge"
    /\ running' = FALSE
    /\ pc' = "join_bridge"
    /\ UNCHANGED << acceptor, conns, worker, transport, hold_after_child, entries, child,
                    outcome, poll_failed >>

JoinBridge ==
    /\ pc = "join_bridge"
    /\ acceptor = "stopped"
    /\ pc' = "drop_worker"
    /\ UNCHANGED << bridge, worker, transport, hold_after_child, entries, child, outcome,
                    poll_failed >>

\* Drop for HostWorkerHandle: kill() and wait(), unless it has exited or
\* polling it fails.
DropWorker ==
    /\ pc = "drop_worker"
    /\ pc' = "drop_entries"
    /\ \/ /\ worker' = "exited"
          /\ conns' = BackendsGone
          /\ UNCHANGED poll_failed
       \/ /\ "poll" \in Faults
          /\ poll_failed' = TRUE
          /\ UNCHANGED << worker, conns >>
    /\ UNCHANGED << acceptor, running, transport, hold_after_child, entries, child, outcome >>

DropEntries ==
    /\ pc = "drop_entries"
    /\ pc' = "exit"
    /\ entries' = "dropped"
    /\ UNCHANGED << bridge, worker, transport, hold_after_child, child, outcome, poll_failed >>

\* main returns: the threads of the bridge end with the process.
Exit ==
    /\ pc = "exit"
    /\ pc' = "ended"
    /\ conns' = BrokerSocketsGone
    /\ UNCHANGED << acceptor, running, worker, transport, hold_after_child, entries, child,
                    outcome, poll_failed >>

\* A signal while no handler is installed ends the process where it is.
Signalled ==
    /\ "signal" \in Faults
    /\ pc \notin {"hold", "ended", "replaced"}
    /\ pc' = "ended"
    /\ outcome' = "killed"
    /\ acceptor' = IF acceptor = "listening" THEN "stopped" ELSE acceptor
    /\ conns' = BrokerSocketsGone
    /\ UNCHANGED << running, worker, transport, hold_after_child, entries, child, poll_failed >>

ChildExits ==
    /\ child = "running"
    /\ child' \in {"succeeded", "failed"}
    /\ UNCHANGED << bridge, worker, pc, transport, hold_after_child, entries, outcome,
                    poll_failed >>

Main ==
    \/ AllocatePools \/ SpawnWorker \/ StartBridge \/ SpawnChild \/ Exec
    \/ PollChild \/ PollWorker \/ PollFails \/ KillChild
    \/ DropBridge \/ JoinBridge \/ DropWorker \/ DropEntries \/ Exit

Bridged(A) == A /\ UNCHANGED process

Next ==
    \/ Main
    \/ HoldEnds
    \/ Signalled
    \/ ChildExits
    \/ Bridged(BridgeNext)

Spec == Init /\ [][Next]_vars

(***************************************************************************)
(* Threads of the broker run on, and a read returns at the end of its      *)
(* stream; a write to a closed socket fails only if there is something to  *)
(* write, so that is not relied on.  A guest closes a connection it finds  *)
(* ended, as the shim does, and so does a connection thread of the worker. *)
(***************************************************************************)
BridgeFairness ==
    /\ \A g \in Guests :
           /\ WF_vars(Bridged(GuestSeesEOF(g) /\ GuestCloses(g)))
           /\ WF_vars(Bridged(WorkerSeesEOF(g) /\ WorkerCloses(g)))
           /\ WF_vars(Bridged(AcceptConnection(g)))
           /\ WF_vars(Bridged(ConnectWorker(g) \/ ConnectGivesUp(g)))
           /\ WF_vars(Bridged(conns[g].guest = "closed" /\ UpstreamEnds(g)))
           /\ WF_vars(Bridged(conns[g].backend = "closed" /\ DownstreamEnds(g)))
    /\ WF_vars(Bridged(AcceptorStops))

\* The broker's main thread runs on.  Neither the child nor the worker need
\* ever exit, nor need a signal come.
FairSpec == Spec /\ WF_vars(Main) /\ BridgeFairness

-----------------------------------------------------------------------------
(* Properties. *)

\* Nothing out of the broker's hands has gone wrong.
Orderly == outcome # "killed" /\ ~ poll_failed

(***************************************************************************)
(* What main holds where it is, which the two invariants below follow      *)
(* from: the child is started last and has ended before the first drop,    *)
(* the acceptor is gone before the worker is dropped, and the worker       *)
(* before the surfaces.                                                    *)
(***************************************************************************)
Leaving == {"drop_bridge", "join_bridge", "drop_worker", "drop_entries", "exit"}

SuperviseInv ==
    /\ pc \in {"allocate", "spawn_worker", "start_bridge"} =>
           acceptor = "unstarted" /\ child = "none"
    /\ pc \in {"allocate", "spawn_worker"} => worker = "none"
    /\ pc = "exec" => transport # "tcp"
    /\ pc = "spawn_child" => child = "none"
    /\ pc = "hold" => child = "succeeded"
    /\ outcome = "killed" => pc = "ended"
    /\ entries = "dropped" => pc \in {"exit", "ended"}
    /\ pc \in {"drop_worker", "drop_entries", "exit"} => acceptor # "listening"
    /\ Orderly =>
           /\ pc \in Leaving \/ (pc = "ended" /\ transport = "tcp") =>
                  child # "running" /\ (outcome = "ok" => child = "succeeded")
           /\ pc \in {"drop_entries", "exit"} \/ (pc = "ended" /\ transport = "tcp")
                  \/ entries = "dropped" =>
                  worker \in {"none", "exited"}

(***************************************************************************)
(* A broker with a bridge that returns from main, on whichever path and    *)
(* after whichever failure, leaves neither the worker nor the child        *)
(* running, and reports success only if the child succeeded.               *)
(***************************************************************************)
NothingLeftRunning ==
    (pc = "ended" /\ transport = "tcp" /\ Orderly) =>
        /\ worker \in {"none", "exited"}
        /\ child # "running"
        /\ outcome = "ok" => child = "succeeded"

(***************************************************************************)
(* The broker gives up its references to the surfaces, and stops bridging, *)
(* in the order main drops them: no guest is accepted for a worker that    *)
(* main has ended, and no surface is released under a running worker.      *)
(***************************************************************************)
TornDownInOrder ==
    Orderly =>
        /\ entries = "dropped" => worker \in {"none", "exited"}
        /\ pc \in {"drop_worker", "drop_entries", "exit"} => acceptor # "listening"

(***************************************************************************)
(* A worker that exits while main supervises ends the child too, and the   *)
(* broker: nobody goes on through a dead worker.  Only a child that had    *)
(* succeeded in the meantime lets the broker hold.                         *)
(***************************************************************************)
WorkerDeathEndsBroker ==
    (pc \in {"spawn_child", "poll_child", "poll_worker"} /\ worker = "exited")
        ~> (pc = "ended" \/ (pc = "hold" /\ child = "succeeded"))
=============================================================================
