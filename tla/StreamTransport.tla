-------------------------- MODULE StreamTransport ---------------------------
(***************************************************************************)
(* The stream between one guest process and the worker.  In the guest,     *)
(* every call into the shim sends one request and reads one reply under    *)
(* the TRANSPORT_BACKEND mutex, and a heartbeat thread pings the worker    *)
(* when the stream has been idle.  In the worker, a thread per connection  *)
(* owns a fresh backend and answers the requests in order.  A failed or    *)
(* late round trip ends the transport for good: TRANSPORT_KILLED.          *)
(*                                                                         *)
(* Handles are small numbers that every backend issues from the same start *)
(* so a handle of one connection can name something else on another.  The  *)
(* model remembers who issued a handle; the code does not.                 *)
(***************************************************************************)
EXTENDS Naturals, Sequences, FiniteSets

CONSTANTS
    Threads,                        \* the guest's application threads
    Sizes,                          \* payload sizes the application sends
    VTF_TRANSPORT_STORAGE_CAPACITY, \* the largest payload the worker reads
    MAX_ENCODED_FRAME_BYTES,        \* the documented inline limit of a frame
    TimeoutsEnabled,                \* VT_FERRY_TRANSPORT_TIMEOUT_MS is not 0
    MaxHandles,                     \* bound: handles a backend issues
    MaxConnections,                 \* bound: connections the guest opens
    IdWindow                        \* request ids are compared modulo this

ASSUME TransportAssumption ==
    /\ Sizes \subseteq Nat
    /\ VTF_TRANSPORT_STORAGE_CAPACITY \in Nat
    /\ MAX_ENCODED_FRAME_BYTES \in Nat
    /\ TimeoutsEnabled \in BOOLEAN
    /\ MaxHandles \in Nat
    /\ MaxConnections \in Nat
    /\ IdWindow \in Nat \ {0}
    /\ "heartbeat" \notin Threads
    /\ "no one" \notin Threads

Callers == Threads \cup {"heartbeat"}
NoOne == "no one"
Connections == 1 .. MaxConnections
NoHandle == [number |-> 0, issuer |-> 0]
NoReply == IdWindow

VARIABLES
    lock,           \* who holds TRANSPORT_BACKEND
    backend,        \* the guest's open connection, or 0
    killed,         \* TRANSPORT_KILLED
    request_id,     \* the next request's id on the open connection
    heartbeat,      \* the heartbeat thread has been started
    pc,             \* per caller: "idle", "waiting", "receiving"
    request,        \* per caller: the request it is making
    answered,       \* per caller: the id in the reply it took, or NoReply
    held,           \* per thread: the handle it works with
    conns,          \* per connection opened: the stream and the worker's thread
    worker          \* "up", or "down" once the process has died

guest == << lock, backend, killed, request_id, heartbeat, pc, request, answered, held >>
vars == << guest, conns, worker >>

NoRequest == [op |-> "none", handle |-> NoHandle, size |-> 0, id |-> 0]

Init ==
    /\ lock = NoOne
    /\ backend = 0
    /\ killed = FALSE
    /\ request_id = 0
    /\ heartbeat = FALSE
    /\ pc = [t \in Callers |-> "idle"]
    /\ request = [t \in Callers |-> NoRequest]
    /\ answered = [t \in Callers |-> NoReply]
    /\ held = [t \in Threads |-> NoHandle]
    /\ conns = << >>
    /\ worker = "up"

-----------------------------------------------------------------------------
(* What each step does to a connection. *)

Stream(up, down, open, issued, thread) ==
    [up |-> up, down |-> down, open |-> open, issued |-> issued, thread |-> thread]

Requested(k, r) == Stream(Append(k.up, r), k.down, k.open, k.issued, k.thread)
ReplyTaken(k) == Stream(k.up, Tail(k.down), k.open, k.issued, k.thread)
Dropped(k) == Stream(k.up, << >>, FALSE, k.issued, k.thread)
Ended(k) == Stream(<< >>, k.down, k.open, k.issued, "closed")
Hung(k) == Stream(k.up, k.down, k.open, k.issued, "hung")

\* A reply on a stream the guest has closed goes nowhere.
Answered(k, reply, issued) ==
    Stream(Tail(k.up), IF k.open THEN Append(k.down, reply) ELSE k.down,
           k.open, issued, k.thread)

Numbered(r, id) == [op |-> r.op, handle |-> r.handle, size |-> r.size, id |-> id]

-----------------------------------------------------------------------------
(* The guest. *)

\* A thread calls into the shim: it creates an object on the worker, or
\* works on one with a payload of some size.
Call(t) ==
    /\ pc[t] = "idle"
    /\ \E size \in Sizes :
           request' = [request EXCEPT ![t] =
               [op |-> IF held[t] = NoHandle THEN "create" ELSE "use",
                handle |-> held[t], size |-> size, id |-> 0]]
    /\ answered' = [answered EXCEPT ![t] = NoReply]
    /\ pc' = [pc EXCEPT ![t] = "waiting"]
    /\ UNCHANGED << lock, backend, killed, request_id, heartbeat, held, conns, worker >>

\* TRANSPORT_BACKEND.lock() blocks while another caller is in a round trip.
LockFree == lock = NoOne

MayDialAlways == backend = 0

\* ensure_backend dials only while no backend is open and none was lost.
MayDial == backend = 0 /\ ~ killed

\* The connection is accepted unless the worker is gone; a bridge in between
\* may accept it all the same, and then close it.
Dialled == Stream(<< >>, << >>, TRUE, 0, IF worker = "up" THEN "serving" ELSE "closed")

HeartbeatForgotten == heartbeat' = heartbeat

\* ensure_heartbeat_thread, after the first successful connect.
EnsureHeartbeatThread == heartbeat' = TRUE

\* The request is in the stream; a write to a closed one fails.
Written(t, c, cs, id) ==
    [cs EXCEPT ![c] = Requested(@, Numbered(request[t], id))]

\* The backend cannot be opened: the call returns -12902, the lock is freed.
SendUnconnected(t) ==
    /\ pc[t] = "waiting"
    /\ LockFree
    /\ backend = 0
    /\ pc' = [pc EXCEPT ![t] = "idle"]
    /\ UNCHANGED << lock, backend, killed, request_id, heartbeat, request, answered, held,
                    conns, worker >>

\* send_request_bytes up to the reads, on a backend that had to be opened.
SendOnNew(t) ==
    /\ pc[t] = "waiting"
    /\ LockFree
    /\ MayDial
    /\ Len(conns) < MaxConnections
    /\ lock' = t
    /\ backend' = Len(conns) + 1
    /\ EnsureHeartbeatThread
    /\ conns' = Written(t, Len(conns) + 1, Append(conns, Dialled), 1)
    /\ request' = [request EXCEPT ![t] = Numbered(@, 1)]
    /\ answered' = [answered EXCEPT ![t] = NoReply]
    /\ request_id' = 2 % IdWindow
    /\ pc' = [pc EXCEPT ![t] = "receiving"]
    /\ UNCHANGED << killed, held, worker >>

\* The same on the open backend.
SendOnOpen(t) ==
    /\ pc[t] = "waiting"
    /\ LockFree
    /\ backend # 0
    /\ lock' = t
    /\ conns' = Written(t, backend, conns, request_id)
    /\ request' = [request EXCEPT ![t] = Numbered(@, request_id)]
    /\ answered' = [answered EXCEPT ![t] = NoReply]
    /\ request_id' = (request_id + 1) % IdWindow
    /\ pc' = [pc EXCEPT ![t] = "receiving"]
    /\ UNCHANGED << backend, killed, heartbeat, held, worker >>

Ping(id) == [op |-> "ping", handle |-> NoHandle, size |-> 0, id |-> id]

\* The heartbeat thread wakes up on a stale backend and takes the lock.
HeartbeatProbe ==
    /\ heartbeat
    /\ pc["heartbeat"] = "idle"
    /\ LockFree
    /\ backend # 0
    /\ lock' = "heartbeat"
    /\ request' = [request EXCEPT !["heartbeat"] = Ping(request_id)]
    /\ conns' = [conns EXCEPT ![backend] = Requested(@, Ping(request_id))]
    /\ answered' = [answered EXCEPT !["heartbeat"] = NoReply]
    /\ request_id' = (request_id + 1) % IdWindow
    /\ pc' = [pc EXCEPT !["heartbeat"] = "receiving"]
    /\ UNCHANGED << backend, killed, heartbeat, held, worker >>

\* The reply at the head of the stream is taken for this request's: neither
\* its id nor its opcode is compared.  A new object's handle is kept; any
\* error status, and the caller's own choice, gives one up.
Receive(t) ==
    /\ pc[t] = "receiving"
    /\ conns[backend].down # << >>
    /\ LET reply == Head(conns[backend].down)
       IN  /\ answered' = [answered EXCEPT ![t] = reply.id]
           /\ IF t \in Threads
              THEN \E keep \in BOOLEAN :
                       held' = [held EXCEPT ![t] =
                           IF request[t].op = "create" /\ reply.status = "OK"
                           THEN [number |-> reply.number, issuer |-> backend]
                           ELSE IF keep THEN @ ELSE NoHandle]
              ELSE UNCHANGED held
    /\ conns' = [conns EXCEPT ![backend] = ReplyTaken(@)]
    /\ pc' = [pc EXCEPT ![t] = "idle"]
    /\ lock' = NoOne
    /\ UNCHANGED << backend, killed, request_id, heartbeat, request, worker >>

\* The worker's side of the stream is closed, and nothing is left to read.
StreamEnded(t) ==
    /\ conns[backend].down = << >>
    /\ conns[backend].thread = "closed"

WaitsForEver(t) == FALSE

\* SO_RCVTIMEO expires before the whole reply is there.
TimedOut(t) ==
    /\ TimeoutsEnabled
    /\ conns[backend].down = << >>

BackendKept(t) ==
    UNCHANGED << backend, killed, conns >>

\* A poisoned backend is dropped, which closes the stream, and stays lost.
BackendLost(t) ==
    /\ backend' = 0
    /\ killed' = TRUE
    /\ conns' = [conns EXCEPT ![backend] = Dropped(@)]

\* send_request_dynamic fails on any socket error or timeout.
ReceiveFails(t) ==
    /\ pc[t] = "receiving"
    /\ StreamEnded(t) \/ TimedOut(t)
    /\ BackendLost(t)
    /\ pc' = [pc EXCEPT ![t] = "idle"]
    /\ lock' = NoOne
    /\ UNCHANGED << request_id, heartbeat, request, answered, held, worker >>

-----------------------------------------------------------------------------
(* The worker. *)

Serving(c) ==
    /\ worker = "up"
    /\ conns[c].thread = "serving"
    /\ conns[c].up # << >>

\* A request whose payload does not fit is not read: the connection ends.
CloseOversized(c) ==
    /\ Serving(c)
    /\ Head(conns[c].up).size > VTF_TRANSPORT_STORAGE_CAPACITY
    /\ conns' = [conns EXCEPT ![c] = Ended(@)]
    /\ UNCHANGED << guest, worker >>

\* The backend's answer, by handle number alone.
Status(c, r) ==
    IF \/ r.op = "ping"
       \/ r.op = "create" /\ conns[c].issued < MaxHandles
       \/ r.op = "use" /\ r.handle.number \in 1 .. conns[c].issued
    THEN "OK" ELSE "error"

Dispatch(c) ==
    /\ Serving(c)
    /\ LET r == Head(conns[c].up)
           status == Status(c, r)
           issued == conns[c].issued + (IF r.op = "create" /\ status = "OK" THEN 1 ELSE 0)
       IN  /\ r.size <= VTF_TRANSPORT_STORAGE_CAPACITY
           /\ conns' = [conns EXCEPT ![c] =
                  Answered(@, [id |-> r.id, number |-> issued, status |-> status], issued)]
    /\ UNCHANGED << guest, worker >>

\* The guest has closed the stream, and its last requests have been read.
ClientGone(c) ==
    /\ conns[c].thread = "serving"
    /\ ~ conns[c].open
    /\ conns[c].up = << >>
    /\ conns' = [conns EXCEPT ![c] = Ended(@)]
    /\ UNCHANGED << guest, worker >>

\* A dispatch that does not return, as VideoToolbox may not.
Hang(c) ==
    /\ Serving(c)
    /\ conns' = [conns EXCEPT ![c] = Hung(@)]
    /\ UNCHANGED << guest, worker >>

\* The process dies with all its connections.
WorkerDies ==
    /\ worker = "up"
    /\ worker' = "down"
    /\ conns' = [c \in DOMAIN conns |-> Ended(conns[c])]
    /\ UNCHANGED guest

Next ==
    \/ \E t \in Threads :
           Call(t) \/ SendUnconnected(t) \/ SendOnNew(t) \/ SendOnOpen(t)
    \/ HeartbeatProbe
    \/ \E t \in Callers : Receive(t) \/ ReceiveFails(t)
    \/ \E c \in DOMAIN conns : CloseOversized(c) \/ Dispatch(c) \/ Hang(c) \/ ClientGone(c)
    \/ WorkerDies

Spec == Init /\ [][Next]_vars

(***************************************************************************)
(* Threads in the shim run on, and so does the heartbeat thread; timers    *)
(* expire.  The lock is not fair, but a thread that waits while others     *)
(* come and go gets it: strong fairness of the acquisition.  Nothing is    *)
(* assumed of the worker.                                                  *)
(***************************************************************************)
Fairness ==
    /\ \A t \in Threads :
           SF_vars(SendUnconnected(t) \/ SendOnNew(t) \/ SendOnOpen(t))
    /\ \A t \in Callers : WF_vars(Receive(t)) /\ WF_vars(ReceiveFails(t))
    /\ SF_vars(HeartbeatProbe)

FairSpec == Spec /\ Fairness

-----------------------------------------------------------------------------
(* Properties. *)

(***************************************************************************)
(* The reply a call returns is the reply to its own request, although the  *)
(* shim compares no ids: a reply that comes after its caller gave up is    *)
(* never read by the next caller.                                          *)
(***************************************************************************)
RepliesMatch ==
    \A t \in Callers : answered[t] \in {NoReply, request[t].id}

(***************************************************************************)
(* No request reaches a backend with a handle another backend issued:      *)
(* there it would name a different object, or none ("the guest's handles   *)
(* are stale, and a successful follow-up call would silently produce       *)
(* garbage").                                                              *)
(***************************************************************************)
HandlesOfThisBackend ==
    \A c \in DOMAIN conns :
        \A i \in 1 .. Len(conns[c].up) : conns[c].up[i].handle.issuer \in {0, c}

(***************************************************************************)
(* A call into the shim returns, whatever the worker does: it hangs, dies, *)
(* or answers late.                                                        *)
(***************************************************************************)
CallsReturn ==
    \A t \in Threads : (pc[t] = "waiting") ~> (pc[t] = "idle")

(***************************************************************************)
(* A worker that died or hung is found out while the guest is idle: the    *)
(* heartbeat's round trip fails and the backend is dropped.                *)
(***************************************************************************)
DeadWorkerNoticed ==
    \A c \in Connections :
        (c \in DOMAIN conns /\ backend = c /\ conns[c].thread # "serving")
            ~> (backend # c)

(***************************************************************************)
(* The worker does not close a connection over a frame within the inline   *)
(* limit that the protocol documents for encoded frames.                   *)
(***************************************************************************)
InlineFramesAccepted ==
    [][ \A c \in DOMAIN conns :
            CloseOversized(c) => Head(conns[c].up).size > MAX_ENCODED_FRAME_BYTES ]_vars

-----------------------------------------------------------------------------
(* What makes RepliesMatch and HandlesOfThisBackend inductive. *)

Handle == [number : Nat, issuer : Nat]
Request == [op : {"none", "create", "use", "ping"}, handle : Handle, size : Nat, id : Nat]
Reply == [id : Nat, number : Nat, status : {"OK", "error"}]
Connection ==
    [up : Seq(Request), down : Seq(Reply), open : BOOLEAN, issued : Nat,
     thread : {"serving", "hung", "closed"}]

TypeOK ==
    /\ lock \in Callers \cup {NoOne}
    /\ backend \in Nat
    /\ killed \in BOOLEAN
    /\ request_id \in Nat
    /\ heartbeat \in BOOLEAN
    /\ pc \in [Callers -> {"idle", "waiting", "receiving"}]
    /\ request \in [Callers -> Request]
    /\ answered \in [Callers -> Nat]
    /\ held \in [Threads -> Handle]
    /\ conns \in Seq(Connection)
    /\ worker \in {"up", "down"}

\* TRANSPORT_KILLED: the guest dials once, and never again.
DialledOnce ==
    /\ Len(conns) <= 1
    /\ backend # 0 => backend = 1 /\ Len(conns) = 1 /\ conns[1].open = TRUE
    /\ backend = 0 /\ ~ killed => Len(conns) = 0

\* The holder of the mutex is the one caller inside a round trip.
OneRoundTrip ==
    /\ \A t \in Callers : pc[t] = "receiving" <=> lock = t
    /\ lock # NoOne => backend # 0

\* The open stream holds nothing between round trips, and in one either the
\* request, or its reply, or nothing.
StreamInStep ==
    backend # 0 =>
        \/ conns[1].up = << >> /\ conns[1].down = << >>
        \/ /\ lock # NoOne
           /\ Len(conns[1].up) = 1 /\ conns[1].down = << >>
           /\ conns[1].up[1].id = request[lock].id
        \/ /\ lock # NoOne
           /\ conns[1].up = << >> /\ Len(conns[1].down) = 1
           /\ conns[1].down[1].id = request[lock].id

\* Every handle in the guest or on the way is the one worker's.
HandlesFromFirst ==
    /\ \A t \in Threads : held[t].issuer \in {0, 1}
    /\ \A t \in Callers : request[t].handle.issuer \in {0, 1}
    /\ \A c \in DOMAIN conns :
           \A i \in 1 .. Len(conns[c].up) : conns[c].up[i].handle.issuer \in {0, 1}

TransportInv ==
    TypeOK /\ DialledOnce /\ OneRoundTrip /\ StreamInStep /\ HandlesFromFirst /\ RepliesMatch
=============================================================================
