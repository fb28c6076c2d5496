--------------------------- MODULE EncodeBackend ---------------------------
(***************************************************************************)
(* The encode half of the vt-real backend that serves one connection:       *)
(* sessions, buffer pools carved out of claimed IOSurfaces, leases on pool  *)
(* slots, and the queue of encoded outputs that VideoToolbox fills from its *)
(* own threads.                                                             *)
(*                                                                         *)
(* The connection thread runs one request at a time (dispatch); the client  *)
(* is arbitrary and may name any handle and any generation.  For a request  *)
(* with checks, <Op>Status is the status the handler answers, its tests in  *)
(* the handler's order; the action is the request that passes them.  A      *)
(* request refused without an effect is a stuttering step; one that fails   *)
(* half way, with an effect, is a disjunct of the action.                   *)
(*                                                                         *)
(* VideoToolbox accepts frames, and later, in any order, calls the output   *)
(* callback once per frame, one callback at a time per session.  The        *)
(* callback takes three locks one after the other, so it is three steps.    *)
(* Other connections claim and release entries of the shared directory.     *)
(***************************************************************************)
EXTENDS IOSurfacePoolDirectory, Sequences, FiniteSets

CONSTANTS
  Wrappable,        \* shapes whose pixel format CREATE_BUFFER_POOL can wrap
  MAX_POOL_SLOTS,   \* VTF_TRANSPORT_MAX_POOL_SLOTS
  MAX_OUTPUT_BATCH, \* VTF_TRANSPORT_MAX_OUTPUT_BATCH
  Faults,           \* the failures of Apple's frameworks that may occur
  MaxHostId,        \* bound: host ids handed out
  MaxGeneration,    \* bound: leases per slot
  MaxOutputs        \* bound: output ids handed out

ASSUME BackendAssumption ==
  /\ Wrappable \subseteq Shapes
  /\ MAX_POOL_SLOTS \in Nat /\ MAX_OUTPUT_BATCH \in Nat \ {0}
  /\ Faults \subseteq {"create", "lock", "wrap", "encode", "drop", "copy"}
  /\ MaxHostId \in Nat /\ MaxGeneration \in Nat /\ MaxOutputs \in Nat

VARIABLES
  conn,            \* "open"; "dropping", inside Drop; "closed"
  next_host_id,    \* one counter for session, pool and buffer ids
  sessions,        \* ids of live encode sessions
  prepared,        \* the sessions whose `prepared` flag is set
  pools,           \* pool id -> [session, entry]
  buffers,         \* buffer id -> [pool, generation, state]
  queued_outputs,  \* output id -> [session, buffer, generation]
  session_queues,  \* session id -> FIFO of output ids
  next_output_id,
  claimed,         \* the directory: claimed entries
  sibling,         \* the entries other connections have claimed
  inflight,        \* frames VideoToolbox has accepted and not yet called back
  callbacks,       \* output callbacks in progress, with their output id
  batch,           \* frames of the ENCODE_FRAME_BATCH being dispatched
  leases,          \* history: every <<buffer, generation>> ALLOC_BUFFER returned
  delivered,       \* history: the outputs DEQUEUE_OUTPUT[_BATCH] returned
  withdrawn        \* history: the frames whose slot the client took away in flight

dirVars == <<claimed, sibling>>
hostVars == <<next_host_id, sessions, prepared, pools, buffers>>
outVars == <<queued_outputs, session_queues, next_output_id>>
vtVars == <<inflight, callbacks>>
histVars == <<leases, delivered, withdrawn>>
vars == <<conn, dirVars, hostVars, outVars, vtVars, batch, histVars>>

FREE     == "recycled"         \* VtRealBuffer.state 0
WRITABLE == "guest_writable"   \* state 1
QUEUED   == "queued_to_host"   \* state 2

Frame == [session : Nat, buffer : Nat, generation : Nat]

(* Maps with a changing domain.                                             *)
Put(f, k, v) == [x \in DOMAIN f \cup {k} |-> IF x = k THEN v ELSE f[x]]
Without(f, S) == [x \in DOMAIN f \ S |-> f[x]]
EmptyMap == [x \in {} |-> 0]

(* Mutant: the sweep of a pool's buffers keeps those still leased.          *)
PoolBuffersFreeOnly(P) ==
  {b \in DOMAIN buffers : buffers[b].pool \in P /\ buffers[b].state = FREE}

PoolEntries(P) == {pools[p].entry : p \in P}
PoolBuffers(P) == {b \in DOMAIN buffers : buffers[b].pool \in P}

(* The frames VideoToolbox is reading out of a set of slots.                *)
Reading(B) == {f \in inflight : f.buffer \in B}

(* The connection thread is free to take the next request.                  *)
Ready == conn = "open" /\ batch = <<>>

-----------------------------------------------------------------------------
(* A new connection: handle_connection calls reset_from_env on a fresh      *)
(* backend, so ids restart at 1.  (Output ids start at 50000; 1 here.)      *)
Init ==
  /\ conn = "open"
  /\ next_host_id = 1
  /\ sessions = {} /\ prepared = {}
  /\ pools = EmptyMap /\ buffers = EmptyMap
  /\ queued_outputs = EmptyMap /\ session_queues = EmptyMap
  /\ next_output_id = 1
  /\ sibling \in SUBSET Entries /\ claimed = sibling
  /\ inflight = {} /\ callbacks = {} /\ batch = <<>>
  /\ leases = {} /\ delivered = {} /\ withdrawn = {}

-----------------------------------------------------------------------------
(* Sessions.                                                                *)

(* OP_CREATE_SESSION, encode kind: the id is consumed before VideoToolbox   *)
(* is asked, and stays consumed when it refuses.                            *)
CreateSession ==
  /\ Ready /\ next_host_id < MaxHostId
  /\ next_host_id' = next_host_id + 1
  /\ \/ sessions' = sessions \cup {next_host_id}
     \/ "create" \in Faults /\ UNCHANGED sessions
  /\ UNCHANGED <<conn, dirVars, prepared, pools, buffers, outVars, vtVars, batch, histVars>>

(* OP_PREPARE_SESSION.                                                      *)
PrepareSession(s) ==
  /\ Ready /\ s \in sessions
  /\ prepared' = prepared \cup {s}
  /\ UNCHANGED <<conn, dirVars, next_host_id, sessions, pools, buffers, outVars,
                 vtVars, batch, histVars>>

(* OP_DESTROY_SESSION: dropping the VtRealSession tears the VideoToolbox    *)
(* session down (its frames are discarded, and a running callback finishes  *)
(* first); then the FIFO, the session's outputs, its directory claims, its  *)
(* pools and their buffers go.                                              *)
DestroySession(s) ==
  LET P == {p \in DOMAIN pools : pools[p].session = s}
  IN  /\ Ready /\ s \in sessions
      /\ \A c \in callbacks : c.session # s
      /\ sessions' = sessions \ {s} /\ prepared' = prepared \ {s}
      /\ inflight' = {f \in inflight : f.session # s}
      /\ session_queues' = Without(session_queues, {s})
      /\ queued_outputs' = Without(queued_outputs,
           {o \in DOMAIN queued_outputs : queued_outputs[o].session = s})
      /\ claimed' = release_entries(claimed, PoolEntries(P))
      /\ pools' = Without(pools, P)
      /\ buffers' = Without(buffers, PoolBuffers(P))
      /\ withdrawn' = withdrawn \cup Reading(PoolBuffers(P))
      /\ UNCHANGED <<conn, sibling, next_host_id, next_output_id, callbacks, batch,
                     leases, delivered>>

-----------------------------------------------------------------------------
(* Buffer pools.                                                            *)

(* The buffers of the first n slots of pool p take the n ids after its own. *)
SlotIds(p, n) == p + 1 .. p + n

AddBuffers(p, n) ==
  [b \in DOMAIN buffers \cup SlotIds(p, n) |->
     IF b \in SlotIds(p, n) THEN [pool |-> p, generation |-> 0, state |-> FREE]
     ELSE buffers[b]]

(* CREATE_BUFFER_POOL after take_matching returned e: every slot is wrapped *)
(* and its buffer inserted, then the pool.                                  *)
BuildPool(s, e) ==
  /\ SlotCount[e] <= MAX_POOL_SLOTS
  /\ ShapeOf[e] \in Wrappable \/ SlotCount[e] = 0
  /\ next_host_id + SlotCount[e] < MaxHostId
  /\ next_host_id' = next_host_id + 1 + SlotCount[e]
  /\ buffers' = AddBuffers(next_host_id, SlotCount[e])
  /\ pools' = Put(pools, next_host_id, [session |-> s, entry |-> e])

(* Its error exits: too many slots, or the surface cannot be locked; or,    *)
(* after the pool id and n buffers, a format or a slot that cannot be       *)
(* wrapped.  None of them releases e or removes the buffers.                *)
AbandonPool(e) ==
  /\ UNCHANGED pools
  /\ \/ /\ SlotCount[e] > MAX_POOL_SLOTS \/ "lock" \in Faults
        /\ UNCHANGED <<next_host_id, buffers>>
     \/ /\ SlotCount[e] <= MAX_POOL_SLOTS
        /\ \E n \in 0 .. SlotCount[e] :
             /\ n < SlotCount[e] /\ next_host_id + n < MaxHostId
             /\ IF ShapeOf[e] \in Wrappable THEN "wrap" \in Faults ELSE n = 0
             /\ next_host_id' = next_host_id + 1 + n
             /\ buffers' = AddBuffers(next_host_id, n)

(* OP_CREATE_BUFFER_POOL.  Session id 0 asks for a pool of no session.      *)
CreateBufferPool(s, shape) ==
  /\ Ready /\ (s = 0 \/ s \in sessions)
  /\ \E e \in take_matching(claimed, shape) :
       /\ claimed' = claimed \cup {e}
       /\ BuildPool(s, e) \/ AbandonPool(e)
  /\ UNCHANGED <<conn, sibling, sessions, prepared, outVars, vtVars, batch, histVars>>

(* OP_DESTROY_BUFFER_POOL (a pool that does not exist is answered OK too).  *)
DestroyBufferPool(p) ==
  /\ Ready /\ p \in DOMAIN pools
  /\ pools' = Without(pools, {p})
  /\ buffers' = Without(buffers, PoolBuffers({p}))
  /\ claimed' = release_entries(claimed, PoolEntries({p}))
  /\ withdrawn' = withdrawn \cup Reading(PoolBuffers({p}))
  /\ UNCHANGED <<conn, sibling, next_host_id, sessions, prepared, outVars, vtVars,
                 batch, leases, delivered>>

-----------------------------------------------------------------------------
(* Leases on slots.                                                         *)

(* A free slot becomes a lease of a new generation.                         *)
Leased(buf) == [pool |-> buf.pool, generation |-> buf.generation + 1, state |-> WRITABLE]

(* OP_ALLOC_BUFFER takes whichever free slot of the pool the map's iterator *)
(* meets first (and zeroes its bytes).                                      *)
AllocBuffer(p, b) ==
  /\ Ready /\ p \in DOMAIN pools /\ b \in DOMAIN buffers
  /\ buffers[b].pool = p /\ buffers[b].state = FREE
  /\ buffers[b].generation < MaxGeneration
  /\ buffers' = [buffers EXCEPT ![b] = Leased(@)]
  /\ leases' = leases \cup {<<b, Leased(buffers[b]).generation>>}
  /\ UNCHANGED <<conn, dirVars, next_host_id, sessions, prepared, pools, outVars,
                 vtVars, batch, delivered, withdrawn>>

(* Mutant: WRITE_BUFFER forgets that the slot may be queued.                *)
WriteBufferStatusAnyState(b, g) ==
  IF b \notin DOMAIN buffers THEN "INVALID_HANDLE"
  ELSE IF buffers[b].generation # g THEN "STALE_GENERATION"
  ELSE "OK"

(* OP_WRITE_BUFFER's tests before it copies the client's bytes into the     *)
(* slot (the bytes themselves, and their bounds, are not modelled here).    *)
WriteBufferStatus(b, g) ==
  IF b \notin DOMAIN buffers THEN "INVALID_HANDLE"
  ELSE IF buffers[b].generation # g THEN "STALE_GENERATION"
  ELSE IF buffers[b].state # WRITABLE THEN "INVALID_STATE"
  ELSE "OK"

(* OP_RECYCLE_BUFFER: the client gives a lease back, queued or not.         *)
RecycleBufferStatus(p, b, g) ==
  IF p \notin DOMAIN pools \/ b \notin DOMAIN buffers THEN "INVALID_HANDLE"
  ELSE IF buffers[b].pool # p THEN "INVALID_HANDLE"
  ELSE IF buffers[b].generation # g THEN "STALE_GENERATION"
  ELSE IF buffers[b].state = FREE THEN "INVALID_STATE"
  ELSE "OK"

RecycleBuffer(p, b, g) ==
  /\ Ready /\ RecycleBufferStatus(p, b, g) = "OK"
  /\ buffers' = [buffers EXCEPT ![b].state = FREE]
  /\ withdrawn' = withdrawn \cup Reading({b})
  /\ UNCHANGED <<conn, dirVars, next_host_id, sessions, prepared, pools, outVars,
                 vtVars, batch, leases, delivered>>

-----------------------------------------------------------------------------
(* Encoding.                                                                *)

(* encode_frame_payload up to the call into VideoToolbox.                   *)
EncodeFrameStatus(f) ==
  IF f.session \notin sessions THEN "INVALID_HANDLE"
  ELSE IF f.session \notin prepared THEN "INVALID_STATE"
  ELSE IF f.buffer \notin DOMAIN buffers THEN "INVALID_HANDLE"
  ELSE IF buffers[f.buffer].generation # f.generation THEN "STALE_GENERATION"
  ELSE IF buffers[f.buffer].state # WRITABLE THEN "INVALID_STATE"
  ELSE "OK"

(* VideoToolbox takes the frame.  (When it refuses, the slot returns to     *)
(* WRITABLE before the request is answered: no change.)                     *)
SubmitFrame(f) ==
  /\ EncodeFrameStatus(f) = "OK"
  /\ buffers' = [buffers EXCEPT ![f.buffer].state = QUEUED]
  /\ inflight' = inflight \cup {f}
  /\ UNCHANGED <<conn, dirVars, next_host_id, sessions, prepared, pools, outVars,
                 callbacks, histVars>>

(* OP_ENCODE_FRAME.                                                         *)
EncodeFrame(f) == Ready /\ SubmitFrame(f) /\ UNCHANGED batch

(* OP_ENCODE_FRAME_BATCH: the frames go to VideoToolbox one by one, and its *)
(* callbacks run in between.  The first frame that names another session or *)
(* is refused ends the request; the frames before it stay submitted.        *)
EncodeFrameBatch(fs) ==
  /\ Ready /\ fs # <<>>
  /\ batch' = fs
  /\ UNCHANGED <<conn, dirVars, hostVars, outVars, vtVars, histVars>>

BatchedFrame ==
  /\ conn = "open" /\ batch # <<>>
  /\ \/ /\ SubmitFrame(Head(batch))
        /\ batch' = IF Len(batch) > 1 /\ batch[2].session = batch[1].session
                    THEN Tail(batch) ELSE <<>>
     \/ /\ EncodeFrameStatus(Head(batch)) # "OK" \/ "encode" \in Faults
        /\ batch' = <<>>
        /\ UNCHANGED <<conn, dirVars, hostVars, outVars, vtVars, histVars>>

-----------------------------------------------------------------------------
(* VideoToolbox's output callback, on a thread of VideoToolbox's.           *)

(* The session's FIFO; a session without one yet has had no output.         *)
Fifo(s) == IF s \in DOMAIN session_queues THEN session_queues[s] ELSE <<>>

NoCallback(s) == \A c \in callbacks : c.session # s

(* The callback starts for a frame and draws an output id.                  *)
CallbackTakeId(f) ==
  /\ f \in inflight /\ NoCallback(f.session) /\ next_output_id <= MaxOutputs
  /\ inflight' = inflight \ {f}
  /\ callbacks' = callbacks \cup {[session |-> f.session, output |-> next_output_id,
                                   buffer |-> f.buffer, generation |-> f.generation,
                                   stored |-> FALSE]}
  /\ next_output_id' = next_output_id + 1
  /\ UNCHANGED <<conn, dirVars, hostVars, queued_outputs, session_queues, batch, histVars>>

(* It stores the output under its id ...                                    *)
CallbackStore(c) ==
  /\ c \in callbacks /\ ~c.stored
  /\ callbacks' = (callbacks \ {c}) \cup {[c EXCEPT !.stored = TRUE]}
  /\ queued_outputs' = Put(queued_outputs, c.output,
       [session |-> c.session, buffer |-> c.buffer, generation |-> c.generation])
  /\ UNCHANGED <<conn, dirVars, hostVars, session_queues, next_output_id, inflight,
                 batch, histVars>>

(* Mutant: the newest output goes to the front of the FIFO.                 *)
PushFront(q, o) == <<o>> \o q

PushBack(q, o) == Append(q, o)

(* ... and appends the id to the session's FIFO.                            *)
CallbackPush(c) ==
  /\ c \in callbacks /\ c.stored
  /\ session_queues' = Put(session_queues, c.session,
       PushBack(Fifo(c.session), c.output))
  /\ callbacks' = callbacks \ {c}
  /\ UNCHANGED <<conn, dirVars, hostVars, queued_outputs, next_output_id, inflight,
                 batch, histVars>>

(* The exits that produce no output: VideoToolbox dropped the frame, or     *)
(* reports an error or an empty sample; or the sample cannot be copied,     *)
(* after the id is drawn.  The slot stays QUEUED.                           *)
CallbackNoOutput ==
  /\ \/ /\ "drop" \in Faults
        /\ \E f \in inflight : NoCallback(f.session) /\ inflight' = inflight \ {f}
        /\ UNCHANGED callbacks
     \/ /\ "copy" \in Faults
        /\ \E c \in callbacks : ~c.stored /\ callbacks' = callbacks \ {c}
        /\ UNCHANGED inflight
  /\ UNCHANGED <<conn, dirVars, hostVars, outVars, batch, histVars>>

-----------------------------------------------------------------------------
(* Outputs.                                                                 *)

(* How many ids a dequeue request for n outputs pops.                       *)
PopCount(s, n) ==
  LET wanted == IF n = 0 THEN 1 ELSE IF n > MAX_OUTPUT_BATCH THEN MAX_OUTPUT_BATCH ELSE n
  IN  IF wanted < Len(Fifo(s)) THEN wanted ELSE Len(Fifo(s))

(* Mutant: the lower clamp on n is applied to the ids popped, not returned. *)
DequeuedUnclamped(s, n) ==
  {Fifo(s)[i] : i \in {j \in 1 .. PopCount(s, n) : j <= n}} \cap DOMAIN queued_outputs

(* The popped ids that still name an output; the others are skipped.  The   *)
(* reply lists them in the order of the FIFO.                               *)
Dequeued(s, n) == {Fifo(s)[i] : i \in 1 .. PopCount(s, n)} \cap DOMAIN queued_outputs

(* Mutant: the generation of the output's source is not compared.           *)
MarkReusableAnyGeneration(outs) ==
  [b \in DOMAIN buffers |->
     IF buffers[b].state = QUEUED /\ \E o \in outs : queued_outputs[o].buffer = b
     THEN [buffers[b] EXCEPT !.state = FREE] ELSE buffers[b]]

(* Mutant: the slot goes back to the client instead of the pool.            *)
MarkWritable(outs) ==
  [b \in DOMAIN buffers |->
     IF /\ buffers[b].state = QUEUED
        /\ \E o \in outs : /\ queued_outputs[o].buffer = b
                           /\ queued_outputs[o].generation = buffers[b].generation
     THEN [buffers[b] EXCEPT !.state = WRITABLE] ELSE buffers[b]]

(* mark_source_buffer_reusable for each output of a set.                    *)
MarkReusable(outs) ==
  [b \in DOMAIN buffers |->
     IF /\ buffers[b].state = QUEUED
        /\ \E o \in outs : /\ queued_outputs[o].buffer = b
                           /\ queued_outputs[o].generation = buffers[b].generation
     THEN [buffers[b] EXCEPT !.state = FREE] ELSE buffers[b]]

(* OP_DEQUEUE_OUTPUT_BATCH, and OP_DEQUEUE_OUTPUT, which is n = 1.  When    *)
(* every popped id is gone the request times out, its ids popped.           *)
DequeueOutput(s, n) ==
  LET outs == Dequeued(s, n)
  IN  /\ Ready /\ Fifo(s) # <<>>
      /\ session_queues' = [session_queues EXCEPT
           ![s] = SubSeq(@, PopCount(s, n) + 1, Len(@))]
      /\ buffers' = MarkReusable(outs)
      /\ delivered' = delivered \cup
           {[output |-> o, session |-> s, buffer |-> queued_outputs[o].buffer,
             generation |-> queued_outputs[o].generation] : o \in outs}
      /\ UNCHANGED <<conn, dirVars, next_host_id, sessions, prepared, pools,
                     queued_outputs, next_output_id, vtVars, batch, leases, withdrawn>>

(* OP_RELEASE_OUTPUT, and OP_RELEASE_OUTPUT_BATCH: ids are released up to   *)
(* the first that names no output (ids after it are kept).                  *)
ReleaseOutput(ids) ==
  LET valid == {i \in DOMAIN ids : \A j \in 1 .. i :
                  /\ ids[j] \in DOMAIN queued_outputs
                  /\ \A k \in 1 .. j - 1 : ids[k] # ids[j]}
  IN  /\ Ready /\ valid # {}
      /\ queued_outputs' = Without(queued_outputs, {ids[i] : i \in valid})
      /\ UNCHANGED <<conn, dirVars, hostVars, session_queues, next_output_id, vtVars,
                     batch, histVars>>

-----------------------------------------------------------------------------
(* The end of the connection, and the others.                               *)

(* handle_connection returns; Drop for VtRealBackend releases the entries   *)
(* of every pool it still has ...                                           *)
Disconnect ==
  /\ Ready
  /\ conn' = "dropping"
  /\ claimed' = release_entries(claimed, PoolEntries(DOMAIN pools))
  /\ UNCHANGED <<sibling, hostVars, outVars, vtVars, batch, histVars>>

(* ... and then its fields are dropped, the VideoToolbox sessions with them.*)
DropFields ==
  /\ conn = "dropping" /\ callbacks = {}
  /\ conn' = "closed"
  /\ sessions' = {} /\ prepared' = {} /\ pools' = EmptyMap /\ buffers' = EmptyMap
  /\ queued_outputs' = EmptyMap /\ session_queues' = EmptyMap /\ inflight' = {}
  /\ UNCHANGED <<dirVars, next_host_id, next_output_id, callbacks, batch, histVars>>

(* Another connection's CREATE_BUFFER_POOL, and its teardown.               *)
SiblingClaims(shape) ==
  /\ \E e \in take_matching(claimed, shape) :
       claimed' = claimed \cup {e} /\ sibling' = sibling \cup {e}
  /\ UNCHANGED <<conn, hostVars, outVars, vtVars, batch, histVars>>

SiblingReleases(e) ==
  /\ e \in sibling
  /\ sibling' = sibling \ {e} /\ claimed' = release_entries(claimed, {e})
  /\ UNCHANGED <<conn, hostVars, outVars, vtVars, batch, histVars>>

-----------------------------------------------------------------------------
Frames == [session : sessions, buffer : DOMAIN buffers, generation : 0 .. MaxGeneration]

Request ==
  \/ CreateSession
  \/ \E s \in sessions : PrepareSession(s) \/ DestroySession(s)
  \/ \E s \in sessions \cup {0}, shape \in Shapes : CreateBufferPool(s, shape)
  \/ \E p \in DOMAIN pools : \/ DestroyBufferPool(p)
                             \/ \E b \in DOMAIN buffers : AllocBuffer(p, b)
                             \/ \E b \in DOMAIN buffers, g \in 0 .. MaxGeneration :
                                  RecycleBuffer(p, b, g)
  \/ \E f \in Frames : EncodeFrame(f) \/ \E g \in Frames : EncodeFrameBatch(<<f, g>>)
  \/ BatchedFrame
  \/ \E s \in DOMAIN session_queues, n \in 0 .. MAX_OUTPUT_BATCH + 1 : DequeueOutput(s, n)
  \/ \E o \in DOMAIN queued_outputs : \/ ReleaseOutput(<<o>>)
                                      \/ \E u \in 1 .. MaxOutputs : ReleaseOutput(<<o, u>>)
  \/ Disconnect \/ DropFields

VideoToolbox ==
  \/ \E f \in inflight : CallbackTakeId(f)
  \/ \E c \in callbacks : CallbackStore(c) \/ CallbackPush(c)
  \/ CallbackNoOutput

Siblings ==
  \/ \E shape \in Shapes : SiblingClaims(shape)
  \/ \E e \in sibling : SiblingReleases(e)

Next == Request \/ VideoToolbox \/ Siblings

Spec == Init /\ [][Next]_vars

-----------------------------------------------------------------------------
(* Properties.                                                              *)

Output == [session : Nat, buffer : Nat, generation : Nat]
Buffer == [pool : Nat, generation : Nat, state : {FREE, WRITABLE, QUEUED}]

HostTypeOK ==
  /\ next_host_id \in Nat \ {0}
  /\ sessions \subseteq 1 .. next_host_id - 1 /\ prepared \subseteq sessions
  /\ DOMAIN pools \subseteq 1 .. next_host_id - 1
  /\ pools \in [DOMAIN pools -> [session : Nat, entry : Entries]]
  /\ DOMAIN buffers \subseteq 1 .. next_host_id - 1
  /\ buffers \in [DOMAIN buffers -> Buffer]

OutTypeOK ==
  /\ next_output_id \in Nat \ {0}
  /\ DOMAIN queued_outputs \subseteq 1 .. next_output_id - 1
  /\ queued_outputs \in [DOMAIN queued_outputs -> Output]
  /\ \A c \in callbacks : c.output \in 1 .. next_output_id - 1
  /\ DOMAIN session_queues \subseteq Nat
  /\ session_queues \in [DOMAIN session_queues -> Seq(Nat)]

VtTypeOK ==
  /\ inflight \subseteq Frame
  /\ callbacks \subseteq [session : Nat, output : Nat, buffer : Nat, generation : Nat,
                          stored : BOOLEAN]
  /\ batch \in Seq(Frame)

HistTypeOK ==
  /\ leases \subseteq Nat \X Nat
  /\ delivered \subseteq [output : Nat, session : Nat, buffer : Nat, generation : Nat]
  /\ withdrawn \subseteq Frame

(* Every field has its type, and every id in use was handed out.            *)
TypeOK ==
  /\ conn \in {"open", "dropping", "closed"}
  /\ claimed \subseteq Entries /\ sibling \subseteq Entries
  /\ HostTypeOK /\ OutTypeOK /\ VtTypeOK /\ HistTypeOK

(* Cross-connection isolation: while the connection is open the surface     *)
(* behind each of its pools is claimed in the shared directory, no other    *)
(* connection holds it, and no second pool of this one does                 *)
(* (take_matching, and the release in the three teardown paths).            *)
SurfaceExclusive ==
  conn = "open" =>
    \A p \in DOMAIN pools :
      /\ pools[p].entry \in claimed \ sibling
      /\ \A q \in DOMAIN pools : pools[q].entry = pools[p].entry => q = p

(* Teardown leaves nothing behind: pools, outputs, FIFOs, frames and        *)
(* callbacks belong to live sessions, and a buffer whose pool is gone is    *)
(* one a failed CREATE_BUFFER_POOL left, which was never leased.            *)
NoOrphans ==
  /\ \A p \in DOMAIN pools : pools[p].session \in sessions \cup {0}
  /\ \A o \in DOMAIN queued_outputs : queued_outputs[o].session \in sessions
  /\ DOMAIN session_queues \subseteq sessions
  /\ \A f \in inflight \cup callbacks : f.session \in sessions
  /\ \A b \in DOMAIN buffers :
       \/ buffers[b].pool \in DOMAIN pools
       \/ buffers[b].generation = 0 /\ buffers[b].state = FREE

(* The callback's store-then-push order: an output in the map is on its way *)
(* to the client (its callback is about to push it, or its id is in its     *)
(* session's FIFO) until it is delivered.  No interleaving of the callback  *)
(* with a dequeue or a release strands an output nobody can ask for.        *)
OutputReachable ==
  \A o \in DOMAIN queued_outputs :
    LET s == queued_outputs[o].session
    IN  \/ \E c \in callbacks : c.output = o /\ c.stored
        \/ \E i \in DOMAIN Fifo(s) : Fifo(s)[i] = o
        \/ \E d \in delivered : d.output = o

Lease(x) == <<x.buffer, x.generation>>

(* The refinement mapping: the leases the client may write and submit, the  *)
(* frames whose callback has not finished, the outputs a session's FIFO     *)
(* names that still exist, and those given out.                             *)
HeldLeases ==
  {<<b, buffers[b].generation>> : b \in {b \in DOMAIN buffers : buffers[b].state = WRITABLE}}
FrameOf(x) == [session |-> x.session, lease |-> Lease(x)]
Encoding == {FrameOf(x) : x \in inflight} \cup {FrameOf(c) : c \in callbacks}
ReadyIds(s) == {Fifo(s)[i] : i \in DOMAIN Fifo(s)} \cap DOMAIN queued_outputs
ReadyOutputs(s) == [o \in ReadyIds(s) |-> Lease(queued_outputs[o])]
ReadyBySession == [s \in 1 .. MaxHostId |-> ReadyOutputs(s)]
Given == {FrameOf(d) : d \in delivered}

Encoder == INSTANCE AbstractEncoder WITH
  Sessions <- 1 .. MaxHostId,
  Leases <- (1 .. MaxHostId) \X (0 .. MaxGeneration),
  Tickets <- 1 .. MaxOutputs,
  Returns <- FALSE,
  issued <- leases,
  held <- HeldLeases,
  encoding <- Encoding,
  ready <- ReadyBySession,
  given <- Given

(* The backend implements AbstractEncoder, whatever the client sends and    *)
(* however VideoToolbox's callbacks fall between the requests: each frame   *)
(* gives at most one output, each session's outputs are given out once and  *)
(* in the order in which the callbacks queued them, and a slot is the       *)
(* client's only under a lease that is new (OutputQueue, mark_source_buffer *)
(* _reusable, the generation of a slot).                                    *)
ImplementsEncoder == Encoder!Spec

(* mark_source_buffer_reusable: once the output of a lease was delivered,   *)
(* that lease no longer holds its slot.                                     *)
DeliveredFreesSource ==
  \A d \in delivered :
    d.buffer \in DOMAIN buffers /\ buffers[d.buffer].generation = d.generation
    => buffers[d.buffer].state = FREE

(* A slot leaves QUEUED only when its own lease's output is delivered, or   *)
(* the client recycles that very lease: a late output of an earlier lease   *)
(* never frees the slot under the next one.                                 *)
FreedByOwner ==
  [][\A b \in DOMAIN buffers :
       buffers[b].state = QUEUED /\ b \in DOMAIN buffers' /\ buffers'[b] # buffers[b] =>
         \/ RecycleBuffer(buffers[b].pool, b, buffers[b].generation)
         \/ \E d \in delivered' \ delivered :
              d.buffer = b /\ d.generation = buffers[b].generation]_vars

(* A <<buffer, generation>> pair names one lease for the connection's whole *)
(* life, pools destroyed and created again included: ALLOC_BUFFER never     *)
(* returns a pair it returned before.                                       *)
LeaseNeverReissued ==
  [][\A p \in DOMAIN pools, b \in DOMAIN buffers :
       AllocBuffer(p, b) => <<b, buffers'[b].generation>> \notin leases]_vars

(* Unless the client itself recycles the slot or destroys its pool, the     *)
(* slot VideoToolbox reads stays QUEUED under the lease the frame was       *)
(* submitted with, in a pool whose surface no other connection has, and no  *)
(* WRITE_BUFFER to it is accepted.                                          *)
InflightPinned ==
  conn = "open" =>
    \A f \in inflight \ withdrawn :
      /\ f.buffer \in DOMAIN buffers
      /\ buffers[f.buffer].state = QUEUED
      /\ buffers[f.buffer].generation = f.generation
      /\ buffers[f.buffer].pool \in DOMAIN pools
      /\ pools[buffers[f.buffer].pool].entry \notin sibling
      /\ \A g \in 0 .. MaxGeneration : WriteBufferStatus(f.buffer, g) # "OK"

(* Claims are accounted for: every claimed entry is held by another         *)
(* connection or by a pool of this one.                                     *)
ClaimsAccounted ==
  claimed \subseteq sibling \cup PoolEntries(DOMAIN pools)

(* What the directory's comment says of claims: they "persist until the     *)
(* claiming backend drops, at which point its Drop impl calls release_entry *)
(* to flip it back".  Once this connection is gone, every claimed entry is  *)
(* held by another one.                                                     *)
ReleasedOnDrop == conn # "open" => claimed \subseteq sibling

-----------------------------------------------------------------------------
(* What makes the properties above inductive.                               *)

(* Other connections' claims stay marked, and this one's are apart.         *)
ClaimInv == sibling \subseteq claimed /\ SurfaceExclusive

(* The lease <<b, g>> was handed to VideoToolbox: the slot, if it is still  *)
(* there, has moved past the moment the lease could be encoded.             *)
Spent(b, g) ==
  /\ b < next_host_id
  /\ b \in DOMAIN buffers => /\ g <= buffers[b].generation
                             /\ g = buffers[b].generation => buffers[b].state # WRITABLE

SameSource(x, y) == x.buffer = y.buffer /\ x.generation = y.generation

(* Frames, callbacks and outputs come from spent leases, and a lease is in  *)
(* flight at most once and never beside an output of it.                    *)
SourceInv ==
  /\ \A f \in inflight : Spent(f.buffer, f.generation)
  /\ \A c \in callbacks : Spent(c.buffer, c.generation)
  /\ \A o \in DOMAIN queued_outputs :
       Spent(queued_outputs[o].buffer, queued_outputs[o].generation)
  /\ \A f \in inflight :
       /\ \A e \in inflight : SameSource(e, f) => e = f
       /\ \A c \in callbacks : ~SameSource(c, f)
       /\ \A o \in DOMAIN queued_outputs : ~SameSource(queued_outputs[o], f)

(* Every lease ever returned has a generation its slot has reached.         *)
LeaseInv ==
  \A l \in leases : /\ l[1] < next_host_id
                    /\ l[1] \in DOMAIN buffers => l[2] <= buffers[l[1]].generation

DeliveredInv ==
  \A d \in delivered : Spent(d.buffer, d.generation)

(* A session's FIFO names its own outputs, in the order of their ids, all   *)
(* older than the one its callback is about to push ...                     *)
FifoInv(s) ==
  \A i \in DOMAIN Fifo(s) :
    /\ Fifo(s)[i] < next_output_id
    /\ Fifo(s)[i] \in DOMAIN queued_outputs => queued_outputs[Fifo(s)[i]].session = s
    /\ \A j \in DOMAIN Fifo(s) : i < j => Fifo(s)[i] < Fifo(s)[j]
    /\ \A c \in callbacks : /\ Fifo(s)[i] # c.output
                            /\ c.session = s => Fifo(s)[i] < c.output

(* ... and what a callback has stored under its id is its own output.       *)
CallbackInv(c) ==
  c.stored /\ c.output \in DOMAIN queued_outputs =>
    /\ queued_outputs[c.output].session = c.session
    /\ SameSource(queued_outputs[c.output], c)

QueueInv ==
  /\ \A s \in DOMAIN session_queues : FifoInv(s)
  /\ \A c \in callbacks : CallbackInv(c)
  /\ \A c, e \in callbacks : c.session = e.session \/ c.output = e.output => c = e

(* The bounds are bounds.                                                   *)
BoundInv == next_host_id <= MaxHostId + 1 /\ next_output_id <= MaxOutputs + 1

=============================================================================
