--------------------------- MODULE EncodeSession ----------------------------
(***************************************************************************)
(* The guest's side of encoding: VTCompressionSession, the pixel buffers   *)
(* and sample buffers it hands out, their reference counts, and the output *)
(* releases that the transport may defer.  Every session is driven by one  *)
(* thread of the application; the deferred releases belong to all of them. *)
(*                                                                         *)
(* Finalizers send requests and release further objects, so one CFRelease  *)
(* can do much.  The variable buffers holds what such a cascade touches:   *)
(* the reference-counted objects of the guest, and the pools and slots of  *)
(* the worker as its replies show them.  Operators on it are the steps of  *)
(* a cascade.  The worker's sessions and outputs are the variables hosted, *)
(* encoding, fifo and stored.                                              *)
(*                                                                         *)
(* A frame is named by its session and number.  The name stands for the    *)
(* sourceFrameRefCon of the call and for the output made of the frame.     *)
(***************************************************************************)
EXTENDS Naturals, Sequences, FiniteSets

CONSTANTS
    Sessions,       \* the compression sessions
    SlotCount,      \* per session: slots of its pool
    MaxFrames,      \* bound: frames submitted, by all sessions together
    MaxLeases,      \* bound: leases, of all slots together
    OutputBatch,    \* vtf_output_batch_size()
    ReleaseBatch,   \* output_release_batch_size()
    Faults          \* what VideoToolbox and the transport may do wrong

\* VT_FERRY_DEFER_OUTPUT_RELEASES is off, on, or on together with
\* VT_FERRY_DROP_DEFERRED_OUTPUT_RELEASES_ON_DESTROY.
ReleaseModes == {"now", "defer", "drop"}

ASSUME SessionAssumption ==
    /\ IsFiniteSet(Sessions)
    /\ SlotCount \in [Sessions -> Nat]
    /\ MaxFrames \in Nat
    /\ MaxLeases \in Nat
    /\ OutputBatch \in Nat \ {0}
    /\ ReleaseBatch \in Nat \ {0}
    /\ Faults \subseteq {"encode", "drop", "reorder", "read", "drain"}

Slots == UNION {{s} \X (1 .. SlotCount[s]) : s \in Sessions}
Leases == Slots \X (1 .. MaxLeases)
Frames == Sessions \X (1 .. MaxFrames)

SessionOf(lease) == lease[1][1]

Elements(q) == {q[i] : i \in DOMAIN q}
Sources(entries) == {e.source : e \in entries}

VARIABLES
    releases,   \* one of ReleaseModes, from the environment
    session,    \* per session: "none", "live", "invalidated", "finalized"
    pc,         \* per session: what its thread is doing
    result,     \* per session: what the last CompleteFrames returned
    submitted,  \* per session: frames pushed so far
    pending,    \* per session: pending_image_buffers and their refcons
    batch,      \* per session: outputs dequeued and not yet delivered
    sample,     \* per session: the sample buffer in the output callback
    app,        \* the pixel buffers that the application holds
    samples,    \* the sample buffers that the application retained
    buffers,    \* see above
    deferred,   \* deferred_output_releases
    hosted,     \* the sessions that the worker has
    encoding,   \* per session: frames that VideoToolbox works on
    fifo,       \* per session: outputs ready to be dequeued
    stored,     \* outputs that the worker keeps until they are released
    delivered,  \* history: frames whose output was handed to the callback
    lost,       \* history: frames that were pushed and get no output
    reordered   \* history: sessions whose outputs came out of order

thread == << session, pc, result, submitted, pending, batch, sample >>
held == << app, samples >>
queues == << encoding, fifo >>
outputs == << deferred, hosted, encoding, fifo, stored >>
history == << delivered, lost, reordered >>
vars == << releases, thread, held, buffers, outputs, history >>

None == << >>
NoSample == [frame |-> None, refcon |-> None, source |-> None]

Init ==
    /\ releases \in ReleaseModes
    /\ session = [s \in Sessions |-> "none"]
    /\ pc = [s \in Sessions |-> "idle"]
    /\ result = [s \in Sessions |-> "none"]
    /\ submitted = [s \in Sessions |-> 0]
    /\ pending = [s \in Sessions |-> << >>]
    /\ batch = [s \in Sessions |-> << >>]
    /\ sample = [s \in Sessions |-> NoSample]
    /\ app = {}
    /\ samples = {}
    /\ buffers = [objects   |-> [l \in {} |-> l],
                  pool_refs |-> [s \in Sessions |-> 0],
                  pools     |-> {},
                  slots     |-> [x \in Slots |-> [generation |-> 0, state |-> "free"]]]
    /\ deferred = << >>
    /\ hosted = {}
    /\ encoding = [s \in Sessions |-> << >>]
    /\ fifo = [s \in Sessions |-> << >>]
    /\ stored = {}
    /\ delivered = {}
    /\ lost = {}
    /\ reordered = {}

-----------------------------------------------------------------------------
(* The worker's answers. *)

Holds(w, lease, state) ==
    /\ SessionOf(lease) \in w.pools
    /\ w.slots[lease[1]] = [generation |-> lease[2], state |-> state]

\* OP_RECYCLE_BUFFER is refused for a pool that is gone, an older lease, and
\* a slot that is free already.
Recyclable(w, lease) == Holds(w, lease, "leased") \/ Holds(w, lease, "queued")

Free(w, leases) ==
    LET slots == {l[1] : l \in leases}
    IN  [w EXCEPT !.slots = [x \in Slots |->
                                IF x \in slots THEN [@[x] EXCEPT !.state = "free"] ELSE @[x]]]

\* OP_DESTROY_BUFFER_POOL, and what OP_DESTROY_SESSION does to its pool.
DestroyBufferPool(w, s) == [w EXCEPT !.pools = @ \ {s}]

\* OP_RELEASE_OUTPUT_BATCH stops at the first id it does not know.
KnownUpTo(ids, i) == \A j \in 1 .. i : ids[j] \in stored
Kept(ids) == stored \ {ids[i] : i \in {j \in DOMAIN ids : KnownUpTo(ids, j)}}

-----------------------------------------------------------------------------
(* Requests, releases and finalizers in the guest. *)

\* Variant: a sample buffer that never releases its output.
ReleaseOutputForgotten(id) == UNCHANGED outputs

\* release_output: the finalizer that calls it ignores a failure.  A flush
\* (flush_deferred_output_releases) empties the list whatever the answer is.
ReleaseOutput(id) ==
    LET ids == Append(deferred, id)
    IN  /\ \/ /\ releases = "now"
              /\ stored' = Kept(<< id >>)
              /\ deferred' = deferred
           \/ /\ releases # "now" /\ Len(ids) < ReleaseBatch
              /\ stored' = stored
              /\ deferred' = ids
           \/ /\ releases # "now" /\ Len(ids) >= ReleaseBatch
              /\ stored' = Kept(ids)
              /\ deferred' = << >>
        /\ UNCHANGED << hosted, queues >>

\* Variant: the request is never sent.
DestroySessionUnsent(s) ==
    /\ deferred' = << >>
    /\ stored' = Kept(deferred)
    /\ UNCHANGED << hosted, queues >>

\* destroy_session: OP_DESTROY_SESSION is sent only when the releases went
\* through, or are dropped.
Sent == releases = "drop" \/ KnownUpTo(deferred, Len(deferred))
DestroySession(s) ==
    /\ deferred' = << >>
    /\ LET kept == IF releases = "drop" THEN stored ELSE Kept(deferred)
       IN  \/ /\ Sent
              /\ hosted' = hosted \ {s}
              /\ encoding' = [encoding EXCEPT ![s] = << >>]
              /\ fifo' = [fifo EXCEPT ![s] = << >>]
              /\ stored' = {f \in kept : f[1] # s}
           \/ /\ ~ Sent
              /\ stored' = kept
              /\ UNCHANGED << hosted, queues >>

\* ... and the pool of the session goes with it.
DestroyPoolToo(s) == IF Sent THEN DestroyBufferPool(buffers, s) ELSE buffers

\* CFRelease of a pool, and its finalizer.
ReleasePool(w, s) ==
    LET w1 == [w EXCEPT !.pool_refs[s] = @ - 1]
    IN  IF w1.pool_refs[s] = 0 THEN DestroyBufferPool(w1, s) ELSE w1

\* vtf_recycle_pixel_buffer.
Recycle(w, lease) ==
    IF w.objects[lease].recycled \/ ~ Recyclable(w, lease) THEN w
    ELSE [Free(w, {lease}) EXCEPT !.objects[lease].recycled = TRUE]

Dispose(w, lease) == [w EXCEPT !.objects = [l \in DOMAIN @ \ {lease} |-> @[l]]]

\* Variant: no recycle when the buffer goes.
FinalizeUnrecycled(w, lease) == ReleasePool(Dispose(w, lease), SessionOf(lease))

\* vtf_finalize_pixel_buffer.
FinalizeBuffer(w, lease) == ReleasePool(Dispose(Recycle(w, lease), lease), SessionOf(lease))

\* CFRetain and CFRelease of a pixel buffer.
Retain(w, lease) == [w EXCEPT !.objects[lease].refs = @ + 1]
Release(w, lease) ==
    IF w.objects[lease].refs = 1 THEN FinalizeBuffer(w, lease)
    ELSE [w EXCEPT !.objects[lease].refs = @ - 1]

SetState(w, lease, state) == [w EXCEPT !.objects[lease].state = state]

\* vtf_finalize_sample_buffer.
FinalizeSample(w, x) ==
    /\ ReleaseOutput(x.frame)
    /\ buffers' = Release(SetState(w, x.source, "writable"), x.source)

-----------------------------------------------------------------------------
(* The calls of the application. *)

Idle(s) == session[s] = "live" /\ pc[s] = "idle"

VTCompressionSessionCreate(s) ==
    /\ session[s] = "none"
    /\ session' = [session EXCEPT ![s] = "live"]
    /\ hosted' = hosted \cup {s}
    /\ UNCHANGED << releases, pc, result, submitted, pending, batch, sample, held, history >>
    /\ UNCHANGED << buffers, deferred, queues, stored >>

\* vtf_create_pixel_buffer_pool_for_session.
CreatePool(w, s) == [w EXCEPT !.pools = @ \cup {s}, !.pool_refs[s] = 1]

\* The pool is created once and belongs to the session.
VTCompressionSessionGetPixelBufferPool(s) ==
    /\ Idle(s)
    /\ buffers.pool_refs[s] = 0
    /\ buffers' = CreatePool(buffers, s)
    /\ UNCHANGED << releases, thread, held, outputs, history >>

\* vtf_create_pixel_buffer_from_lease: the buffer retains its pool.
CreateFromLease(w, lease) ==
    LET new == [refs |-> 1, state |-> "writable", recycled |-> FALSE]
    IN  [w EXCEPT !.objects = [l \in DOMAIN @ \cup {lease} |-> IF l = lease THEN new ELSE @[l]],
                  !.pool_refs[SessionOf(lease)] = @ + 1]

\* The leases given out so far.
Issued == {l \in Leases : l[2] <= buffers.slots[l[1]].generation}

CVPixelBufferPoolCreatePixelBuffer(s, slot) ==
    /\ session[s] \in {"live", "invalidated"}
    /\ s \in buffers.pools
    /\ slot[1] = s
    /\ buffers.slots[slot].state = "free"
    /\ Cardinality(Issued) < MaxLeases
    /\ LET lease == << slot, buffers.slots[slot].generation + 1 >>
           leased == [generation |-> lease[2], state |-> "leased"]
       IN  /\ lease \in Leases
           /\ buffers' = CreateFromLease([buffers EXCEPT !.slots[slot] = leased], lease)
           /\ app' = app \cup {lease}
    /\ UNCHANGED << releases, thread, samples, outputs, history >>

CVPixelBufferRelease(lease) ==
    /\ lease \in app
    /\ app' = app \ {lease}
    /\ buffers' = Release(buffers, lease)
    /\ UNCHANGED << releases, thread, samples, outputs, history >>

PushPending(s, lease, frame) ==
    /\ submitted' = [submitted EXCEPT ![s] = @ + 1]
    /\ pending' = [pending EXCEPT ![s] = Append(@, [source |-> lease, refcon |-> frame])]

\* Variant: the pending entry holds no reference.
PushUnretained(w, lease) == SetState(w, lease, "queued")
Pushed(w, lease) == SetState(Retain(w, lease), lease, "queued")

\* vtf_prepare_session_if_needed: OP_PREPARE_SESSION needs the session.
Prepares(s) == s \in hosted

\* write_buffer: OP_WRITE_BUFFER needs a lease that is still good.
Written(lease) == Holds(buffers, lease, "leased")

VTCompressionSessionEncodeFrame(s, lease) ==
    /\ Idle(s)
    /\ Cardinality({f \in Frames : f[2] <= submitted[f[1]]}) < MaxFrames
    /\ lease \in app /\ SessionOf(lease) = s
    /\ buffers.objects[lease].state = "writable"
    /\ Prepares(s)
    /\ Written(lease)
    /\ LET frame == << s, submitted[s] + 1 >>
           w == Pushed(buffers, lease)
       IN  /\ PushPending(s, lease, frame)
           /\ \/ /\ buffers' = [w EXCEPT !.slots[lease[1]].state = "queued"]
                 /\ encoding' = [encoding EXCEPT
                                   ![s] = Append(@, [frame |-> frame, source |-> lease])]
                 /\ \E next \in {"idle", "polling"} : pc' = [pc EXCEPT ![s] = next]
                 /\ lost' = lost
              \/ /\ "encode" \in Faults
                 /\ buffers' = w
                 /\ UNCHANGED << encoding, pc >>
                 /\ lost' = lost \cup {frame}
    /\ result' = [result EXCEPT ![s] = "none"]
    /\ UNCHANGED << releases, session, batch, sample, held, delivered, reordered >>
    /\ UNCHANGED << deferred, hosted, fifo, stored >>

\* The application keeps a sample buffer beyond its callback, and drops it.
RetainSample(s) ==
    /\ sample[s] # NoSample
    /\ samples' = samples \cup {sample[s]}
    /\ UNCHANGED << releases, thread, app, buffers, outputs, history >>

ReleaseSample(x) ==
    /\ x \in samples
    /\ samples' = samples \ {x}
    /\ IF \E s \in Sessions : sample[s] = x THEN UNCHANGED << buffers, outputs >>
       ELSE FinalizeSample(buffers, x)
    /\ UNCHANGED << releases, thread, app, history >>

VTCompressionSessionInvalidate(s) ==
    /\ Idle(s)
    /\ session' = [session EXCEPT ![s] = "invalidated"]
    /\ DestroySession(s)
    /\ buffers' = DestroyPoolToo(s)
    /\ UNCHANGED << releases, pc, result, submitted, pending, batch, sample, held, history >>

\* vtf_finalize_vt_session: the request and the pool first ...
FinalizeSession(s) ==
    LET w == IF session[s] = "live" THEN DestroyPoolToo(s) ELSE buffers
    IN  /\ IF session[s] = "live" THEN DestroySession(s) ELSE UNCHANGED outputs
        /\ buffers' = IF w.pool_refs[s] = 0 THEN w ELSE ReleasePool(w, s)

ReleaseSession(s) ==
    /\ session[s] \in {"live", "invalidated"}
    /\ pc[s] = "idle"
    /\ session' = [session EXCEPT ![s] = "finalized"]
    /\ FinalizeSession(s)
    /\ UNCHANGED << releases, pc, result, submitted, pending, batch, sample, held, history >>

\* ... then the pending image buffers, one CFRelease after the other.
FinalizePending(s) ==
    /\ session[s] = "finalized"
    /\ pending[s] # << >>
    /\ pending' = [pending EXCEPT ![s] = Tail(@)]
    /\ buffers' = Release(buffers, Head(pending[s]).source)
    /\ UNCHANGED << releases, session, pc, result, submitted, batch, sample, held, history >>
    /\ UNCHANGED outputs

VTCompressionSessionCompleteFrames(s) ==
    /\ Idle(s)
    /\ submitted[s] > 0
    /\ pc' = [pc EXCEPT ![s] = "draining"]
    /\ result' = [result EXCEPT ![s] = "none"]
    /\ UNCHANGED << releases, session, submitted, pending, batch, sample, held, history >>
    /\ UNCHANGED << buffers, outputs >>

-----------------------------------------------------------------------------
(* Delivery: vtf_deliver_session_outputs, from EncodeFrame ("polling") and  *)
(* from CompleteFrames ("completing"), which waits for the pending frames.  *)

Delivering(s) == pc[s] \in {"polling", "completing"} /\ sample[s] = NoSample

Return(s, status) ==
    /\ pc' = [pc EXCEPT ![s] = "idle"]
    /\ result' = [result EXCEPT ![s] = IF pc[s] = "polling" THEN @ ELSE status]

\* OP_DRAIN returns once VideoToolbox has completed the session's frames.
Drain(s) ==
    /\ pc[s] = "draining"
    /\ \/ /\ encoding[s] = << >>
          /\ pc' = [pc EXCEPT ![s] = "completing"]
          /\ result' = result
       \/ /\ "drain" \in Faults
          /\ Return(s, "error")
    /\ UNCHANGED << releases, session, submitted, pending, batch, sample, held, history >>
    /\ UNCHANGED << buffers, outputs >>

\* Variant: a dequeue frees every queued slot of the session.
DequeueFreesAll(s) ==
    /\ Delivering(s)
    /\ batch[s] = << >>
    /\ fifo[s] # << >>
    /\ batch' = [batch EXCEPT ![s] = << Head(fifo[s]) >>]
    /\ fifo' = [fifo EXCEPT ![s] = Tail(@)]
    /\ buffers' = Free(buffers, {l \in Leases : SessionOf(l) = s /\ Holds(buffers, l, "queued")})
    /\ UNCHANGED << releases, session, pc, result, submitted, pending, sample, held, history >>
    /\ UNCHANGED << deferred, hosted, encoding, stored >>

\* A dequeued output makes the slot it came from reusable.
vtf_dequeue_ready_outputs(s) ==
    /\ Delivering(s)
    /\ batch[s] = << >>
    /\ fifo[s] # << >>
    /\ \E n \in {IF Len(fifo[s]) < OutputBatch THEN Len(fifo[s]) ELSE OutputBatch} :
          LET ready == SubSeq(fifo[s], 1, n)
              reusable == {l \in Sources(Elements(ready)) : Holds(buffers, l, "queued")}
          IN  /\ batch' = [batch EXCEPT ![s] = ready]
              /\ fifo' = [fifo EXCEPT ![s] = SubSeq(@, n + 1, Len(@))]
              /\ buffers' = Free(buffers, reusable)
    /\ UNCHANGED << releases, session, pc, result, submitted, pending, sample, held, history >>
    /\ UNCHANGED << deferred, hosted, encoding, stored >>

NothingReady(s) == Delivering(s) /\ batch[s] = << >> /\ fifo[s] = << >>

\* Variants: without the test for pending frames, and without the deadline.
HandleDequeueStatusEager(s) ==
    /\ NothingReady(s)
    /\ Return(s, "ok")
    /\ UNCHANGED << releases, session, submitted, pending, batch, sample, held, history >>
    /\ UNCHANGED << buffers, outputs >>

HandleDequeueStatusPatient(s) ==
    /\ NothingReady(s)
    /\ pc[s] = "polling" \/ pending[s] = << >>
    /\ Return(s, "ok")
    /\ UNCHANGED << releases, session, submitted, pending, batch, sample, held, history >>
    /\ UNCHANGED << buffers, outputs >>

\* A completing thread with frames pending sleeps and asks again, which
\* changes nothing, until the deadline has passed.
vtf_handle_dequeue_status(s) ==
    /\ NothingReady(s)
    /\ Return(s, IF pending[s] = << >> THEN "ok" ELSE "error")
    /\ UNCHANGED << releases, session, submitted, pending, batch, sample, held, history >>
    /\ UNCHANGED << buffers, outputs >>

\* vtf_pop_pending_image_buffer, and vtf_create_sample_buffer.
Entry(s) == Head(pending[s])
NewSample(output, entry) ==
    [frame |-> output.frame, refcon |-> entry.refcon, source |-> entry.source]

\* Variant: outputs are paired with the newest entry.
DeliverNewest(s) ==
    /\ Delivering(s)
    /\ batch[s] # << >>
    /\ sample' = [sample EXCEPT ![s] = NewSample(Head(batch[s]), pending[s][Len(pending[s])])]
    /\ pending' = [pending EXCEPT ![s] = SubSeq(@, 1, Len(@) - 1)]
    /\ delivered' = delivered \cup {Head(batch[s]).frame}
    /\ batch' = [batch EXCEPT ![s] = Tail(@)]
    /\ UNCHANGED << releases, session, pc, result, submitted, held, lost, reordered >>
    /\ UNCHANGED << buffers, outputs >>

\* vtf_deliver_one_output up to the callback: the sample buffer takes over
\* the reference of the pending entry it is paired with.
vtf_deliver_one_output(s) ==
    /\ Delivering(s)
    /\ batch[s] # << >>
    /\ sample' = [sample EXCEPT ![s] = NewSample(Head(batch[s]), Entry(s))]
    /\ pending' = [pending EXCEPT ![s] = Tail(@)]
    /\ delivered' = delivered \cup {Head(batch[s]).frame}
    /\ batch' = [batch EXCEPT ![s] = Tail(@)]
    /\ UNCHANGED << releases, session, pc, result, submitted, held, lost, reordered >>
    /\ UNCHANGED << buffers, outputs >>

\* A failed read ends the delivery, and the rest of the batch with it.
ReadOutputFails(s) ==
    /\ Delivering(s)
    /\ batch[s] # << >>
    /\ "read" \in Faults
    /\ Return(s, "error")
    /\ lost' = lost \cup {o.frame : o \in Elements(batch[s])}
    /\ batch' = [batch EXCEPT ![s] = << >>]
    /\ UNCHANGED << releases, session, submitted, pending, sample, held, delivered, reordered >>
    /\ UNCHANGED << buffers, outputs >>

\* The rest of vtf_deliver_one_output, after the callback.
CallbackReturns(s) ==
    /\ sample[s] # NoSample
    /\ LET x == sample[s]
           w == SetState(Recycle(buffers, x.source), x.source, "writable")
       IN  IF x \in samples THEN buffers' = w /\ UNCHANGED outputs ELSE FinalizeSample(w, x)
    /\ sample' = [sample EXCEPT ![s] = NoSample]
    /\ UNCHANGED << releases, session, pc, result, submitted, pending, batch, held, history >>

-----------------------------------------------------------------------------
(* VideoToolbox, behind the worker. *)

Without(q, i) == [j \in 1 .. Len(q) - 1 |-> IF j < i THEN q[j] ELSE q[j + 1]]

\* It finishes the oldest frame, or another one when it reorders.
VTEmits(s, i) ==
    /\ i \in DOMAIN encoding[s]
    /\ i = 1 \/ "reorder" \in Faults
    /\ encoding' = [encoding EXCEPT ![s] = Without(@, i)]
    /\ fifo' = [fifo EXCEPT ![s] = Append(@, encoding[s][i])]
    /\ stored' = stored \cup {encoding[s][i].frame}
    /\ reordered' = IF i = 1 THEN reordered ELSE reordered \cup {s}
    /\ UNCHANGED << releases, thread, held, buffers, deferred, hosted, delivered, lost >>

\* It drops a frame: the compression callback gets no sample for it.
VTDrops(s) ==
    /\ "drop" \in Faults
    /\ encoding[s] # << >>
    /\ encoding' = [encoding EXCEPT ![s] = Tail(@)]
    /\ lost' = lost \cup {Head(encoding[s]).frame}
    /\ UNCHANGED << releases, thread, held, buffers, delivered, reordered >>
    /\ UNCHANGED << deferred, hosted, fifo, stored >>

Works(s) ==
    \/ Drain(s)
    \/ vtf_dequeue_ready_outputs(s)
    \/ vtf_handle_dequeue_status(s)
    \/ vtf_deliver_one_output(s)
    \/ CallbackReturns(s)
    \/ FinalizePending(s)

Next ==
    \/ \E s \in Sessions :
          \/ VTCompressionSessionCreate(s)
          \/ VTCompressionSessionGetPixelBufferPool(s)
          \/ \E slot \in Slots : CVPixelBufferPoolCreatePixelBuffer(s, slot)
          \/ \E lease \in app : VTCompressionSessionEncodeFrame(s, lease)
          \/ RetainSample(s)
          \/ VTCompressionSessionInvalidate(s)
          \/ ReleaseSession(s)
          \/ VTCompressionSessionCompleteFrames(s)
          \/ Works(s)
          \/ ReadOutputFails(s)
          \/ \E i \in DOMAIN encoding[s] : VTEmits(s, i)
          \/ VTDrops(s)
    \/ \E lease \in app : CVPixelBufferRelease(lease)
    \/ \E x \in samples : ReleaseSample(x)

Spec == Init /\ [][Next]_vars

\* A thread inside a call goes on, its callback returns, its deadline passes;
\* VideoToolbox finishes the frames it has accepted.
FairSpec ==
    /\ Spec
    /\ \A s \in Sessions : WF_vars(Works(s)) /\ WF_vars(VTEmits(s, 1))

-----------------------------------------------------------------------------
(* Properties. *)

\* The sample buffers that exist: in a callback, or retained.
LiveSamples == samples \cup ({sample[s] : s \in Sessions} \ {NoSample})

Holders(lease) ==
    (IF lease \in app THEN 1 ELSE 0)
    + Cardinality({x \in LiveSamples : x.source = lease})
    + Cardinality({i \in DOMAIN pending[SessionOf(lease)] :
                     pending[SessionOf(lease)][i].source = lease})

\* Every reference to a pixel buffer or pool is counted, whoever holds it: the
\* application, the session's pending list, a sample buffer; and whoever holds
\* one can rely on the object.  Nothing leaks and nothing dangles, through
\* delivery, failed calls and finalizers (CFRetain, CFRelease).
RefsBalanced ==
    /\ DOMAIN buffers.objects = {l \in Leases : Holders(l) > 0}
    /\ \A l \in DOMAIN buffers.objects : buffers.objects[l].refs = Holders(l)
    /\ \A s \in Sessions :
          LET users == {l \in DOMAIN buffers.objects : SessionOf(l) = s}
          IN  buffers.pool_refs[s] \in {Cardinality(users) + n :
                 n \in IF session[s] \in {"none", "finalized"} THEN {0} ELSE {0, 1}}

\* A slot kept away from its pool has a pixel buffer of the guest that stands
\* for its lease: vtf_finalize_pixel_buffer recycles, and the recycle is
\* refused only when the slot is not the lease's any more.
SlotsHeld ==
    \A x \in Slots :
       /\ x[1] \in buffers.pools
       /\ buffers.slots[x].state # "free"
       => << x, buffers.slots[x].generation >> \in DOMAIN buffers.objects

\* While VideoToolbox works on a frame, its slot stays queued for that lease,
\* though the shim recycles by position and not by frame: this is the
\* "lock-step" of recycle and dequeue.  It needs outputs in order, and a
\* session that was not finalized with its destroy request withheld.
InFlightSlotsKept ==
    \A s \in Sessions : \A i \in DOMAIN encoding[s] :
       \/ Holds(buffers, encoding[s][i].source, "queued")
       \/ s \in reordered
       \/ session[s] = "finalized"

\* The output handed to the callback comes with the refcon and the image
\* buffer of its own frame.  vtf_pop_pending_image_buffer pairs by position,
\* so this needs outputs in order and no earlier frame without an output.
OutputsPaired ==
    \A s \in Sessions :
       \/ sample[s].refcon = sample[s].frame
       \/ s \in reordered
       \/ \E f \in lost : f[1] = s /\ f[2] < sample[s].frame[2]

\* VTCompressionSessionCompleteFrames returns 0 only when every frame pushed
\* before has been handed to the callback, whatever else went wrong.
CompleteMeansDelivered ==
    \A s \in Sessions :
       result[s] = "ok" => \A n \in 1 .. submitted[s] : << s, n >> \in delivered

Ended(s) == session[s] \in {"invalidated", "finalized"}

\* A session that was invalidated or released is gone from the worker, as the
\* finalizer's comment wants.  The exception: releases are deferred and one of
\* them names an output of a session that was destroyed before.
SessionsGone ==
    \A s \in Sessions :
       Ended(s) /\ s \in hosted =>
          /\ releases = "defer"
          /\ \E t \in Sessions : Ended(t) /\ t \notin hosted

\* The worker stores an output only while someone will still ask for it: it is
\* queued, being delivered, held in a sample buffer, or about to be released.
\* Lost are those whose read failed, and deferred releases that a destroy
\* dropped or that stood behind an id the worker did not know.
OutputsAwaited ==
    \A f \in stored :
       \/ \E x \in Elements(fifo[f[1]]) \cup Elements(batch[f[1]]) \cup LiveSamples :
             x.frame = f
       \/ f \in Elements(deferred) \cup lost
       \/ releases # "now" /\ \E t \in Sessions : Ended(t)

\* The guest leaves nothing behind in the worker, whatever fails on the way:
\* a slot, a session or an output is kept there only for something the guest
\* still has (the finalizers of the pixel buffer, the sample buffer and the
\* session, and the release that follows a delivery).
NothingLeftBehind == SlotsHeld /\ SessionsGone /\ OutputsAwaited

\* VTCompressionSessionCompleteFrames returns, with frames that VideoToolbox
\* dropped too: the deadline ends the wait for them.
CompleteReturns ==
    \A s \in Sessions : pc[s] = "draining" ~> pc[s] = "idle"

-----------------------------------------------------------------------------
(* What makes the properties above inductive. *)

Frame == Sessions \X (Nat \ {0})
Output == [frame : Frame, source : Leases]
Pending == [source : Leases, refcon : Frame]
Sample == [frame : Frame, refcon : Frame, source : Leases]

\* A thread is inside a call only while its session is live, and in the
\* callback only while it delivers.
TypeOK ==
    /\ session \in [Sessions -> {"none", "live", "invalidated", "finalized"}]
    /\ pc \in [Sessions -> {"idle", "polling", "draining", "completing"}]
    /\ result \in [Sessions -> {"none", "ok", "error"}]
    /\ submitted \in [Sessions -> Nat]
    /\ pending \in [Sessions -> Seq(Pending)]
    /\ batch \in [Sessions -> Seq(Output)]
    /\ sample \in [Sessions -> Sample \cup {NoSample}]
    /\ app \subseteq Leases
    /\ encoding \in [Sessions -> Seq(Output)] /\ fifo \in [Sessions -> Seq(Output)]
    /\ delivered \subseteq Frame
    /\ \A s \in Sessions : /\ pc[s] # "idle" => session[s] = "live"
                           /\ sample[s] # NoSample => pc[s] \in {"polling", "completing"}

\* The outputs of a session in the order in which they reach the client: the
\* batch, the FIFO, VideoToolbox.
Ahead(late, o, p) == o.frame # p.frame /\ (late \/ o.frame[2] < p.frame[2])
InLine(late, q) == \A i, j \in DOMAIN q : i < j => Ahead(late, q[i], q[j])
Follows(late, p, q) == \A o \in Elements(q), u \in Elements(p) : Ahead(late, o, u)
Lined(late, q1, q2, q3) ==
    /\ InLine(late, q1) /\ InLine(late, q2) /\ InLine(late, q3)
    /\ Follows(late, q2, q1) /\ Follows(late, q3, q1) /\ Follows(late, q3, q2)

OnTheWay(s) == Elements(batch[s]) \cup Elements(fifo[s]) \cup Elements(encoding[s])
DeliveredOf(s) == {f \in delivered : f[1] = s}

\* What is on its way was submitted and not yet delivered.
Travels(s, o) ==
    /\ o.frame[1] = s /\ o.frame[2] <= submitted[s]
    /\ \A d \in DeliveredOf(s) : d # o.frame /\ (s \in reordered \/ d[2] < o.frame[2])

PathAt(s) ==
    /\ Lined(s \in reordered, batch[s], fifo[s], encoding[s])
    /\ \A o \in OnTheWay(s) : Travels(s, o)
    /\ session[s] = "none" => submitted[s] = 0

\* An entry is popped for each delivery, so the entries are those of the last
\* frames submitted.
PendingAt(s) ==
    /\ \A f \in DeliveredOf(s) : f[2] <= submitted[s]
    /\ \A i \in DOMAIN pending[s] :
          pending[s][i].refcon = << s, submitted[s] - Len(pending[s]) + i >>
    /\ session[s] # "finalized" =>
          Cardinality(DeliveredOf(s)) + Len(pending[s]) = submitted[s]
    /\ session[s] = "live" =>
          \A n \in 1 .. submitted[s] :
             << s, n >> \in delivered \cup lost \cup {o.frame : o \in OnTheWay(s)}

DeliveryInv == \A s \in Sessions : PathAt(s) /\ PendingAt(s)
=============================================================================
