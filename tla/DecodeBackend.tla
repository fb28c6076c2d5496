--------------------------- MODULE DecodeBackend ---------------------------
(***************************************************************************)
(* The decode half of the vt-real backend that serves one connection:       *)
(* sessions that get their VideoToolbox session from OP_SET_DECODE_FORMAT,  *)
(* the assembly of chunked encoded frames, and DecodedOutputQueue, which    *)
(* VideoToolbox's callback fills and OP_DEQUEUE_DECODED_FRAME empties.      *)
(*                                                                         *)
(* Every frame the client starts to send has a number of its own; a byte is *)
(* its position in the frame, so that what VideoToolbox is handed can be    *)
(* compared with what was sent.  Requests refused without an effect are     *)
(* stuttering steps.  Reading a decoded frame changes no state.             *)
(*                                                                         *)
(* A behaviour runs in one mode, chosen at its start: how VideoToolbox      *)
(* calls back, who the client is, and how far the behaviour goes.           *)
(***************************************************************************)
EXTENDS Naturals, Sequences, FiniteSets

CONSTANTS
  MAX_ENCODED_FRAME_BYTES,         \* VTF_TRANSPORT_MAX_ENCODED_FRAME_BYTES
  MAX_CHUNKED_ENCODED_FRAME_BYTES,
  Faults,   \* the failures of VideoToolbox and of the connection that may occur
  Modes     \* the modes that behaviours run in

Options == [chunked : BOOLEAN, callback : BOOLEAN]

(* synchronous: decode_frame returns after the frame's callback has run.    *)
(* options: what the shim's sessions are created with, frames above the     *)
(* inline budget or below it, an output callback or none.                   *)
(* The bounds of a mode: decode sessions created, frames sent, and the      *)
(* largest number a client puts into a size or an offset.                   *)
ModeType ==
  [client : {"any", "shim"}, synchronous : BOOLEAN, options : SUBSET Options,
   sessions : Nat, frames : Nat, largest : Nat]

ASSUME DecodeAssumption ==
  /\ MAX_ENCODED_FRAME_BYTES \in Nat /\ MAX_CHUNKED_ENCODED_FRAME_BYTES \in Nat
  /\ Faults \subseteq {"create", "decode", "callback", "wait", "read", "connection"}
  /\ Modes \subseteq ModeType

SessionIds == UNION {1 .. m.sessions : m \in Modes}

VARIABLES
  mode,
  open,                    \* the connection, and the backend with it, exists
  next_host_id,
  decode_sessions,         \* id -> [format, vt, chunked]
  pending_encoded_frames,  \* id -> [frame, total_size, bytes]
  queued,                  \* output id -> [session, frame]
  session_queues,          \* id -> FIFO of output ids
  next_output_id,
  decode_errors,           \* id -> the frame whose failure is the sticky error
  polling,   \* the session whose FIFO OP_DEQUEUE_DECODED_FRAME found empty, or 0
  inflight,  \* what VideoToolbox is decoding: [session, frame, total, bytes]
  callbacks, \* output callbacks inside DecodedOutputQueue::enqueue
  frames,    \* how many frames the client has started to send
  delivered, \* history: outputs OP_DEQUEUE_DECODED_FRAME returned, [output, session, frame]
  released,  \* history: outputs OP_RELEASE_DECODED_FRAME dropped, [output, session, frame]
  failed,    \* history: <<session, frame>> whose callback reported an error
  reported   \* history: <<session, frame>> since whose failure the client was told an error

queueVars == <<queued, session_queues, next_output_id, decode_errors>>
modeVars == <<mode, open>>
sessVars == <<next_host_id, decode_sessions, pending_encoded_frames>>
vtVars == <<inflight, callbacks>>
histVars == <<delivered, released, failed, reported>>
vars == <<modeVars, sessVars, queueVars, vtVars, polling, frames, histVars>>

Put(f, k, v) == [x \in DOMAIN f \cup {k} |-> IF x = k THEN v ELSE f[x]]
Without(f, S) == [x \in DOMAIN f \ S |-> f[x]]
EmptyMap == [x \in {} |-> 0]

Init ==
  /\ mode \in Modes /\ open = TRUE
  /\ next_host_id = 1 /\ decode_sessions = EmptyMap /\ pending_encoded_frames = EmptyMap
  /\ queued = EmptyMap /\ session_queues = EmptyMap /\ next_output_id = 1
  /\ decode_errors = EmptyMap
  /\ polling = 0 /\ inflight = {} /\ callbacks = {} /\ frames = 0
  /\ delivered = {} /\ released = {} /\ failed = {} /\ reported = {}

(* The connection thread is between requests.                               *)
Ready == open /\ polling = 0 /\ (mode.synchronous => inflight = {} /\ callbacks = {})

NoCallback(s) == \A c \in callbacks : c.session # s

-----------------------------------------------------------------------------
(* Sessions.                                                                *)

NewSession == [format |-> FALSE, vt |-> FALSE, chunked |-> FALSE]

(* OP_CREATE_SESSION, decode kind: no VideoToolbox session yet.             *)
CreateSession ==
  /\ Ready /\ next_host_id <= mode.sessions
  /\ next_host_id' = next_host_id + 1
  /\ decode_sessions' = Put(decode_sessions, next_host_id, NewSession)
  /\ UNCHANGED <<modeVars, pending_encoded_frames, queueVars, vtVars, polling, frames, histVars>>

(* OP_SET_DECODE_FORMAT, once its parameter sets make a format description. *)
(* An existing VideoToolbox session that accepts it is kept; otherwise it   *)
(* is dropped, its frames with it (a running callback finishes first), and  *)
(* a new one made.  When that fails the session keeps its old format and    *)
(* has no VideoToolbox session.                                             *)
SetDecodeFormat(s) ==
  /\ Ready /\ s \in DOMAIN decode_sessions
  /\ \/ /\ decode_sessions[s].vt
        /\ UNCHANGED <<decode_sessions, inflight>>
     \/ /\ NoCallback(s)
        /\ inflight' = {f \in inflight : f.session # s}
        /\ \/ decode_sessions' = [decode_sessions EXCEPT ![s].vt = TRUE, ![s].format = TRUE]
           \/ "create" \in Faults /\ decode_sessions' = [decode_sessions EXCEPT ![s].vt = FALSE]
  /\ UNCHANGED <<modeVars, next_host_id, pending_encoded_frames, queueVars, callbacks, polling,
                 frames, histVars>>

(* OP_BIND_DECODE_OUTPUT_POOL with pool id 0; a second bind is refused.     *)
BindDecodeOutputPool(s) ==
  /\ Ready /\ s \in DOMAIN decode_sessions /\ ~decode_sessions[s].chunked
  /\ decode_sessions' = [decode_sessions EXCEPT ![s].chunked = TRUE]
  /\ UNCHANGED <<modeVars, next_host_id, pending_encoded_frames, queueVars, vtVars, polling,
                 frames, histVars>>

(* OP_DESTROY_SESSION, decode branch: the session and its VideoToolbox      *)
(* session go.  The queue's entries and a half-assembled frame stay.        *)
DestroySession(s) ==
  /\ Ready /\ s \in DOMAIN decode_sessions /\ NoCallback(s)
  /\ decode_sessions' = Without(decode_sessions, {s})
  /\ inflight' = {f \in inflight : f.session # s}
  /\ UNCHANGED <<modeVars, next_host_id, pending_encoded_frames, queueVars, callbacks, polling,
                 frames, histVars>>

(* OP_DRAIN, decode branch: VideoToolbox has called back for all frames of  *)
(* the session when the reply comes.                                        *)
Drain(s) ==
  /\ Ready /\ s \in DOMAIN decode_sessions /\ NoCallback(s)
  /\ \A f \in inflight : f.session # s
  /\ UNCHANGED vars

(* The connection ends.  Its thread drops the backend, and the queue with   *)
(* it, after callbacks that run.                                            *)
ConnectionLost ==
  /\ "connection" \in Faults /\ Ready /\ callbacks = {}
  /\ open' = FALSE
  /\ decode_sessions' = EmptyMap /\ pending_encoded_frames' = EmptyMap
  /\ queued' = EmptyMap /\ session_queues' = EmptyMap /\ decode_errors' = EmptyMap
  /\ inflight' = {}
  /\ UNCHANGED <<mode, next_host_id, next_output_id, callbacks, polling, frames, histVars>>

-----------------------------------------------------------------------------
(* Encoded frames.                                                          *)

(* The bytes of a frame from one offset up to another.                      *)
Bytes(from, to) == [i \in 1 .. to - from |-> from + i]

(* dispatch_decode_assembled_frame: a frame without a format description or *)
(* a VideoToolbox session, or that VideoToolbox refuses, has no effect.     *)
Dispatch(s, frame, total, bytes) ==
  \/ /\ s \in DOMAIN decode_sessions /\ decode_sessions[s].format /\ decode_sessions[s].vt
     /\ inflight' = inflight \cup {[session |-> s, frame |-> frame, total |-> total, bytes |-> bytes]}
  \/ /\ s \in DOMAIN decode_sessions
     /\ ~(decode_sessions[s].format /\ decode_sessions[s].vt) \/ "decode" \in Faults
     /\ UNCHANGED inflight

(* OP_ENQUEUE_ENCODED_FRAME.                                                *)
EnqueueEncodedFrame(s, encoded_size) ==
  /\ Ready /\ frames < mode.frames
  /\ encoded_size \in 1 .. MAX_ENCODED_FRAME_BYTES
  /\ frames' = frames + 1
  /\ Dispatch(s, frames + 1, encoded_size, Bytes(0, encoded_size))
  /\ UNCHANGED <<modeVars, sessVars, queueVars, callbacks, polling, histVars>>

(* The checks OP_ENQUEUE_ENCODED_FRAME_CHUNK makes before it touches state. *)
ChunkInBounds(offset, length, total, final) ==
  /\ total \in 1 .. MAX_CHUNKED_ENCODED_FRAME_BYTES
  /\ offset + length <= total
  /\ length > 0 \/ final

(* Mutant: a chunk that is not the head may start anywhere.                 *)
AppendsAnywhere(s, offset, total) ==
  /\ s \in DOMAIN pending_encoded_frames
  /\ pending_encoded_frames[s].total_size = total

(* A later chunk continues the assembly: same total, next byte.             *)
Appends(s, offset, total) ==
  /\ s \in DOMAIN pending_encoded_frames
  /\ pending_encoded_frames[s].total_size = total
  /\ Len(pending_encoded_frames[s].bytes) = offset

(* OP_ENQUEUE_ENCODED_FRAME_CHUNK.  A head chunk (offset 0) starts a frame  *)
(* and replaces an unfinished one; the final chunk ends the assembly and,   *)
(* when the frame is complete, hands it to VideoToolbox.                    *)
EnqueueEncodedFrameChunk(s, offset, length, total, final) ==
  LET data == Bytes(offset, offset + length)
      assembly ==
        IF offset = 0 THEN [frame |-> frames + 1, total_size |-> total, bytes |-> data]
        ELSE [pending_encoded_frames[s] EXCEPT !.bytes = @ \o data]
  IN  /\ Ready /\ ChunkInBounds(offset, length, total, final)
      /\ s \in DOMAIN decode_sessions
      /\ IF offset = 0 THEN frames < mode.frames /\ frames' = frames + 1
                       ELSE Appends(s, offset, total) /\ UNCHANGED frames
      /\ IF final
         THEN /\ pending_encoded_frames' = Without(pending_encoded_frames, {s})
              /\ IF Len(assembly.bytes) = assembly.total_size
                 THEN Dispatch(s, assembly.frame, assembly.total_size, assembly.bytes)
                 ELSE UNCHANGED inflight
         ELSE /\ pending_encoded_frames' = Put(pending_encoded_frames, s, assembly)
              /\ UNCHANGED inflight
      /\ UNCHANGED <<modeVars, next_host_id, decode_sessions, queueVars, callbacks, polling, histVars>>

-----------------------------------------------------------------------------
(* VideoToolbox's callback, on a thread of VideoToolbox's.                  *)

Advanced(id) == id + 1

(* A decoded image: DecodedOutputQueue::enqueue draws an id, ...            *)
CallbackTakeId(f) ==
  /\ f \in inflight /\ NoCallback(f.session)
  /\ inflight' = inflight \ {f}
  /\ callbacks' = callbacks \cup {[session |-> f.session, frame |-> f.frame,
                                   output |-> next_output_id, stored |-> FALSE]}
  /\ next_output_id' = Advanced(next_output_id)
  /\ UNCHANGED <<modeVars, sessVars, queued, session_queues, decode_errors, polling, frames, histVars>>

(* ... stores the image under it, ...                                       *)
CallbackStore(c) ==
  /\ c \in callbacks /\ ~c.stored
  /\ callbacks' = (callbacks \ {c}) \cup {[c EXCEPT !.stored = TRUE]}
  /\ queued' = Put(queued, c.output, [session |-> c.session, frame |-> c.frame])
  /\ UNCHANGED <<modeVars, sessVars, session_queues, next_output_id, decode_errors, inflight,
                 polling, frames, histVars>>

Fifo(s) == IF s \in DOMAIN session_queues THEN session_queues[s] ELSE <<>>

(* Mutant: the newest frame goes to the front of the FIFO.                  *)
PushFront(q, o) == <<o>> \o q

(* Mutant: a FIFO that has an entry already is left as it is.               *)
PushFirstOnly(q, o) == IF q = <<>> THEN <<o>> ELSE q

PushBack(q, o) == Append(q, o)

(* ... and appends the id to the session's FIFO.                            *)
CallbackPush(c) ==
  /\ c \in callbacks /\ c.stored
  /\ callbacks' = callbacks \ {c}
  /\ session_queues' = Put(session_queues, c.session, PushBack(Fifo(c.session), c.output))
  /\ UNCHANGED <<modeVars, sessVars, queued, next_output_id, decode_errors, inflight, polling,
                 frames, histVars>>

(* Mutant: the error status is dropped in the callback.                     *)
RecordNothing(s, f) == decode_errors

(* record_decode_error replaces an error the client has not read yet.       *)
RecordError(s, f) == Put(decode_errors, s, f)

(* No image, or an error status.                                            *)
CallbackError(f) ==
  /\ "callback" \in Faults /\ f \in inflight /\ NoCallback(f.session)
  /\ inflight' = inflight \ {f}
  /\ decode_errors' = RecordError(f.session, f.frame)
  /\ failed' = failed \cup {<<f.session, f.frame>>}
  /\ UNCHANGED <<modeVars, sessVars, queued, session_queues, next_output_id, callbacks, polling,
                 frames, delivered, released, reported>>

-----------------------------------------------------------------------------
(* Decoded frames.                                                          *)

(* Mutant: a frame leaves the map when it is dequeued.                      *)
RemovedWhenDequeued(o) == Without(queued, {o})

(* What the map holds after a dequeue of o: the image stays, for the reads. *)
KeptWhenDequeued(o) == queued

Record(o) == [output |-> o, session |-> queued[o].session, frame |-> queued[o].frame]

(* OP_DEQUEUE_DECODED_FRAME, FIFO not empty: the front is popped and, if it *)
(* still names a frame, returned.                                           *)
DequeueDecodedFrame(s) ==
  LET o == Head(Fifo(s))
  IN  /\ Ready /\ s \in DOMAIN decode_sessions /\ Fifo(s) # <<>>
      /\ session_queues' = [session_queues EXCEPT ![s] = Tail(@)]
      /\ delivered' = delivered \cup {Record(i) : i \in {o} \cap DOMAIN queued}
      /\ queued' = KeptWhenDequeued(o)
      /\ UNCHANGED <<modeVars, sessVars, next_output_id, decode_errors, vtVars, polling, frames,
                     released, failed, reported>>

(* Mutant: the sticky error is looked up although frames are waiting.       *)
FifoIgnored(s) == Fifo(s) = <<>> \/ s \in DOMAIN decode_errors

FifoEmpty(s) == Fifo(s) = <<>>

(* FIFO empty: the handler lets the FIFO's lock go, ...                     *)
DequeueFoundEmpty(s) ==
  /\ Ready /\ s \in DOMAIN decode_sessions /\ FifoEmpty(s)
  /\ polling' = s
  /\ UNCHANGED <<modeVars, sessVars, queueVars, vtVars, frames, histVars>>

(* ... and then takes the sticky error, if there is one, for its reply      *)
(* (take_decode_error); otherwise the request times out.                    *)
TakeDecodeError ==
  /\ polling # 0
  /\ polling' = 0
  /\ decode_errors' = Without(decode_errors, {polling})
  /\ reported' = reported \cup
       {e \in failed : e[1] = polling /\ polling \in DOMAIN decode_errors}
  /\ UNCHANGED <<modeVars, sessVars, queued, session_queues, next_output_id, vtVars, frames,
                 delivered, released, failed>>

(* OP_RELEASE_DECODED_FRAME: no session is named, and none is needed.       *)
ReleaseDecodedFrameStatus(o) == IF o \in DOMAIN queued THEN "OK" ELSE "INVALID_HANDLE"

ReleaseDecodedFrame(o) ==
  /\ Ready /\ ReleaseDecodedFrameStatus(o) = "OK"
  /\ queued' = Without(queued, {o})
  /\ released' = released \cup {Record(o)}
  /\ UNCHANGED <<modeVars, sessVars, session_queues, next_output_id, decode_errors, vtVars, polling,
                 frames, delivered, failed, reported>>

-----------------------------------------------------------------------------
(* The client names any session, and sends chunks of any shape.             *)
Sizes == 0 .. mode.largest

Poll(s) == DequeueDecodedFrame(s) \/ DequeueFoundEmpty(s)

Request ==
  \/ CreateSession
  \/ \E s \in DOMAIN decode_sessions :
       \/ SetDecodeFormat(s) \/ BindDecodeOutputPool(s) \/ DestroySession(s) \/ Poll(s)
       \/ \E n \in Sizes : EnqueueEncodedFrame(s, n)
       \/ \E offset, length, total \in Sizes, final \in BOOLEAN :
            EnqueueEncodedFrameChunk(s, offset, length, total, final)
  \/ TakeDecodeError
  \/ \E o \in DOMAIN queued : ReleaseDecodedFrame(o)
  \/ ConnectionLost

VideoToolbox ==
  \/ \E f \in inflight : CallbackTakeId(f) \/ CallbackError(f)
  \/ \E c \in callbacks : CallbackStore(c) \/ CallbackPush(c)

Next == Request \/ VideoToolbox

Spec == Init /\ [][Next]_vars

-----------------------------------------------------------------------------
(* Properties.                                                              *)

(* Whatever chunks are lost, repeated, reordered or abandoned, what reaches *)
(* VideoToolbox is a whole frame: all the bytes its head announced, in      *)
(* order (OP_ENQUEUE_ENCODED_FRAME_CHUNK's checks of offset and total).     *)
WholeFrames ==
  \A f \in inflight : f.bytes = Bytes(0, f.total) /\ f.total > 0

(* A frame the client was given stays readable until the client releases    *)
(* it: the image buffer is held in the map after the dequeue.               *)
ReadableUntilReleased ==
  open => \A d \in delivered \ released : d.output \in DOMAIN queued

(* "The sticky slot is consumed at OP_DEQUEUE_DECODED_FRAME time once the   *)
(* FIFO is drained, so good frames preceding the error still flow through": *)
(* no error is reported while a decoded frame waits, unless VideoToolbox    *)
(* calls back between the handler's two looks.                              *)
ErrorAfterFrames ==
  [][open' /\ mode.synchronous =>
       \A s \in DOMAIN decode_errors : s \notin DOMAIN decode_errors' => Fifo(s) = <<>>]_vars

(* The frame n of session s.                                                *)
InFlight(s, n) == \E f \in inflight : f.session = s /\ f.frame = n
Answered(s, n) == \/ \E d \in delivered \cup released : d.session = s /\ d.frame = n
                  \/ <<s, n>> \in reported

(* A client that keeps polling gets an answer for every frame VideoToolbox  *)
(* accepted: the frame, or an error of the session since the frame failed   *)
(* (the last error, if several came before it polled).  Or the client       *)
(* destroys the session or releases the frame unseen.  (Asynchronous frames *)
(* can also fall victim to a change of format.)                             *)
FramesAnswered ==
  \A m \in {m \in Modes : m.client = "any" /\ m.synchronous} :
    \A s \in 1 .. m.sessions, n \in 1 .. m.frames :
      (mode = m /\ InFlight(s, n)) ~> (Answered(s, n) \/ s \notin DOMAIN decode_sessions)
=============================================================================
