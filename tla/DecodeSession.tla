--------------------------- MODULE DecodeSession ----------------------------
(***************************************************************************)
(* VTDecompressionSession of the guest shim, in front of DecodeBackend.     *)
(* Every session is driven by one thread of the application.  The transport *)
(* carries one request at a time, so a step of a thread that sends one is   *)
(* the backend's handling of the request together with what the thread does *)
(* with the reply.                                                          *)
(*                                                                         *)
(* A session has the same name in the guest and on the worker: its host id. *)
(* In a mode with client "any" the backend serves a client that is not the  *)
(* shim, and the guest's variables never change.                            *)
(***************************************************************************)
EXTENDS DecodeBackend

VARIABLES
  object,    \* per session: "none", "creating", "live", "invalidated", "finalized"
  options,   \* per session: [chunked, callback], what it was created with
  pc,        \* per session: the next request or step of the call in progress
  call,      \* per session: the last call made, "create", "decode" or "wait"
  status,    \* per session: "none" while the call runs, then what it returned
  sending,   \* per session: [size, offset], the chunked frame being sent
  output,    \* per session: the output in the drain loop's hands, or 0
  accepted,  \* history, per session: frames whose enqueue succeeded
  unread,    \* history, per session: frames whose pixels could not be read
  called     \* history, per session: outputs handed to the output callback

guestVars == <<object, options, pc, call, status, sending, output, accepted, unread, called>>
allVars == <<vars, guestVars>>

NoOptions == [chunked |-> FALSE, callback |-> FALSE]
NotSending == [size |-> 0, offset |-> 0]

SessionInit ==
  /\ Init
  /\ object = [s \in SessionIds |-> "none"]
  /\ options = [s \in SessionIds |-> NoOptions]
  /\ pc = [s \in SessionIds |-> "idle"]
  /\ call = [s \in SessionIds |-> "none"]
  /\ status = [s \in SessionIds |-> "none"]
  /\ sending = [s \in SessionIds |-> NotSending]
  /\ output = [s \in SessionIds |-> 0]
  /\ accepted = [s \in SessionIds |-> {}]
  /\ unread = [s \in SessionIds |-> {}]
  /\ called = [s \in SessionIds |-> <<>>]

Idle(s) == object[s] = "live" /\ pc[s] = "idle"

Goto(s, label) == pc' = [pc EXCEPT ![s] = label]
Return(s, result) == Goto(s, "idle") /\ status' = [status EXCEPT ![s] = result]

(* A call starts: its status is not known yet.                              *)
Begin(s, name) ==
  /\ call' = [call EXCEPT ![s] = name]
  /\ status' = [status EXCEPT ![s] = "none"]

-----------------------------------------------------------------------------
(* VTDecompressionSessionCreate.                                            *)

(* OP_CREATE_SESSION reserves the id.                                       *)
VTDecompressionSessionCreate(s, opts) ==
  /\ object[s] = "none" /\ s = next_host_id
  /\ CreateSession
  /\ object' = [object EXCEPT ![s] = "creating"]
  /\ options' = [options EXCEPT ![s] = opts]
  /\ Begin(s, "create") /\ Goto(s, "format")
  /\ UNCHANGED <<sending, output, accepted, unread, called>>

(* The new object is handed to the application.                             *)
Created(s) == object' = [object EXCEPT ![s] = "live"] /\ Return(s, "ok")

(* OP_SET_DECODE_FORMAT, unless vtf_pack_decode_format_payload finds no     *)
(* parameter sets to send.                                                  *)
SendFormat(s) ==
  /\ pc[s] = "format"
  /\ \/ /\ SetDecodeFormat(s)
        /\ IF ~decode_sessions'[s].vt THEN Goto(s, "abandon") /\ UNCHANGED <<object, status>>
           ELSE IF options[s].chunked THEN Goto(s, "bind") /\ UNCHANGED <<object, status>>
           ELSE Created(s)
     \/ Goto(s, "abandon") /\ UNCHANGED <<vars, object, status>>
  /\ UNCHANGED <<options, call, sending, output, accepted, unread, called>>

(* needs_chunked: OP_BIND_DECODE_OUTPUT_POOL.                               *)
SendBind(s) ==
  /\ pc[s] = "bind"
  /\ BindDecodeOutputPool(s)
  /\ Created(s)
  /\ UNCHANGED <<options, call, sending, output, accepted, unread, called>>

(* A failure after OP_CREATE_SESSION gives the id back.                     *)
Abandon(s) ==
  /\ pc[s] = "abandon"
  /\ DestroySession(s)
  /\ object' = [object EXCEPT ![s] = "finalized"]
  /\ Return(s, "error")
  /\ UNCHANGED <<options, call, sending, output, accepted, unread, called>>

-----------------------------------------------------------------------------
(* VTDecompressionSessionDecodeFrame.                                       *)

(* What the reply to the frame's last request means: VideoToolbox took it,  *)
(* and the outputs that are ready are drained; or the call fails.           *)
Submitted(s) ==
  /\ accepted' = [accepted EXCEPT ![s] = @ \cup {f.frame : f \in inflight' \ inflight}]
  /\ IF inflight' # inflight THEN Goto(s, "drain") /\ status' = [status EXCEPT ![s] = "none"]
                             ELSE Return(s, "error")

(* Bound: frames sent, and frames about to be.                              *)
MayDecode ==
  LET waiting == {t \in SessionIds : pc[t] = "send" /\ sending[t].offset = 0}
  IN  frames + Cardinality(waiting) < mode.frames

(* vtf_decompression_enqueue_inline.                                        *)
EnqueueInline(s, size) ==
  /\ Idle(s) /\ MayDecode
  /\ size <= MAX_ENCODED_FRAME_BYTES
  /\ EnqueueEncodedFrame(s, size)
  /\ call' = [call EXCEPT ![s] = "decode"]
  /\ Submitted(s)
  /\ UNCHANGED <<object, options, sending, output, unread, called>>

(* vtf_decompression_enqueue_chunked: a larger frame goes in chunks.        *)
EnqueueChunked(s, size) ==
  /\ Idle(s) /\ MayDecode
  /\ size > MAX_ENCODED_FRAME_BYTES
  /\ Begin(s, "decode") /\ Goto(s, "send")
  /\ sending' = [sending EXCEPT ![s] = [size |-> size, offset |-> 0]]
  /\ UNCHANGED <<vars, object, options, output, accepted, unread, called>>

(* The loop of enqueue_encoded_frame_chunked: the next chunk is what is     *)
(* left of the frame, or as much as a chunk can carry.                      *)
chunk_len(s) ==
  LET left == sending[s].size - sending[s].offset
  IN  IF left < MAX_ENCODED_FRAME_BYTES THEN left ELSE MAX_ENCODED_FRAME_BYTES

is_final(s) == sending[s].offset + chunk_len(s) = sending[s].size

NextChunk(s) ==
  IF is_final(s) THEN NotSending ELSE [sending[s] EXCEPT !.offset = @ + chunk_len(s)]

(* The first chunk the worker refuses ends it.                              *)
SendChunk(s) ==
  LET size == sending[s].size
      offset == sending[s].offset
  IN  /\ pc[s] = "send"
      /\ \/ /\ EnqueueEncodedFrameChunk(s, offset, chunk_len(s), size, is_final(s))
            /\ sending' = [sending EXCEPT ![s] = NextChunk(s)]
            /\ IF is_final(s) THEN Submitted(s) ELSE UNCHANGED <<pc, status, accepted>>
         \/ /\ Ready /\ ~ChunkInBounds(offset, chunk_len(s), size, is_final(s))
            /\ sending' = [sending EXCEPT ![s] = NotSending]
            /\ Return(s, "error")
            /\ UNCHANGED <<vars, accepted>>
      /\ UNCHANGED <<object, options, call, output, unread, called>>

-----------------------------------------------------------------------------
(* VTDecompressionSessionWaitForAsynchronousFrames, and                     *)
(* VTDecompressionSessionFinishDelayedFrames, which calls it.               *)

(* Bound: the application does not wait twice in a row.                     *)
VTDecompressionSessionWaitForAsynchronousFrames(s) ==
  /\ Idle(s) /\ call[s] # "wait"
  /\ Begin(s, "wait") /\ Goto(s, "wait")
  /\ UNCHANGED <<vars, object, options, sending, output, accepted, unread, called>>

(* Mutant: the local drain starts without OP_DRAIN.                         *)
SendNoDrain(s) ==
  /\ pc[s] = "wait"
  /\ Goto(s, "drain")
  /\ UNCHANGED <<vars, object, options, call, status, sending, output, accepted, unread, called>>

(* OP_DRAIN.                                                                *)
SendDrain(s) ==
  /\ pc[s] = "wait"
  /\ \/ Drain(s) /\ Goto(s, "drain") /\ UNCHANGED status
     \/ "wait" \in Faults /\ Ready /\ Return(s, "error") /\ UNCHANGED vars
  /\ UNCHANGED <<object, options, call, sending, output, accepted, unread, called>>

-----------------------------------------------------------------------------
(* vtf_drain_decoded_frames.                                                *)

(* OP_DEQUEUE_DECODED_FRAME.  A frame is read if there is a callback to     *)
(* hand it to; an empty FIFO leads to the sticky error; an id without a     *)
(* frame reads as a timeout; a session that is gone is an error.            *)
Dequeue(s) ==
  LET o == Head(Fifo(s))
  IN  /\ pc[s] = "drain"
      /\ \/ /\ DequeueDecodedFrame(s)
            /\ output' = [output EXCEPT ![s] = o]
            /\ IF o \notin DOMAIN queued THEN Return(s, "ok")
               ELSE /\ Goto(s, IF options[s].callback THEN "read" ELSE "release")
                    /\ UNCHANGED status
         \/ /\ DequeueFoundEmpty(s)
            /\ Goto(s, "polled")
            /\ UNCHANGED <<status, output>>
         \/ /\ Ready /\ s \notin DOMAIN decode_sessions
            /\ Return(s, "error")
            /\ UNCHANGED <<vars, output>>
      /\ UNCHANGED <<object, options, call, sending, accepted, unread, called>>

(* Mutant: a timeout is polled again.                                       *)
DequeuedNothingAgain(s) ==
  /\ pc[s] = "polled" /\ polling = s
  /\ TakeDecodeError
  /\ IF s \in DOMAIN decode_errors THEN Return(s, "vt_error")
     ELSE Goto(s, "drain") /\ UNCHANGED status
  /\ UNCHANGED <<object, options, call, sending, output, accepted, unread, called>>

(* The reply for an empty FIFO: output id 0 carries VideoToolbox's status,  *)
(* a timeout ends the loop.                                                 *)
DequeuedNothing(s) ==
  /\ pc[s] = "polled" /\ polling = s
  /\ TakeDecodeError
  /\ Return(s, IF s \in DOMAIN decode_errors THEN "vt_error" ELSE "ok")
  /\ UNCHANGED <<object, options, call, sending, output, accepted, unread, called>>

FrameOf(o) == queued[o].frame

(* Mutant: a failed read returns at once.                                   *)
ReadFailedUnreleased(s) ==
  /\ unread' = [unread EXCEPT ![s] = @ \cup {FrameOf(output[s])}]
  /\ Return(s, "error")

(* A failed or truncated read gives the output back and ends the call.      *)
ReadFailed(s) ==
  /\ unread' = [unread EXCEPT ![s] = @ \cup {FrameOf(output[s])}]
  /\ status' = [status EXCEPT ![s] = "error"]
  /\ Goto(s, "release")

(* OP_READ_DECODED_FRAME, or OP_READ_DECODED_FRAME_CHUNK until the frame is *)
(* complete; then the pixel buffer is built and the callback called.        *)
ReadPixels(s) ==
  /\ pc[s] = "read" /\ Ready
  /\ \/ /\ s \in DOMAIN decode_sessions /\ output[s] \in DOMAIN queued
        /\ called' = [called EXCEPT ![s] =
                        Append(@, [output |-> output[s], frame |-> FrameOf(output[s])])]
        /\ Goto(s, "callback")
        /\ UNCHANGED <<status, unread>>
     \/ /\ "read" \in Faults
        /\ ReadFailed(s)
        /\ UNCHANGED called
  /\ UNCHANGED <<vars, object, options, call, sending, output, accepted>>

(* The application's callback invalidates or releases the session ...       *)
EndInCallback(s) ==
  /\ pc[s] = "callback" /\ object[s] = "live"
  /\ DestroySession(s)
  /\ object' = [object EXCEPT ![s] = "invalidated"]
  /\ UNCHANGED <<options, pc, call, status, sending, output, accepted, unread, called>>

(* ... or not, and returns.  The drain loop goes on with the ids it copied. *)
CallbackReturns(s) ==
  /\ pc[s] = "callback"
  /\ Goto(s, "release")
  /\ UNCHANGED <<vars, object, options, call, status, sending, output, accepted, unread, called>>

AfterRelease(s) == Goto(s, IF status[s] = "none" THEN "drain" ELSE "idle")

(* OP_RELEASE_DECODED_FRAME, whatever the worker answers.                   *)
ReleaseOutput(s) ==
  /\ pc[s] = "release"
  /\ \/ ReleaseDecodedFrame(output[s])
     \/ Ready /\ ReleaseDecodedFrameStatus(output[s]) # "OK" /\ UNCHANGED vars
  /\ output' = [output EXCEPT ![s] = 0]
  /\ AfterRelease(s)
  /\ UNCHANGED <<object, options, call, status, sending, accepted, unread, called>>

-----------------------------------------------------------------------------
(* The end of a session.                                                    *)

(* VTDecompressionSessionInvalidate: a failure to destroy is ignored.       *)
VTDecompressionSessionInvalidate(s) ==
  /\ Idle(s)
  /\ DestroySession(s) \/ (~open /\ UNCHANGED vars)
  /\ object' = [object EXCEPT ![s] = "invalidated"]
  /\ UNCHANGED <<options, pc, call, status, sending, output, accepted, unread, called>>

(* The last CFRelease: vtf_finalize_vt_decompression_session.               *)
ReleaseSession(s) ==
  /\ object[s] \in {"live", "invalidated"} /\ pc[s] = "idle"
  /\ \/ object[s] = "live" /\ DestroySession(s)
     \/ (object[s] = "invalidated" \/ ~open) /\ UNCHANGED vars
  /\ object' = [object EXCEPT ![s] = "finalized"]
  /\ UNCHANGED <<options, pc, call, status, sending, output, accepted, unread, called>>

-----------------------------------------------------------------------------
(* A request after the connection is lost fails, and the call goes on as    *)
(* its error path says.                                                     *)
RequestFails(s) ==
  /\ ~open
  /\ \/ /\ pc[s] \in {"format", "bind"} /\ Goto(s, "abandon")
        /\ UNCHANGED <<object, status, output>>
     \/ /\ pc[s] = "abandon" /\ Return(s, "error")
        /\ object' = [object EXCEPT ![s] = "finalized"]
        /\ UNCHANGED output
     \/ /\ pc[s] \in {"send", "wait", "drain"} /\ Return(s, "error")
        /\ UNCHANGED <<object, output>>
     \/ /\ pc[s] = "read" /\ Goto(s, "release")
        /\ status' = [status EXCEPT ![s] = "error"]
        /\ UNCHANGED <<object, output>>
     \/ /\ pc[s] = "release" /\ AfterRelease(s)
        /\ output' = [output EXCEPT ![s] = 0]
        /\ UNCHANGED <<object, status>>
  /\ sending' = [sending EXCEPT ![s] = NotSending]
  /\ UNCHANGED <<vars, options, call, accepted, unread, called>>

(* The steps of a call in progress.                                         *)
Works(s) ==
  \/ SendFormat(s) \/ SendBind(s) \/ Abandon(s)
  \/ SendChunk(s) \/ SendDrain(s)
  \/ Dequeue(s) \/ DequeuedNothing(s) \/ ReadPixels(s) \/ CallbackReturns(s) \/ ReleaseOutput(s)
  \/ RequestFails(s)

Application(s) ==
  \/ \E opts \in mode.options : VTDecompressionSessionCreate(s, opts)
  \/ \E size \in Sizes : EnqueueInline(s, size) \/ EnqueueChunked(s, size)
  \/ VTDecompressionSessionWaitForAsynchronousFrames(s)
  \/ EndInCallback(s)
  \/ VTDecompressionSessionInvalidate(s)
  \/ ReleaseSession(s)

Guest == mode.client = "shim" /\ \E s \in SessionIds : Application(s) \/ Works(s)
AnyClient == mode.client = "any" /\ Request /\ UNCHANGED guestVars
Worker == (VideoToolbox \/ (mode.client = "shim" /\ ConnectionLost)) /\ UNCHANGED guestVars

SessionNext == Guest \/ AnyClient \/ Worker

SessionSpec == SessionInit /\ [][SessionNext]_allVars

(* VideoToolbox calls back for every frame it took; a thread inside a call  *)
(* goes on; a client that is not the shim keeps polling its sessions.       *)
Fairness ==
  /\ WF_allVars(VideoToolbox /\ UNCHANGED guestVars)
  /\ WF_allVars(mode.client = "any" /\ TakeDecodeError /\ UNCHANGED guestVars)
  /\ \A s \in SessionIds :
       /\ WF_allVars(mode.client = "any" /\ Poll(s) /\ UNCHANGED guestVars)
       /\ WF_allVars(mode.client = "shim" /\ Works(s))

FairSpec == SessionSpec /\ Fairness

-----------------------------------------------------------------------------
(* Properties.                                                              *)

(* The output callback is called with the frames its own session sent, each *)
(* once and in the order VideoToolbox delivered them, although the worker's *)
(* queue is shared and keeps the frames of sessions that were destroyed.    *)
CalledInOrder ==
  \A s \in SessionIds :
    /\ \A i, j \in DOMAIN called[s] : i < j => called[s][i].output < called[s][j].output
    /\ \A i, j \in DOMAIN called[s] : i # j => called[s][i].frame # called[s][j].frame
    /\ \A i \in DOMAIN called[s] : called[s][i].frame \in accepted[s]

CalledBack(s, n) == \E i \in DOMAIN called[s] : called[s][i].frame = n
Dropped(s, n) == \E d \in released : d.session = s /\ d.frame = n

(* "Without this, our local drain could return before VT has emitted the    *)
(* tail of the stream": when WaitForAsynchronousFrames returns 0 or         *)
(* VideoToolbox's error, every frame of the session that DecodeFrame took   *)
(* has been handed to the callback (or released unread when there is none), *)
(* or its failure has been returned by a call.                              *)
WaitMeansAll ==
  \A s \in SessionIds :
    pc[s] = "idle" /\ call[s] = "wait" /\ status[s] \in {"ok", "vt_error"} =>
      \A n \in accepted[s] :
        \/ CalledBack(s, n) \/ n \in unread[s] \/ <<s, n>> \in reported
        \/ ~options[s].callback /\ Dropped(s, n)

(* "Without releases, the worker's decoded_output_state would grow          *)
(* unbounded": the worker holds a dequeued frame only while the drain loop  *)
(* has it in hand, on the paths without a callback, with a failed read and  *)
(* with a callback that ended the session too.                              *)
OutputsReturned ==
  open /\ mode.client = "shim" =>
    \A d \in delivered \ released :
      /\ pc[d.session] \in {"read", "callback", "release"}
      /\ output[d.session] = d.output

(* Create, DecodeFrame and WaitForAsynchronousFrames return, whatever       *)
(* VideoToolbox and the connection do.                                      *)
DecodeReturns ==
  \A s \in SessionIds : pc[s] # "idle" ~> pc[s] = "idle"
=============================================================================
