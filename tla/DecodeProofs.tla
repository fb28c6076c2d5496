---------------------------- MODULE DecodeProofs ----------------------------
(***************************************************************************)
(* Theorems about the shim's decompression sessions and the worker's decode *)
(* backend together (SessionSpec), for any modes: any number of sessions    *)
(* and frames, any sizes and any faults.                                    *)
(***************************************************************************)
EXTENDS DecodeSession, Integers, TLAPS

(* A leaf that the provers do not settle in their usual time gets more.     *)
USE SMTT(60), SMT, SMTT(30), ZenonT(60)

(* The chunk loop's position is within the frame.                           *)
SendingInv ==
  /\ mode \in ModeType
  /\ sending \in [SessionIds -> [size : Nat, offset : Nat]]
  /\ \A s \in SessionIds : sending[s].offset <= sending[s].size

(* The steps of the backend, whoever the client is: the sizes of a chunk    *)
(* are natural numbers.                                                     *)
BackendStep ==
  \/ CreateSession
  \/ \E s : \/ SetDecodeFormat(s) \/ BindDecodeOutputPool(s) \/ DestroySession(s)
            \/ DequeueDecodedFrame(s) \/ DequeueFoundEmpty(s)
  \/ \E s, n : EnqueueEncodedFrame(s, n)
  \/ \E s : \E offset, length \in Nat : \E total, final :
       EnqueueEncodedFrameChunk(s, offset, length, total, final)
  \/ TakeDecodeError
  \/ \E o : ReleaseDecodedFrame(o)
  \/ ConnectionLost
  \/ VideoToolbox
  \/ UNCHANGED vars

LEMMA SizesNat == mode \in ModeType => Sizes \subseteq Nat
  BY DEF ModeType, Sizes

LEMMA RequestIsStep == mode \in ModeType /\ Request => BackendStep
  <1> SUFFICES ASSUME mode \in ModeType, Request PROVE BackendStep
    OBVIOUS
  <1>1. Sizes \subseteq Nat
    BY SizesNat
  <1> QED
    BY <1>1 DEF Request, BackendStep, Poll

(* What a chunk request of the shim carries.                                *)
LEMMA ChunkSizes ==
  ASSUME SendingInv, NEW s \in SessionIds
  PROVE  /\ sending[s].offset \in Nat /\ sending[s].size \in Nat /\ chunk_len(s) \in Nat
         /\ sending[s].offset + chunk_len(s) <= sending[s].size
  <1>1. sending[s] \in [size : Nat, offset : Nat]
    BY DEF SendingInv
  <1> QED
    BY <1>1, DecodeAssumption DEF SendingInv, chunk_len

LEMMA ApplicationIsStep ==
  ASSUME NEW s \in SessionIds, Application(s)
  PROVE  BackendStep
  <1>1. ASSUME NEW opts, VTDecompressionSessionCreate(s, opts) PROVE CreateSession
    BY <1>1 DEF VTDecompressionSessionCreate
  <1>2. ASSUME NEW size, EnqueueInline(s, size) PROVE EnqueueEncodedFrame(s, size)
    BY <1>2 DEF EnqueueInline
  <1>3. ASSUME NEW size, EnqueueChunked(s, size) PROVE UNCHANGED vars
    BY <1>3 DEF EnqueueChunked
  <1>4. ASSUME VTDecompressionSessionWaitForAsynchronousFrames(s) PROVE UNCHANGED vars
    BY <1>4 DEF VTDecompressionSessionWaitForAsynchronousFrames
  <1>5. ASSUME EndInCallback(s) \/ VTDecompressionSessionInvalidate(s) \/ ReleaseSession(s)
        PROVE  DestroySession(s) \/ UNCHANGED vars
    BY <1>5 DEF EndInCallback, VTDecompressionSessionInvalidate, ReleaseSession
  <1> QED
    BY <1>1, <1>2, <1>3, <1>4, <1>5 DEF Application, BackendStep

LEMMA WorksIsStep ==
  ASSUME SendingInv, NEW s \in SessionIds, Works(s)
  PROVE  BackendStep
  <1>1. CASE SendFormat(s) \/ SendBind(s) \/ Abandon(s)
    BY <1>1 DEF SendFormat, SendBind, Abandon, BackendStep
  <1>2. CASE SendChunk(s)
    <2>1. sending[s].offset \in Nat /\ chunk_len(s) \in Nat
      BY ChunkSizes
    <2>2. \/ EnqueueEncodedFrameChunk(s, sending[s].offset, chunk_len(s), sending[s].size,
                                      is_final(s))
          \/ UNCHANGED vars
      BY <1>2 DEF SendChunk
    <2> QED
      BY <2>1, <2>2 DEF BackendStep
  <1>3. CASE SendDrain(s)
    BY <1>3 DEF SendDrain, Drain, BackendStep
  <1>4. CASE Dequeue(s)
    BY <1>4 DEF Dequeue, BackendStep
  <1>5. CASE DequeuedNothing(s)
    BY <1>5 DEF DequeuedNothing, BackendStep
  <1>6. CASE ReadPixels(s) \/ CallbackReturns(s)
    BY <1>6 DEF ReadPixels, CallbackReturns, BackendStep
  <1>7. CASE ReleaseOutput(s)
    BY <1>7 DEF ReleaseOutput, BackendStep
  <1>8. CASE RequestFails(s)
    BY <1>8 DEF RequestFails, BackendStep
  <1> QED
    BY <1>1, <1>2, <1>3, <1>4, <1>5, <1>6, <1>7, <1>8 DEF Works

(* Every step of the composition is one of the backend's, or leaves it      *)
(* alone.                                                                   *)
LEMMA IsBackendStep == SendingInv /\ [SessionNext]_allVars => BackendStep
  <1> SUFFICES ASSUME SendingInv, [SessionNext]_allVars PROVE BackendStep
    OBVIOUS
  <1>1. CASE Guest
    BY <1>1, ApplicationIsStep, WorksIsStep DEF Guest
  <1>2. CASE AnyClient
    BY <1>2, RequestIsStep DEF AnyClient, SendingInv
  <1>3. CASE Worker
    BY <1>3 DEF Worker, BackendStep
  <1>4. CASE UNCHANGED allVars
    BY <1>4 DEF allVars, BackendStep
  <1> QED
    BY <1>1, <1>2, <1>3, <1>4 DEF SessionNext

LEMMA ModeKept == BackendStep => mode' = mode
  <1> SUFFICES ASSUME BackendStep PROVE mode' = mode
    OBVIOUS
  <1> USE DEF modeVars
  <1>1. ASSUME NEW s, NEW offset, NEW length, NEW total, NEW final,
               EnqueueEncodedFrameChunk(s, offset, length, total, final)
        PROVE  mode' = mode
    BY <1>1 DEF EnqueueEncodedFrameChunk
  <1>2. ASSUME NEW s, NEW n, EnqueueEncodedFrame(s, n) PROVE mode' = mode
    BY <1>2 DEF EnqueueEncodedFrame
  <1>3. ASSUME NEW s, SetDecodeFormat(s) PROVE mode' = mode
    BY <1>3 DEF SetDecodeFormat
  <1>4. ASSUME NEW s, BindDecodeOutputPool(s) \/ DestroySession(s) PROVE mode' = mode
    BY <1>4 DEF BindDecodeOutputPool, DestroySession
  <1>5. ASSUME NEW s, DequeueDecodedFrame(s) \/ DequeueFoundEmpty(s) PROVE mode' = mode
    BY <1>5 DEF DequeueDecodedFrame, DequeueFoundEmpty
  <1>6. ASSUME NEW f, CallbackTakeId(f) \/ CallbackError(f) PROVE mode' = mode
    BY <1>6 DEF CallbackTakeId, CallbackError
  <1>7. ASSUME NEW c, CallbackStore(c) \/ CallbackPush(c) PROVE mode' = mode
    BY <1>7 DEF CallbackStore, CallbackPush
  <1>8. CASE CreateSession \/ TakeDecodeError
    BY <1>8 DEF CreateSession, TakeDecodeError
  <1>9. ASSUME NEW o, ReleaseDecodedFrame(o) PROVE mode' = mode
    BY <1>9 DEF ReleaseDecodedFrame
  <1>10. CASE ConnectionLost \/ UNCHANGED vars
    BY <1>10 DEF ConnectionLost, vars
  <1> QED
    BY <1>1, <1>2, <1>3, <1>4, <1>5, <1>6, <1>7, <1>8, <1>9, <1>10
       DEF BackendStep, VideoToolbox

(* No step sends a frame, or takes an assembly further.                     *)
FramesStay == UNCHANGED <<frames, pending_encoded_frames>> /\ inflight' \subseteq inflight

(* A step that sends a frame, the head or another chunk of one, does        *)
(* nothing else; the others send none.                                      *)
LEMMA FrameCases ==
  ASSUME BackendStep
  PROVE  \/ FramesStay
         \/ \E s, n : EnqueueEncodedFrame(s, n)
         \/ \E s : \E offset, length \in Nat : \E total, final :
              EnqueueEncodedFrameChunk(s, offset, length, total, final)
         \/ ConnectionLost
  <1> USE DEF FramesStay, sessVars, vtVars
  <1>1. ASSUME NEW s, SetDecodeFormat(s) PROVE FramesStay
    BY <1>1 DEF SetDecodeFormat
  <1>2. ASSUME NEW s, BindDecodeOutputPool(s) \/ DestroySession(s) PROVE FramesStay
    BY <1>2 DEF BindDecodeOutputPool, DestroySession
  <1>3. ASSUME NEW s, DequeueDecodedFrame(s) \/ DequeueFoundEmpty(s) PROVE FramesStay
    BY <1>3 DEF DequeueDecodedFrame, DequeueFoundEmpty
  <1>4. ASSUME NEW f, CallbackTakeId(f) \/ CallbackError(f) PROVE FramesStay
    BY <1>4 DEF CallbackTakeId, CallbackError
  <1>5. ASSUME NEW c, CallbackStore(c) \/ CallbackPush(c) PROVE FramesStay
    BY <1>5 DEF CallbackStore, CallbackPush
  <1>6. ASSUME CreateSession \/ TakeDecodeError PROVE FramesStay
    BY <1>6 DEF CreateSession, TakeDecodeError
  <1>7. ASSUME NEW o, ReleaseDecodedFrame(o) PROVE FramesStay
    BY <1>7 DEF ReleaseDecodedFrame
  <1>8. ASSUME UNCHANGED vars PROVE FramesStay
    BY <1>8 DEF vars
  <1> HIDE DEF FramesStay
  <1> QED
    BY <1>1, <1>2, <1>3, <1>4, <1>5, <1>6, <1>7, <1>8 DEF BackendStep, VideoToolbox

(* The outputs are left alone.                                              *)
OutputsStay ==
  UNCHANGED <<open, callbacks, queued, session_queues, next_output_id, delivered, released>>

LEMMA OutputCases ==
  ASSUME BackendStep
  PROVE  \/ OutputsStay
         \/ \E f \in inflight : CallbackTakeId(f)
         \/ \E c \in callbacks : CallbackStore(c) \/ CallbackPush(c)
         \/ \E s : DequeueDecodedFrame(s)
         \/ \E o : ReleaseDecodedFrame(o)
         \/ ConnectionLost
  <1> USE DEF OutputsStay, modeVars, queueVars, vtVars, histVars
  <1>1. ASSUME NEW s, SetDecodeFormat(s) PROVE OutputsStay
    BY <1>1 DEF SetDecodeFormat
  <1>2. ASSUME NEW s, BindDecodeOutputPool(s) \/ DestroySession(s) PROVE OutputsStay
    BY <1>2 DEF BindDecodeOutputPool, DestroySession
  <1>3. ASSUME NEW s, DequeueFoundEmpty(s) PROVE OutputsStay
    BY <1>3 DEF DequeueFoundEmpty
  <1>4. ASSUME NEW f, CallbackError(f) PROVE OutputsStay
    BY <1>4 DEF CallbackError
  <1>5. ASSUME NEW s, NEW offset, NEW length, NEW total, NEW final,
               EnqueueEncodedFrameChunk(s, offset, length, total, final)
        PROVE  OutputsStay
    BY <1>5 DEF EnqueueEncodedFrameChunk
  <1>6. ASSUME NEW s, NEW n, EnqueueEncodedFrame(s, n) PROVE OutputsStay
    BY <1>6 DEF EnqueueEncodedFrame
  <1>7. ASSUME CreateSession \/ TakeDecodeError PROVE OutputsStay
    BY <1>7 DEF CreateSession, TakeDecodeError
  <1>8. ASSUME UNCHANGED vars PROVE OutputsStay
    BY <1>8 DEF vars
  <1> HIDE DEF OutputsStay
  <1> QED
    BY <1>1, <1>2, <1>3, <1>4, <1>5, <1>6, <1>7, <1>8 DEF BackendStep, VideoToolbox

CallbackFields == {"session", "frame", "output", "stored"}

(* What the steps of the outputs do.                                        *)
LEMMA TakeIdEffect ==
  ASSUME NEW f, CallbackTakeId(f)
  PROVE  \E new :
           /\ DOMAIN new = CallbackFields /\ new.session = f.session /\ new.frame = f.frame
           /\ new.output = next_output_id /\ new.stored = FALSE
           /\ f \in inflight /\ \A c \in callbacks : c.session # f.session
           /\ inflight' = inflight \ {f} /\ callbacks' = callbacks \cup {new}
           /\ next_output_id' = next_output_id + 1
           /\ UNCHANGED <<open, frames, pending_encoded_frames>>
           /\ UNCHANGED <<queued, session_queues, delivered, released>>
  <1> DEFINE new == [session |-> f.session, frame |-> f.frame,
                     output |-> next_output_id, stored |-> FALSE]
  <1>1. /\ f \in inflight /\ \A c \in callbacks : c.session # f.session
        /\ inflight' = inflight \ {f} /\ callbacks' = callbacks \cup {new}
        /\ next_output_id' = next_output_id + 1
        /\ UNCHANGED <<open, frames, pending_encoded_frames>>
        /\ UNCHANGED <<queued, session_queues, delivered, released>>
    BY DEF CallbackTakeId, Advanced, NoCallback, modeVars, sessVars, histVars
  <1>2. /\ DOMAIN new = CallbackFields /\ new.session = f.session /\ new.frame = f.frame
        /\ new.output = next_output_id /\ new.stored = FALSE
    BY DEF CallbackFields
  <1> HIDE DEF new
  <1> QED
    BY <1>1, <1>2

LEMMA StoreEffect ==
  ASSUME NEW c \in callbacks, CallbackStore(c), DOMAIN c = CallbackFields
  PROVE  \E new, image :
           /\ DOMAIN new = CallbackFields /\ new.session = c.session /\ new.frame = c.frame
           /\ new.output = c.output /\ new.stored = TRUE
           /\ image = [session |-> c.session, frame |-> c.frame]
           /\ ~c.stored /\ callbacks' = (callbacks \ {c}) \cup {new}
           /\ DOMAIN queued' = DOMAIN queued \cup {c.output} /\ queued'[c.output] = image
           /\ \A o \in DOMAIN queued : o # c.output => queued'[o] = queued[o]
           /\ UNCHANGED <<open, frames, pending_encoded_frames, inflight>>
           /\ UNCHANGED <<session_queues, next_output_id, delivered, released>>
  <1> DEFINE new == [c EXCEPT !.stored = TRUE]
             image == [session |-> c.session, frame |-> c.frame]
  <1>1. /\ ~c.stored /\ callbacks' = (callbacks \ {c}) \cup {new}
        /\ queued' = Put(queued, c.output, image)
        /\ UNCHANGED <<open, frames, pending_encoded_frames, inflight>>
        /\ UNCHANGED <<session_queues, next_output_id, delivered, released>>
    BY DEF CallbackStore, modeVars, sessVars, histVars
  <1>2. /\ DOMAIN new = CallbackFields /\ new.session = c.session /\ new.frame = c.frame
        /\ new.output = c.output /\ new.stored = TRUE
    BY DEF CallbackFields
  <1>3. image = [session |-> c.session, frame |-> c.frame]
    OBVIOUS
  <1> HIDE DEF new, image
  <1>4. /\ DOMAIN queued' = DOMAIN queued \cup {c.output} /\ queued'[c.output] = image
        /\ \A o \in DOMAIN queued : o # c.output => queued'[o] = queued[o]
    BY <1>1 DEF Put
  <1> QED
    BY <1>1, <1>2, <1>3, <1>4

LEMMA PushEffect ==
  ASSUME NEW c, CallbackPush(c)
  PROVE  /\ c.stored /\ callbacks' = callbacks \ {c}
         /\ Fifo(c.session)' = Append(Fifo(c.session), c.output)
         /\ \A t : t # c.session => Fifo(t)' = Fifo(t)
         /\ UNCHANGED <<open, frames, pending_encoded_frames, inflight>>
         /\ UNCHANGED <<queued, next_output_id, delivered, released>>
  <1> DEFINE q == Append(Fifo(c.session), c.output)
  <1>1. /\ c.stored /\ callbacks' = callbacks \ {c}
        /\ session_queues' = Put(session_queues, c.session, q)
        /\ UNCHANGED <<open, frames, pending_encoded_frames, inflight>>
        /\ UNCHANGED <<queued, next_output_id, delivered, released>>
    BY DEF CallbackPush, PushBack, modeVars, sessVars, histVars
  <1> HIDE DEF q
  <1>2. Fifo(c.session)' = q
    BY <1>1 DEF Put, Fifo
  <1>3. \A t : t # c.session => Fifo(t)' = Fifo(t)
    BY <1>1 DEF Put, Fifo
  <1> QED
    BY <1>1, <1>2, <1>3 DEF q

LEMMA PopEffect ==
  ASSUME NEW s, DequeueDecodedFrame(s)
  PROVE  LET o == Head(Fifo(s))
         IN  /\ open /\ Fifo(s) # <<>> /\ Fifo(s)' = Tail(Fifo(s))
             /\ \A t : t # s => Fifo(t)' = Fifo(t)
             /\ delivered' = delivered \cup {Record(i) : i \in {o} \cap DOMAIN queued}
             /\ UNCHANGED <<open, frames, pending_encoded_frames, inflight>>
             /\ UNCHANGED <<callbacks, queued, next_output_id, released>>
  <1> DEFINE q == Fifo(s)
             o == Head(q)
  <1>1. /\ q # <<>> /\ session_queues' = [session_queues EXCEPT ![s] = Tail(@)]
        /\ open /\ delivered' = delivered \cup {Record(i) : i \in {o} \cap DOMAIN queued}
        /\ UNCHANGED <<open, frames, pending_encoded_frames, inflight>>
        /\ UNCHANGED <<callbacks, queued, next_output_id, released>>
    BY DEF DequeueDecodedFrame, Ready, KeptWhenDequeued, modeVars, sessVars, vtVars
  <1>2. s \in DOMAIN session_queues /\ q = session_queues[s]
    BY <1>1 DEF Fifo
  <1>3. Fifo(s)' = Tail(q)
    BY <1>1, <1>2 DEF Fifo
  <1>4. \A t : t # s => Fifo(t)' = Fifo(t)
    BY <1>1 DEF Fifo
  <1> HIDE DEF o
  <1> QED
    BY <1>1, <1>3, <1>4 DEF o

LEMMA ReleaseEffect ==
  ASSUME NEW o, ReleaseDecodedFrame(o)
  PROVE  /\ open /\ o \in DOMAIN queued /\ DOMAIN queued' = DOMAIN queued \ {o}
         /\ \A i \in DOMAIN queued' : queued'[i] = queued[i]
         /\ released' = released \cup {Record(o)}
         /\ UNCHANGED <<open, frames, pending_encoded_frames, inflight>>
         /\ UNCHANGED <<callbacks, session_queues, next_output_id, delivered>>
  <1>1. /\ open /\ queued' = Without(queued, {o}) /\ released' = released \cup {Record(o)}
        /\ UNCHANGED <<open, frames, pending_encoded_frames, inflight>>
        /\ UNCHANGED <<callbacks, session_queues, next_output_id, delivered>>
    BY DEF ReleaseDecodedFrame, Ready, modeVars, sessVars, vtVars
  <1>2. o \in DOMAIN queued
    BY DEF ReleaseDecodedFrame, ReleaseDecodedFrameStatus
  <1> QED
    BY <1>1, <1>2 DEF Without

LEMMA LostEffect ==
  ASSUME ConnectionLost
  PROVE  /\ open /\ ~open' /\ callbacks' = {} /\ inflight' = {} /\ DOMAIN queued' = {}
         /\ DOMAIN pending_encoded_frames' = {}
         /\ \A s : Fifo(s)' = <<>>
         /\ UNCHANGED <<callbacks, frames, next_output_id, delivered, released>>
  <1>1. /\ open /\ ~open' /\ callbacks' = {} /\ inflight' = {} /\ queued' = EmptyMap
        /\ pending_encoded_frames' = EmptyMap /\ session_queues' = EmptyMap
        /\ UNCHANGED <<callbacks, frames, next_output_id, delivered, released>>
    BY DEF ConnectionLost, Ready, histVars
  <1>2. \A s : Fifo(s)' = <<>>
    BY <1>1 DEF Fifo, EmptyMap
  <1> QED
    BY <1>1, <1>2 DEF EmptyMap

LEMMA SendingInit == SessionInit => SendingInv
  BY DecodeAssumption DEF SessionInit, Init, SendingInv, NotSending

LEMMA SendingStep == SendingInv /\ [SessionNext]_allVars => SendingInv'
  <1> SUFFICES ASSUME SendingInv, [SessionNext]_allVars PROVE SendingInv'
    OBVIOUS
  <1>1. mode' \in ModeType
    BY IsBackendStep, ModeKept DEF SendingInv
  <1>2. CASE UNCHANGED sending
    BY <1>1, <1>2 DEF SendingInv
  <1>3. ASSUME NEW s \in SessionIds, NEW new \in [size : Nat, offset : Nat],
               new.offset <= new.size, sending' = [sending EXCEPT ![s] = new]
        PROVE  SendingInv'
    BY <1>1, <1>3 DEF SendingInv
  <1>4. NotSending \in [size : Nat, offset : Nat] /\ NotSending.offset <= NotSending.size
    BY DEF NotSending
  <1>5. ASSUME NEW s \in SessionIds, Application(s) PROVE SendingInv'
    <2>1. ASSUME NEW size \in Sizes, EnqueueChunked(s, size) PROVE SendingInv'
      <3> DEFINE new == [size |-> size, offset |-> 0]
      <3>1. size \in Nat
        BY SizesNat DEF SendingInv
      <3>2. new \in [size : Nat, offset : Nat] /\ new.offset <= new.size
        BY <3>1
      <3>3. sending' = [sending EXCEPT ![s] = new]
        BY <2>1 DEF EnqueueChunked
      <3> HIDE DEF new
      <3> QED
        BY <1>3, <3>2, <3>3, Zenon
    <2>2. ASSUME NEW opts, VTDecompressionSessionCreate(s, opts) PROVE UNCHANGED sending
      BY <2>2 DEF VTDecompressionSessionCreate
    <2>3. ASSUME NEW size, EnqueueInline(s, size) PROVE UNCHANGED sending
      BY <2>3 DEF EnqueueInline
    <2>4. ASSUME VTDecompressionSessionWaitForAsynchronousFrames(s) \/ EndInCallback(s)
          PROVE  UNCHANGED sending
      BY <2>4 DEF VTDecompressionSessionWaitForAsynchronousFrames, EndInCallback
    <2>5. ASSUME VTDecompressionSessionInvalidate(s) \/ ReleaseSession(s)
          PROVE  UNCHANGED sending
      BY <2>5 DEF VTDecompressionSessionInvalidate, ReleaseSession
    <2> QED
      BY <1>2, <1>5, <2>1, <2>2, <2>3, <2>4, <2>5 DEF Application
  <1>6. ASSUME NEW s \in SessionIds, Works(s) PROVE SendingInv'
    <2>1. CASE SendChunk(s)
      <3>1. /\ sending[s].offset \in Nat /\ chunk_len(s) \in Nat /\ sending[s].size \in Nat
            /\ sending[s].offset + chunk_len(s) <= sending[s].size
        BY ChunkSizes
      <3>2. \/ sending' = [sending EXCEPT ![s] = NotSending]
            \/ sending' = [sending EXCEPT ![s] = NextChunk(s)]
        BY <2>1 DEF SendChunk
      <3>3. sending[s] \in [size : Nat, offset : Nat]
        BY DEF SendingInv
      <3>4. /\ NextChunk(s) \in [size : Nat, offset : Nat]
            /\ NextChunk(s).offset <= NextChunk(s).size
        BY <1>4, <3>1, <3>3 DEF NextChunk
      <3> QED
        BY <1>3, <1>4, <3>2, <3>4
    <2>2. CASE RequestFails(s)
      BY <1>3, <1>4, <2>2, Zenon DEF RequestFails
    <2>3. ASSUME SendFormat(s) \/ SendBind(s) \/ Abandon(s) PROVE UNCHANGED sending
      BY <2>3, Zenon DEF SendFormat, SendBind, Abandon
    <2>4. ASSUME SendDrain(s) \/ DequeuedNothing(s) PROVE UNCHANGED sending
      BY <2>4 DEF SendDrain, DequeuedNothing
    <2>5. ASSUME Dequeue(s) \/ ReadPixels(s) PROVE UNCHANGED sending
      BY <2>5 DEF Dequeue, ReadPixels
    <2>6. ASSUME CallbackReturns(s) \/ ReleaseOutput(s) PROVE UNCHANGED sending
      BY <2>6 DEF CallbackReturns, ReleaseOutput
    <2> QED
      BY <1>2, <1>6, <2>1, <2>2, <2>3, <2>4, <2>5, <2>6 DEF Works
  <1>7. CASE Guest
    BY <1>5, <1>6, <1>7 DEF Guest
  <1> QED
    BY <1>2, <1>7 DEF SessionNext, AnyClient, Worker, allVars, guestVars

-----------------------------------------------------------------------------
(* Frames.                                                                  *)

LEMMA BytesSeq ==
  ASSUME NEW a \in Nat, NEW b \in Nat, a <= b
  PROVE  Bytes(a, b) \in Seq(Nat) /\ Len(Bytes(a, b)) = b - a
  <1>1. b - a \in Nat
    OBVIOUS
  <1> QED
    BY <1>1 DEF Bytes

(* A chunk that starts where the bytes so far end continues them.           *)
LEMMA ConcatIs ==
  ASSUME NEW f \in Seq(Nat), NEW g \in Seq(Nat)
  PROVE  /\ f \o g \in Seq(Nat) /\ Len(f \o g) = Len(f) + Len(g)
         /\ \A i \in 1 .. Len(f) + Len(g) :
              (f \o g)[i] = IF i <= Len(f) THEN f[i] ELSE g[i - Len(f)]
  OBVIOUS

LEMMA SameSeq ==
  ASSUME NEW f \in Seq(Nat), NEW g \in Seq(Nat), Len(f) = Len(g),
         \A i \in 1 .. Len(f) : f[i] = g[i]
  PROVE  f = g
  OBVIOUS

LEMMA BytesJoin ==
  ASSUME NEW k \in Nat, NEW l \in Nat
  PROVE  Bytes(0, k) \o Bytes(k, k + l) = Bytes(0, k + l)
  <1> DEFINE f == Bytes(0, k)
             g == Bytes(k, k + l)
             h == Bytes(0, k + l)
  <1>1. /\ f \in Seq(Nat) /\ Len(f) = k
        /\ g \in Seq(Nat) /\ Len(g) = l
        /\ h \in Seq(Nat) /\ Len(h) = k + l
    <2>1. k + l \in Nat /\ k <= k + l /\ (k + l) - k = l
      OBVIOUS
    <2>2. f \in Seq(Nat) /\ Len(f) = k
      <3>1. 0 <= k /\ k - 0 = k
        OBVIOUS
      <3> QED
        BY <3>1, BytesSeq
    <2>3. g \in Seq(Nat) /\ Len(g) = l
      <3> HIDE DEF g
      <3>1. g \in Seq(Nat) /\ Len(g) = (k + l) - k
        BY <2>1, BytesSeq DEF g
      <3> QED
        BY <2>1, <3>1
    <2>4. h \in Seq(Nat) /\ Len(h) = k + l
      <3> HIDE DEF h
      <3>1. h \in Seq(Nat) /\ Len(h) = (k + l) - 0
        BY <2>1, BytesSeq DEF h
      <3> QED
        BY <2>1, <3>1
    <2> QED
      BY <2>2, <2>3, <2>4
  <1>2. /\ \A i \in 1 .. k : f[i] = i
        /\ \A i \in 1 .. l : g[i] = k + i
        /\ \A i \in 1 .. k + l : h[i] = i
    BY DEF Bytes
  <1> HIDE DEF f, g, h
  <1>3. /\ f \o g \in Seq(Nat) /\ Len(f \o g) = k + l
        /\ \A i \in 1 .. k + l : (f \o g)[i] = IF i <= k THEN f[i] ELSE g[i - k]
    BY <1>1, ConcatIs, Zenon
  <1>4. \A i \in 1 .. k + l : (f \o g)[i] = h[i]
    <2> SUFFICES ASSUME NEW i \in 1 .. k + l PROVE (f \o g)[i] = h[i]
      BY Zenon
    <2>1. i <= k => f[i] = i
      BY <1>2
    <2>2. i > k => g[i - k] = i
      <3> SUFFICES ASSUME i > k PROVE g[i - k] = i
        OBVIOUS
      <3>1. i - k \in 1 .. l /\ k + (i - k) = i
        OBVIOUS
      <3> QED
        BY <1>2, <3>1
    <2>3. (f \o g)[i] = i
      BY <1>3, <2>1, <2>2
    <2> QED
      BY <1>2, <2>3
  <1>5. f \o g = h
    BY <1>1, <1>3, <1>4, SameSeq, Zenon
  <1> QED
    BY <1>5 DEF f, g, h

(* An assembly is a prefix of the frame that its head announced.            *)
Prefix(a) ==
  /\ DOMAIN a = {"frame", "total_size", "bytes"}
  /\ a.total_size \in Nat \ {0}
  /\ \E k \in Nat : a.bytes = Bytes(0, k)

WholeInv ==
  /\ \A s \in DOMAIN pending_encoded_frames : Prefix(pending_encoded_frames[s])
  /\ WholeFrames

LEMMA WholeInit == SessionInit => WholeInv
  BY DEF SessionInit, Init, EmptyMap, WholeInv, WholeFrames

(* A step that drops frames and assemblies, or none.                        *)
LEMMA WholeDrop ==
  ASSUME WholeInv, inflight' \subseteq inflight,
         DOMAIN pending_encoded_frames' \subseteq DOMAIN pending_encoded_frames,
         \A s \in DOMAIN pending_encoded_frames' :
           pending_encoded_frames'[s] = pending_encoded_frames[s]
  PROVE  WholeInv'
  <1>1. WholeFrames'
    BY DEF WholeInv, WholeFrames
  <1>2. \A s \in DOMAIN pending_encoded_frames' : Prefix(pending_encoded_frames'[s])
    BY DEF WholeInv
  <1> QED
    BY <1>1, <1>2 DEF WholeInv, Prefix

LEMMA WholeDispatch ==
  ASSUME WholeFrames, NEW s, NEW frame, NEW total \in Nat \ {0}, NEW bytes,
         bytes = Bytes(0, total), Dispatch(s, frame, total, bytes)
  PROVE  WholeFrames'
  BY DEF Dispatch, WholeFrames

LEMMA WholeChunk ==
  ASSUME WholeInv, NEW s, NEW offset \in Nat, NEW length \in Nat, NEW total, NEW final,
         EnqueueEncodedFrameChunk(s, offset, length, total, final)
  PROVE  WholeInv'
  <1> DEFINE data == Bytes(offset, offset + length)
             assembly ==
               IF offset = 0 THEN [frame |-> frames + 1, total_size |-> total, bytes |-> data]
               ELSE [pending_encoded_frames[s] EXCEPT !.bytes = @ \o data]
  <1>1. /\ ChunkInBounds(offset, length, total, final)
        /\ offset # 0 => Appends(s, offset, total)
        /\ IF final
           THEN /\ pending_encoded_frames' = Without(pending_encoded_frames, {s})
                /\ IF Len(assembly.bytes) = assembly.total_size
                   THEN Dispatch(s, assembly.frame, assembly.total_size, assembly.bytes)
                   ELSE UNCHANGED inflight
           ELSE /\ pending_encoded_frames' = Put(pending_encoded_frames, s, assembly)
                /\ UNCHANGED inflight
    BY Zenon DEF EnqueueEncodedFrameChunk
  <1>2. total \in Nat \ {0}
    BY <1>1, DecodeAssumption DEF ChunkInBounds
  <1>3. /\ DOMAIN assembly = {"frame", "total_size", "bytes"}
        /\ assembly.total_size = total
        /\ assembly.bytes = Bytes(0, offset + length)
    <2>1. CASE offset = 0
      BY <2>1
    <2>2. CASE offset # 0
      <3> DEFINE a == pending_encoded_frames[s]
      <3>1. Prefix(a) /\ a.total_size = total /\ Len(a.bytes) = offset
        BY <1>1, <2>2 DEF WholeInv, Appends
      <3>2. PICK k \in Nat : a.bytes = Bytes(0, k)
        BY <3>1 DEF Prefix
      <3>3. k = offset
        <4>1. Len(Bytes(0, k)) = k - 0
          BY BytesSeq
        <4> QED
          BY <3>1, <3>2, <4>1
      <3>4. a.bytes \o data = Bytes(0, offset + length)
        BY <3>2, <3>3, BytesJoin, Zenon
      <3>5. DOMAIN a = {"frame", "total_size", "bytes"}
        BY <3>1 DEF Prefix
      <3>6. assembly = [a EXCEPT !.bytes = a.bytes \o data]
        BY <2>2
      <3> HIDE DEF a, data, assembly
      <3> QED
        BY <3>1, <3>4, <3>5, <3>6
    <2> QED
      BY <2>1, <2>2
  <1> HIDE DEF assembly, data
  <1>4. Prefix(assembly)
    <2>1. offset + length \in Nat
      OBVIOUS
    <2> QED
      BY <1>2, <1>3, <2>1 DEF Prefix
  <1>5. CASE ~final
    <2>1. WholeFrames'
      BY <1>1, <1>5 DEF WholeInv, WholeFrames
    <2>2. \A t \in DOMAIN pending_encoded_frames' : Prefix(pending_encoded_frames'[t])
      BY <1>1, <1>4, <1>5 DEF Put, WholeInv
    <2> QED
      BY <2>1, <2>2 DEF WholeInv, Prefix
  <1>6. CASE final
    <2>1. \A t \in DOMAIN pending_encoded_frames' : Prefix(pending_encoded_frames'[t])
      BY <1>1, <1>6 DEF Without, WholeInv
    <2>2. CASE Len(assembly.bytes) = assembly.total_size
      <3>1. Len(Bytes(0, offset + length)) = offset + length
        BY BytesSeq
      <3>2. assembly.bytes = Bytes(0, total)
        BY <1>3, <2>2, <3>1
      <3>3. Dispatch(s, assembly.frame, total, assembly.bytes)
        BY <1>1, <1>3, <1>6, <2>2
      <3>4. WholeFrames'
        BY <1>2, <3>2, <3>3, WholeDispatch DEF WholeInv
      <3> QED
        BY <2>1, <3>4 DEF WholeInv, Prefix
    <2>3. CASE Len(assembly.bytes) # assembly.total_size
      <3>1. WholeFrames'
        BY <1>1, <1>6, <2>3 DEF WholeInv, WholeFrames
      <3> QED
        BY <2>1, <3>1 DEF WholeInv, Prefix
    <2> QED
      BY <2>2, <2>3
  <1> QED
    BY <1>5, <1>6

LEMMA WholeStep == WholeInv /\ BackendStep => WholeInv'
  <1> SUFFICES ASSUME WholeInv, BackendStep PROVE WholeInv'
    OBVIOUS
  <1>1. CASE FramesStay
    BY <1>1, WholeDrop DEF FramesStay
  <1>2. ASSUME NEW s, NEW n, EnqueueEncodedFrame(s, n) PROVE WholeInv'
    <2>1. /\ n \in Nat \ {0} /\ Dispatch(s, frames + 1, n, Bytes(0, n))
          /\ UNCHANGED pending_encoded_frames
      BY <1>2, DecodeAssumption DEF EnqueueEncodedFrame, sessVars
    <2>2. WholeFrames'
      BY <2>1, WholeDispatch DEF WholeInv
    <2> QED
      BY <2>1, <2>2 DEF WholeInv, Prefix
  <1>3. CASE ConnectionLost
    BY <1>3, LostEffect, WholeDrop
  <1> QED
    BY <1>1, <1>2, <1>3, FrameCases, WholeChunk

(***************************************************************************)
(* VideoToolbox is only ever handed whole frames, however a client cuts,    *)
(* orders, repeats or abandons chunks.                                      *)
(***************************************************************************)
THEOREM FramesWhole == SessionSpec => []WholeFrames
  <1> DEFINE Inv == SendingInv /\ WholeInv
  <1>1. SessionInit => Inv
    BY SendingInit, WholeInit
  <1>2. Inv /\ [SessionNext]_allVars => Inv'
    BY SendingStep, IsBackendStep, WholeStep
  <1>3. Inv => WholeFrames
    BY DEF WholeInv
  <1> QED
    BY <1>1, <1>2, <1>3, PTL DEF SessionSpec

-----------------------------------------------------------------------------
(* Outputs.                                                                 *)

(* An id is drawn once, so that an image is stored under it once: what was  *)
(* delivered under an id is what the map still holds under it, and the      *)
(* release of the id is the release of that frame.                          *)
ReadInv ==
  /\ next_output_id \in Nat
  /\ open =>
       /\ \A o \in DOMAIN queued : o \in Nat /\ o < next_output_id
       /\ \A d \in delivered : /\ d.output \in Nat /\ d.output < next_output_id
                               /\ d.output \in DOMAIN queued => d = Record(d.output)
       /\ \A c \in callbacks :
            /\ DOMAIN c = CallbackFields
            /\ c.output \in Nat /\ c.output < next_output_id
            /\ ~c.stored => /\ c.output \notin DOMAIN queued
                            /\ \A d \in delivered : d.output # c.output
       /\ \A c, e \in callbacks : c.output = e.output => c = e
       /\ \A d \in delivered \ released : d.output \in DOMAIN queued

LEMMA ReadInit == SessionInit => ReadInv
  BY DEF SessionInit, Init, EmptyMap, ReadInv

(* A step that leaves the map, the callbacks and the history alone.         *)
LEMMA ReadKept ==
  ASSUME ReadInv, open' => open,
         UNCHANGED <<queued, next_output_id, callbacks, delivered, released>>
  PROVE  ReadInv'
  BY DEF ReadInv, Record

LEMMA ReadTakeId ==
  ASSUME ReadInv, NEW f \in inflight, CallbackTakeId(f)
  PROVE  ReadInv'
  <1>1. PICK new : /\ DOMAIN new = CallbackFields /\ new.output = next_output_id
                   /\ callbacks' = callbacks \cup {new}
                   /\ next_output_id' = next_output_id + 1
                   /\ UNCHANGED <<open, queued, delivered, released>>
    BY TakeIdEffect, Zenon
  <1>3. CASE ~open
    BY <1>1, <1>3 DEF ReadInv
  <1>4. CASE open
    <2>1. next_output_id \in Nat /\ next_output_id' \in Nat
      BY <1>1 DEF ReadInv
    <2>2. \A o \in DOMAIN queued : o \in Nat /\ o < next_output_id
      BY <1>4 DEF ReadInv
    <2>3. \A d \in delivered : d.output \in Nat /\ d.output < next_output_id
      BY <1>4 DEF ReadInv
    <2>4. \A c \in callbacks : c.output \in Nat /\ c.output < next_output_id
      BY <1>4 DEF ReadInv
    <2>5. \A c \in callbacks' :
            /\ DOMAIN c = CallbackFields
            /\ c.output \in Nat /\ c.output < next_output_id'
            /\ ~c.stored => /\ c.output \notin DOMAIN queued'
                            /\ \A d \in delivered' : d.output # c.output
      <3> TAKE c \in callbacks'
      <3>1. CASE c = new
        BY <1>1, <2>1, <2>2, <2>3, <3>1
      <3>2. CASE c \in callbacks
        BY <1>1, <1>4, <2>1, <3>2 DEF ReadInv
      <3> QED
        BY <1>1, <3>1, <3>2
    <2>6. \A c, e \in callbacks' : c.output = e.output => c = e
      BY <1>1, <1>4, <2>1, <2>4 DEF ReadInv
    <2>7. \A d \in delivered' : /\ d.output \in Nat /\ d.output < next_output_id'
                                /\ d.output \in DOMAIN queued' => d = Record(d.output)'
      BY <1>1, <1>4, <2>1 DEF ReadInv, Record
    <2>8. \A o \in DOMAIN queued' : o \in Nat /\ o < next_output_id'
      BY <1>1, <2>1, <2>2
    <2> QED
      BY <1>1, <1>4, <2>1, <2>5, <2>6, <2>7, <2>8 DEF ReadInv, Record
  <1> QED
    BY <1>3, <1>4

LEMMA ReadStore ==
  ASSUME ReadInv, NEW c \in callbacks, CallbackStore(c)
  PROVE  ReadInv'
  <1>1. ~c.stored /\ UNCHANGED <<open, next_output_id, delivered, released>>
    BY DEF CallbackStore, modeVars, histVars
  <1>2. CASE ~open
    BY <1>1, <1>2 DEF ReadInv
  <1>3. CASE open
    <2>1. /\ DOMAIN c = CallbackFields
          /\ c.output \in Nat /\ c.output < next_output_id
          /\ c.output \notin DOMAIN queued
          /\ \A d \in delivered : d.output # c.output
      BY <1>1, <1>3 DEF ReadInv
    <2>2. PICK new :
            /\ DOMAIN new = CallbackFields /\ new.output = c.output /\ new.stored = TRUE
            /\ callbacks' = (callbacks \ {c}) \cup {new}
            /\ DOMAIN queued' = DOMAIN queued \cup {c.output}
            /\ \A o \in DOMAIN queued : o # c.output => queued'[o] = queued[o]
      BY <2>1, StoreEffect, Zenon
    <2>3. \A o \in DOMAIN queued : queued'[o] = queued[o]
      BY <2>1, <2>2
    <2>4. \A e \in callbacks' :
            /\ DOMAIN e = CallbackFields
            /\ e.output \in Nat /\ e.output < next_output_id'
            /\ ~e.stored => /\ e.output \notin DOMAIN queued'
                            /\ \A d \in delivered' : d.output # e.output
      <3> TAKE e \in callbacks'
      <3>1. CASE e = new
        BY <1>1, <2>1, <2>2, <3>1
      <3>2. CASE e \in callbacks /\ e # c
        <4>1. e.output # c.output
          BY <1>3, <3>2 DEF ReadInv
        <4> QED
          BY <1>1, <1>3, <2>2, <3>2, <4>1 DEF ReadInv
      <3> QED
        BY <2>2, <3>1, <3>2
    <2>5. \A e, g \in callbacks' : e.output = g.output => e = g
      BY <1>1, <1>3, <2>2 DEF ReadInv
    <2>6. \A d \in delivered : d.output \in DOMAIN queued' => d = Record(d.output)'
      <3> SUFFICES ASSUME NEW d \in delivered, d.output \in DOMAIN queued'
                   PROVE  d = Record(d.output)'
        OBVIOUS
      <3>1. d.output \in DOMAIN queued
        BY <2>1, <2>2
      <3>2. d = Record(d.output)
        BY <1>3, <3>1 DEF ReadInv
      <3>3. queued'[d.output] = queued[d.output]
        BY <2>3, <3>1
      <3>4. Record(d.output)' = Record(d.output)
        BY <3>3 DEF Record
      <3> QED
        BY <3>2, <3>4
    <2> QED
      BY <1>1, <1>3, <2>1, <2>2, <2>4, <2>5, <2>6 DEF ReadInv
  <1> QED
    BY <1>2, <1>3

LEMMA ReadDequeue ==
  ASSUME ReadInv, NEW s, DequeueDecodedFrame(s)
  PROVE  ReadInv'
  <1> DEFINE o == Head(Fifo(s))
  <1>1. /\ delivered' = delivered \cup {Record(i) : i \in {o} \cap DOMAIN queued}
        /\ open /\ UNCHANGED <<open, queued, next_output_id, callbacks, released>>
    BY PopEffect
  <1> HIDE DEF o
  <1>2. Record(o).output = o
    BY DEF Record
  <1>3. CASE o \notin DOMAIN queued
    <2>1. delivered' = delivered
      BY <1>1, <1>3
    <2> QED
      BY <1>1, <2>1, ReadKept
  <1>4. CASE o \in DOMAIN queued
    <2>1. delivered' = delivered \cup {Record(o)}
      BY <1>1, <1>4
    <2>2. o \in Nat /\ o < next_output_id
      BY <1>1, <1>4 DEF ReadInv
    <2>3. \A d \in delivered' : /\ d.output \in Nat /\ d.output < next_output_id'
                                /\ d.output \in DOMAIN queued' => d = Record(d.output)'
      BY <1>1, <1>2, <2>1, <2>2 DEF ReadInv, Record
    <2>4. \A c \in callbacks' : ~c.stored => \A d \in delivered' : d.output # c.output
      BY <1>1, <1>2, <1>4, <2>1 DEF ReadInv
    <2>5. \A d \in delivered' \ released' : d.output \in DOMAIN queued'
      BY <1>1, <1>2, <1>4, <2>1 DEF ReadInv
    <2> QED
      BY <1>1, <2>3, <2>4, <2>5 DEF ReadInv
  <1> QED
    BY <1>3, <1>4

LEMMA ReadRelease ==
  ASSUME ReadInv, NEW o, ReleaseDecodedFrame(o)
  PROVE  ReadInv'
  <1>1. /\ open /\ released' = released \cup {Record(o)}
        /\ UNCHANGED <<open, next_output_id, callbacks, delivered>>
    BY ReleaseEffect, Zenon
  <1>2. /\ DOMAIN queued' = DOMAIN queued \ {o}
        /\ \A i \in DOMAIN queued' : queued'[i] = queued[i]
    BY ReleaseEffect, Zenon
  <1>3. \A d \in delivered' \ released' : d.output \in DOMAIN queued'
    <2> SUFFICES ASSUME NEW d \in delivered, d \notin released, d # Record(o)
                 PROVE  d.output \in DOMAIN queued'
      BY <1>1
    <2>1. d.output \in DOMAIN queued /\ d = Record(d.output)
      BY <1>1 DEF ReadInv
    <2>2. d.output # o
      BY <2>1
    <2> QED
      BY <1>2, <2>1, <2>2
  <1>4. \A i \in DOMAIN queued' : Record(i)' = Record(i)
    BY <1>2 DEF Record
  <1>5. \A d \in delivered' : d.output \in DOMAIN queued' => d = Record(d.output)'
    BY <1>1, <1>2, <1>4 DEF ReadInv
  <1> QED
    BY <1>1, <1>2, <1>3, <1>5 DEF ReadInv

LEMMA ReadStep == ReadInv /\ BackendStep => ReadInv'
  <1> SUFFICES ASSUME ReadInv, BackendStep PROVE ReadInv'
    OBVIOUS
  <1>1. CASE OutputsStay
    BY <1>1, ReadKept DEF OutputsStay
  <1>2. ASSUME NEW c \in callbacks, CallbackPush(c) PROVE ReadInv'
    <2>1. /\ callbacks' \subseteq callbacks
          /\ UNCHANGED <<open, queued, next_output_id, delivered, released>>
      BY <1>2, PushEffect
    <2> QED
      BY <2>1 DEF ReadInv, Record
  <1>3. CASE ConnectionLost
    BY <1>3, LostEffect DEF ReadInv
  <1> QED
    BY <1>1, <1>2, <1>3, OutputCases, ReadTakeId, ReadStore, ReadDequeue, ReadRelease

(***************************************************************************)
(* A frame the client was given can be read until the client releases it.   *)
(***************************************************************************)
THEOREM ReadableStays == SessionSpec => []ReadableUntilReleased
  <1> DEFINE Inv == SendingInv /\ ReadInv
  <1>1. SessionInit => Inv
    BY SendingInit, ReadInit
  <1>2. Inv /\ [SessionNext]_allVars => Inv'
    BY SendingStep, IsBackendStep, ReadStep
  <1>3. Inv => ReadableUntilReleased
    BY DEF ReadInv, ReadableUntilReleased
  <1> QED
    BY <1>1, <1>2, <1>3, PTL DEF SessionSpec
-----------------------------------------------------------------------------
(* Where the frames of the decode path are: a frame's number is in one      *)
(* place (TokenInv), and the worker's FIFOs hold the ids of the session's   *)
(* own frames in the order in which they were drawn (QueueInv).  Both are   *)
(* inductive; what the application sees of them is in DecodeOrderProofs.    *)

(* The frames by the output they became: in a callback, in the map, or      *)
(* handed to the application.                                               *)
Outs ==
  {<<c.output, c.frame>> : c \in callbacks}
  \cup {<<o, queued[o].frame>> : o \in DOMAIN queued}
  \cup UNION {{<<called[s][i].output, called[s][i].frame>> : i \in DOMAIN called[s]} :
                s \in SessionIds}

(* The number of the frame in assembly for s is nowhere else.               *)
Alone(s) ==
  LET a == pending_encoded_frames[s]
  IN  /\ DOMAIN a = {"frame", "total_size", "bytes"}
      /\ a.frame \in Nat /\ a.frame <= frames
      /\ \A f \in inflight : f.frame # a.frame
      /\ \A p \in Outs : p[2] # a.frame
      /\ \A t \in DOMAIN pending_encoded_frames :
           pending_encoded_frames[t].frame = a.frame => t = s

(* A frame's number is in one place: an assembly, VideoToolbox, an output.  *)
TokenInv ==
  /\ frames \in Nat
  /\ \A p, q \in Outs : p[2] = q[2] => p[1] = q[1]
  /\ \A p \in Outs : p[2] \in Nat /\ p[2] <= frames
  /\ \A f \in inflight : f.frame \in Nat /\ f.frame <= frames
  /\ \A f \in inflight, p \in Outs : f.frame # p[2]
  /\ \A f, g \in inflight : f.frame = g.frame => f = g
  /\ \A s \in DOMAIN pending_encoded_frames : Alone(s)

(* A session has one callback at a time, so that its ids reach its FIFO in  *)
(* the order they were drawn; its FIFO names only its own frames.           *)
FifoInv(s) ==
  \A i \in DOMAIN Fifo(s) :
    /\ Fifo(s)[i] < next_output_id
    /\ Fifo(s)[i] \in DOMAIN queued => queued[Fifo(s)[i]].session = s
    /\ \A j \in DOMAIN Fifo(s) : i < j => Fifo(s)[i] < Fifo(s)[j]
    /\ \A c \in callbacks : /\ Fifo(s)[i] # c.output
                            /\ c.session = s => Fifo(s)[i] < c.output

CallbackInv(c) ==
  /\ DOMAIN c = CallbackFields
  /\ c.output \in Nat /\ c.output < next_output_id
  /\ c.stored /\ c.output \in DOMAIN queued =>
       queued[c.output] = [session |-> c.session, frame |-> c.frame]

QueueInv ==
  /\ next_output_id \in Nat
  /\ \A s : Fifo(s) \in Seq(Nat) /\ FifoInv(s)
  /\ \A c \in callbacks : CallbackInv(c)
  /\ \A c, e \in callbacks : c.session = e.session \/ c.output = e.output => c = e

CalledType == called \in [SessionIds -> Seq([output : Nat, frame : Nat])]

(* Only a successful read hands a frame to the application.                 *)
LEMMA CalledKept ==
  ASSUME [SessionNext]_allVars
  PROVE  UNCHANGED called \/ \E s \in SessionIds : ReadPixels(s)
  <1>1. ASSUME NEW s \in SessionIds, Application(s) PROVE UNCHANGED called
    <2>1. ASSUME NEW opts, VTDecompressionSessionCreate(s, opts) PROVE UNCHANGED called
      BY <2>1 DEF VTDecompressionSessionCreate
    <2>2. ASSUME NEW size, EnqueueInline(s, size) \/ EnqueueChunked(s, size)
          PROVE  UNCHANGED called
      BY <2>2 DEF EnqueueInline, EnqueueChunked
    <2>3. ASSUME VTDecompressionSessionWaitForAsynchronousFrames(s) \/ EndInCallback(s)
          PROVE  UNCHANGED called
      BY <2>3 DEF VTDecompressionSessionWaitForAsynchronousFrames, EndInCallback
    <2>4. ASSUME VTDecompressionSessionInvalidate(s) \/ ReleaseSession(s)
          PROVE  UNCHANGED called
      BY <2>4 DEF VTDecompressionSessionInvalidate, ReleaseSession
    <2> QED
      BY <1>1, <2>1, <2>2, <2>3, <2>4 DEF Application
  <1>2. ASSUME NEW s \in SessionIds, Works(s) PROVE UNCHANGED called \/ ReadPixels(s)
    <2>1. ASSUME SendFormat(s) \/ SendBind(s) \/ Abandon(s) PROVE UNCHANGED called
      BY <2>1, ZenonT(60) DEF SendFormat, SendBind, Abandon
    <2>2. ASSUME SendChunk(s) PROVE UNCHANGED called
      BY <2>2, Zenon DEF SendChunk
    <2>3. ASSUME SendDrain(s) \/ DequeuedNothing(s) \/ CallbackReturns(s)
          PROVE  UNCHANGED called
      BY <2>3, ZenonT(60) DEF SendDrain, DequeuedNothing, CallbackReturns
    <2>4. ASSUME Dequeue(s) PROVE UNCHANGED called
      BY <2>4, ZenonT(60) DEF Dequeue
    <2>5. ASSUME ReleaseOutput(s) PROVE UNCHANGED called
      BY <2>5 DEF ReleaseOutput
    <2>6. ASSUME RequestFails(s) PROVE UNCHANGED called
      BY <2>6 DEF RequestFails
    <2> QED
      BY <1>2, <2>1, <2>2, <2>3, <2>4, <2>5, <2>6 DEF Works
  <1>3. CASE Guest
    BY <1>1, <1>2, <1>3 DEF Guest
  <1> QED
    BY <1>3 DEF SessionNext, AnyClient, Worker, allVars, guestVars

(* What a pair of Outs is.                                                  *)
LEMMA OutsMember ==
  /\ \A c \in callbacks : <<c.output, c.frame>> \in Outs
  /\ \A o \in DOMAIN queued : <<o, queued[o].frame>> \in Outs
  /\ \A s \in SessionIds : \A i \in DOMAIN called[s] :
       <<called[s][i].output, called[s][i].frame>> \in Outs
  /\ \A p \in Outs : \/ \E c \in callbacks : p = <<c.output, c.frame>>
                     \/ \E o \in DOMAIN queued : p = <<o, queued[o].frame>>
                     \/ \E s \in SessionIds : \E i \in DOMAIN called[s] :
                          p = <<called[s][i].output, called[s][i].frame>>
  BY DEF Outs

LEMMA OutsWithin ==
  ASSUME NEW S,
         \A c \in callbacks' : <<c.output, c.frame>> \in S,
         \A o \in DOMAIN queued' : <<o, queued'[o].frame>> \in S,
         \A s \in SessionIds : \A i \in DOMAIN called'[s] :
           <<called'[s][i].output, called'[s][i].frame>> \in S
  PROVE  Outs' \subseteq S
  BY DEF Outs

LEMMA TokenInit == SessionInit => TokenInv
  <1> SUFFICES ASSUME SessionInit PROVE TokenInv
    OBVIOUS
  <1>1. /\ callbacks = {} /\ DOMAIN queued = {} /\ inflight = {} /\ frames = 0
        /\ DOMAIN pending_encoded_frames = {}
        /\ \A s \in SessionIds : DOMAIN called[s] = {}
    BY DEF SessionInit, Init, EmptyMap
  <1>2. Outs = {}
    BY <1>1, OutsMember
  <1> QED
    BY <1>1, <1>2 DEF TokenInv

(* Frames leave, or nothing changes.                                        *)
LEMMA TokenDrop ==
  ASSUME TokenInv, Outs' \subseteq Outs, inflight' \subseteq inflight, frames' = frames,
         DOMAIN pending_encoded_frames' \subseteq DOMAIN pending_encoded_frames,
         \A s \in DOMAIN pending_encoded_frames' :
           pending_encoded_frames'[s] = pending_encoded_frames[s]
  PROVE  TokenInv'
  <1>1. ASSUME NEW s \in DOMAIN pending_encoded_frames' PROVE Alone(s)'
    BY DEF TokenInv, Alone
  <1>2. /\ frames' \in Nat
        /\ \A p, q \in Outs' : p[2] = q[2] => p[1] = q[1]
        /\ \A p \in Outs' : p[2] \in Nat /\ p[2] <= frames'
        /\ \A f \in inflight' : f.frame \in Nat /\ f.frame <= frames'
        /\ \A f \in inflight', p \in Outs' : f.frame # p[2]
        /\ \A f, g \in inflight' : f.frame = g.frame => f = g
    BY DEF TokenInv
  <1> QED
    BY <1>1, <1>2, ZenonT(60) DEF TokenInv

(* A frame that was nowhere else goes to VideoToolbox, or is refused.       *)
LEMMA TokenDispatch ==
  ASSUME TokenInv, Outs' = Outs, frames' \in Nat, frames <= frames',
         NEW s, NEW n \in Nat, NEW total, NEW bytes, Dispatch(s, n, total, bytes),
         n <= frames',
         \A f \in inflight : f.frame # n,
         \A p \in Outs : p[2] # n,
         DOMAIN pending_encoded_frames' \subseteq DOMAIN pending_encoded_frames,
         \A t \in DOMAIN pending_encoded_frames' :
           /\ pending_encoded_frames'[t] = pending_encoded_frames[t]
           /\ pending_encoded_frames[t].frame # n
  PROVE  TokenInv'
  <1> DEFINE new == [session |-> s, frame |-> n, total |-> total, bytes |-> bytes]
  <1>1. inflight' = inflight \cup {new} \/ inflight' = inflight
    BY ZenonT(60) DEF Dispatch
  <1>2. new.frame = n
    BY ZenonT(60)
  <1> HIDE DEF new
  <1>3. \A f \in inflight' : f \in inflight \/ f = new
    BY <1>1, ZenonT(60)
  <1>4. /\ \A p, q \in Outs' : p[2] = q[2] => p[1] = q[1]
        /\ \A p \in Outs' : p[2] \in Nat /\ p[2] <= frames'
    BY DEF TokenInv
  <1>5. /\ \A f \in inflight' : f.frame \in Nat /\ f.frame <= frames'
        /\ \A f \in inflight', p \in Outs' : f.frame # p[2]
        /\ \A f, g \in inflight' : f.frame = g.frame => f = g
    BY <1>2, <1>3 DEF TokenInv
  <1>6. ASSUME NEW t \in DOMAIN pending_encoded_frames' PROVE Alone(t)'
    <2>1. /\ t \in DOMAIN pending_encoded_frames /\ Alone(t) /\ frames \in Nat
          /\ pending_encoded_frames'[t] = pending_encoded_frames[t]
          /\ pending_encoded_frames[t].frame # n
      BY ZenonT(60) DEF TokenInv
    <2> QED
      BY <1>2, <1>3, <2>1 DEF Alone
  <1> QED
    BY <1>4, <1>5, <1>6 DEF TokenInv

LEMMA TokenChunk ==
  ASSUME TokenInv, UNCHANGED called, NEW s, NEW offset, NEW length, NEW total, NEW final,
         EnqueueEncodedFrameChunk(s, offset, length, total, final)
  PROVE  TokenInv'
  <1> DEFINE data == Bytes(offset, offset + length)
             assembly ==
               IF offset = 0 THEN [frame |-> frames + 1, total_size |-> total, bytes |-> data]
               ELSE [pending_encoded_frames[s] EXCEPT !.bytes = @ \o data]
             n == assembly.frame
  <1>1. /\ IF offset = 0 THEN frames' = frames + 1
                         ELSE s \in DOMAIN pending_encoded_frames /\ UNCHANGED frames
        /\ IF final
           THEN /\ pending_encoded_frames' = Without(pending_encoded_frames, {s})
                /\ IF Len(assembly.bytes) = assembly.total_size
                   THEN Dispatch(s, assembly.frame, assembly.total_size, assembly.bytes)
                   ELSE UNCHANGED inflight
           ELSE /\ pending_encoded_frames' = Put(pending_encoded_frames, s, assembly)
                /\ UNCHANGED inflight
        /\ UNCHANGED <<callbacks, queued>>
    BY Zenon DEF EnqueueEncodedFrameChunk, Appends, queueVars
  <1>2. Outs' = Outs
    BY <1>1 DEF Outs
  <1>3. /\ DOMAIN assembly = {"frame", "total_size", "bytes"}
        /\ n = IF offset = 0 THEN frames + 1 ELSE pending_encoded_frames[s].frame
    <2>1. CASE offset = 0
      BY <2>1
    <2>2. CASE offset # 0
      <3>1. DOMAIN pending_encoded_frames[s] = {"frame", "total_size", "bytes"}
        BY <1>1, <2>2 DEF TokenInv, Alone
      <3> QED
        BY <2>2, <3>1
    <2> QED
      BY <2>1, <2>2
  <1> HIDE DEF assembly
  <1>4. /\ frames \in Nat /\ frames' \in Nat /\ frames <= frames'
        /\ n \in Nat /\ n <= frames'
        /\ \A f \in inflight : f.frame # n
        /\ \A p \in Outs : p[2] # n
        /\ \A t \in DOMAIN pending_encoded_frames :
             t # s => pending_encoded_frames[t].frame # n
    <2>1. /\ frames \in Nat
          /\ \A p \in Outs : p[2] \in Nat /\ p[2] <= frames
          /\ \A f \in inflight : f.frame \in Nat /\ f.frame <= frames
          /\ \A t \in DOMAIN pending_encoded_frames :
               /\ pending_encoded_frames[t].frame \in Nat
               /\ pending_encoded_frames[t].frame <= frames
      BY ZenonT(60) DEF TokenInv, Alone
    <2>2. CASE offset = 0
      <3>1. frames' = frames + 1 /\ n = frames + 1
        BY <1>1, <1>3, <2>2, ZenonT(60)
      <3> QED
        BY <2>1, <3>1
    <2>3. CASE offset # 0
      <3>1. /\ frames' = frames /\ s \in DOMAIN pending_encoded_frames
            /\ n = pending_encoded_frames[s].frame
        BY <1>1, <1>3, <2>3, ZenonT(60)
      <3>2. /\ \A f \in inflight : f.frame # n
            /\ \A p \in Outs : p[2] # n
            /\ \A t \in DOMAIN pending_encoded_frames :
                 t # s => pending_encoded_frames[t].frame # n
        BY <3>1, ZenonT(60) DEF TokenInv, Alone
      <3> QED
        BY <2>1, <3>1, <3>2
    <2> QED
      BY <2>2, <2>3
  <1>5. CASE final
    <2>1. /\ DOMAIN pending_encoded_frames' = DOMAIN pending_encoded_frames \ {s}
          /\ \A t \in DOMAIN pending_encoded_frames' :
               pending_encoded_frames'[t] = pending_encoded_frames[t]
      BY <1>1, <1>5 DEF Without
    <2>2. CASE Len(assembly.bytes) = assembly.total_size
      BY <1>1, <1>2, <1>4, <1>5, <2>1, <2>2, TokenDispatch, ZenonT(60)
    <2>3. CASE UNCHANGED inflight
      <3>1. /\ \A p, q \in Outs' : p[2] = q[2] => p[1] = q[1]
            /\ \A p \in Outs' : p[2] \in Nat /\ p[2] <= frames'
            /\ \A f \in inflight' : f.frame \in Nat /\ f.frame <= frames'
            /\ \A f \in inflight', p \in Outs' : f.frame # p[2]
            /\ \A f, g \in inflight' : f.frame = g.frame => f = g
        BY <1>2, <1>4, <2>3 DEF TokenInv
      <3>2. ASSUME NEW t \in DOMAIN pending_encoded_frames' PROVE Alone(t)'
        <4>1. t \in DOMAIN pending_encoded_frames /\ Alone(t)
          BY <2>1, ZenonT(60) DEF TokenInv
        <4> QED
          BY <1>2, <1>4, <2>1, <2>3, <4>1 DEF Alone
      <3> QED
        BY <1>4, <3>1, <3>2 DEF TokenInv
    <2> QED
      BY <1>1, <1>5, <2>2, <2>3
  <1>6. CASE ~final
    <2>1. /\ DOMAIN pending_encoded_frames' = DOMAIN pending_encoded_frames \cup {s}
          /\ pending_encoded_frames'[s] = assembly
          /\ \A t \in DOMAIN pending_encoded_frames :
               t # s => pending_encoded_frames'[t] = pending_encoded_frames[t]
          /\ inflight' = inflight
      BY <1>1, <1>6 DEF Put
    <2>2. /\ \A p, q \in Outs' : p[2] = q[2] => p[1] = q[1]
          /\ \A p \in Outs' : p[2] \in Nat /\ p[2] <= frames'
          /\ \A f \in inflight' : f.frame \in Nat /\ f.frame <= frames'
          /\ \A f \in inflight', p \in Outs' : f.frame # p[2]
          /\ \A f, g \in inflight' : f.frame = g.frame => f = g
      BY <1>2, <1>4, <2>1 DEF TokenInv
    <2>3. ASSUME NEW t \in DOMAIN pending_encoded_frames' PROVE Alone(t)'
      <3>1. CASE t = s
        BY <1>2, <1>3, <1>4, <2>1, <3>1 DEF Alone
      <3>2. CASE t # s
        BY <1>2, <1>4, <2>1, <3>2 DEF TokenInv, Alone
      <3> QED
        BY <3>1, <3>2
    <2> QED
      BY <1>4, <2>2, <2>3 DEF TokenInv
  <1> QED
    BY <1>5, <1>6

LEMMA TokenTakeId ==
  ASSUME TokenInv, UNCHANGED called, NEW f \in inflight, CallbackTakeId(f)
  PROVE  TokenInv'
  <1> DEFINE new == <<next_output_id, f.frame>>
  <1>1. PICK c : /\ c.frame = f.frame /\ c.output = next_output_id
                 /\ inflight' = inflight \ {f} /\ callbacks' = callbacks \cup {c}
                 /\ UNCHANGED <<queued, frames, pending_encoded_frames>>
    BY TakeIdEffect, ZenonT(60)
  <1>2. Outs' \subseteq Outs \cup {new}
    <2> HIDE DEF new
    <2>1. \A e \in callbacks' : <<e.output, e.frame>> \in Outs \cup {new}
      BY <1>1, OutsMember, Zenon DEF new
    <2>2. /\ \A o \in DOMAIN queued' : <<o, queued'[o].frame>> \in Outs \cup {new}
          /\ \A t \in SessionIds : \A i \in DOMAIN called'[t] :
               <<called'[t][i].output, called'[t][i].frame>> \in Outs \cup {new}
      BY <1>1, OutsMember, ZenonT(60)
    <2> QED
      BY <2>1, <2>2, OutsWithin, ZenonT(60)
  <1>3. new[1] = next_output_id /\ new[2] = f.frame
    OBVIOUS
  <1> HIDE DEF new
  <1>4. /\ frames' \in Nat
        /\ \A p, q \in Outs' : p[2] = q[2] => p[1] = q[1]
        /\ \A p \in Outs' : p[2] \in Nat /\ p[2] <= frames'
    BY <1>1, <1>2, <1>3 DEF TokenInv
  <1>5. /\ \A g \in inflight' : g.frame \in Nat /\ g.frame <= frames'
        /\ \A g, h \in inflight' : g.frame = h.frame => g = h
        /\ \A g \in inflight', p \in Outs' : g.frame # p[2]
    BY <1>1, <1>2, <1>3 DEF TokenInv
  <1>6. ASSUME NEW t \in DOMAIN pending_encoded_frames' PROVE Alone(t)'
    BY <1>1, <1>2, <1>3 DEF TokenInv, Alone
  <1> QED
    BY <1>4, <1>5, <1>6 DEF TokenInv

LEMMA TokenStore ==
  ASSUME TokenInv, QueueInv, UNCHANGED called, NEW c \in callbacks, CallbackStore(c)
  PROVE  TokenInv'
  <1>1. DOMAIN c = CallbackFields
    BY Zenon DEF QueueInv, CallbackInv
  <1>2. PICK new, image :
          /\ new.output = c.output /\ new.frame = c.frame
          /\ image = [session |-> c.session, frame |-> c.frame]
          /\ callbacks' = (callbacks \ {c}) \cup {new}
          /\ DOMAIN queued' = DOMAIN queued \cup {c.output} /\ queued'[c.output] = image
          /\ \A o \in DOMAIN queued : o # c.output => queued'[o] = queued[o]
          /\ UNCHANGED <<frames, pending_encoded_frames, inflight>>
    BY <1>1, StoreEffect, ZenonT(60)
  <1>3. image.frame = c.frame
    BY <1>2
  <1>4. \A e \in callbacks' : <<e.output, e.frame>> \in Outs
    BY <1>2, OutsMember, Zenon
  <1>5. \A o \in DOMAIN queued' : <<o, queued'[o].frame>> \in Outs
    BY <1>2, <1>3, OutsMember
  <1>6. \A s \in SessionIds : \A i \in DOMAIN called'[s] :
          <<called'[s][i].output, called'[s][i].frame>> \in Outs
    BY OutsMember
  <1>7. Outs' \subseteq Outs
    BY <1>4, <1>5, <1>6, OutsWithin, ZenonT(60)
  <1> QED
    BY <1>2, <1>7, TokenDrop

(* A frame keeps its number from the first request to the callback, and     *)
(* shares it with no other.                                                 *)
LEMMA TokenBackend ==
  ASSUME TokenInv, QueueInv, BackendStep, UNCHANGED called
  PROVE  TokenInv'
  <1>1. ASSUME NEW s, NEW n, EnqueueEncodedFrame(s, n), OutputsStay PROVE TokenInv'
    <2>1. /\ Dispatch(s, frames + 1, n, Bytes(0, n)) /\ frames' = frames + 1
          /\ UNCHANGED pending_encoded_frames
      BY <1>1 DEF EnqueueEncodedFrame, sessVars
    <2>2. Outs' = Outs
      BY <1>1 DEF Outs, OutputsStay
    <2>3. /\ frames \in Nat /\ frames + 1 \in Nat /\ frames' \in Nat /\ frames <= frames'
          /\ frames + 1 <= frames'
      BY <2>1 DEF TokenInv
    <2>4. /\ \A f \in inflight : f.frame # frames + 1
          /\ \A p \in Outs : p[2] # frames + 1
          /\ \A t \in DOMAIN pending_encoded_frames :
               pending_encoded_frames[t].frame # frames + 1
      BY DEF TokenInv, Alone
    <2> QED
      BY <2>1, <2>2, <2>3, <2>4, TokenDispatch
  <1>2. ASSUME FramesStay, callbacks' \subseteq callbacks,
               DOMAIN queued' \subseteq DOMAIN queued,
               \A o \in DOMAIN queued' : queued'[o] = queued[o]
        PROVE  TokenInv'
    <2>1. Outs' \subseteq Outs
      BY <1>2 DEF Outs
    <2> QED
      BY <1>2, <2>1, TokenDrop DEF FramesStay
  <1>3. CASE OutputsStay
    <2>1. CASE FramesStay
      BY <1>2, <1>3, <2>1 DEF OutputsStay
    <2>2. ~ConnectionLost
      BY <1>3, LostEffect DEF OutputsStay
    <2> QED
      BY <1>1, <1>3, <2>1, <2>2, FrameCases, TokenChunk
  <1>4. ASSUME NEW c \in callbacks, CallbackPush(c) PROVE TokenInv'
    BY <1>2, <1>4, PushEffect DEF FramesStay
  <1>5. ASSUME NEW s, DequeueDecodedFrame(s) PROVE TokenInv'
    BY <1>2, <1>5, PopEffect DEF FramesStay
  <1>6. ASSUME NEW o, ReleaseDecodedFrame(o) PROVE TokenInv'
    BY <1>2, <1>6, ReleaseEffect, Zenon DEF FramesStay
  <1>7. CASE ConnectionLost
    <2>1. /\ DOMAIN queued' = {} /\ DOMAIN pending_encoded_frames' = {} /\ inflight' = {}
          /\ UNCHANGED <<callbacks, frames>>
      BY <1>7, LostEffect
    <2>2. Outs' \subseteq Outs
      BY <2>1 DEF Outs
    <2> QED
      BY <2>1, <2>2, TokenDrop
  <1> QED
    BY <1>3, <1>4, <1>5, <1>6, <1>7, OutputCases, TokenTakeId, TokenStore

(* A read that succeeds: what the application is handed.                    *)
LEMMA ReadEffect ==
  ASSUME CalledType, NEW s \in SessionIds, ReadPixels(s), ~UNCHANGED called
  PROVE  \E new :
           /\ new = [output |-> output[s], frame |-> queued[output[s]].frame]
           /\ output[s] \in DOMAIN queued
           /\ called' = [called EXCEPT ![s] = Append(@, new)]
           /\ \A t \in SessionIds : t # s => called'[t] = called[t]
           /\ DOMAIN called'[s] = DOMAIN called[s] \cup {Len(called[s]) + 1}
           /\ Len(called[s]) \in Nat /\ DOMAIN called[s] = 1 .. Len(called[s])
           /\ \A i \in DOMAIN called[s] : called'[s][i] = called[s][i]
           /\ called'[s][Len(called[s]) + 1] = new
  <1> DEFINE Entry == [output : Nat, frame : Nat]
  <1>1. PICK new : /\ new = [output |-> output[s], frame |-> queued[output[s]].frame]
                   /\ output[s] \in DOMAIN queued
                   /\ called' = [called EXCEPT ![s] = Append(@, new)]
    BY Zenon DEF ReadPixels, FrameOf
  <1>2. called \in [SessionIds -> Seq(Entry)]
    BY DEF CalledType
  <1> HIDE DEF Entry
  <1>3. /\ called[s] \in Seq(Entry) /\ called'[s] = Append(called[s], new)
        /\ \A t \in SessionIds : t # s => called'[t] = called[t]
    BY <1>1, <1>2, Zenon
  <1>4. ASSUME NEW q \in Seq(Entry)
        PROVE  /\ Len(q) \in Nat /\ DOMAIN q = 1 .. Len(q)
               /\ DOMAIN Append(q, new) = DOMAIN q \cup {Len(q) + 1}
               /\ \A i \in DOMAIN q : Append(q, new)[i] = q[i]
               /\ Append(q, new)[Len(q) + 1] = new
    OBVIOUS
  <1>5. /\ Len(called[s]) \in Nat /\ DOMAIN called[s] = 1 .. Len(called[s])
        /\ DOMAIN called'[s] = DOMAIN called[s] \cup {Len(called[s]) + 1}
        /\ \A i \in DOMAIN called[s] : called'[s][i] = called[s][i]
        /\ called'[s][Len(called[s]) + 1] = new
    BY <1>3, <1>4
  <1> QED
    BY <1>1, <1>3, <1>5, Zenon

LEMMA TokenStep ==
  ASSUME SendingInv, TokenInv, QueueInv, CalledType, [SessionNext]_allVars
  PROVE  TokenInv'
  <1>1. ASSUME NEW s \in SessionIds, ReadPixels(s), ~UNCHANGED called PROVE TokenInv'
    <2>1. UNCHANGED <<callbacks, queued, inflight, frames, pending_encoded_frames>>
      BY <1>1 DEF ReadPixels, vars, vtVars, queueVars, sessVars
    <2>2. PICK new :
            /\ new = [output |-> output[s], frame |-> queued[output[s]].frame]
            /\ output[s] \in DOMAIN queued
            /\ \A t \in SessionIds : t # s => called'[t] = called[t]
            /\ DOMAIN called'[s] = DOMAIN called[s] \cup {Len(called[s]) + 1}
            /\ \A i \in DOMAIN called[s] : called'[s][i] = called[s][i]
            /\ called'[s][Len(called[s]) + 1] = new
      BY <1>1, ReadEffect, ZenonT(60)
    <2>3. new.output = output[s] /\ new.frame = queued[output[s]].frame
      BY <2>2
    <2>4. \A t \in SessionIds : \A i \in DOMAIN called'[t] :
            <<called'[t][i].output, called'[t][i].frame>> \in Outs
      BY <2>2, <2>3, OutsMember
    <2>5. /\ \A c \in callbacks' : <<c.output, c.frame>> \in Outs
          /\ \A o \in DOMAIN queued' : <<o, queued'[o].frame>> \in Outs
      BY <2>1, OutsMember
    <2>6. Outs' \subseteq Outs
      BY <2>4, <2>5, OutsWithin, ZenonT(60)
    <2> QED
      BY <2>1, <2>6, TokenDrop
  <1> QED
    BY <1>1, TokenBackend, IsBackendStep, CalledKept

-----------------------------------------------------------------------------
(* The queue.                                                               *)

LEMMA QueueInit == SessionInit => QueueInv
  <1> SUFFICES ASSUME SessionInit PROVE QueueInv
    OBVIOUS
  <1>1. /\ next_output_id = 1 /\ callbacks = {} /\ DOMAIN session_queues = {}
    BY DEF SessionInit, Init, EmptyMap
  <1>2. \A s : Fifo(s) \in Seq(Nat) /\ DOMAIN Fifo(s) = {}
    BY <1>1 DEF Fifo
  <1> QED
    BY <1>1, <1>2, Zenon DEF QueueInv, FifoInv

(* The FIFOs as they are, frames and callbacks gone, or none.               *)
LEMMA QueueDrop ==
  ASSUME QueueInv, next_output_id' = next_output_id, \A s : Fifo(s)' = Fifo(s),
         callbacks' \subseteq callbacks, DOMAIN queued' \subseteq DOMAIN queued,
         \A o \in DOMAIN queued' : queued'[o] = queued[o]
  PROVE  QueueInv'
  <1>1. \A c \in callbacks' : CallbackInv(c)'
    BY Zenon DEF QueueInv, CallbackInv
  <1>2. ASSUME NEW s PROVE Fifo(s)' \in Seq(Nat) /\ FifoInv(s)'
    BY ZenonT(60) DEF QueueInv, FifoInv
  <1> QED
    BY <1>1, <1>2 DEF QueueInv

LEMMA QueueTakeId ==
  ASSUME QueueInv, NEW f \in inflight, CallbackTakeId(f)
  PROVE  QueueInv'
  <1>1. PICK new :
          /\ DOMAIN new = CallbackFields /\ new.session = f.session
          /\ new.output = next_output_id /\ new.stored = FALSE
          /\ \A c \in callbacks : c.session # f.session
          /\ callbacks' = callbacks \cup {new} /\ next_output_id' = next_output_id + 1
          /\ UNCHANGED <<queued, session_queues>>
    BY TakeIdEffect, Zenon
  <1>2. next_output_id \in Nat /\ next_output_id' \in Nat
    BY <1>1 DEF QueueInv
  <1>3. \A s : Fifo(s)' = Fifo(s)
    BY <1>1 DEF Fifo
  <1>4. ASSUME NEW s PROVE FifoInv(s)'
    <2> SUFFICES ASSUME NEW i \in DOMAIN Fifo(s)
                 PROVE  /\ Fifo(s)[i] < next_output_id'
                        /\ Fifo(s)[i] \in DOMAIN queued' => queued'[Fifo(s)[i]].session = s
                        /\ \A j \in DOMAIN Fifo(s) : i < j => Fifo(s)[i] < Fifo(s)[j]
                        /\ \A c \in callbacks' : /\ Fifo(s)[i] # c.output
                                                 /\ c.session = s => Fifo(s)[i] < c.output
      BY <1>3, Zenon DEF FifoInv
    <2>1. Fifo(s) \in Seq(Nat) /\ FifoInv(s)
      BY DEF QueueInv
    <2>2. Fifo(s)[i] \in Nat
      BY <2>1
    <2> QED
      BY <1>1, <1>2, <2>1, <2>2 DEF FifoInv
  <1>5. ASSUME NEW c \in callbacks' PROVE CallbackInv(c)'
    <2>1. CASE c = new
      BY <1>1, <1>2, <2>1 DEF CallbackInv
    <2>2. CASE c \in callbacks
      <3>1. CallbackInv(c)
        BY <2>2 DEF QueueInv
      <3> QED
        BY <1>1, <1>2, <3>1 DEF CallbackInv
    <2> QED
      BY <1>1, <2>1, <2>2
  <1>6. \A c, e \in callbacks' : c.session = e.session \/ c.output = e.output => c = e
    <2>1. \A c \in callbacks : c.output # new.output /\ c.session # new.session
      <3>1. \A c \in callbacks : c.output \in Nat /\ c.output < next_output_id
        BY Zenon DEF QueueInv, CallbackInv
      <3> QED
        BY <1>1, <1>2, <3>1
    <2>2. \A c, e \in callbacks : c.session = e.session \/ c.output = e.output => c = e
      BY DEF QueueInv
    <2> QED
      BY <1>1, <2>1, <2>2
  <1>7. \A s : Fifo(s)' \in Seq(Nat)
    BY <1>3 DEF QueueInv
  <1> QED
    BY <1>2, <1>4, <1>5, <1>6, <1>7 DEF QueueInv

LEMMA QueueStore ==
  ASSUME QueueInv, NEW c \in callbacks, CallbackStore(c)
  PROVE  QueueInv'
  <1>1. CallbackInv(c)
    BY DEF QueueInv
  <1>2. PICK new, image :
          /\ DOMAIN new = CallbackFields /\ new.session = c.session /\ new.frame = c.frame
          /\ new.output = c.output
          /\ image = [session |-> c.session, frame |-> c.frame]
          /\ callbacks' = (callbacks \ {c}) \cup {new}
          /\ DOMAIN queued' = DOMAIN queued \cup {c.output} /\ queued'[c.output] = image
          /\ \A o \in DOMAIN queued : o # c.output => queued'[o] = queued[o]
          /\ UNCHANGED <<session_queues, next_output_id>>
    BY <1>1, StoreEffect, ZenonT(60) DEF CallbackInv
  <1>3. \A s : Fifo(s)' = Fifo(s)
    BY <1>2, Zenon DEF Fifo
  <1>4. ASSUME NEW s PROVE FifoInv(s)'
    <2>1. FifoInv(s)
      BY DEF QueueInv
    <2>2. \A i \in DOMAIN Fifo(s) : Fifo(s)[i] # c.output
      BY <2>1 DEF FifoInv
    <2> QED
      BY <1>2, <1>3, <2>1, <2>2, ZenonT(60) DEF FifoInv
  <1>5. ASSUME NEW e \in callbacks' PROVE CallbackInv(e)'
    <2>1. CASE e = new
      BY <1>1, <1>2, <2>1, Zenon DEF CallbackInv
    <2>2. CASE e \in callbacks /\ e # c
      <3>1. e.output # c.output /\ CallbackInv(e)
        BY <2>2 DEF QueueInv
      <3> QED
        BY <1>2, <3>1 DEF CallbackInv
    <2> QED
      BY <1>2, <2>1, <2>2, Zenon
  <1>6. \A e, g \in callbacks' : e.session = g.session \/ e.output = g.output => e = g
    <2>1. \A e, g \in callbacks : e.session = g.session \/ e.output = g.output => e = g
      BY DEF QueueInv
    <2> QED
      BY <1>2, <2>1
  <1>7. next_output_id' \in Nat /\ \A s : Fifo(s)' \in Seq(Nat)
    BY <1>2, <1>3 DEF QueueInv
  <1> QED
    BY <1>4, <1>5, <1>6, <1>7 DEF QueueInv

(* What a push does to the FIFO, entry by entry.                            *)
LEMMA PushedFifo ==
  ASSUME QueueInv, NEW c \in callbacks, CallbackPush(c)
  PROVE  LET q == Fifo(c.session)
         IN  /\ Fifo(c.session)' \in Seq(Nat)
             /\ Len(q) \in Nat /\ DOMAIN q = 1 .. Len(q)
             /\ DOMAIN Fifo(c.session)' = 1 .. Len(q) + 1
             /\ \A i \in DOMAIN q : Fifo(c.session)'[i] = q[i]
             /\ Fifo(c.session)'[Len(q) + 1] = c.output
  <1> DEFINE q == Fifo(c.session)
             r == Append(q, c.output)
  <1>1. Fifo(c.session)' = r
    BY PushEffect
  <1>2. q \in Seq(Nat) /\ c.output \in Nat
    BY Zenon DEF QueueInv, CallbackInv
  <1> HIDE DEF q
  <1>3. /\ r \in Seq(Nat)
        /\ Len(q) \in Nat /\ DOMAIN q = 1 .. Len(q) /\ DOMAIN r = 1 .. Len(q) + 1
        /\ \A i \in DOMAIN q : r[i] = q[i]
        /\ r[Len(q) + 1] = c.output
    BY <1>2
  <1> HIDE DEF r
  <1> QED
    BY <1>1, <1>3 DEF q

LEMMA QueuePush ==
  ASSUME QueueInv, NEW c \in callbacks, CallbackPush(c)
  PROVE  QueueInv'
  <1> DEFINE q == Fifo(c.session)
             r == Fifo(c.session)'
             last == Len(q) + 1
  <1>1. /\ c.stored /\ callbacks' = callbacks \ {c}
        /\ UNCHANGED <<queued, next_output_id>>
        /\ \A t : t # c.session => Fifo(t)' = Fifo(t)
    BY PushEffect
  <1>2. /\ r \in Seq(Nat)
        /\ Len(q) \in Nat /\ DOMAIN q = 1 .. Len(q) /\ DOMAIN r = 1 .. last
        /\ \A i \in DOMAIN q : r[i] = q[i]
        /\ r[last] = c.output
    BY PushedFifo, ZenonT(60)
  <1>3. CallbackInv(c) /\ FifoInv(c.session)
    BY DEF QueueInv
  <1>4. \A e \in callbacks' : e.output # c.output /\ e.session # c.session
    BY <1>1 DEF QueueInv
  <1>5. \A i \in DOMAIN q :
          /\ q[i] < next_output_id /\ q[i] < c.output
          /\ q[i] \in DOMAIN queued => queued[q[i]].session = c.session
          /\ \A j \in DOMAIN q : i < j => q[i] < q[j]
          /\ \A e \in callbacks : q[i] # e.output
    BY <1>3 DEF FifoInv
  <1>6. /\ c.output < next_output_id
        /\ c.output \in DOMAIN queued => queued[c.output].session = c.session
    <2>1. /\ c.output < next_output_id
          /\ c.output \in DOMAIN queued =>
               queued[c.output] = [session |-> c.session, frame |-> c.frame]
      BY <1>1, <1>3, Zenon DEF CallbackInv
    <2> QED
      BY <2>1
  <1>7. FifoInv(c.session)'
    <2> HIDE DEF q, r
    <2>1. ASSUME NEW i \in DOMAIN r
          PROVE  /\ r[i] < next_output_id'
                 /\ r[i] \in DOMAIN queued' => queued'[r[i]].session = c.session
                 /\ \A j \in DOMAIN r : i < j => r[i] < r[j]
                 /\ \A e \in callbacks' : /\ r[i] # e.output
                                          /\ e.session = c.session => r[i] < e.output
      <3>0. Len(q) \in Nat /\ DOMAIN q = 1 .. Len(q) /\ DOMAIN r = 1 .. Len(q) + 1
        BY <1>2, Zenon
      <3>1. i \in DOMAIN q \/ i = Len(q) + 1
        BY ONLY <3>0, i \in DOMAIN r
      <3>2. \A j \in DOMAIN r : i < j => i \in DOMAIN q /\ (j \in DOMAIN q \/ j = Len(q) + 1)
        BY ONLY <3>0, i \in DOMAIN r
      <3>3. \A j \in DOMAIN r : i < j => r[i] < r[j]
        BY <1>2, <1>5, <3>2, ZenonT(60)
      <3>4. \A e \in callbacks' : r[i] # e.output /\ e.session # c.session
        BY <1>1, <1>2, <1>4, <1>5, <3>1
      <3> QED
        BY <1>1, <1>2, <1>5, <1>6, <3>1, <3>3, <3>4, ZenonT(60)
    <2> QED
      BY <2>1 DEF FifoInv, r
  <1> HIDE DEF r, q
  <1>8. ASSUME NEW t PROVE Fifo(t)' \in Seq(Nat) /\ FifoInv(t)'
    <2>1. CASE t = c.session
      BY <1>2, <1>7, <2>1 DEF r
    <2>2. CASE t # c.session
      <3>1. Fifo(t) \in Seq(Nat) /\ FifoInv(t)
        BY DEF QueueInv
      <3> QED
        BY <1>1, <2>2, <3>1 DEF FifoInv
    <2> QED
      BY <2>1, <2>2
  <1>9. \A e \in callbacks' : CallbackInv(e)'
    BY <1>1, Zenon DEF QueueInv, CallbackInv
  <1>10. /\ next_output_id' \in Nat
         /\ \A e, g \in callbacks' : e.session = g.session \/ e.output = g.output => e = g
    BY <1>1 DEF QueueInv
  <1> QED
    BY <1>8, <1>9, <1>10 DEF QueueInv

(* What a dequeue does to the FIFO, entry by entry.                         *)
LEMMA PoppedFifo ==
  ASSUME QueueInv, NEW s, DequeueDecodedFrame(s)
  PROVE  LET q == Fifo(s)
         IN  /\ Fifo(s)' \in Seq(Nat)
             /\ Len(q) \in Nat \ {0} /\ DOMAIN q = 1 .. Len(q)
             /\ DOMAIN Fifo(s)' = 1 .. Len(q) - 1
             /\ \A i \in DOMAIN Fifo(s)' : Fifo(s)'[i] = q[i + 1]
             /\ Head(q) = q[1]
  <1> DEFINE q == Fifo(s)
             r == Tail(q)
  <1>1. q # <<>> /\ Fifo(s)' = r
    BY PopEffect
  <1>2. q \in Seq(Nat)
    BY DEF QueueInv
  <1> HIDE DEF q
  <1>3. /\ r \in Seq(Nat)
        /\ Len(q) \in Nat \ {0} /\ DOMAIN q = 1 .. Len(q) /\ DOMAIN r = 1 .. Len(q) - 1
        /\ \A i \in DOMAIN r : r[i] = q[i + 1]
        /\ Head(q) = q[1]
    BY <1>1, <1>2
  <1> HIDE DEF r
  <1> QED
    BY <1>1, <1>3 DEF q

LEMMA QueuePop ==
  ASSUME QueueInv, NEW s, DequeueDecodedFrame(s)
  PROVE  QueueInv'
  <1> DEFINE q == Fifo(s)
             r == Fifo(s)'
  <1>1. /\ UNCHANGED <<callbacks, queued, next_output_id>>
        /\ \A t : t # s => Fifo(t)' = Fifo(t)
    BY PopEffect
  <1>2. /\ r \in Seq(Nat)
        /\ Len(q) \in Nat \ {0} /\ DOMAIN q = 1 .. Len(q) /\ DOMAIN r = 1 .. Len(q) - 1
        /\ \A i \in DOMAIN r : r[i] = q[i + 1]
    BY PoppedFifo
  <1>3. \A i \in DOMAIN q :
          /\ q[i] < next_output_id
          /\ q[i] \in DOMAIN queued => queued[q[i]].session = s
          /\ \A j \in DOMAIN q : i < j => q[i] < q[j]
          /\ \A e \in callbacks : q[i] # e.output /\ (e.session = s => q[i] < e.output)
    BY DEF QueueInv, FifoInv
  <1>4. FifoInv(s)'
    <2> HIDE DEF q, r
    <2>1. ASSUME NEW i \in DOMAIN r
          PROVE  /\ r[i] < next_output_id'
                 /\ r[i] \in DOMAIN queued' => queued'[r[i]].session = s
                 /\ \A j \in DOMAIN r : i < j => r[i] < r[j]
                 /\ \A e \in callbacks' : r[i] # e.output /\ (e.session = s => r[i] < e.output)
      <3>0. Len(q) \in Nat \ {0} /\ DOMAIN q = 1 .. Len(q) /\ DOMAIN r = 1 .. Len(q) - 1
        BY <1>2, Zenon
      <3>1. i + 1 \in DOMAIN q /\ \A j \in DOMAIN r : j + 1 \in DOMAIN q
        BY ONLY <3>0, i \in DOMAIN r
      <3>2. \A j \in DOMAIN r : i < j => i + 1 < j + 1
        BY ONLY <3>0, i \in DOMAIN r
      <3> QED
        BY <1>1, <1>2, <1>3, <3>1, <3>2
    <2> QED
      BY <2>1 DEF FifoInv, r
  <1> HIDE DEF r, q
  <1>5. ASSUME NEW t PROVE Fifo(t)' \in Seq(Nat) /\ FifoInv(t)'
    <2>1. CASE t = s
      BY <1>2, <1>4, <2>1 DEF r
    <2>2. CASE t # s
      <3>1. Fifo(t) \in Seq(Nat) /\ FifoInv(t)
        BY DEF QueueInv
      <3> QED
        BY <1>1, <2>2, <3>1 DEF FifoInv
    <2> QED
      BY <2>1, <2>2
  <1>6. \A e \in callbacks' : CallbackInv(e)'
    BY <1>1, Zenon DEF QueueInv, CallbackInv
  <1> QED
    BY <1>1, <1>5, <1>6 DEF QueueInv

LEMMA QueueStep == QueueInv /\ BackendStep => QueueInv'
  <1> SUFFICES ASSUME QueueInv, BackendStep PROVE QueueInv'
    OBVIOUS
  <1>1. CASE OutputsStay
    BY <1>1, QueueDrop DEF OutputsStay, Fifo
  <1>2. ASSUME NEW o, ReleaseDecodedFrame(o) PROVE QueueInv'
    <2>1. \A s : Fifo(s)' = Fifo(s)
      BY <1>2, ReleaseEffect, Zenon DEF Fifo
    <2> QED
      BY <1>2, <2>1, ReleaseEffect, QueueDrop, Zenon
  <1>3. CASE ConnectionLost
    <2>1. callbacks' = {} /\ next_output_id' = next_output_id /\ \A s : Fifo(s)' = <<>>
      BY <1>3, LostEffect
    <2>2. <<>> \in Seq(Nat) /\ DOMAIN <<>> = {}
      OBVIOUS
    <2>3. \A s : Fifo(s)' \in Seq(Nat) /\ DOMAIN Fifo(s)' = {}
      BY <2>1, <2>2, Zenon
    <2> QED
      BY <2>1, <2>3, Zenon DEF QueueInv, FifoInv
  <1> QED
    BY <1>1, <1>2, <1>3, OutputCases, QueueTakeId, QueueStore, QueuePush, QueuePop
=============================================================================
