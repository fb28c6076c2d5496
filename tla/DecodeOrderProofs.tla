-------------------------- MODULE DecodeOrderProofs -------------------------
(***************************************************************************)
(* Theorems about what the shim's drain loop does with decoded frames: the  *)
(* application gets its own frames, each once and in order, and the worker  *)
(* gets them back.  For any modes, as in DecodeProofs.                      *)
(***************************************************************************)
EXTENDS DecodeProofs

(* A leaf that the provers do not settle in their usual time gets more.     *)
USE SMTT(60), SMT, SMTT(30), ZenonT(60)

(* An output older than all that the session is still to be given.          *)
Older(s, o) ==
  /\ o < next_output_id
  /\ \A j \in DOMAIN Fifo(s) : o < Fifo(s)[j]
  /\ \A c \in callbacks : c.session = s => o < c.output

(* The output a thread of the shim is about to read: it is older than all   *)
(* that is to come, newer than all the application was handed, and a frame  *)
(* of the session if it is still there.                                     *)
InHand(s) ==
  /\ Older(s, output[s])
  /\ \A i \in DOMAIN called[s] : called[s][i].output < output[s]
  /\ \A c \in callbacks : c.output # output[s]
  /\ output[s] \in DOMAIN queued => queued[output[s]].session = s

LoopInv ==
  /\ \A s \in SessionIds : \A i \in DOMAIN called[s] : Older(s, called[s][i].output)
  /\ \A s \in SessionIds : pc[s] = "read" => InHand(s)
  /\ \A f \in inflight : f.session \in SessionIds /\ f.frame \in accepted[f.session]
  /\ \A c \in callbacks : c.session \in SessionIds /\ c.frame \in accepted[c.session]
  /\ \A o \in DOMAIN queued : /\ queued[o].session \in SessionIds
                              /\ queued[o].frame \in accepted[queued[o].session]

GuestInv ==
  /\ DOMAIN pc = SessionIds /\ output \in [SessionIds -> Nat]
  /\ CalledType
  /\ accepted \in [SessionIds -> SUBSET Nat]
  /\ CalledInOrder
  /\ mode.client = "shim" => LoopInv

(* Ids only grow: an output older than all that is to come stays so.        *)
LEMMA OlderKept ==
  ASSUME QueueInv, BackendStep, NEW s, NEW o \in Nat, Older(s, o)
  PROVE  Older(s, o)'
  <1>1. /\ o < next_output_id /\ next_output_id \in Nat
        /\ \A j \in DOMAIN Fifo(s) : o < Fifo(s)[j]
        /\ \A c \in callbacks : c.session = s => o < c.output
    BY DEF Older, QueueInv
  <1>2. ASSUME Fifo(s)' = Fifo(s), next_output_id' = next_output_id,
               \A c \in callbacks' :
                 \E e \in callbacks : c.session = e.session /\ c.output = e.output
        PROVE  Older(s, o)'
    BY <1>1, <1>2 DEF Older
  <1>3. CASE OutputsStay
    BY <1>2, <1>3 DEF OutputsStay, Fifo
  <1>4. ASSUME NEW f \in inflight, CallbackTakeId(f) PROVE Older(s, o)'
    <2>1. PICK new : /\ callbacks' = callbacks \cup {new} /\ new.output = next_output_id
                     /\ next_output_id' = next_output_id + 1 /\ UNCHANGED session_queues
      BY <1>4, TakeIdEffect, Zenon
    <2>2. Fifo(s)' = Fifo(s)
      BY <2>1 DEF Fifo
    <2> QED
      BY <1>1, <2>1, <2>2 DEF Older
  <1>5. ASSUME NEW c \in callbacks, CallbackStore(c) PROVE Older(s, o)'
    <2>1. DOMAIN c = CallbackFields
      BY Zenon DEF QueueInv, CallbackInv
    <2>2. PICK new : /\ new.session = c.session /\ new.output = c.output
                     /\ callbacks' = (callbacks \ {c}) \cup {new}
                     /\ UNCHANGED <<session_queues, next_output_id>>
      BY <1>5, <2>1, StoreEffect, Zenon
    <2> QED
      BY <1>2, <2>2 DEF Fifo
  <1>6. ASSUME NEW c \in callbacks, CallbackPush(c) PROVE Older(s, o)'
    <2> DEFINE q == Fifo(c.session)
               r == Fifo(c.session)'
    <2>1. /\ callbacks' \subseteq callbacks /\ UNCHANGED next_output_id
          /\ \A t : t # c.session => Fifo(t)' = Fifo(t)
      BY <1>6, PushEffect
    <2>2. CASE s # c.session
      BY <1>2, <2>1, <2>2
    <2>3. CASE s = c.session
      <3>1. /\ Len(q) \in Nat /\ DOMAIN q = 1 .. Len(q) /\ DOMAIN r = 1 .. Len(q) + 1
            /\ \A i \in DOMAIN q : r[i] = q[i]
            /\ r[Len(q) + 1] = c.output
        BY <1>6, PushedFifo, Zenon
      <3>2. o < c.output /\ \A j \in DOMAIN q : o < q[j]
        BY <1>1, <2>3
      <3> HIDE DEF q, r
      <3>3. \A j \in DOMAIN r : o < r[j]
        BY <3>1, <3>2
      <3> QED
        BY <1>1, <2>1, <2>3, <3>3 DEF Older, r
    <2> QED
      BY <2>2, <2>3
  <1>7. ASSUME NEW t, DequeueDecodedFrame(t) PROVE Older(s, o)'
    <2> DEFINE q == Fifo(t)
               r == Fifo(t)'
    <2>1. UNCHANGED <<callbacks, next_output_id>> /\ \A u : u # t => Fifo(u)' = Fifo(u)
      BY <1>7, PopEffect
    <2>2. CASE s # t
      BY <1>2, <2>1, <2>2
    <2>3. CASE s = t
      <3>1. /\ Len(q) \in Nat \ {0} /\ DOMAIN q = 1 .. Len(q) /\ DOMAIN r = 1 .. Len(q) - 1
            /\ \A i \in DOMAIN r : r[i] = q[i + 1]
        BY <1>7, PoppedFifo
      <3>2. \A j \in DOMAIN q : o < q[j]
        BY <1>1, <2>3
      <3> HIDE DEF q, r
      <3>3. \A j \in DOMAIN r : j + 1 \in DOMAIN q
        BY <3>1
      <3>4. \A j \in DOMAIN r : o < r[j]
        BY <3>1, <3>2, <3>3
      <3> QED
        BY <1>1, <2>1, <2>3, <3>4 DEF Older, r
    <2> QED
      BY <2>2, <2>3
  <1>8. ASSUME NEW i, ReleaseDecodedFrame(i) PROVE Older(s, o)'
    BY <1>2, <1>8, ReleaseEffect, Zenon DEF Fifo
  <1>9. CASE ConnectionLost
    <2>1. callbacks' = {} /\ next_output_id' = next_output_id /\ Fifo(s)' = <<>>
      BY <1>9, LostEffect
    <2> QED
      BY <1>1, <2>1 DEF Older
  <1> QED
    BY <1>3, <1>4, <1>5, <1>6, <1>7, <1>8, <1>9, OutputCases

(* Where the frames in the worker come from: one in a callback was in       *)
(* VideoToolbox, one in the map was in a callback, whose id it has.         *)
FramesMove ==
  /\ \A c \in callbacks' :
       \/ \E e \in callbacks : /\ c.session = e.session /\ c.frame = e.frame
                               /\ c.output = e.output
       \/ \E f \in inflight : /\ c.session = f.session /\ c.frame = f.frame
                              /\ c.output = next_output_id
  /\ \A o \in DOMAIN queued' :
       \/ o \in DOMAIN queued /\ queued'[o] = queued[o]
       \/ \E e \in callbacks : /\ e.output = o /\ queued'[o].session = e.session
                               /\ queued'[o].frame = e.frame

LEMMA MoveStep == QueueInv /\ BackendStep => FramesMove
  <1> SUFFICES ASSUME QueueInv, BackendStep PROVE FramesMove
    OBVIOUS
  <1>1. ASSUME callbacks' \subseteq callbacks, DOMAIN queued' \subseteq DOMAIN queued,
               \A o \in DOMAIN queued' : queued'[o] = queued[o]
        PROVE  FramesMove
    BY <1>1 DEF FramesMove
  <1>2. ASSUME NEW f \in inflight, CallbackTakeId(f) PROVE FramesMove
    <2>1. PICK new : /\ new.session = f.session /\ new.frame = f.frame
                     /\ new.output = next_output_id
                     /\ callbacks' = callbacks \cup {new} /\ UNCHANGED queued
      BY <1>2, TakeIdEffect, Zenon
    <2> QED
      BY <2>1 DEF FramesMove
  <1>3. ASSUME NEW c \in callbacks, CallbackStore(c) PROVE FramesMove
    <2>1. DOMAIN c = CallbackFields
      BY Zenon DEF QueueInv, CallbackInv
    <2>2. PICK new, image :
            /\ new.session = c.session /\ new.frame = c.frame /\ new.output = c.output
            /\ image = [session |-> c.session, frame |-> c.frame]
            /\ callbacks' = (callbacks \ {c}) \cup {new}
            /\ DOMAIN queued' = DOMAIN queued \cup {c.output} /\ queued'[c.output] = image
            /\ \A o \in DOMAIN queued : o # c.output => queued'[o] = queued[o]
      BY <1>3, <2>1, StoreEffect, ZenonT(60)
    <2>3. image.session = c.session /\ image.frame = c.frame
      BY <2>2
    <2> QED
      BY <2>2, <2>3 DEF FramesMove
  <1>4. CASE OutputsStay
    BY <1>1, <1>4 DEF OutputsStay
  <1>5. ASSUME NEW c \in callbacks, CallbackPush(c) PROVE FramesMove
    BY <1>1, <1>5, PushEffect
  <1>6. ASSUME NEW s, DequeueDecodedFrame(s) PROVE FramesMove
    BY <1>1, <1>6, PopEffect
  <1>7. ASSUME NEW o, ReleaseDecodedFrame(o) PROVE FramesMove
    BY <1>1, <1>7, ReleaseEffect, Zenon
  <1>8. CASE ConnectionLost
    BY <1>1, <1>8, LostEffect
  <1> QED
    BY <1>2, <1>3, <1>4, <1>5, <1>6, <1>7, <1>8, OutputCases

LEMMA GuestInit == SessionInit => GuestInv
  <1> SUFFICES ASSUME SessionInit PROVE GuestInv
    OBVIOUS
  <1>1. /\ callbacks = {} /\ DOMAIN queued = {} /\ inflight = {}
        /\ \A s \in SessionIds : called[s] = <<>> /\ pc[s] # "read"
    BY DEF SessionInit, Init, EmptyMap
  <1>2. \A s \in SessionIds : DOMAIN called[s] = {}
    BY <1>1
  <1>3. /\ DOMAIN pc = SessionIds /\ output \in [SessionIds -> Nat]
        /\ CalledType
        /\ accepted \in [SessionIds -> SUBSET Nat]
    BY DEF SessionInit, CalledType
  <1> QED
    BY <1>1, <1>2, <1>3 DEF GuestInv, CalledInOrder, LoopInv

LEMMA CalledUnchanged ==
  ASSUME GuestInv, UNCHANGED called, \A s \in SessionIds : accepted[s] \subseteq accepted'[s]
  PROVE  CalledType' /\ CalledInOrder'
  <1>1. CalledType'
    BY DEF GuestInv, CalledType
  <1>2. CalledInOrder
    BY DEF GuestInv
  <1> QED
    BY <1>1, <1>2 DEF CalledInOrder

(* The loop's invariant when nothing is handed to the application: a thread *)
(* that reads did so before, or has just taken the output in hand; a frame  *)
(* that is new in VideoToolbox has been accepted.                           *)
LEMMA LoopKept ==
  ASSUME SendingInv, QueueInv, GuestInv, LoopInv, BackendStep, UNCHANGED called,
         \A s \in SessionIds : accepted[s] \subseteq accepted'[s],
         \A s \in SessionIds :
           pc'[s] = "read" => (pc[s] = "read" /\ output'[s] = output[s]) \/ InHand(s)',
         \A f \in inflight' :
           f \in inflight \/ (f.session \in SessionIds /\ f.frame \in accepted'[f.session])
  PROVE  LoopInv'
  <1>1. FramesMove
    BY MoveStep
  <1>2. next_output_id \in Nat /\ output \in [SessionIds -> Nat]
    BY DEF QueueInv, GuestInv
  <1>3. \A s \in SessionIds : \A i \in DOMAIN called[s] : called[s][i].output \in Nat
    <2> SUFFICES ASSUME NEW s \in SessionIds, NEW i \in DOMAIN called[s]
                 PROVE  called[s][i].output \in Nat
      OBVIOUS
    <2> DEFINE Entry == [output : Nat, frame : Nat]
    <2>1. called[s] \in Seq(Entry)
      BY DEF GuestInv, CalledType
    <2>2. \A e \in Entry : e.output \in Nat
      OBVIOUS
    <2> HIDE DEF Entry
    <2>3. called[s][i] \in Entry
      BY <2>1
    <2> QED
      BY <2>2, <2>3
  <1>4. ASSUME NEW s \in SessionIds, NEW o \in Nat, Older(s, o)
        PROVE  /\ o < next_output_id'
               /\ \A j \in DOMAIN Fifo(s)' : o < Fifo(s)'[j]
               /\ \A c \in callbacks' : c.session = s => o < c.output
    BY <1>4, OlderKept DEF Older
  <1>5. \A s \in SessionIds : \A i \in DOMAIN called'[s] : Older(s, called[s][i].output)'
    BY <1>3, <1>4 DEF LoopInv, Older
  <1>6. ASSUME NEW s \in SessionIds, pc'[s] = "read" PROVE InHand(s)'
    <2> SUFFICES ASSUME pc[s] = "read", output'[s] = output[s] PROVE InHand(s)'
      BY <1>6
    <2>1. /\ Older(s, output[s]) /\ output[s] \in Nat
          /\ \A i \in DOMAIN called[s] : called[s][i].output < output[s]
          /\ \A c \in callbacks : c.output # output[s]
          /\ output[s] \in DOMAIN queued => queued[output[s]].session = s
      BY <1>2 DEF LoopInv, InHand
    <2>2. Older(s, output[s])'
      BY <1>4, <2>1 DEF Older
    <2>3. output[s] < next_output_id
      BY <2>1 DEF Older
    <2>4. \A c \in callbacks' : c.output # output[s]
      BY <1>1, <1>2, <2>1, <2>3 DEF FramesMove
    <2>5. output[s] \in DOMAIN queued' => queued'[output[s]].session = s
      BY <1>1, <2>1 DEF FramesMove
    <2> QED
      BY <2>1, <2>2, <2>4, <2>5 DEF InHand
  <1>7. \A f \in inflight : f.session \in SessionIds /\ f.frame \in accepted'[f.session]
    BY DEF LoopInv
  <1>8. \A c \in callbacks : c.session \in SessionIds /\ c.frame \in accepted'[c.session]
    BY DEF LoopInv
  <1>9. \A f \in inflight' : f.session \in SessionIds /\ f.frame \in accepted'[f.session]
    BY <1>7
  <1>10. \A c \in callbacks' : c.session \in SessionIds /\ c.frame \in accepted'[c.session]
    BY <1>1, <1>7, <1>8 DEF FramesMove
  <1>11. \A o \in DOMAIN queued' : /\ queued'[o].session \in SessionIds
                                   /\ queued'[o].frame \in accepted'[queued'[o].session]
    BY <1>1, <1>8 DEF FramesMove, LoopInv
  <1> QED
    BY <1>5, <1>6, <1>9, <1>10, <1>11 DEF LoopInv

(* A step after which no thread reads that did not before, and that submits *)
(* no frame.                                                                *)
Quiet ==
  /\ UNCHANGED <<called, accepted>>
  /\ inflight' \subseteq inflight
  /\ DOMAIN pc' = SessionIds /\ output' \in [SessionIds -> Nat]
  /\ \A s \in SessionIds : pc'[s] = "read" => pc[s] = "read" /\ output'[s] = output[s]

LEMMA GuestQuiet ==
  ASSUME SendingInv, QueueInv, GuestInv, BackendStep, Quiet
  PROVE  GuestInv'
  <1>1. mode' = mode
    BY ModeKept
  <1>2. ASSUME LoopInv PROVE LoopInv'
    BY <1>2, LoopKept DEF Quiet
  <1> QED
    BY <1>1, <1>2, CalledUnchanged DEF GuestInv, Quiet

(* The frame of a request that VideoToolbox took is accepted.               *)
LEMMA GuestSubmitted ==
  ASSUME SendingInv, QueueInv, GuestInv, BackendStep, TokenInv', UNCHANGED <<called, output>>,
         NEW s \in SessionIds, Submitted(s), \A f \in inflight' \ inflight : f.session = s
  PROVE  GuestInv'
  <1> DEFINE new == {f.frame : f \in inflight' \ inflight}
  <1>1. /\ accepted' = [accepted EXCEPT ![s] = @ \cup new]
        /\ \/ pc' = [pc EXCEPT ![s] = "drain"]
           \/ pc' = [pc EXCEPT ![s] = "idle"]
    BY DEF Submitted, Return, Goto
  <1>2. mode' = mode
    BY ModeKept
  <1>3. /\ DOMAIN pc' = SessionIds
        /\ \A t \in SessionIds : pc'[t] = "read" => pc[t] = "read"
    BY <1>1 DEF GuestInv
  <1>4. new \subseteq Nat
    BY DEF TokenInv
  <1>5. \A f \in inflight' \ inflight : f.frame \in new
    OBVIOUS
  <1> HIDE DEF new
  <1>6. /\ accepted' \in [SessionIds -> SUBSET Nat]
        /\ accepted'[s] = accepted[s] \cup new
        /\ \A t \in SessionIds : accepted[t] \subseteq accepted'[t]
    BY <1>1, <1>4, Zenon DEF GuestInv
  <1>7. \A f \in inflight' :
          f \in inflight \/ (f.session \in SessionIds /\ f.frame \in accepted'[f.session])
    BY <1>5, <1>6
  <1>8. ASSUME LoopInv PROVE LoopInv'
    BY <1>3, <1>6, <1>7, <1>8, LoopKept
  <1>9. CalledType' /\ CalledInOrder'
    BY <1>6, CalledUnchanged
  <1> QED
    BY <1>2, <1>3, <1>6, <1>8, <1>9 DEF GuestInv

LEMMA ApplicationKeeps ==
  ASSUME SendingInv, QueueInv, GuestInv, TokenInv', NEW s \in SessionIds, Application(s)
  PROVE  GuestInv'
  <1>1. BackendStep
    BY ApplicationIsStep
  <1> USE DEF Begin, Goto, vtVars
  <1>2. ASSUME NEW size, EnqueueInline(s, size) PROVE GuestInv'
    <2>1. \A f \in inflight' \ inflight : f.session = s
      BY <1>2 DEF EnqueueInline, EnqueueEncodedFrame, Dispatch
    <2>2. Submitted(s) /\ UNCHANGED <<called, output>>
      BY <1>2 DEF EnqueueInline
    <2> QED
      BY <1>1, <2>1, <2>2, GuestSubmitted
  <1>3. ASSUME NEW opts, VTDecompressionSessionCreate(s, opts) PROVE Quiet
    BY <1>3 DEF VTDecompressionSessionCreate, CreateSession, Quiet, GuestInv
  <1>4. ASSUME NEW size, EnqueueChunked(s, size) PROVE Quiet
    BY <1>4 DEF EnqueueChunked, Quiet, GuestInv, vars
  <1>5. CASE VTDecompressionSessionWaitForAsynchronousFrames(s)
    <2>1. Quiet
      BY <1>5 DEF VTDecompressionSessionWaitForAsynchronousFrames, Quiet, GuestInv, vars
    <2> QED
      BY <1>1, <2>1, GuestQuiet
  <1>6. CASE EndInCallback(s) \/ VTDecompressionSessionInvalidate(s) \/ ReleaseSession(s)
    <2>1. UNCHANGED <<pc, output, accepted, called>> /\ inflight' \subseteq inflight
      <3>1. CASE EndInCallback(s)
        BY <3>1 DEF EndInCallback, DestroySession
      <3>2. CASE VTDecompressionSessionInvalidate(s)
        BY <3>2 DEF VTDecompressionSessionInvalidate, DestroySession, vars
      <3>3. CASE ReleaseSession(s)
        BY <3>3 DEF ReleaseSession, DestroySession, vars
      <3> QED
        BY <1>6, <3>1, <3>2, <3>3
    <2>2. Quiet
      BY <2>1 DEF Quiet, GuestInv
    <2> QED
      BY <1>1, <2>2, GuestQuiet
  <1> QED
    BY <1>1, <1>2, <1>3, <1>4, <1>5, <1>6, GuestQuiet DEF Application

(* The front of a FIFO: a frame of the session, older than the others.      *)
LEMMA FrontOfFifo ==
  ASSUME QueueInv, NEW s, DequeueDecodedFrame(s)
  PROVE  LET q == Fifo(s)
             o == Head(q)
         IN  /\ o = q[1] /\ 1 \in DOMAIN q
             /\ o \in Nat /\ o < next_output_id
             /\ o \in DOMAIN queued => queued[o].session = s
             /\ \A j \in DOMAIN q : 1 < j => o < q[j]
             /\ \A c \in callbacks : o # c.output /\ (c.session = s => o < c.output)
  <1> DEFINE q == Fifo(s)
  <1>1. Head(q) = q[1] /\ 1 \in DOMAIN q
    BY PoppedFifo
  <1>2. q \in Seq(Nat)
    BY DEF QueueInv
  <1>3. q[1] \in Nat
    BY <1>1, <1>2
  <1>4. /\ q[1] < next_output_id
        /\ q[1] \in DOMAIN queued => queued[q[1]].session = s
        /\ \A j \in DOMAIN q : 1 < j => q[1] < q[j]
        /\ \A c \in callbacks : q[1] # c.output /\ (c.session = s => q[1] < c.output)
    BY <1>1 DEF QueueInv, FifoInv
  <1> HIDE DEF q
  <1>5. /\ Head(q) = q[1] /\ 1 \in DOMAIN q
        /\ Head(q) \in Nat /\ Head(q) < next_output_id
        /\ Head(q) \in DOMAIN queued => queued[Head(q)].session = s
        /\ \A j \in DOMAIN q : 1 < j => Head(q) < q[j]
        /\ \A c \in callbacks : Head(q) # c.output /\ (c.session = s => Head(q) < c.output)
    BY <1>1, <1>3, <1>4
  <1> QED
    BY <1>5 DEF q

(* The front of the FIFO comes to hand.                                     *)
LEMMA GuestDequeue ==
  ASSUME SendingInv, QueueInv, GuestInv, BackendStep, mode.client = "shim",
         NEW s \in SessionIds, Dequeue(s), DequeueDecodedFrame(s)
  PROVE  GuestInv'
  <1> DEFINE q == Fifo(s)
             o == Head(q)
             r == Fifo(s)'
  <1>1. /\ output' = [output EXCEPT ![s] = o]
        /\ \E label : pc' = [pc EXCEPT ![s] = label]
        /\ UNCHANGED <<accepted, called>>
    <2>1. q # <<>> /\ Ready /\ s \in DOMAIN decode_sessions
      BY DEF DequeueDecodedFrame
    <2>2. ~DequeueFoundEmpty(s)
      BY <2>1 DEF DequeueFoundEmpty, FifoEmpty
    <2> QED
      BY <2>1, <2>2 DEF Dequeue, Return, Goto
  <1>2. UNCHANGED <<callbacks, queued, inflight, next_output_id>>
    BY PopEffect
  <1>3. /\ Len(q) \in Nat \ {0} /\ DOMAIN q = 1 .. Len(q) /\ DOMAIN r = 1 .. Len(q) - 1
        /\ \A i \in DOMAIN r : r[i] = q[i + 1]
    BY PoppedFifo
  <1>4. /\ o = q[1] /\ 1 \in DOMAIN q
        /\ o \in Nat /\ o < next_output_id
        /\ o \in DOMAIN queued => queued[o].session = s
        /\ \A j \in DOMAIN q : 1 < j => o < q[j]
        /\ \A c \in callbacks : o # c.output /\ (c.session = s => o < c.output)
    BY FrontOfFifo
  <1>5. LoopInv
    BY DEF GuestInv
  <1>6. \A i \in DOMAIN called[s] : called[s][i].output < o
    BY <1>4, <1>5 DEF LoopInv, Older
  <1> HIDE DEF o, q, r
  <1>7. \A j \in DOMAIN r : o < r[j]
    <2> TAKE j \in DOMAIN r
    <2>1. j + 1 \in DOMAIN q /\ 1 < j + 1
      BY <1>3
    <2> QED
      BY <1>3, <1>4, <2>1
  <1>8. /\ DOMAIN pc' = SessionIds /\ output' \in [SessionIds -> Nat] /\ output'[s] = o
        /\ \A t \in SessionIds : t # s => pc'[t] = pc[t] /\ output'[t] = output[t]
    BY <1>1, <1>4 DEF GuestInv
  <1>9. Older(s, output[s])'
    BY <1>2, <1>4, <1>7, <1>8 DEF Older, r
  <1>10. InHand(s)'
    BY <1>1, <1>2, <1>4, <1>6, <1>8, <1>9 DEF InHand
  <1>11. LoopInv'
    BY <1>1, <1>2, <1>5, <1>8, <1>10, LoopKept
  <1> QED
    BY <1>1, <1>8, <1>11, CalledUnchanged DEF GuestInv

(* The application is handed the frame in hand.                             *)
LEMMA GuestRead ==
  ASSUME SendingInv, TokenInv, QueueInv, GuestInv, mode.client = "shim",
         NEW s \in SessionIds, ReadPixels(s), ~UNCHANGED called
  PROVE  GuestInv'
  <1> DEFINE last == Len(called[s]) + 1
  <1>1. UNCHANGED vars /\ pc[s] = "read" /\ pc' = [pc EXCEPT ![s] = "callback"]
        /\ UNCHANGED <<output, accepted>>
    BY DEF ReadPixels, Goto
  <1>2. PICK new :
          /\ new = [output |-> output[s], frame |-> queued[output[s]].frame]
          /\ output[s] \in DOMAIN queued
          /\ called' = [called EXCEPT ![s] = Append(@, new)]
          /\ \A t \in SessionIds : t # s => called'[t] = called[t]
          /\ DOMAIN called'[s] = DOMAIN called[s] \cup {last}
          /\ Len(called[s]) \in Nat /\ DOMAIN called[s] = 1 .. Len(called[s])
          /\ \A i \in DOMAIN called[s] : called'[s][i] = called[s][i]
          /\ called'[s][last] = new
    BY ReadEffect DEF GuestInv
  <1>3. LoopInv /\ InHand(s)
    BY <1>1 DEF GuestInv, LoopInv
  <1>4. new.output = output[s] /\ new.frame = queued[output[s]].frame
    BY <1>2
  <1>5. /\ new.frame \in accepted[s] /\ new.frame \in Nat /\ output[s] \in Nat
        /\ new \in [output : Nat, frame : Nat]
    <2>1. new.frame \in accepted[s]
      BY <1>2, <1>3, <1>4 DEF LoopInv, InHand
    <2>2. new.frame \in Nat /\ output[s] \in Nat
      BY <2>1 DEF GuestInv
    <2> QED
      BY <1>2, <2>1, <2>2
  <1>6. \A i \in DOMAIN called[s] : /\ called[s][i].output < output[s]
                                    /\ called[s][i].frame # new.frame
    <2>1. \A i \in DOMAIN called[s] : called[s][i].output < output[s]
      BY <1>3 DEF InHand
    <2>2. <<output[s], new.frame>> \in Outs
      BY <1>2, <1>4, OutsMember
    <2>3. ASSUME NEW i \in DOMAIN called[s], called[s][i].frame = new.frame PROVE FALSE
      <3> DEFINE p == <<called[s][i].output, called[s][i].frame>>
                 p2 == <<output[s], new.frame>>
      <3>1. p \in Outs /\ p2 \in Outs
        BY <2>2, OutsMember
      <3>2. p[2] = p2[2] /\ p[1] = called[s][i].output /\ p2[1] = output[s]
        BY <2>3
      <3> HIDE DEF p, p2
      <3>3. p[1] = p2[1]
        BY <3>1, <3>2 DEF TokenInv
      <3>4. called[s][i].output < output[s]
        BY <2>1
      <3> QED
        BY <1>5, <3>2, <3>3, <3>4
    <2> QED
      BY <2>1, <2>3
  <1>7. \A i \in DOMAIN called'[s] : i \in DOMAIN called[s] \/ i = last
    BY <1>2
  <1>8. \A i, j \in DOMAIN called'[s] : i < j => i \in DOMAIN called[s]
    BY <1>2
  <1>9. CalledInOrder'
    <2>1. ASSUME NEW t \in SessionIds
          PROVE  /\ \A i, j \in DOMAIN called'[t] :
                      i < j => called'[t][i].output < called'[t][j].output
                 /\ \A i, j \in DOMAIN called'[t] :
                      i # j => called'[t][i].frame # called'[t][j].frame
                 /\ \A i \in DOMAIN called'[t] : called'[t][i].frame \in accepted'[t]
      <3>1. /\ \A i, j \in DOMAIN called[t] : i < j => called[t][i].output < called[t][j].output
            /\ \A i, j \in DOMAIN called[t] : i # j => called[t][i].frame # called[t][j].frame
            /\ \A i \in DOMAIN called[t] : called[t][i].frame \in accepted[t]
        BY DEF GuestInv, CalledInOrder
      <3>2. CASE t # s
        <4>1. called'[t] = called[t] /\ accepted'[t] = accepted[t]
          BY <1>1, <1>2, <3>2
        <4> QED
          BY <3>1, <4>1
      <3>3. CASE t = s
        <4> HIDE DEF last
        <4>1. \A i, j \in DOMAIN called'[s] : i < j => called'[s][i].output < called'[s][j].output
          BY <1>2, <1>4, <1>6, <1>7, <1>8, <3>1, <3>3
        <4>2. \A i, j \in DOMAIN called'[s] : i # j => called'[s][i].frame # called'[s][j].frame
          BY <1>2, <1>6, <1>7, <3>1, <3>3
        <4>3. \A i \in DOMAIN called'[s] : called'[s][i].frame \in accepted'[s]
          BY <1>1, <1>2, <1>5, <1>7, <3>1, <3>3
        <4> QED
          BY <3>3, <4>1, <4>2, <4>3
      <3> QED
        BY <3>2, <3>3
    <2> QED
      BY <2>1 DEF CalledInOrder
  <1>10. CalledType'
    <2> DEFINE Entry == [output : Nat, frame : Nat]
    <2>1. called \in [SessionIds -> Seq(Entry)] /\ new \in Entry
      BY <1>5 DEF GuestInv, CalledType
    <2>2. called' = [called EXCEPT ![s] = Append(@, new)]
      BY <1>2
    <2> HIDE DEF Entry
    <2>3. Append(called[s], new) \in Seq(Entry)
      BY <2>1
    <2>4. called' \in [SessionIds -> Seq(Entry)]
      BY <2>1, <2>2, <2>3
    <2> QED
      BY <2>4 DEF Entry, CalledType
  <1>11. UNCHANGED <<mode, inflight, callbacks, queued, session_queues, next_output_id>>
    BY <1>1 DEF vars, modeVars, vtVars, queueVars
  <1>12. \A t : Fifo(t)' = Fifo(t)
    BY <1>11 DEF Fifo
  <1>13. /\ DOMAIN pc' = SessionIds /\ pc'[s] # "read"
         /\ \A t \in SessionIds : t # s => pc'[t] = pc[t]
    BY <1>1 DEF GuestInv
  <1>14. \A t \in SessionIds : \A i \in DOMAIN called'[t] : Older(t, called[t][i].output)'
    <2>1. \A t \in SessionIds : \A i \in DOMAIN called[t] : Older(t, called[t][i].output)
      BY <1>3 DEF LoopInv
    <2>2. Older(s, new.output)
      BY <1>3, <1>4 DEF InHand
    <2>3. \A t \in SessionIds : \A i \in DOMAIN called'[t] :
            Older(t, called'[t][i].output)
      BY <1>2, <1>7, <2>1, <2>2
    <2> QED
      BY <1>11, <1>12, <2>3 DEF Older
  <1>15. \A t \in SessionIds : pc'[t] = "read" => InHand(t)'
    <2> SUFFICES ASSUME NEW t \in SessionIds, pc'[t] = "read" PROVE InHand(t)'
      OBVIOUS
    <2>1. t # s /\ InHand(t)
      BY <1>3, <1>13 DEF LoopInv
    <2> QED
      BY <1>1, <1>2, <1>11, <1>12, <2>1 DEF InHand, Older
  <1>16. LoopInv'
    BY <1>1, <1>3, <1>11, <1>14, <1>15 DEF LoopInv
  <1> QED
    BY <1>1, <1>9, <1>10, <1>13, <1>16 DEF GuestInv

(* A chunk that completes a frame submits it to its own session.            *)
LEMMA ChunkSession ==
  ASSUME NEW s, NEW offset, NEW length, NEW total, NEW final,
         EnqueueEncodedFrameChunk(s, offset, length, total, final)
  PROVE  \A f \in inflight' \ inflight : f.session = s
  <1>1. (\E n, t, b : Dispatch(s, n, t, b)) \/ UNCHANGED inflight
    BY ZenonT(60) DEF EnqueueEncodedFrameChunk
  <1> QED
    BY <1>1 DEF Dispatch

LEMMA PartialChunk ==
  ASSUME NEW s, NEW offset, NEW length, NEW total, NEW final, ~final,
         EnqueueEncodedFrameChunk(s, offset, length, total, final)
  PROVE  UNCHANGED inflight
  BY DEF EnqueueEncodedFrameChunk

(* An empty FIFO changes nothing but the worker's note of who polled it.    *)
LEMMA EmptyEffect ==
  ASSUME NEW s, DequeueFoundEmpty(s)
  PROVE  UNCHANGED <<mode, inflight, delivered, released, open>>
  BY DEF DequeueFoundEmpty, modeVars, histVars, vtVars

(* What a poll of the FIFO leaves alone, and the ways in which it ends.     *)
LEMMA DequeueCases ==
  ASSUME NEW s, Dequeue(s)
  PROVE  /\ pc[s] = "drain" /\ UNCHANGED <<accepted, called>>
         /\ \/ DequeueDecodedFrame(s)
            \/ DequeueFoundEmpty(s) /\ pc' = [pc EXCEPT ![s] = "polled"] /\ UNCHANGED output
            \/ pc' = [pc EXCEPT ![s] = "idle"] /\ UNCHANGED <<vars, output>>
  BY DEF Dequeue, Goto, Return

(* A read of pixels is the application's callback, or it failed.            *)
LEMMA ReadCases ==
  ASSUME NEW s, ReadPixels(s)
  PROVE  /\ UNCHANGED <<vars, accepted, output>>
         /\ \E label \in {"callback", "release"} : pc' = [pc EXCEPT ![s] = label]
  BY DEF ReadPixels, ReadFailed, Goto

LEMMA WorksKeeps ==
  ASSUME SendingInv, TokenInv, QueueInv, GuestInv, TokenInv', mode.client = "shim",
         NEW s \in SessionIds, Works(s)
  PROVE  GuestInv'
  <1>1. BackendStep
    BY WorksIsStep
  <1> USE DEF Goto, Return, vtVars
  <1>2. ASSUME NEW label, label # "read", pc' = [pc EXCEPT ![s] = label],
               output' = output \/ output' = [output EXCEPT ![s] = 0],
               UNCHANGED <<called, accepted>>, inflight' \subseteq inflight
        PROVE  GuestInv'
    <2>1. Quiet
      BY <1>2 DEF Quiet, GuestInv
    <2> QED
      BY <1>1, <2>1, GuestQuiet
  <1>3. CASE SendFormat(s)
    BY <1>2, <1>3 DEF SendFormat, SetDecodeFormat, Created, vars
  <1>4. CASE SendBind(s) \/ Abandon(s)
    <2>1. CASE SendBind(s)
      BY <1>2, <2>1, Zenon DEF SendBind, BindDecodeOutputPool, Created
    <2>2. CASE Abandon(s)
      BY <1>2, <2>2, Zenon DEF Abandon, DestroySession
    <2> QED
      BY <1>4, <2>1, <2>2
  <1>5. CASE SendChunk(s)
    <2>1. CASE /\ EnqueueEncodedFrameChunk(s, sending[s].offset, chunk_len(s),
                                           sending[s].size, is_final(s))
               /\ IF is_final(s) THEN Submitted(s) ELSE UNCHANGED <<pc, status, accepted>>
      <3>1. UNCHANGED <<output, called>>
        BY <1>5 DEF SendChunk
      <3>2. CASE is_final(s)
        <4>1. \A f \in inflight' \ inflight : f.session = s
          BY <2>1, ChunkSession
        <4> QED
          BY <1>1, <2>1, <3>1, <3>2, <4>1, GuestSubmitted, ZenonT(60)
      <3>3. CASE ~is_final(s)
        <4>1. UNCHANGED <<inflight, pc, accepted>>
          BY <2>1, <3>3, PartialChunk
        <4>2. Quiet
          BY <3>1, <4>1 DEF Quiet, GuestInv
        <4> QED
          BY <1>1, <4>2, GuestQuiet
      <3> QED
        BY <3>2, <3>3
    <2>2. CASE Return(s, "error") /\ UNCHANGED <<vars, accepted, output, called>>
      BY <1>2, <2>2, Zenon DEF vars
    <2> QED
      BY <1>5, <2>1, <2>2 DEF SendChunk
  <1>6. CASE SendDrain(s)
    BY <1>2, <1>6 DEF SendDrain, Drain, vars
  <1>7. CASE Dequeue(s)
    <2>0. UNCHANGED <<accepted, called>>
      BY <1>7, DequeueCases
    <2>1. CASE /\ DequeueFoundEmpty(s)
               /\ pc' = [pc EXCEPT ![s] = "polled"] /\ UNCHANGED output
      BY <1>2, <2>0, <2>1, EmptyEffect, Zenon
    <2>2. CASE pc' = [pc EXCEPT ![s] = "idle"] /\ UNCHANGED <<vars, output>>
      BY <1>2, <2>0, <2>2, Zenon DEF vars
    <2> QED
      BY <1>1, <1>7, <2>1, <2>2, GuestDequeue, DequeueCases
  <1>8. CASE DequeuedNothing(s)
    BY <1>2, <1>8, Zenon DEF DequeuedNothing, TakeDecodeError
  <1>9. CASE ReadPixels(s)
    <2>1. CASE UNCHANGED called
      <3>1. /\ UNCHANGED <<accepted, output, inflight>>
            /\ \E label \in {"callback", "release"} : pc' = [pc EXCEPT ![s] = label]
        BY <1>9, ReadCases DEF vars
      <3> QED
        BY <1>2, <2>1, <3>1, Zenon
    <2> QED
      BY <1>9, <2>1, GuestRead
  <1>10. CASE CallbackReturns(s)
    BY <1>2, <1>10, Zenon DEF CallbackReturns, vars
  <1>11. CASE ReleaseOutput(s)
    BY <1>2, <1>11, Zenon DEF ReleaseOutput, ReleaseDecodedFrame, AfterRelease, vars
  <1>12. CASE RequestFails(s)
    BY <1>2, <1>12 DEF RequestFails, AfterRelease, vars
  <1> QED
    BY <1>3, <1>4, <1>5, <1>6, <1>7, <1>8, <1>9, <1>10, <1>11, <1>12 DEF Works

LEMMA GuestStep ==
  ASSUME SendingInv, TokenInv, QueueInv, GuestInv, TokenInv', [SessionNext]_allVars
  PROVE  GuestInv'
  <1>1. BackendStep
    BY IsBackendStep
  <1>2. CASE Guest
    BY <1>2, ApplicationKeeps, WorksKeeps DEF Guest
  <1>3. CASE AnyClient
    <2>1. mode' = mode /\ mode.client # "shim" /\ UNCHANGED guestVars
      BY <1>1, <1>3, ModeKept DEF AnyClient
    <2> QED
      BY <2>1, CalledUnchanged DEF GuestInv, guestVars
  <1>4. CASE UNCHANGED guestVars /\ inflight' \subseteq inflight
    <2>1. Quiet
      BY <1>4 DEF Quiet, GuestInv, guestVars
    <2> QED
      BY <1>1, <2>1, GuestQuiet
  <1>5. CASE Worker
    <2>1. ASSUME NEW f, CallbackTakeId(f) \/ CallbackError(f)
          PROVE  inflight' \subseteq inflight
      BY <2>1, Zenon DEF CallbackTakeId, CallbackError
    <2>2. ASSUME NEW c, CallbackStore(c) \/ CallbackPush(c)
          PROVE  inflight' \subseteq inflight
      BY <2>2 DEF CallbackStore, CallbackPush
    <2>3. ASSUME ConnectionLost PROVE inflight' \subseteq inflight
      BY <2>3, LostEffect
    <2> QED
      BY <1>4, <1>5, <2>1, <2>2, <2>3 DEF Worker, VideoToolbox
  <1>6. CASE UNCHANGED allVars
    BY <1>4, <1>6 DEF allVars, vars, vtVars
  <1> QED
    BY <1>2, <1>3, <1>5, <1>6 DEF SessionNext

OrderInv == SendingInv /\ TokenInv /\ QueueInv /\ GuestInv

LEMMA OrderInit == SessionInit => OrderInv
  BY SendingInit, TokenInit, QueueInit, GuestInit DEF OrderInv

LEMMA OrderStep == OrderInv /\ [SessionNext]_allVars => OrderInv'
  <1> SUFFICES ASSUME OrderInv, [SessionNext]_allVars PROVE OrderInv'
    OBVIOUS
  <1>1. SendingInv /\ TokenInv /\ QueueInv /\ GuestInv /\ CalledType
    BY DEF OrderInv, GuestInv
  <1>2. SendingInv' /\ TokenInv' /\ QueueInv'
    BY <1>1, SendingStep, TokenStep, QueueStep, IsBackendStep
  <1>3. GuestInv'
    BY <1>1, <1>2, GuestStep
  <1> QED
    BY <1>2, <1>3 DEF OrderInv

(***************************************************************************)
(* The output callback gets its own session's frames, each once and in the  *)
(* order VideoToolbox delivered them, for any number of sessions that share *)
(* the worker's queue and end at any time.                                  *)
(***************************************************************************)
THEOREM OrderOfCallbacks == SessionSpec => []CalledInOrder
  <1>1. OrderInv => CalledInOrder
    BY DEF OrderInv, GuestInv
  <1> QED
    BY <1>1, OrderInit, OrderStep, PTL DEF SessionSpec

-----------------------------------------------------------------------------
(* What the worker lends is in the drain loop's hands.                      *)

Holding == {"read", "callback", "release"}

(* No call runs for a session that was not created.                         *)
NewInv ==
  /\ DOMAIN object = SessionIds /\ DOMAIN pc = SessionIds
  /\ \A s \in SessionIds : object[s] = "none" => pc[s] = "idle"

LEMMA NewStep == NewInv /\ [SessionNext]_allVars => NewInv'
  <1> SUFFICES ASSUME NewInv, [SessionNext]_allVars PROVE NewInv'
    OBVIOUS
  <1> USE DEF Goto, Return, Begin, Created
  <1>1. CASE UNCHANGED <<object, pc>>
    BY <1>1 DEF NewInv
  <1>2. ASSUME NEW s \in SessionIds,
               \/ object[s] # "none" /\ object' = object
               \/ \E o : o # "none" /\ object' = [object EXCEPT ![s] = o],
               pc' = pc \/ \E label : pc' = [pc EXCEPT ![s] = label]
        PROVE  NewInv'
    BY <1>2 DEF NewInv
  <1>3. ASSUME NEW s \in SessionIds, Application(s) PROVE NewInv'
    <2>1. ASSUME NEW opts, VTDecompressionSessionCreate(s, opts) PROVE NewInv'
      BY <1>2, <2>1, ZenonT(60) DEF VTDecompressionSessionCreate
    <2>2. ASSUME NEW size, EnqueueInline(s, size) \/ EnqueueChunked(s, size) PROVE NewInv'
      <3>1. CASE EnqueueInline(s, size)
        BY <1>2, <3>1 DEF EnqueueInline, Submitted, Idle
      <3>2. CASE EnqueueChunked(s, size)
        BY <1>2, <3>2, Zenon DEF EnqueueChunked, Idle
      <3> QED
        BY <2>2, <3>1, <3>2
    <2>3. CASE VTDecompressionSessionWaitForAsynchronousFrames(s)
      BY <1>2, <2>3, Zenon DEF VTDecompressionSessionWaitForAsynchronousFrames, Idle
    <2>4. CASE EndInCallback(s) \/ VTDecompressionSessionInvalidate(s) \/ ReleaseSession(s)
      <3>1. CASE EndInCallback(s)
        BY <1>2, <3>1, Zenon DEF EndInCallback
      <3>2. CASE VTDecompressionSessionInvalidate(s)
        BY <1>2, <3>2, Zenon DEF VTDecompressionSessionInvalidate
      <3>3. CASE ReleaseSession(s)
        BY <1>2, <3>3, Zenon DEF ReleaseSession
      <3> QED
        BY <2>4, <3>1, <3>2, <3>3
    <2> QED
      BY <1>3, <2>1, <2>2, <2>3, <2>4 DEF Application
  <1>4. ASSUME NEW s \in SessionIds, Works(s) PROVE NewInv'
    <2>1. ASSUME pc[s] # "idle", pc' = pc \/ \E label : pc' = [pc EXCEPT ![s] = label],
                 object' = object \/ \E o : o # "none" /\ object' = [object EXCEPT ![s] = o]
          PROVE  NewInv'
      <3>1. object[s] # "none"
        BY <2>1 DEF NewInv
      <3> QED
        BY <1>2, <2>1, <3>1
    <2>2. CASE SendFormat(s)
      BY <2>1, <2>2 DEF SendFormat
    <2>3. CASE SendBind(s)
      BY <2>1, <2>3, Zenon DEF SendBind
    <2>4. CASE Abandon(s)
      BY <2>1, <2>4, Zenon DEF Abandon
    <2>5. CASE SendChunk(s)
      BY <2>1, <2>5 DEF SendChunk, Submitted
    <2>6. CASE SendDrain(s)
      BY <2>1, <2>6 DEF SendDrain
    <2>7. CASE Dequeue(s)
      BY <2>1, <2>7, Zenon DEF Dequeue
    <2>8. CASE DequeuedNothing(s)
      BY <2>1, <2>8, Zenon DEF DequeuedNothing
    <2>9. CASE ReadPixels(s)
      BY <2>1, <2>9 DEF ReadPixels, ReadFailed
    <2>10. CASE CallbackReturns(s)
      BY <2>1, <2>10, Zenon DEF CallbackReturns
    <2>11. CASE ReleaseOutput(s)
      BY <2>1, <2>11, Zenon DEF ReleaseOutput, AfterRelease
    <2>12. CASE RequestFails(s)
      BY <2>1, <2>12 DEF RequestFails, AfterRelease
    <2> QED
      BY <1>4, <2>2, <2>3, <2>4, <2>5, <2>6, <2>7, <2>8, <2>9, <2>10, <2>11, <2>12 DEF Works
  <1>5. CASE Guest
    BY <1>3, <1>4, <1>5 DEF Guest
  <1> QED
    BY <1>1, <1>5 DEF SessionNext, AnyClient, Worker, allVars, guestVars

(* What the worker has lent and not got back is held by a thread.           *)
ReturnInv ==
  open /\ mode.client = "shim" =>
    \A d \in delivered \ released :
      /\ d.session \in SessionIds
      /\ pc[d.session] \in Holding
      /\ output[d.session] = d.output

LEMMA ReturnInit == SessionInit => ReturnInv
  BY DEF SessionInit, Init, ReturnInv

(* A thread that holds an output goes on holding it.                        *)
LEMMA ReturnKept ==
  ASSUME ReturnInv, open' => open, mode' = mode, delivered' = delivered,
         released \subseteq released',
         \A t \in SessionIds :
           pc[t] \in Holding => pc'[t] \in Holding /\ output'[t] = output[t]
  PROVE  ReturnInv'
  BY DEF ReturnInv

LEMMA ReleaseMode == ASSUME NEW o, ReleaseDecodedFrame(o) PROVE mode' = mode
  BY DEF ReleaseDecodedFrame, modeVars

(* The output that a thread holds is released; or it is not there, and then *)
(* the worker lends nothing of the session.                                 *)
LEMMA ReturnRelease ==
  ASSUME ReturnInv, ReadInv, GuestInv, mode.client = "shim",
         NEW s \in SessionIds, ReleaseOutput(s)
  PROVE  ReturnInv'
  <1>1. /\ open /\ UNCHANGED <<mode, delivered>> /\ released \subseteq released'
        /\ output[s] \in DOMAIN queued => Record(output[s]) \in released'
    <2>1. CASE ReleaseDecodedFrame(output[s])
      BY <2>1, ReleaseEffect, ReleaseMode, Zenon
    <2>2. CASE Ready /\ ReleaseDecodedFrameStatus(output[s]) # "OK" /\ UNCHANGED vars
      BY <2>2 DEF Ready, ReleaseDecodedFrameStatus, vars, modeVars, histVars
    <2> QED
      BY <2>1, <2>2, ZenonT(60) DEF ReleaseOutput
  <1>2. \A t \in SessionIds : t # s => pc'[t] = pc[t] /\ output'[t] = output[t]
    BY DEF ReleaseOutput, AfterRelease, Goto, GuestInv
  <1>3. \A d \in delivered' \ released' : d.session # s
    <2> SUFFICES ASSUME NEW d \in delivered \ released, d \notin released', d.session = s
                 PROVE  FALSE
      BY <1>1
    <2>1. d.output = output[s]
      BY <1>1 DEF ReturnInv
    <2>2. d.output \in DOMAIN queued /\ d = Record(d.output)
      BY <1>1 DEF ReadInv
    <2> QED
      BY <1>1, <2>1, <2>2
  <1> QED
    BY <1>1, <1>2, <1>3 DEF ReturnInv

(* A thread that dequeues holds nothing yet, and then what it was given,    *)
(* which is a frame of its session.                                         *)
LEMMA ReturnDequeue ==
  ASSUME ReturnInv, QueueInv, GuestInv, mode.client = "shim",
         NEW s \in SessionIds, Dequeue(s), DequeueDecodedFrame(s)
  PROVE  ReturnInv'
  <1> DEFINE o == Head(Fifo(s))
  <1>1. /\ open /\ UNCHANGED <<mode, queued, released>>
        /\ delivered' = delivered \cup {Record(i) : i \in {o} \cap DOMAIN queued}
    <2>1. mode' = mode
      BY DEF DequeueDecodedFrame, modeVars
    <2> QED
      BY <2>1, PopEffect
  <1>2. /\ pc[s] = "drain" /\ output' = [output EXCEPT ![s] = o]
        /\ \E label : pc' = [pc EXCEPT ![s] = label]
        /\ o \in DOMAIN queued => \E label \in Holding : pc' = [pc EXCEPT ![s] = label]
    <2>1. Fifo(s) # <<>> /\ Ready /\ s \in DOMAIN decode_sessions
      BY DEF DequeueDecodedFrame
    <2>2. /\ pc[s] = "drain" /\ output' = [output EXCEPT ![s] = o]
          /\ IF o \notin DOMAIN queued THEN Return(s, "ok")
             ELSE Goto(s, IF options[s].callback THEN "read" ELSE "release")
      <3>1. ~DequeueFoundEmpty(s)
        BY <2>1 DEF DequeueFoundEmpty, FifoEmpty
      <3> QED
        BY <2>1, <3>1 DEF Dequeue
    <2> QED
      BY <2>2 DEF Return, Goto, Holding
  <1>3. o \in DOMAIN queued => queued[o].session = s
    BY FrontOfFifo
  <1> HIDE DEF o
  <1>4. /\ \A t \in SessionIds : t # s => pc'[t] = pc[t] /\ output'[t] = output[t]
        /\ output'[s] = o
        /\ o \in DOMAIN queued => pc'[s] \in Holding
    BY <1>2, ZenonT(60) DEF GuestInv
  <1>5. Record(o).session = queued[o].session /\ Record(o).output = o
    BY DEF Record
  <1>6. \A d \in delivered \ released : d.session # s
    BY <1>1, <1>2 DEF ReturnInv, Holding
  <1>7. \A d \in delivered' \ released' :
          \/ d \in delivered \ released /\ d.session # s
          \/ o \in DOMAIN queued /\ d.session = s /\ d.output = o
    BY <1>1, <1>3, <1>5, <1>6
  <1> QED
    BY <1>1, <1>4, <1>7, ZenonT(60) DEF ReturnInv

LEMMA ReturnWorks ==
  ASSUME ReturnInv, ReadInv, SendingInv, QueueInv, GuestInv, mode.client = "shim",
         NEW s \in SessionIds, Works(s)
  PROVE  ReturnInv'
  <1> USE DEF modeVars, histVars, Goto, Return
  <1>1. mode' = mode
    BY WorksIsStep, ModeKept
  <1>2. ASSUME pc[s] \notin Holding, UNCHANGED <<delivered, released, open, output>>,
               pc' = pc \/ \E label : pc' = [pc EXCEPT ![s] = label]
        PROVE  ReturnInv'
    <2>1. \A t \in SessionIds : pc[t] \in Holding => pc'[t] = pc[t]
      BY <1>2 DEF GuestInv
    <2> QED
      BY <1>1, <1>2, <2>1, ReturnKept
  <1>3. CASE SendFormat(s)
    BY <1>2, <1>3 DEF SendFormat, SetDecodeFormat, Created, vars, Holding
  <1>4. CASE SendBind(s) \/ Abandon(s)
    <2>1. CASE SendBind(s)
      BY <1>2, <2>1, Zenon DEF SendBind, BindDecodeOutputPool, Created, Holding
    <2>2. CASE Abandon(s)
      BY <1>2, <2>2, Zenon DEF Abandon, DestroySession, Holding
    <2> QED
      BY <1>4, <2>1, <2>2
  <1>5. CASE SendChunk(s)
    <2>1. UNCHANGED <<delivered, released, open, output>> /\ pc[s] = "send"
      <3>1. ASSUME NEW offset, NEW length, NEW total, NEW final,
                   EnqueueEncodedFrameChunk(s, offset, length, total, final)
            PROVE  UNCHANGED <<delivered, released, open>>
        BY <3>1 DEF EnqueueEncodedFrameChunk
      <3>2. ASSUME UNCHANGED vars PROVE UNCHANGED <<delivered, released, open>>
        BY <3>2 DEF vars
      <3> QED
        BY <1>5, <3>1, <3>2 DEF SendChunk
    <2>2. pc' = pc \/ \E label : pc' = [pc EXCEPT ![s] = label]
      BY <1>5, ZenonT(60) DEF SendChunk, Submitted
    <2> QED
      BY <1>2, <2>1, <2>2 DEF Holding
  <1>6. CASE SendDrain(s)
    BY <1>2, <1>6 DEF SendDrain, Drain, vars, Holding
  <1>7. CASE Dequeue(s)
    <2>0. pc[s] \notin Holding
      BY <1>7, DequeueCases DEF Holding
    <2>1. CASE /\ DequeueFoundEmpty(s)
               /\ pc' = [pc EXCEPT ![s] = "polled"] /\ UNCHANGED output
      BY <1>2, <2>0, <2>1, EmptyEffect, Zenon
    <2>2. CASE pc' = [pc EXCEPT ![s] = "idle"] /\ UNCHANGED <<vars, output>>
      BY <1>2, <2>0, <2>2, Zenon DEF vars
    <2> QED
      BY <1>7, <2>1, <2>2, ReturnDequeue, DequeueCases
  <1>8. CASE DequeuedNothing(s)
    BY <1>2, <1>8, Zenon DEF DequeuedNothing, TakeDecodeError, Holding
  <1>9. CASE ReadPixels(s) \/ CallbackReturns(s)
    <2>1. /\ UNCHANGED <<delivered, released, open, output>>
          /\ \E label \in Holding : pc' = [pc EXCEPT ![s] = label]
      <3>1. CASE ReadPixels(s)
        BY <3>1, ReadCases DEF vars, Holding
      <3>2. CASE CallbackReturns(s)
        BY <3>2 DEF CallbackReturns, vars, Holding
      <3> QED
        BY <1>9, <3>1, <3>2
    <2>2. \A t \in SessionIds : pc[t] \in Holding => pc'[t] \in Holding
      BY <2>1 DEF GuestInv
    <2> QED
      BY <1>1, <2>1, <2>2, ReturnKept
  <1>10. CASE RequestFails(s)
    <2>1. ~open'
      BY <1>10 DEF RequestFails, vars
    <2> QED
      BY <2>1 DEF ReturnInv
  <1> QED
    BY <1>3, <1>4, <1>5, <1>6, <1>7, <1>8, <1>9, <1>10, ReturnRelease DEF Works

LEMMA ReturnApplication ==
  ASSUME ReturnInv, GuestInv, NewInv, NEW s \in SessionIds, Application(s)
  PROVE  ReturnInv'
  <1> USE DEF modeVars, histVars, Goto, Return, Begin
  <1>1. mode' = mode
    BY ApplicationIsStep, ModeKept
  <1>2. ASSUME UNCHANGED <<delivered, released, open, output>>,
               pc' = pc \/ (pc[s] = "idle" /\ \E label : pc' = [pc EXCEPT ![s] = label])
        PROVE  ReturnInv'
    <2>1. \A t \in SessionIds : pc[t] \in Holding => pc'[t] = pc[t]
      BY <1>2 DEF GuestInv, Holding
    <2> QED
      BY <1>1, <1>2, <2>1, ReturnKept
  <1>3. ASSUME NEW opts, VTDecompressionSessionCreate(s, opts) PROVE ReturnInv'
    BY <1>2, <1>3, Zenon DEF VTDecompressionSessionCreate, CreateSession, NewInv
  <1>4. ASSUME NEW size, EnqueueInline(s, size) PROVE ReturnInv'
    BY <1>2, <1>4 DEF EnqueueInline, EnqueueEncodedFrame, Submitted, Idle
  <1>5. ASSUME NEW size, EnqueueChunked(s, size) PROVE ReturnInv'
    BY <1>2, <1>5, Zenon DEF EnqueueChunked, Idle, vars
  <1>6. CASE VTDecompressionSessionWaitForAsynchronousFrames(s)
    BY <1>2, <1>6, ZenonT(60) DEF VTDecompressionSessionWaitForAsynchronousFrames, Idle, vars
  <1>7. CASE EndInCallback(s) \/ VTDecompressionSessionInvalidate(s) \/ ReleaseSession(s)
    <2>1. CASE EndInCallback(s)
      BY <1>2, <2>1 DEF EndInCallback, DestroySession
    <2>2. CASE VTDecompressionSessionInvalidate(s)
      BY <1>2, <2>2, ZenonT(60) DEF VTDecompressionSessionInvalidate, DestroySession, vars
    <2>3. CASE ReleaseSession(s)
      BY <1>2, <2>3 DEF ReleaseSession, DestroySession, vars
    <2> QED
      BY <1>7, <2>1, <2>2, <2>3
  <1> QED
    BY <1>3, <1>4, <1>5, <1>6, <1>7, Zenon DEF Application

LEMMA ReturnStep ==
  ASSUME OrderInv, NewInv, ReadInv, ReturnInv, [SessionNext]_allVars
  PROVE  ReturnInv'
  <1>1. SendingInv /\ QueueInv /\ GuestInv
    BY DEF OrderInv
  <1>2. mode' = mode
    BY <1>1, IsBackendStep, ModeKept
  <1>3. CASE Guest
    BY <1>1, <1>3, ReturnApplication, ReturnWorks DEF Guest
  <1>4. CASE AnyClient
    BY <1>2, <1>4 DEF AnyClient, ReturnInv
  <1>5. CASE UNCHANGED <<guestVars, open, delivered, released>>
    BY <1>2, <1>5, ReturnKept DEF guestVars
  <1>6. CASE VideoToolbox /\ UNCHANGED guestVars
    <2>1. ASSUME NEW f, CallbackTakeId(f) \/ CallbackError(f)
          PROVE  UNCHANGED <<open, delivered, released>>
      BY <2>1 DEF CallbackTakeId, CallbackError, modeVars, histVars
    <2>2. ASSUME NEW c, CallbackStore(c) \/ CallbackPush(c)
          PROVE  UNCHANGED <<open, delivered, released>>
      BY <2>2 DEF CallbackStore, CallbackPush, modeVars, histVars
    <2> QED
      BY <1>5, <1>6, <2>1, <2>2 DEF VideoToolbox
  <1>7. CASE ConnectionLost
    BY <1>7 DEF ConnectionLost, ReturnInv
  <1>8. CASE UNCHANGED allVars
    BY <1>5, <1>8 DEF allVars, vars, modeVars, histVars
  <1> QED
    BY <1>3, <1>4, <1>6, <1>7, <1>8 DEF SessionNext, Worker

(***************************************************************************)
(* The worker holds a dequeued frame only while a drain loop has it in      *)
(* hand: no path of the loop, failed reads and sessions that end in their   *)
(* callback included, forgets to give one back.                             *)
(***************************************************************************)
THEOREM NothingKept == SessionSpec => []OutputsReturned
  <1> DEFINE Inv == OrderInv /\ NewInv /\ ReadInv /\ ReturnInv
  <1>1. SessionInit => Inv
    BY OrderInit, ReadInit, ReturnInit DEF SessionInit, NewInv
  <1>2. Inv /\ [SessionNext]_allVars => Inv'
    <2>1. OrderInv /\ [SessionNext]_allVars => BackendStep
      BY IsBackendStep DEF OrderInv
    <2> QED
      BY <2>1, OrderStep, NewStep, ReadStep, ReturnStep
  <1>3. Inv => OutputsReturned
    BY DEF ReturnInv, OutputsReturned, Holding
  <1> QED
    BY <1>1, <1>2, <1>3, PTL DEF SessionSpec
=============================================================================
