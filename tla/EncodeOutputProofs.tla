------------------------- MODULE EncodeOutputProofs -------------------------
(***************************************************************************)
(* Proofs about the way of an output through EncodeBackend, from the        *)
(* callback that stores it to the client: none is stranded, and the backend *)
(* implements AbstractEncoder.  For every directory, every bound and every  *)
(* set of faults.                                                           *)
(***************************************************************************)
EXTENDS EncodeBackendProofs

(* A leaf that the provers do not settle in their usual time gets more.     *)
USE SMTT(60), SMT, SMTT(30), ZenonT(60)

-----------------------------------------------------------------------------
(* The FIFOs.                                                               *)

LEMMA FifoType == ASSUME TypeOK, NEW s PROVE Fifo(s) \in Seq(Nat)
  BY DEF TypeOK, OutTypeOK, Fifo

(* A session without a FIFO has an empty one.                               *)
LEMMA AnyFifo == ASSUME QueueInv, NEW s PROVE FifoInv(s)
  <1>1. CASE s \in DOMAIN session_queues
    BY <1>1 DEF QueueInv
  <1>2. CASE s \notin DOMAIN session_queues
    BY <1>2 DEF FifoInv, Fifo
  <1> QED
    BY <1>1, <1>2

LEMMA QueueInit == Init => QueueInv
  BY DEF Init, QueueInv, EmptyMap

(* Outputs, callbacks and whole FIFOs gone, or none.                        *)
LEMMA QueueDrop ==
  ASSUME QueueInv, next_output_id' = next_output_id,
         \A s : Fifo(s)' = Fifo(s) \/ DOMAIN Fifo(s)' = {},
         callbacks' \subseteq callbacks, DOMAIN queued_outputs' \subseteq DOMAIN queued_outputs,
         \A o \in DOMAIN queued_outputs' : queued_outputs'[o] = queued_outputs[o]
  PROVE  QueueInv'
  <1>1. \A c \in callbacks' : CallbackInv(c)'
    BY ZenonT(60) DEF QueueInv, CallbackInv, SameSource
  <1>2. ASSUME NEW s PROVE FifoInv(s)'
    <2>1. FifoInv(s)
      BY AnyFifo
    <2> QED
      BY <2>1 DEF FifoInv
  <1> QED
    BY <1>1, <1>2 DEF QueueInv

(* What the three steps of a callback do.                                   *)
CallbackType ==
  [session : Nat, output : Nat, buffer : Nat, generation : Nat, stored : BOOLEAN]

LEMMA CallbackFacts ==
  ASSUME TypeOK, NEW c \in callbacks
  PROVE  /\ c \in CallbackType /\ c.output < next_output_id /\ next_output_id \in Nat
         /\ c.output \in Nat /\ c.session \in Nat /\ c.output >= 1
  BY DEF TypeOK, VtTypeOK, OutTypeOK, CallbackType

LEMMA TakeIdEffect ==
  ASSUME NEW f \in inflight, CallbackTakeId(f)
  PROVE  \E new :
           /\ new.session = f.session /\ new.output = next_output_id
           /\ new.buffer = f.buffer /\ new.generation = f.generation /\ new.stored = FALSE
           /\ \A c \in callbacks : c.session # f.session
           /\ callbacks' = callbacks \cup {new} /\ inflight' = inflight \ {f}
           /\ next_output_id' = next_output_id + 1 /\ next_output_id <= MaxOutputs
           /\ UNCHANGED <<queued_outputs, session_queues, buffers, leases, delivered,
                          next_host_id>>
  <1> DEFINE new == [session |-> f.session, output |-> next_output_id, buffer |-> f.buffer,
                     generation |-> f.generation, stored |-> FALSE]
  <1>1. /\ \A c \in callbacks : c.session # f.session
        /\ callbacks' = callbacks \cup {new} /\ inflight' = inflight \ {f}
        /\ next_output_id' = next_output_id + 1 /\ next_output_id <= MaxOutputs
        /\ UNCHANGED <<queued_outputs, session_queues, buffers, leases, delivered, next_host_id>>
    BY DEF CallbackTakeId, NoCallback, hostVars, histVars
  <1>2. /\ new.session = f.session /\ new.output = next_output_id
        /\ new.buffer = f.buffer /\ new.generation = f.generation /\ new.stored = FALSE
    OBVIOUS
  <1> HIDE DEF new
  <1> QED
    BY <1>1, <1>2, Zenon

(* The second step, from the callback c to new, with the output out.        *)
Stored(c, new, out) ==
  /\ ~c.stored /\ new.stored /\ new.session = c.session /\ new.output = c.output
  /\ new.buffer = c.buffer /\ new.generation = c.generation
  /\ out.session = c.session /\ out.buffer = c.buffer /\ out.generation = c.generation
  /\ callbacks' = (callbacks \ {c}) \cup {new}
  /\ DOMAIN queued_outputs' = DOMAIN queued_outputs \cup {c.output}
  /\ queued_outputs'[c.output] = out
  /\ \A o \in DOMAIN queued_outputs : o # c.output => queued_outputs'[o] = queued_outputs[o]
  /\ UNCHANGED <<session_queues, next_output_id, inflight, buffers, leases, delivered,
                 next_host_id>>

LEMMA StoreEffect ==
  ASSUME TypeOK, NEW c \in callbacks, CallbackStore(c)
  PROVE  \E new, out : Stored(c, new, out)
  <1>0. c \in CallbackType
    BY CallbackFacts
  <1> DEFINE new == [c EXCEPT !.stored = TRUE]
             out == [session |-> c.session, buffer |-> c.buffer, generation |-> c.generation]
  <1>1. /\ new.session = c.session /\ new.output = c.output
        /\ new.buffer = c.buffer /\ new.generation = c.generation /\ new.stored
    BY <1>0 DEF CallbackType
  <1>2. /\ out.session = c.session /\ out.buffer = c.buffer /\ out.generation = c.generation
    OBVIOUS
  <1>3. /\ callbacks' = (callbacks \ {c}) \cup {new} /\ ~c.stored
        /\ queued_outputs' = Put(queued_outputs, c.output, out)
        /\ UNCHANGED <<session_queues, next_output_id, inflight, buffers, leases, delivered,
                       next_host_id>>
    BY DEF CallbackStore, hostVars, histVars
  <1> HIDE DEF new, out
  <1>4. /\ DOMAIN queued_outputs' = DOMAIN queued_outputs \cup {c.output}
        /\ queued_outputs'[c.output] = out
        /\ \A o \in DOMAIN queued_outputs :
             o # c.output => queued_outputs'[o] = queued_outputs[o]
    BY <1>3 DEF Put
  <1> QED
    BY <1>1, <1>2, <1>3, <1>4, Zenon DEF Stored

(* A push appends to the FIFO of its session, and to no other.              *)
LEMMA PushEffect ==
  ASSUME TypeOK, NEW c \in callbacks, CallbackPush(c)
  PROVE  LET q == Fifo(c.session)
             r == Fifo(c.session)'
         IN  /\ Len(q) \in Nat /\ DOMAIN q = 1 .. Len(q) /\ DOMAIN r = 1 .. Len(q) + 1
             /\ \A i \in DOMAIN q : r[i] = q[i]
             /\ r[Len(q) + 1] = c.output
             /\ \A t : t # c.session => Fifo(t)' = Fifo(t)
             /\ c.stored /\ callbacks' = callbacks \ {c}
             /\ UNCHANGED <<queued_outputs, next_output_id, inflight, buffers, leases,
                            delivered, next_host_id>>
  <1> DEFINE q == Fifo(c.session)
             r == Append(q, c.output)
  <1>1. Fifo(c.session)' = r /\ \A t : t # c.session => Fifo(t)' = Fifo(t)
    BY DEF CallbackPush, Put, Fifo, PushBack
  <1>2. q \in Seq(Nat) /\ c.output \in Nat
    BY FifoType, CallbackFacts
  <1>3. /\ c.stored /\ callbacks' = callbacks \ {c}
        /\ UNCHANGED <<queued_outputs, next_output_id, inflight, buffers, leases, delivered,
                       next_host_id>>
    BY DEF CallbackPush, hostVars, histVars
  <1> HIDE DEF q
  <1>4. /\ Len(q) \in Nat /\ DOMAIN q = 1 .. Len(q) /\ DOMAIN r = 1 .. Len(q) + 1
        /\ \A i \in DOMAIN q : r[i] = q[i]
        /\ r[Len(q) + 1] = c.output
    BY <1>2
  <1> HIDE DEF r
  <1> QED
    BY <1>1, <1>3, <1>4 DEF q

(* A dequeue takes the first PopCount ids off the FIFO of its session.      *)
LEMMA PopEffect ==
  ASSUME TypeOK, NEW s \in DOMAIN session_queues, NEW n \in 0 .. MAX_OUTPUT_BATCH + 1,
         DequeueOutput(s, n)
  PROVE  LET q == Fifo(s)
             r == Fifo(s)'
             k == PopCount(s, n)
         IN  /\ Len(q) \in Nat /\ DOMAIN q = 1 .. Len(q) /\ k \in 1 .. Len(q)
             /\ DOMAIN r = 1 .. Len(q) - k
             /\ \A i \in DOMAIN r : r[i] = q[i + k]
             /\ \A t : t # s => Fifo(t)' = Fifo(t)
             /\ UNCHANGED <<queued_outputs, next_output_id, callbacks, inflight, leases,
                            next_host_id>>
  <1> DEFINE q == Fifo(s)
             k == PopCount(s, n)
             r == SubSeq(q, k + 1, Len(q))
  <1>1. q \in Seq(Nat) /\ q # <<>>
    BY FifoType DEF DequeueOutput
  <1>2. Fifo(s)' = r /\ \A t : t # s => Fifo(t)' = Fifo(t)
    BY Zenon DEF DequeueOutput, Fifo
  <1>3. UNCHANGED <<queued_outputs, next_output_id, callbacks, inflight, leases, next_host_id>>
    BY DEF DequeueOutput, vtVars
  <1>4. Len(q) \in Nat \ {0} /\ DOMAIN q = 1 .. Len(q)
    BY <1>1
  <1>5. k \in 1 .. Len(q)
    BY <1>4, BackendAssumption DEF PopCount
  <1> HIDE DEF q, k
  <1>6. DOMAIN r = 1 .. Len(q) - k /\ \A i \in DOMAIN r : r[i] = q[i + k]
    BY <1>1, <1>4, <1>5
  <1> HIDE DEF r
  <1> QED
    BY <1>2, <1>3, <1>4, <1>5, <1>6 DEF q, k

LEMMA QueueTakeId ==
  ASSUME TypeOK, QueueInv, NEW f \in inflight, CallbackTakeId(f)
  PROVE  QueueInv'
  <1>1. PICK new :
          /\ new.session = f.session /\ new.output = next_output_id /\ new.stored = FALSE
          /\ \A c \in callbacks : c.session # f.session
          /\ callbacks' = callbacks \cup {new} /\ next_output_id' = next_output_id + 1
          /\ UNCHANGED <<queued_outputs, session_queues>>
    BY TakeIdEffect, Zenon
  <1>2. \A c \in callbacks : c.output \in Nat /\ c.output < next_output_id
    BY CallbackFacts
  <1>3. next_output_id \in Nat
    BY DEF TypeOK, OutTypeOK
  <1>4. \A s : Fifo(s)' = Fifo(s)
    BY <1>1 DEF Fifo
  <1>5. ASSUME NEW s PROVE FifoInv(s)'
    <2>1. Fifo(s) \in Seq(Nat) /\ FifoInv(s)
      BY FifoType, AnyFifo
    <2>2. \A i \in DOMAIN Fifo(s) : Fifo(s)[i] \in Nat
      BY <2>1
    <2> QED
      BY <1>1, <1>3, <1>4, <2>1, <2>2 DEF FifoInv
  <1>6. \A c \in callbacks' : CallbackInv(c)'
    BY <1>1 DEF QueueInv, CallbackInv, SameSource
  <1>7. \A c, e \in callbacks' : c.session = e.session \/ c.output = e.output => c = e
    <2>1. \A c \in callbacks : c.output # new.output /\ c.session # new.session
      BY <1>1, <1>2, <1>3
    <2> QED
      BY <1>1, <2>1 DEF QueueInv
  <1> QED
    BY <1>5, <1>6, <1>7 DEF QueueInv

LEMMA QueueStore ==
  ASSUME TypeOK, QueueInv, NEW c \in callbacks, CallbackStore(c)
  PROVE  QueueInv'
  <1>1. PICK new, out : Stored(c, new, out)
    BY StoreEffect
  <1> USE DEF Stored
  <1>2. \A s : Fifo(s)' = Fifo(s)
    BY <1>1, Zenon DEF Fifo
  <1>3. ASSUME NEW s PROVE FifoInv(s)'
    <2>1. FifoInv(s)
      BY AnyFifo
    <2> SUFFICES ASSUME NEW i \in DOMAIN Fifo(s)
                 PROVE  /\ Fifo(s)[i] < next_output_id'
                        /\ Fifo(s)[i] \in DOMAIN queued_outputs' =>
                             queued_outputs'[Fifo(s)[i]].session = s
                        /\ \A j \in DOMAIN Fifo(s) : i < j => Fifo(s)[i] < Fifo(s)[j]
                        /\ \A e \in callbacks' : /\ Fifo(s)[i] # e.output
                                                 /\ e.session = s => Fifo(s)[i] < e.output
      BY <1>2, Zenon DEF FifoInv
    <2>2. Fifo(s)[i] # c.output /\ (c.session = s => Fifo(s)[i] < c.output)
      BY <2>1 DEF FifoInv
    <2> QED
      BY <1>1, <2>1, <2>2 DEF FifoInv
  <1>4. ASSUME NEW e \in callbacks' PROVE CallbackInv(e)'
    <2>1. CASE e = new
      BY <1>1, <2>1, Zenon DEF CallbackInv, SameSource
    <2>2. CASE e \in callbacks /\ e # c
      <3>1. e.output # c.output /\ CallbackInv(e)
        BY <2>2 DEF QueueInv
      <3> QED
        BY <1>1, <3>1 DEF CallbackInv, SameSource
    <2> QED
      BY <1>1, <2>1, <2>2, Zenon
  <1>5. \A e, g \in callbacks' : e.session = g.session \/ e.output = g.output => e = g
    <2>1. \A e, g \in callbacks : e.session = g.session \/ e.output = g.output => e = g
      BY DEF QueueInv
    <2> QED
      BY <1>1, <2>1
  <1> QED
    BY <1>3, <1>4, <1>5 DEF QueueInv

LEMMA QueuePush ==
  ASSUME TypeOK, QueueInv, NEW c \in callbacks, CallbackPush(c)
  PROVE  QueueInv'
  <1> DEFINE q == Fifo(c.session)
             r == Fifo(c.session)'
             last == Len(q) + 1
  <1>1. /\ c.stored /\ callbacks' = callbacks \ {c}
        /\ UNCHANGED <<queued_outputs, next_output_id>>
        /\ \A t : t # c.session => Fifo(t)' = Fifo(t)
    BY PushEffect, Zenon
  <1>2. /\ Len(q) \in Nat /\ DOMAIN q = 1 .. Len(q) /\ DOMAIN r = 1 .. last
        /\ \A i \in DOMAIN q : r[i] = q[i]
        /\ r[last] = c.output
    BY PushEffect, Zenon
  <1>3. CallbackInv(c) /\ FifoInv(c.session) /\ c.output < next_output_id
    BY AnyFifo, CallbackFacts, Zenon DEF QueueInv
  <1>4. \A e \in callbacks' : e.output # c.output /\ e.session # c.session
    BY <1>1 DEF QueueInv
  <1>5. \A i \in DOMAIN q :
          /\ q[i] < next_output_id /\ q[i] < c.output
          /\ q[i] \in DOMAIN queued_outputs => queued_outputs[q[i]].session = c.session
          /\ \A j \in DOMAIN q : i < j => q[i] < q[j]
          /\ \A e \in callbacks : q[i] # e.output
    BY <1>3 DEF FifoInv
  <1>6. c.output \in DOMAIN queued_outputs => queued_outputs[c.output].session = c.session
    BY <1>1, <1>3 DEF CallbackInv
  <1>7. FifoInv(c.session)'
    <2> HIDE DEF q, r
    <2>1. ASSUME NEW i \in DOMAIN r
          PROVE  /\ r[i] < next_output_id'
                 /\ r[i] \in DOMAIN queued_outputs' => queued_outputs'[r[i]].session = c.session
                 /\ \A j \in DOMAIN r : i < j => r[i] < r[j]
                 /\ \A e \in callbacks' : /\ r[i] # e.output
                                          /\ e.session = c.session => r[i] < e.output
      <3>1. i \in DOMAIN q \/ i = last
        BY <1>2
      <3>2. \A j \in DOMAIN r : i < j => i \in DOMAIN q /\ (j \in DOMAIN q \/ j = last)
        BY <1>2
      <3>3. \A j \in DOMAIN r : i < j => r[i] < r[j]
        BY <1>2, <1>5, <3>2, ZenonT(60)
      <3>4. \A e \in callbacks' : r[i] # e.output /\ e.session # c.session
        BY <1>1, <1>2, <1>4, <1>5, <3>1
      <3> QED
        BY <1>1, <1>2, <1>3, <1>5, <1>6, <3>1, <3>3, <3>4, ZenonT(60)
    <2> QED
      BY <2>1 DEF FifoInv, r
  <1> HIDE DEF r, q
  <1>8. ASSUME NEW t PROVE FifoInv(t)'
    <2>1. CASE t = c.session
      BY <1>7, <2>1
    <2>2. CASE t # c.session
      <3>1. FifoInv(t)
        BY AnyFifo
      <3> QED
        BY <1>1, <2>2, <3>1 DEF FifoInv
    <2> QED
      BY <2>1, <2>2
  <1>9. \A e \in callbacks' : CallbackInv(e)'
    BY <1>1, Zenon DEF QueueInv, CallbackInv, SameSource
  <1>10. \A e, g \in callbacks' : e.session = g.session \/ e.output = g.output => e = g
    BY <1>1 DEF QueueInv
  <1> QED
    BY <1>8, <1>9, <1>10 DEF QueueInv

LEMMA QueuePop ==
  ASSUME TypeOK, QueueInv, NEW s \in DOMAIN session_queues,
         NEW n \in 0 .. MAX_OUTPUT_BATCH + 1, DequeueOutput(s, n)
  PROVE  QueueInv'
  <1> DEFINE q == Fifo(s)
             r == Fifo(s)'
             k == PopCount(s, n)
  <1>1. /\ UNCHANGED <<callbacks, queued_outputs, next_output_id>>
        /\ \A t : t # s => Fifo(t)' = Fifo(t)
    BY PopEffect, Zenon
  <1>2. /\ Len(q) \in Nat /\ DOMAIN q = 1 .. Len(q) /\ k \in 1 .. Len(q)
        /\ DOMAIN r = 1 .. Len(q) - k
        /\ \A i \in DOMAIN r : r[i] = q[i + k]
    BY PopEffect, Zenon
  <1>3. \A i \in DOMAIN q :
          /\ q[i] < next_output_id
          /\ q[i] \in DOMAIN queued_outputs => queued_outputs[q[i]].session = s
          /\ \A j \in DOMAIN q : i < j => q[i] < q[j]
          /\ \A e \in callbacks : q[i] # e.output /\ (e.session = s => q[i] < e.output)
    BY AnyFifo DEF FifoInv
  <1>4. FifoInv(s)'
    <2> HIDE DEF q, r, k
    <2>1. ASSUME NEW i \in DOMAIN r
          PROVE  /\ r[i] < next_output_id'
                 /\ r[i] \in DOMAIN queued_outputs' => queued_outputs'[r[i]].session = s
                 /\ \A j \in DOMAIN r : i < j => r[i] < r[j]
                 /\ \A e \in callbacks' : r[i] # e.output /\ (e.session = s => r[i] < e.output)
      <3>1. i + k \in DOMAIN q /\ \A j \in DOMAIN r : j + k \in DOMAIN q
        BY <1>2
      <3>2. \A j \in DOMAIN r : i < j => i + k < j + k
        BY <1>2
      <3> QED
        BY <1>1, <1>2, <1>3, <3>1, <3>2, ZenonT(60)
    <2> QED
      BY <2>1 DEF FifoInv, r
  <1> HIDE DEF r, q, k
  <1>5. ASSUME NEW t PROVE FifoInv(t)'
    <2>1. CASE t = s
      BY <1>4, <2>1
    <2>2. CASE t # s
      <3>1. FifoInv(t)
        BY AnyFifo
      <3> QED
        BY <1>1, <2>2, <3>1 DEF FifoInv
    <2> QED
      BY <2>1, <2>2
  <1>6. \A e \in callbacks' : CallbackInv(e)'
    BY <1>1, Zenon DEF QueueInv, CallbackInv, SameSource
  <1> QED
    BY <1>1, <1>5, <1>6 DEF QueueInv

(* Nothing of the FIFOs, the outputs or the callbacks changes.              *)
LEMMA QueueSame ==
  ASSUME QueueInv, UNCHANGED <<queued_outputs, session_queues, next_output_id, callbacks>>
  PROVE  QueueInv'
  <1>1. \A s : Fifo(s)' = Fifo(s)
    BY DEF Fifo
  <1> QED
    BY <1>1, QueueDrop

(* The steps that touch neither.                                            *)
LEMMA OtherRequests ==
  ASSUME \/ CreateSession
         \/ \E s \in sessions : PrepareSession(s)
         \/ \E s \in sessions \cup {0}, shape \in Shapes : CreateBufferPool(s, shape)
         \/ \E p \in DOMAIN pools : DestroyBufferPool(p)
         \/ \E p \in DOMAIN pools, b \in DOMAIN buffers : AllocBuffer(p, b)
         \/ \E p \in DOMAIN pools, b \in DOMAIN buffers, g \in 0 .. MaxGeneration :
              RecycleBuffer(p, b, g)
         \/ \E f \in Frames : EncodeFrame(f)
         \/ \E f, g \in Frames : EncodeFrameBatch(<<f, g>>)
         \/ BatchedFrame
         \/ Disconnect
         \/ Siblings
  PROVE  UNCHANGED <<queued_outputs, session_queues, next_output_id, callbacks, delivered>>
  BY Zenon DEF CreateSession, PrepareSession, CreateBufferPool, DestroyBufferPool, AllocBuffer,
     RecycleBuffer, EncodeFrame, SubmitFrame, EncodeFrameBatch, BatchedFrame, Disconnect,
     Siblings, SiblingClaims, SiblingReleases, outVars, vtVars, histVars

(* A session's end, a release and the connection's end only remove.         *)
LEMMA DestroyEffect ==
  ASSUME NEW s \in sessions, DestroySession(s)
  PROVE  /\ UNCHANGED <<next_output_id, callbacks, delivered, leases, next_host_id>>
         /\ inflight' \subseteq inflight
         /\ \A t : IF t = s THEN DOMAIN Fifo(t)' = {} ELSE Fifo(t)' = Fifo(t)
         /\ DOMAIN queued_outputs' =
              {o \in DOMAIN queued_outputs : queued_outputs[o].session # s}
         /\ \A o \in DOMAIN queued_outputs' : queued_outputs'[o] = queued_outputs[o]
         /\ DOMAIN buffers' \subseteq DOMAIN buffers
         /\ \A b \in DOMAIN buffers' : buffers'[b] = buffers[b]
  BY DEF DestroySession, Without, Fifo

LEMMA ReleaseEffect ==
  ASSUME NEW ids, ReleaseOutput(ids)
  PROVE  /\ UNCHANGED <<session_queues, next_output_id, callbacks, inflight, delivered,
                        leases, buffers, next_host_id>>
         /\ DOMAIN queued_outputs' \subseteq DOMAIN queued_outputs
         /\ \A o \in DOMAIN queued_outputs' : queued_outputs'[o] = queued_outputs[o]
  BY DEF ReleaseOutput, Without, vtVars, histVars, hostVars

LEMMA DropEffect ==
  ASSUME DropFields
  PROVE  /\ UNCHANGED <<next_output_id, callbacks, delivered, leases, next_host_id>>
         /\ callbacks = {} /\ inflight' = {} /\ DOMAIN buffers' = {}
         /\ DOMAIN queued_outputs' = {} /\ \A s : DOMAIN Fifo(s)' = {}
  BY DEF DropFields, EmptyMap, Fifo, histVars

LEMMA NoOutputEffect ==
  ASSUME CallbackNoOutput
  PROVE  /\ UNCHANGED <<queued_outputs, session_queues, next_output_id, delivered, leases,
                        buffers, next_host_id>>
         /\ inflight' \subseteq inflight /\ callbacks' \subseteq callbacks
         /\ \A c \in callbacks : c.stored => c \in callbacks'
  BY DEF CallbackNoOutput, outVars, histVars, hostVars

LEMMA QueueStep == TypeOK /\ QueueInv /\ [Next]_vars => QueueInv'
  <1> SUFFICES ASSUME TypeOK, QueueInv, [Next]_vars PROVE QueueInv'
    OBVIOUS
  <1>1. ASSUME NEW s \in sessions, DestroySession(s) PROVE QueueInv'
    BY <1>1, DestroyEffect, QueueDrop, Zenon
  <1>2. ASSUME NEW ids, ReleaseOutput(ids) PROVE QueueInv'
    BY <1>2, ReleaseEffect, QueueDrop DEF Fifo
  <1>3. CASE DropFields
    BY <1>3, DropEffect, QueueDrop
  <1>4. CASE CallbackNoOutput
    BY <1>4, NoOutputEffect, QueueDrop DEF Fifo
  <1>5. CASE UNCHANGED vars
    BY <1>5, QueueSame DEF vars, outVars, vtVars
  <1>6. CASE Request
    BY <1>6, <1>1, <1>2, <1>3, OtherRequests, QueueSame, QueuePop, Zenon DEF Request
  <1>7. CASE VideoToolbox
    BY <1>7, <1>4, QueueTakeId, QueueStore, QueuePush, Zenon DEF VideoToolbox
  <1>8. CASE Siblings
    BY <1>8, OtherRequests, QueueSame, Zenon
  <1> QED
    BY <1>5, <1>6, <1>7, <1>8 DEF Next

-----------------------------------------------------------------------------
(* No output is stranded.                                                   *)

Reachable(o) ==
  \/ \E c \in callbacks : c.output = o /\ c.stored
  \/ \E i \in DOMAIN Fifo(queued_outputs[o].session) :
       Fifo(queued_outputs[o].session)[i] = o
  \/ \E d \in delivered : d.output = o

LEMMA ReachableIs == OutputReachable <=> \A o \in DOMAIN queued_outputs : Reachable(o)
  BY DEF OutputReachable, Reachable

(* An output of a FIFO that is kept, with its callback and its delivery.    *)
LEMMA ReachableKept ==
  ASSUME NEW o \in DOMAIN queued_outputs', o \in DOMAIN queued_outputs, Reachable(o),
         queued_outputs'[o] = queued_outputs[o],
         Fifo(queued_outputs[o].session)' = Fifo(queued_outputs[o].session),
         \A c \in callbacks : c.stored => c \in callbacks', delivered \subseteq delivered'
  PROVE  Reachable(o)'
  BY DEF Reachable

LEMMA ReachablePush ==
  ASSUME TypeOK, QueueInv, NEW c \in callbacks, CallbackPush(c),
         NEW o \in DOMAIN queued_outputs, Reachable(o)
  PROVE  Reachable(o)'
  <1> DEFINE q == Fifo(c.session)
             r == Fifo(c.session)'
  <1>1. /\ c.stored /\ callbacks' = callbacks \ {c} /\ UNCHANGED <<queued_outputs, delivered>>
        /\ \A t : t # c.session => Fifo(t)' = Fifo(t)
    BY PushEffect, Zenon
  <1>2. /\ Len(q) + 1 \in DOMAIN r /\ r[Len(q) + 1] = c.output
        /\ \A i \in DOMAIN q : i \in DOMAIN r /\ r[i] = q[i]
    <2>1. /\ Len(q) \in Nat /\ DOMAIN q = 1 .. Len(q) /\ DOMAIN r = 1 .. Len(q) + 1
          /\ \A i \in DOMAIN q : r[i] = q[i]
          /\ r[Len(q) + 1] = c.output
      BY PushEffect, Zenon
    <2> HIDE DEF q, r
    <2> QED
      BY <2>1
  <1>3. CASE o = c.output
    <2>1. queued_outputs[o].session = c.session
      BY <1>1, <1>3 DEF QueueInv, CallbackInv
    <2> QED
      BY <1>1, <1>2, <1>3, <2>1 DEF Reachable
  <1>4. CASE o # c.output
    <2>1. CASE queued_outputs[o].session = c.session
      BY <1>1, <1>2, <1>4, <2>1, Zenon DEF Reachable
    <2>2. CASE queued_outputs[o].session # c.session
      BY <1>1, <1>4, <2>2 DEF Reachable
    <2> QED
      BY <2>1, <2>2
  <1> QED
    BY <1>3, <1>4

LEMMA ReachablePop ==
  ASSUME TypeOK, QueueInv, NEW s \in DOMAIN session_queues,
         NEW n \in 0 .. MAX_OUTPUT_BATCH + 1, DequeueOutput(s, n),
         NEW o \in DOMAIN queued_outputs, Reachable(o)
  PROVE  Reachable(o)'
  <1> DEFINE q == Fifo(s)
             r == Fifo(s)'
             k == PopCount(s, n)
  <1>1. /\ UNCHANGED <<callbacks, queued_outputs>>
        /\ \A t : t # s => Fifo(t)' = Fifo(t)
    BY PopEffect, Zenon
  <1>2. /\ Len(q) \in Nat /\ DOMAIN q = 1 .. Len(q) /\ k \in 1 .. Len(q)
        /\ DOMAIN r = 1 .. Len(q) - k
        /\ \A i \in DOMAIN r : r[i] = q[i + k]
    BY PopEffect, Zenon
  <1>3. /\ delivered \subseteq delivered'
        /\ \A i \in 1 .. k : q[i] = o => \E d \in delivered' : d.output = o
    <2>1. ASSUME NEW u \in Dequeued(s, n) PROVE \E d \in delivered' : d.output = u
      <3> DEFINE d == [output |-> u, session |-> s, buffer |-> queued_outputs[u].buffer,
                       generation |-> queued_outputs[u].generation]
      <3>1. d \in delivered'
        BY DEF DequeueOutput
      <3>2. d.output = u
        OBVIOUS
      <3> QED
        BY <3>1, <3>2, Zenon
    <2>2. \A i \in 1 .. k : q[i] = o => o \in Dequeued(s, n)
      BY DEF Dequeued
    <2> QED
      BY <2>1, <2>2 DEF DequeueOutput
  <1>4. ASSUME NEW i \in DOMAIN q, q[i] = o
        PROVE  (\E j \in DOMAIN r : r[j] = o) \/ \E d \in delivered' : d.output = o
    <2> HIDE DEF q, r, k
    <2>1. CASE i \in 1 .. k
      BY <1>3, <1>4, <2>1
    <2>2. CASE i \notin 1 .. k
      <3>1. i - k \in DOMAIN r /\ (i - k) + k = i
        BY <1>2, <2>2
      <3> QED
        BY <1>2, <1>4, <3>1
    <2> QED
      BY <2>1, <2>2
  <1>5. CASE queued_outputs[o].session = s
    BY <1>1, <1>3, <1>4, <1>5, Zenon DEF Reachable
  <1>6. CASE queued_outputs[o].session # s
    BY <1>1, <1>3, <1>6 DEF Reachable
  <1> QED
    BY <1>5, <1>6

LEMMA ReachableStep ==
  TypeOK /\ QueueInv /\ OutputReachable /\ [Next]_vars => OutputReachable'
  <1> SUFFICES ASSUME TypeOK, QueueInv, OutputReachable, [Next]_vars,
                      NEW o \in DOMAIN queued_outputs'
               PROVE  Reachable(o)'
    BY ReachableIs DEF OutputReachable, Reachable
  <1>0. o \in DOMAIN queued_outputs => Reachable(o)
    BY ReachableIs
  <1>1. ASSUME UNCHANGED <<queued_outputs, session_queues, callbacks, delivered>>
        PROVE  Reachable(o)'
    BY <1>0, <1>1 DEF Reachable, Fifo
  <1>2. ASSUME NEW s \in sessions, DestroySession(s) PROVE Reachable(o)'
    BY <1>0, <1>2, DestroyEffect, ReachableKept, Zenon
  <1>3. ASSUME NEW ids, ReleaseOutput(ids) PROVE Reachable(o)'
    BY <1>0, <1>3, ReleaseEffect, ReachableKept DEF Fifo
  <1>4. CASE DropFields
    BY <1>4, DropEffect
  <1>5. CASE CallbackNoOutput
    BY <1>0, <1>5, NoOutputEffect, ReachableKept DEF Fifo
  <1>6. ASSUME NEW f \in inflight, CallbackTakeId(f) PROVE Reachable(o)'
    BY <1>0, <1>6, ReachableKept DEF CallbackTakeId, Fifo, histVars
  <1>7. ASSUME NEW c \in callbacks, CallbackStore(c) PROVE Reachable(o)'
    <2>1. PICK new, out : Stored(c, new, out)
      BY <1>7, StoreEffect
    <2> USE DEF Stored
    <2>2. CASE o = c.output
      BY <2>1, <2>2 DEF Reachable
    <2>3. CASE o # c.output
      BY <1>0, <2>1, <2>3, ReachableKept DEF Fifo
    <2> QED
      BY <2>2, <2>3
  <1>8. ASSUME NEW c \in callbacks, CallbackPush(c) PROVE Reachable(o)'
    <2>1. o \in DOMAIN queued_outputs
      BY <1>8, PushEffect, Zenon
    <2> QED
      BY <1>0, <1>8, <2>1, ReachablePush
  <1>9. ASSUME NEW s \in DOMAIN session_queues, NEW n \in 0 .. MAX_OUTPUT_BATCH + 1,
               DequeueOutput(s, n)
        PROVE  Reachable(o)'
    <2>1. o \in DOMAIN queued_outputs
      BY <1>9, PopEffect, Zenon
    <2> QED
      BY <1>0, <1>9, <2>1, ReachablePop
  <1>10. CASE Request
    BY <1>10, <1>1, <1>2, <1>3, <1>4, <1>9, OtherRequests, Zenon DEF Request
  <1>11. CASE VideoToolbox
    BY <1>11, <1>5, <1>6, <1>7, <1>8 DEF VideoToolbox
  <1>12. CASE Siblings
    BY <1>12, <1>1, OtherRequests, Zenon
  <1>13. CASE UNCHANGED vars
    BY <1>13, <1>1 DEF vars, outVars, vtVars, histVars
  <1> QED
    BY <1>10, <1>11, <1>12, <1>13 DEF Next

(* An output in the map is on its way to the client until it is delivered:  *)
(* whichever way the store and the push of a callback fall between dequeues *)
(* and releases, its id is in the hands of the callback, in the FIFO of its *)
(* session, or was given to the client (OutputQueue).                       *)
THEOREM NoneStranded == Spec => []OutputReachable
  <1> DEFINE I == TypeOK /\ QueueInv /\ OutputReachable
  <1>1. Init => I
    BY TypeInit, QueueInit DEF Init, OutputReachable, EmptyMap
  <1>2. I /\ [Next]_vars => I'
    BY TypeStep, QueueStep, ReachableStep
  <1> QED
    BY <1>1, <1>2, PTL DEF Spec

-----------------------------------------------------------------------------
(* The backend implements AbstractEncoder.                                  *)

LEMMA ReadyIs ==
  ASSUME NEW s \in 1 .. MaxHostId
  PROVE  /\ ReadyBySession[s] = ReadyOutputs(s) /\ DOMAIN ReadyOutputs(s) = ReadyIds(s)
         /\ \A o \in ReadyIds(s) : ReadyOutputs(s)[o] = Lease(queued_outputs[o])
  BY DEF ReadyBySession, ReadyOutputs

(* A step that changes the outputs of one session.                          *)
LEMMA ReadyUpdate ==
  ASSUME NEW s \in 1 .. MaxHostId, NEW F, ReadyOutputs(s)' = F,
         \A t \in 1 .. MaxHostId : t # s => ReadyOutputs(t)' = ReadyOutputs(t)
  PROVE  ReadyBySession' = [ReadyBySession EXCEPT ![s] = F]
  BY Zenon DEF ReadyBySession

(* A step that takes away, or does nothing, is a Discard.                   *)
LEMMA DiscardStep ==
  ASSUME UNCHANGED <<leases, delivered>>,
         HeldLeases' \subseteq HeldLeases, Encoding' \subseteq Encoding,
         \A s \in 1 .. MaxHostId : ReadyIds(s)' \subseteq ReadyIds(s),
         \A s \in 1 .. MaxHostId : \A o \in ReadyIds(s)' :
           queued_outputs'[o] = queued_outputs[o]
  PROVE  Encoder!Discard
  <1>1. Given' = Given
    BY DEF Given, FrameOf, Lease
  <1>2. ReadyBySession' = [s \in 1 .. MaxHostId |-> ReadyBySession'[s]]
    BY DEF ReadyBySession
  <1>3. ASSUME NEW s \in 1 .. MaxHostId
        PROVE  \E T \in SUBSET DOMAIN ReadyBySession[s] :
                 ReadyBySession'[s] = Encoder!Only(ReadyBySession[s], T)
    <2> DEFINE T == ReadyIds(s)'
    <2>1. T \in SUBSET DOMAIN ReadyBySession[s]
      BY ReadyIs, Zenon
    <2>2. ReadyBySession'[s] = [o \in T |-> Lease(queued_outputs'[o])]
      BY DEF ReadyBySession, ReadyOutputs
    <2>3. \A o \in T : Lease(queued_outputs'[o]) = ReadyBySession[s][o]
      BY ReadyIs
    <2> HIDE DEF T
    <2>4. ReadyBySession'[s] = [o \in T |-> ReadyBySession[s][o]]
      BY <2>2, <2>3, Zenon
    <2> QED
      BY <2>1, <2>4, Zenon DEF Encoder!Only
  <1> QED
    BY <1>1, <1>2, <1>3, Zenon DEF Encoder!Discard

LEMMA HeldKept ==
  ASSUME \A b \in DOMAIN buffers' : buffers'[b].state = WRITABLE =>
           /\ b \in DOMAIN buffers /\ buffers[b].state = WRITABLE
           /\ buffers[b].generation = buffers'[b].generation
  PROVE  HeldLeases' \subseteq HeldLeases
  BY DEF HeldLeases

LEMMA EncodingKept ==
  ASSUME \A x \in inflight' : \E y \in inflight \cup callbacks : FrameOf(x) = FrameOf(y),
         \A x \in callbacks' : \E y \in inflight \cup callbacks : FrameOf(x) = FrameOf(y)
  PROVE  Encoding' \subseteq Encoding
  <1>1. Encoding' = {FrameOf(x) : x \in inflight' \cup callbacks'}
    BY DEF Encoding, FrameOf, Lease
  <1> QED
    BY <1>1, ZenonT(60) DEF Encoding

(* The FIFOs and the outputs as they are, or fewer.                         *)
LEMMA ReadyKept ==
  ASSUME \A s : Fifo(s)' = Fifo(s) \/ DOMAIN Fifo(s)' = {},
         DOMAIN queued_outputs' \subseteq DOMAIN queued_outputs,
         \A o \in DOMAIN queued_outputs' : queued_outputs'[o] = queued_outputs[o]
  PROVE  /\ \A s \in 1 .. MaxHostId : ReadyIds(s)' \subseteq ReadyIds(s)
         /\ \A s \in 1 .. MaxHostId : \A o \in ReadyIds(s)' :
              queued_outputs'[o] = queued_outputs[o]
  BY DEF ReadyIds

(* The steps that leave the outputs alone and lease or submit nothing.      *)
LEMMA QuietStep ==
  ASSUME UNCHANGED <<leases, delivered, queued_outputs, session_queues, callbacks>>,
         inflight' \subseteq inflight,
         \A b \in DOMAIN buffers' : buffers'[b].state = WRITABLE =>
           /\ b \in DOMAIN buffers /\ buffers[b].state = WRITABLE
           /\ buffers[b].generation = buffers'[b].generation
  PROVE  Encoder!Discard
  <1>1. HeldLeases' \subseteq HeldLeases
    BY HeldKept
  <1>2. Encoding' \subseteq Encoding
    BY EncodingKept
  <1>3. \A s : Fifo(s)' = Fifo(s)
    BY DEF Fifo
  <1> QED
    BY <1>1, <1>2, <1>3, ReadyKept, DiscardStep

(* OP_ALLOC_BUFFER hands out a lease that was never handed out before.      *)
LEMMA AllocLeases ==
  ASSUME TypeOK, LeaseInv, BoundInv, NEW p \in DOMAIN pools, NEW b \in DOMAIN buffers,
         AllocBuffer(p, b)
  PROVE  Encoder!Next
  <1> DEFINE g == buffers[b].generation + 1
             l == <<b, g>>
  <1>1. /\ buffers[b] \in Buffer /\ b \in Nat /\ b >= 1 /\ b < next_host_id
        /\ next_host_id \in Nat /\ MaxHostId \in Nat /\ MaxGeneration \in Nat
    BY BackendAssumption DEF TypeOK, HostTypeOK
  <1>2. /\ buffers[b].generation \in Nat /\ buffers[b].generation < MaxGeneration
        /\ buffers[b].state = FREE
        /\ leases' = leases \cup {l}
        /\ DOMAIN buffers' = DOMAIN buffers
        /\ buffers'[b].generation = g /\ buffers'[b].state = WRITABLE
        /\ \A x \in DOMAIN buffers : x # b => buffers'[x] = buffers[x]
        /\ UNCHANGED <<queued_outputs, session_queues, inflight, callbacks, delivered>>
    BY <1>1 DEF AllocBuffer, Leased, Buffer, outVars, vtVars
  <1>3. l \in (1 .. MaxHostId) \X (0 .. MaxGeneration)
    BY <1>1, <1>2 DEF BoundInv
  <1>4. l \notin leases
    <2> SUFFICES ASSUME l \in leases PROVE FALSE
      OBVIOUS
    <2>1. g <= buffers[b].generation
      BY DEF LeaseInv
    <2> QED
      BY <1>2, <2>1
  <1>5. HeldLeases' = HeldLeases \cup {l}
    <2>1. \A x \in DOMAIN buffers' : x # b => buffers'[x] = buffers[x]
      BY <1>2
    <2> QED
      BY <1>2, <2>1 DEF HeldLeases, WRITABLE, FREE
  <1>6. Encoding' = Encoding /\ Given' = Given /\ ReadyBySession' = ReadyBySession
    BY <1>2 DEF Encoding, Given, FrameOf, Lease, ReadyBySession, ReadyOutputs, ReadyIds, Fifo
  <1> HIDE DEF l, g
  <1>7. Encoder!Lease(l)
    BY <1>2, <1>5, <1>6, Zenon DEF Encoder!Lease
  <1> QED
    BY <1>3, <1>4, <1>7, Zenon DEF Encoder!Next

(* A frame that VideoToolbox takes ends the client's hold on its lease.     *)
LEMMA SubmitSubmits ==
  ASSUME TypeOK, BoundInv, NEW f \in Frame, SubmitFrame(f)
  PROVE  Encoder!Next
  <1> DEFINE l == <<f.buffer, f.generation>>
  <1>1. /\ f.session \in sessions /\ f.buffer \in DOMAIN buffers
        /\ buffers[f.buffer].generation = f.generation
        /\ buffers[f.buffer].state = WRITABLE
    BY DEF SubmitFrame, EncodeFrameStatus
  <1>2. f.session \in 1 .. MaxHostId
    BY <1>1, BackendAssumption DEF TypeOK, HostTypeOK, BoundInv
  <1>3. buffers \in [DOMAIN buffers -> Buffer]
    BY DEF TypeOK, HostTypeOK
  <1>4. /\ inflight' = inflight \cup {f}
        /\ DOMAIN buffers' = DOMAIN buffers
        /\ buffers'[f.buffer].state = QUEUED
        /\ \A x \in DOMAIN buffers : x # f.buffer => buffers'[x] = buffers[x]
        /\ UNCHANGED <<queued_outputs, session_queues, callbacks, delivered, leases>>
    BY <1>1, <1>3 DEF SubmitFrame, Buffer, outVars, histVars
  <1>5. l \in HeldLeases
    BY <1>1 DEF HeldLeases
  <1>6. HeldLeases' = HeldLeases \ {l}
    <2>1. buffers'[f.buffer].state # WRITABLE
      BY <1>4 DEF WRITABLE, QUEUED
    <2>2. \A x \in DOMAIN buffers : <<x, buffers[x].generation>> = l <=> x = f.buffer
      BY <1>1
    <2> HIDE DEF l
    <2> QED
      BY <1>4, <2>1, <2>2, ZenonT(60) DEF HeldLeases
  <1>7. Given' = Given /\ ReadyBySession' = ReadyBySession
    BY <1>4 DEF Given, FrameOf, Lease, ReadyBySession, ReadyOutputs, ReadyIds, Fifo
  <1>8. Encoding' = Encoding \cup {Encoder!Frame(f.session, l)}
    BY <1>4 DEF Encoding, FrameOf, Lease, Encoder!Frame
  <1> HIDE DEF l
  <1>9. Encoder!Submit(f.session, l)
    BY <1>4, <1>6, <1>7, <1>8, Zenon DEF Encoder!Submit
  <1> QED
    BY <1>2, <1>5, <1>9, Zenon DEF Encoder!Next

(* A callback that pushes its output finishes the frame, behind all that    *)
(* wait; unless the client has released the output already.                 *)
LEMMA PushFinishes ==
  ASSUME TypeOK, SourceInv, NoOrphans, QueueInv, BoundInv, NEW c \in callbacks,
         CallbackPush(c)
  PROVE  Encoder!Next
  <1> DEFINE q == Fifo(c.session)
             r == Fifo(c.session)'
             s == c.session
             o == c.output
  <1>1. /\ c.stored /\ callbacks' = callbacks \ {c}
        /\ UNCHANGED <<queued_outputs, inflight, buffers, leases, delivered>>
        /\ \A t : t # s => Fifo(t)' = Fifo(t)
    BY PushEffect, Zenon
  <1>2. {r[i] : i \in DOMAIN r} = {q[i] : i \in DOMAIN q} \cup {o}
    <2>1. /\ Len(q) \in Nat /\ DOMAIN q = 1 .. Len(q) /\ DOMAIN r = 1 .. Len(q) + 1
          /\ \A i \in DOMAIN q : r[i] = q[i]
          /\ r[Len(q) + 1] = o
      BY PushEffect, Zenon
    <2> HIDE DEF q, r, o
    <2>2. DOMAIN r = DOMAIN q \cup {Len(q) + 1}
      BY <2>1
    <2>3. \A x \in {r[i] : i \in DOMAIN r} : x \in {q[i] : i \in DOMAIN q} \cup {o}
      BY <2>1, <2>2
    <2>4. \A x \in {q[i] : i \in DOMAIN q} \cup {o} : x \in {r[i] : i \in DOMAIN r}
      BY <2>1, <2>2
    <2> QED
      BY <2>3, <2>4, Zenon
  <1>3. s \in 1 .. MaxHostId /\ o \in 1 .. MaxOutputs
    <2>1. s \in sessions
      BY DEF NoOrphans
    <2> QED
      BY <2>1, CallbackFacts, BackendAssumption DEF TypeOK, HostTypeOK, BoundInv
  <1>4. HeldLeases' = HeldLeases /\ Given' = Given
    BY <1>1 DEF HeldLeases, Given, FrameOf, Lease
  <1>5. \A t \in 1 .. MaxHostId : t # s => ReadyOutputs(t)' = ReadyOutputs(t)
    BY <1>1 DEF ReadyOutputs, ReadyIds
  <1>6. Encoding' = Encoding \ {FrameOf(c)}
    <2>1. \A x \in inflight : FrameOf(x) # FrameOf(c)
      BY DEF SourceInv, SameSource, FrameOf, Lease
    <2>2. \A e \in callbacks \ {c} : FrameOf(e) # FrameOf(c)
      BY DEF QueueInv, FrameOf
    <2> QED
      BY <1>1, <2>1, <2>2, Zenon DEF Encoding, FrameOf, Lease
  <1>7. CASE o \notin DOMAIN queued_outputs
    <2>1. ReadyIds(s)' = ReadyIds(s)
      BY <1>1, <1>2, <1>7, Zenon DEF ReadyIds
    <2>2. \A t \in 1 .. MaxHostId : ReadyIds(t)' = ReadyIds(t)
      BY <1>1, <2>1 DEF ReadyIds
    <2> QED
      BY <1>1, <1>4, <1>6, <2>2, DiscardStep DEF Encoder!Next
  <1>8. CASE o \in DOMAIN queued_outputs
    <2>1. ReadyIds(s)' = ReadyIds(s) \cup {o}
      BY <1>1, <1>2, <1>8, Zenon DEF ReadyIds
    <2>2. Lease(queued_outputs[o]) = Lease(c)
      BY <1>1, <1>8 DEF QueueInv, CallbackInv, SameSource, Lease
    <2>3. \A u \in ReadyIds(s) : u < o
      BY AnyFifo DEF FifoInv, ReadyIds
    <2>4. ReadyOutputs(s)' = Encoder!Queued(ReadyBySession[s], o, Lease(c))
      <3>1. ReadyOutputs(s)' = [u \in ReadyIds(s) \cup {o} |-> Lease(queued_outputs[u])]
        BY <1>1, <2>1, Zenon DEF ReadyOutputs
      <3>2. \A u \in ReadyIds(s) \cup {o} :
              Lease(queued_outputs[u]) = IF u = o THEN Lease(c) ELSE ReadyBySession[s][u]
        BY <1>3, <2>2, ReadyIs, Zenon
      <3>3. DOMAIN ReadyBySession[s] = ReadyIds(s)
        BY <1>3, ReadyIs, Zenon
      <3> HIDE DEF s, o
      <3> QED
        BY <3>1, <3>2, <3>3, Zenon DEF Encoder!Queued
    <2>5. ReadyBySession' =
            [ReadyBySession EXCEPT ![s] = Encoder!Queued(ReadyBySession[s], o, Lease(c))]
      BY <1>3, <1>5, <2>4, ReadyUpdate
    <2>6. FrameOf(c).session = s /\ FrameOf(c).lease = Lease(c) /\ FrameOf(c) \in Encoding
      BY DEF FrameOf, Encoding
    <2>7. Encoder!Last(ReadyBySession[s], o)
      BY <1>3, <2>3, ReadyIs DEF Encoder!Last
    <2>8. Encoder!Finish(FrameOf(c), o)
      <3> HIDE DEF s, o
      <3> QED
        BY <1>1, <1>4, <1>6, <2>5, <2>6, <2>7, Zenon DEF Encoder!Finish
    <2> QED
      BY <1>3, <2>6, <2>8, Zenon DEF Encoder!Next
  <1> QED
    BY <1>7, <1>8

(* A dequeue gives out the oldest outputs of its session.                   *)
LEMMA DequeueDelivers ==
  ASSUME TypeOK, NoOrphans, QueueInv, BoundInv, NEW s \in DOMAIN session_queues,
         NEW n \in 0 .. MAX_OUTPUT_BATCH + 1, DequeueOutput(s, n)
  PROVE  Encoder!Next
  <1> DEFINE q == Fifo(s)
             r == Fifo(s)'
             k == PopCount(s, n)
             T == Dequeued(s, n)
  <1>1. /\ UNCHANGED <<queued_outputs, callbacks, inflight, leases>>
        /\ \A t : t # s => Fifo(t)' = Fifo(t)
    BY PopEffect, Zenon
  <1>2. /\ Len(q) \in Nat /\ DOMAIN q = 1 .. Len(q) /\ k \in 1 .. Len(q)
        /\ DOMAIN r = 1 .. Len(q) - k
        /\ \A i \in DOMAIN r : r[i] = q[i + k]
    BY PopEffect, Zenon
  <1>3. s \in 1 .. MaxHostId
    BY BackendAssumption DEF NoOrphans, TypeOK, HostTypeOK, BoundInv
  <1>4. /\ \A i, j \in DOMAIN q : i < j => q[i] < q[j]
        /\ \A i \in DOMAIN q : q[i] \in Nat
    BY AnyFifo, FifoType DEF FifoInv
  <1>5. /\ T = {q[i] : i \in 1 .. k} \cap DOMAIN queued_outputs
        /\ ReadyIds(s) = {q[i] : i \in DOMAIN q} \cap DOMAIN queued_outputs
        /\ ReadyIds(s)' = {r[i] : i \in DOMAIN r} \cap DOMAIN queued_outputs
    BY <1>1 DEF Dequeued, ReadyIds
  <1>6. /\ T \subseteq ReadyIds(s) /\ ReadyIds(s)' = ReadyIds(s) \ T
        /\ \A t \in T, u \in ReadyIds(s) : u < t => u \in T
    <2> HIDE DEF q, r, k, T
    <2>1. 1 .. k \subseteq DOMAIN q
      BY <1>2
    <2>2. {r[i] : i \in DOMAIN r} = {q[i] : i \in DOMAIN q \ (1 .. k)}
      <3>1. \A i \in DOMAIN r : i + k \in DOMAIN q \ (1 .. k)
        BY <1>2
      <3>2. \A i \in DOMAIN q \ (1 .. k) : i - k \in DOMAIN r /\ (i - k) + k = i
        BY <1>2
      <3>3. \A i \in DOMAIN q \ (1 .. k) : \E j \in DOMAIN r : r[j] = q[i]
        BY <1>2, <3>2, Zenon
      <3> QED
        BY <1>2, <3>1, <3>3, Zenon
    <2>3. \A i \in 1 .. k, j \in DOMAIN q \ (1 .. k) : q[i] < q[j] /\ q[i] # q[j]
      BY <1>2, <1>4
    <2>4. T \subseteq ReadyIds(s)
      BY <1>5, <2>1
    <2>5. ReadyIds(s)' = ReadyIds(s) \ T
      BY <1>5, <2>1, <2>2, <2>3, Zenon
    <2>6. ASSUME NEW t \in T, NEW u \in ReadyIds(s), u < t PROVE u \in T
      <3>1. PICK i \in 1 .. k : t = q[i]
        BY <1>5
      <3>2. PICK j \in DOMAIN q : u = q[j]
        BY <1>5
      <3>3. j \in 1 .. k
        BY <1>4, <2>1, <2>3, <2>6, <3>1, <3>2
      <3> QED
        BY <1>5, <3>2, <3>3
    <2> QED
      BY <2>4, <2>5, <2>6
  <1>7. HeldLeases' = HeldLeases
    <2>1. buffers' = MarkReusable(T) /\ buffers \in [DOMAIN buffers -> Buffer]
      BY DEF DequeueOutput, TypeOK, HostTypeOK
    <2>2. /\ DOMAIN buffers' = DOMAIN buffers
          /\ \A b \in DOMAIN buffers :
               \/ buffers'[b] = buffers[b]
               \/ buffers[b].state = QUEUED /\ buffers'[b].state = FREE
      BY <2>1 DEF MarkReusable, Buffer
    <2> QED
      BY <2>2 DEF HeldLeases, WRITABLE, QUEUED, FREE
  <1>8. Encoding' = Encoding
    BY <1>1 DEF Encoding, FrameOf, Lease
  <1>9. Given' = Given \cup {Encoder!Frame(s, ReadyBySession[s][t]) : t \in T}
    <2> DEFINE D(t) == [output |-> t, session |-> s, buffer |-> queued_outputs[t].buffer,
                        generation |-> queued_outputs[t].generation]
    <2>1. delivered' = delivered \cup {D(t) : t \in T}
      BY DEF DequeueOutput
    <2>2. \A t \in T : FrameOf(D(t)) = Encoder!Frame(s, ReadyBySession[s][t])
      <3>1. \A t \in T : FrameOf(D(t)) = [session |-> s, lease |-> Lease(queued_outputs[t])]
        BY DEF FrameOf, Lease
      <3> HIDE DEF D
      <3> QED
        BY <1>3, <1>6, <3>1, ReadyIs DEF Encoder!Frame
    <2> HIDE DEF D, T
    <2>3. Given' = {FrameOf(d) : d \in delivered'}
      BY DEF Given, FrameOf, Lease
    <2> QED
      BY <2>1, <2>2, <2>3, Zenon DEF Given
  <1>10. ReadyBySession' =
           [ReadyBySession EXCEPT
              ![s] = Encoder!Only(ReadyBySession[s], DOMAIN ReadyBySession[s] \ T)]
    <2>1. \A t \in 1 .. MaxHostId : t # s => ReadyOutputs(t)' = ReadyOutputs(t)
      BY <1>1 DEF ReadyOutputs, ReadyIds
    <2>2. ReadyOutputs(s)' = [o \in ReadyIds(s) \ T |-> Lease(queued_outputs[o])]
      BY <1>1, <1>6, Zenon DEF ReadyOutputs
    <2>3. /\ DOMAIN ReadyBySession[s] = ReadyIds(s)
          /\ \A o \in ReadyIds(s) \ T : Lease(queued_outputs[o]) = ReadyBySession[s][o]
      BY <1>3, ReadyIs, Zenon
    <2> HIDE DEF T
    <2>4. ReadyOutputs(s)' =
            Encoder!Only(ReadyBySession[s], DOMAIN ReadyBySession[s] \ T)
      BY <2>2, <2>3, Zenon DEF Encoder!Only
    <2> QED
      BY <1>3, <2>1, <2>4, ReadyUpdate
  <1>11. DOMAIN ReadyBySession[s] = ReadyIds(s)
    BY <1>3, ReadyIs, Zenon
  <1> HIDE DEF T
  <1>12. Encoder!Deliver(s, T)
    BY <1>1, <1>6, <1>7, <1>8, <1>9, <1>10, <1>11, Zenon DEF Encoder!Deliver
  <1> QED
    BY <1>3, <1>6, <1>11, <1>12, Zenon DEF Encoder!Next

(* The bounds hold.                                                         *)
LEMMA BoundStep == TypeOK /\ BoundInv /\ [Next]_vars => BoundInv'
  <1> SUFFICES ASSUME TypeOK, BoundInv, [Next]_vars PROVE BoundInv'
    OBVIOUS
  <1>0. /\ next_host_id \in Nat /\ next_output_id \in Nat /\ MaxHostId \in Nat
        /\ MaxOutputs \in Nat
    BY BackendAssumption DEF TypeOK, HostTypeOK, OutTypeOK
  <1>1. ASSUME UNCHANGED <<next_host_id, next_output_id>> PROVE BoundInv'
    BY <1>1 DEF BoundInv
  <1>2. CASE CreateSession
    BY <1>0, <1>2 DEF CreateSession, BoundInv, outVars
  <1>3. ASSUME NEW s \in sessions \cup {0}, NEW shape \in Shapes, CreateBufferPool(s, shape)
        PROVE  BoundInv'
    <2>1. PICK e \in take_matching(claimed, shape) : BuildPool(s, e) \/ AbandonPool(e)
      BY <1>3 DEF CreateBufferPool
    <2>2. SlotCount[e] \in Nat
      BY <2>1, TakeMatchingUnclaimed, DirectoryAssumption, Zenon
    <2>3. UNCHANGED next_output_id
      BY <1>3 DEF CreateBufferPool, outVars
    <2>4. CASE BuildPool(s, e)
      BY <1>0, <2>2, <2>3, <2>4 DEF BuildPool, BoundInv
    <2>5. CASE AbandonPool(e)
      BY <1>0, <2>2, <2>3, <2>5 DEF AbandonPool, BoundInv
    <2> QED
      BY <2>1, <2>4, <2>5
  <1>4. ASSUME NEW f \in inflight, CallbackTakeId(f) PROVE BoundInv'
    BY <1>0, <1>4 DEF CallbackTakeId, BoundInv, hostVars
  <1> USE DEF hostVars, outVars
  <1>5. CASE Request
    BY <1>5, <1>1, <1>2, <1>3, ZenonT(60)
    DEF Request, PrepareSession, DestroySession, DestroyBufferPool, AllocBuffer, RecycleBuffer,
        EncodeFrame, SubmitFrame, EncodeFrameBatch, BatchedFrame, DequeueOutput, ReleaseOutput,
        Disconnect, DropFields
  <1>6. CASE VideoToolbox
    BY <1>6, <1>1, <1>4, Zenon DEF VideoToolbox, CallbackStore, CallbackPush, CallbackNoOutput
  <1>7. CASE Siblings
    BY <1>7, <1>1, Zenon DEF Siblings, SiblingClaims, SiblingReleases
  <1> QED
    BY <1>1, <1>5, <1>6, <1>7 DEF Next, vars

RefinementInv ==
  TypeOK /\ SourceInv /\ LeaseInv /\ NoOrphans /\ QueueInv /\ BoundInv

(* A request that neither leases, submits nor dequeues takes away at most.  *)
LEMMA RequestDiscards ==
  ASSUME TypeOK,
         \/ CreateSession
         \/ \E s \in sessions : PrepareSession(s) \/ DestroySession(s)
         \/ \E s \in sessions \cup {0}, shape \in Shapes : CreateBufferPool(s, shape)
         \/ \E p \in DOMAIN pools : DestroyBufferPool(p)
         \/ \E p \in DOMAIN pools, b \in DOMAIN buffers, g \in 0 .. MaxGeneration :
              RecycleBuffer(p, b, g)
         \/ \E f, g \in Frames : EncodeFrameBatch(<<f, g>>)
         \/ \E ids : ReleaseOutput(ids)
         \/ Disconnect \/ DropFields
         \/ Siblings
  PROVE  Encoder!Discard
  <1>0. buffers \in [DOMAIN buffers -> Buffer]
    BY DEF TypeOK, HostTypeOK
  <1>1. ASSUME UNCHANGED <<leases, delivered, queued_outputs, session_queues, callbacks,
                           inflight, buffers>>
        PROVE  Encoder!Discard
    BY <1>1, QuietStep
  <1>2. ASSUME NEW s \in sessions, DestroySession(s) PROVE Encoder!Discard
    <2>1. HeldLeases' \subseteq HeldLeases
      BY <1>2, DestroyEffect, HeldKept, Zenon
    <2>2. Encoding' \subseteq Encoding
      BY <1>2, DestroyEffect, EncodingKept, Zenon
    <2>3. \A t : Fifo(t)' = Fifo(t) \/ DOMAIN Fifo(t)' = {}
      BY <1>2, DestroyEffect, Zenon
    <2>4. /\ DOMAIN queued_outputs' \subseteq DOMAIN queued_outputs
          /\ \A o \in DOMAIN queued_outputs' : queued_outputs'[o] = queued_outputs[o]
          /\ UNCHANGED <<leases, delivered>>
      BY <1>2, DestroyEffect, Zenon
    <2> QED
      BY <2>1, <2>2, <2>3, <2>4, ReadyKept, DiscardStep, Zenon
  <1>3. ASSUME NEW s \in sessions \cup {0}, NEW shape \in Shapes, CreateBufferPool(s, shape)
        PROVE  Encoder!Discard
    <2>1. UNCHANGED <<leases, delivered, queued_outputs, session_queues, callbacks, inflight>>
      BY <1>3 DEF CreateBufferPool, outVars, vtVars, histVars
    <2>2. ASSUME NEW m, buffers' = AddBuffers(next_host_id, m) PROVE Encoder!Discard
      BY <2>1, <2>2, QuietStep DEF AddBuffers, FREE, WRITABLE
    <2>3. CASE UNCHANGED buffers
      BY <1>1, <2>1, <2>3
    <2> QED
      BY <1>3, <2>2, <2>3, Zenon DEF CreateBufferPool, BuildPool, AbandonPool
  <1>4. ASSUME NEW p \in DOMAIN pools, DestroyBufferPool(p) PROVE Encoder!Discard
    BY <1>4, QuietStep DEF DestroyBufferPool, Without, outVars, vtVars
  <1>5. ASSUME NEW p \in DOMAIN pools, NEW b \in DOMAIN buffers, NEW g \in 0 .. MaxGeneration,
               RecycleBuffer(p, b, g)
        PROVE  Encoder!Discard
    <2>1. /\ DOMAIN buffers' = DOMAIN buffers
          /\ \A x \in DOMAIN buffers : x # b => buffers'[x] = buffers[x]
          /\ buffers'[b].state = FREE
          /\ UNCHANGED <<leases, delivered, queued_outputs, session_queues, callbacks,
                         inflight>>
      BY <1>0, <1>5 DEF RecycleBuffer, Buffer, outVars, vtVars
    <2> QED
      BY <2>1, QuietStep DEF FREE, WRITABLE
  <1>6. ASSUME NEW ids, ReleaseOutput(ids) PROVE Encoder!Discard
    <2>1. HeldLeases' \subseteq HeldLeases /\ Encoding' \subseteq Encoding
      BY <1>6, ReleaseEffect, HeldKept, EncodingKept
    <2>2. \A t : Fifo(t)' = Fifo(t)
      BY <1>6, ReleaseEffect, ZenonT(60) DEF Fifo
    <2> QED
      BY <1>6, <2>1, <2>2, ReleaseEffect, ReadyKept, DiscardStep
  <1>7. CASE DropFields
    <2>1. HeldLeases' \subseteq HeldLeases /\ Encoding' \subseteq Encoding
      BY <1>7, DropEffect, HeldKept, EncodingKept
    <2> QED
      BY <1>7, <2>1, DropEffect, ReadyKept, DiscardStep
  <1>8. ASSUME \/ CreateSession
               \/ \E s \in sessions : PrepareSession(s)
               \/ \E f, g \in Frames : EncodeFrameBatch(<<f, g>>)
               \/ Disconnect \/ Siblings
        PROVE  Encoder!Discard
    BY <1>8, <1>1, Zenon
    DEF CreateSession, PrepareSession, EncodeFrameBatch, Disconnect, Siblings, SiblingClaims,
        SiblingReleases, hostVars, outVars, vtVars, histVars
  <1> QED
    BY <1>2, <1>3, <1>4, <1>5, <1>6, <1>7, <1>8, ZenonT(60)

(* So do the steps of a callback before the push.                           *)
LEMMA CallbackDiscards ==
  ASSUME TypeOK, QueueInv,
         \/ \E f \in inflight : CallbackTakeId(f)
         \/ \E c \in callbacks : CallbackStore(c)
         \/ CallbackNoOutput
  PROVE  Encoder!Discard
  <1>1. ASSUME UNCHANGED buffers PROVE HeldLeases' \subseteq HeldLeases
    BY <1>1, HeldKept
  <1>2. ASSUME NEW f \in inflight, CallbackTakeId(f) PROVE Encoder!Discard
    <2>1. PICK new :
            /\ new.session = f.session /\ new.buffer = f.buffer
            /\ new.generation = f.generation
            /\ callbacks' = callbacks \cup {new} /\ inflight' = inflight \ {f}
            /\ UNCHANGED <<queued_outputs, session_queues, buffers, leases, delivered>>
      BY <1>2, TakeIdEffect, Zenon
    <2>2. FrameOf(new) = FrameOf(f)
      BY <2>1, Zenon DEF FrameOf, Lease
    <2>3. Encoding' \subseteq Encoding
      BY <2>1, <2>2, EncodingKept, Zenon
    <2>4. \A t : Fifo(t)' = Fifo(t)
      BY <2>1 DEF Fifo
    <2> QED
      BY <1>1, <2>1, <2>3, <2>4, ReadyKept, DiscardStep
  <1>3. ASSUME NEW c \in callbacks, CallbackStore(c) PROVE Encoder!Discard
    <2>1. PICK new, out : Stored(c, new, out)
      BY <1>3, StoreEffect
    <2>2. FrameOf(new) = FrameOf(c)
      BY <2>1, Zenon DEF Stored, FrameOf, Lease
    <2>3. Encoding' \subseteq Encoding
      BY <2>1, <2>2, EncodingKept, ZenonT(60) DEF Stored
    <2>4. ASSUME NEW s PROVE /\ ReadyIds(s)' = ReadyIds(s)
                             /\ \A o \in ReadyIds(s) : queued_outputs'[o] = queued_outputs[o]
      <3>1. \A i \in DOMAIN Fifo(s) : Fifo(s)[i] # c.output
        BY AnyFifo DEF FifoInv
      <3>2. Fifo(s)' = Fifo(s)
        BY <2>1, Zenon DEF Fifo, Stored
      <3>3. /\ DOMAIN queued_outputs' = DOMAIN queued_outputs \cup {c.output}
            /\ \A o \in DOMAIN queued_outputs :
                 o # c.output => queued_outputs'[o] = queued_outputs[o]
        BY <2>1, Zenon DEF Stored
      <3> QED
        BY <3>1, <3>2, <3>3 DEF ReadyIds
    <2>5. UNCHANGED <<buffers, leases, delivered>>
      BY <2>1, Zenon DEF Stored
    <2> QED
      BY <1>1, <2>3, <2>4, <2>5, DiscardStep
  <1>4. CASE CallbackNoOutput
    <2>1. Encoding' \subseteq Encoding
      BY <1>4, NoOutputEffect, EncodingKept, Zenon
    <2>2. \A t : Fifo(t)' = Fifo(t)
      BY <1>4, NoOutputEffect DEF Fifo
    <2> QED
      BY <1>1, <1>4, <2>1, <2>2, NoOutputEffect, ReadyKept, DiscardStep
  <1> QED
    BY <1>2, <1>3, <1>4

(* Every step of the backend is a step of AbstractEncoder.                  *)
LEMMA EncoderStep ==
  ASSUME RefinementInv, [Next]_vars
  PROVE  Encoder!Next \/ UNCHANGED Encoder!vars
  <1> USE DEF RefinementInv
  <1>1. Encoder!Discard => Encoder!Next
    BY Zenon DEF Encoder!Next
  <1>2. ASSUME NEW f \in Frames, EncodeFrame(f) PROVE Encoder!Next
    <2>1. f \in Frame
      BY DEF Frames, Frame, TypeOK, HostTypeOK
    <2> QED
      BY <1>2, <2>1, SubmitSubmits DEF EncodeFrame
  <1>3. CASE BatchedFrame
    <2>1. Head(batch) \in Frame
      BY <1>3, HeadTailProperties DEF BatchedFrame, TypeOK, VtTypeOK
    <2>2. CASE SubmitFrame(Head(batch))
      BY <2>1, <2>2, SubmitSubmits
    <2>3. CASE ~SubmitFrame(Head(batch))
      <3>1. UNCHANGED <<leases, delivered, queued_outputs, session_queues, callbacks,
                        inflight, buffers>>
        BY <1>3, <2>3 DEF BatchedFrame, hostVars, outVars, vtVars, histVars
      <3> QED
        BY <1>1, <3>1, QuietStep
    <2> QED
      BY <2>2, <2>3
  <1>4. CASE UNCHANGED vars
    BY <1>1, <1>4, QuietStep DEF vars, hostVars, outVars, vtVars, histVars
  <1>5. CASE Request
    BY <1>5, <1>1, <1>2, <1>3, RequestDiscards, AllocLeases, DequeueDelivers, Zenon
    DEF Request
  <1>6. CASE VideoToolbox
    BY <1>6, <1>1, CallbackDiscards, PushFinishes, Zenon DEF VideoToolbox
  <1>7. CASE Siblings
    BY <1>7, <1>1, RequestDiscards, Zenon
  <1> QED
    BY <1>4, <1>5, <1>6, <1>7 DEF Next

(* The vt-real backend implements AbstractEncoder for any client, any       *)
(* number of sessions, slots and frames, and wherever the callbacks fall:   *)
(* no lease is issued twice, a frame takes a lease the client holds, and    *)
(* the outputs of a session are given out once, in the order in which the   *)
(* callbacks queued them.                                                   *)
THEOREM RefinesEncoder == Spec => ImplementsEncoder
  <1>1. Init => RefinementInv
    BY TypeInit, SourceInit, OrphansInit, QueueInit, BackendAssumption
    DEF Init, RefinementInv, LeaseInv, BoundInv
  <1>2. RefinementInv /\ [Next]_vars => RefinementInv'
    BY TypeStep, SourceStep, LeaseStep, OrphansStep, QueueStep, BoundStep, Zenon
    DEF RefinementInv
  <1>3. Init => Encoder!Init
    <2> SUFFICES ASSUME Init PROVE Encoder!Init
      OBVIOUS
    <2>1. HeldLeases = {} /\ Encoding = {} /\ Given = {} /\ leases = {}
      BY DEF Init, EmptyMap, HeldLeases, Encoding, Given
    <2>2. \A s : ReadyIds(s) = {}
      BY DEF Init, EmptyMap, ReadyIds, Fifo
    <2>3. ReadyBySession = [s \in 1 .. MaxHostId |-> [t \in {} |-> t]]
      BY <2>2 DEF ReadyBySession, ReadyOutputs
    <2> QED
      BY <2>1, <2>3, Zenon DEF Encoder!Init
  <1>4. RefinementInv /\ [Next]_vars => [Encoder!Next]_(Encoder!vars)
    BY EncoderStep
  <1> QED
    BY <1>1, <1>2, <1>3, <1>4, PTL DEF Spec, ImplementsEncoder, Encoder!Spec
=============================================================================
