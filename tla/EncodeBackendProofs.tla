------------------------- MODULE EncodeBackendProofs -------------------------
(***************************************************************************)
(* Proofs about EncodeBackend, for every directory, every number of ids,    *)
(* generations and outputs, and every set of faults.                        *)
(***************************************************************************)
EXTENDS EncodeBackend, SequenceTheorems, TLAPS

(* A leaf that the provers do not settle in their usual time gets more.     *)
USE SMTT(60), SMT, SMTT(30), ZenonT(60)

-----------------------------------------------------------------------------
(* The operators the actions are built from.                                *)

(* take_matching returns an unclaimed entry of the directory.               *)
LEMMA TakeMatchingUnclaimed ==
  ASSUME NEW shape, NEW e \in take_matching(claimed, shape)
  PROVE  e \in Entries \ claimed
  BY DEF take_matching, Matching

-----------------------------------------------------------------------------
(* Type correctness, one step per action.                                   *)

LEMMA TypeInit == Init => TypeOK
  BY DirectoryAssumption, EmptySeq
  DEF Init, TypeOK, HostTypeOK, OutTypeOK, VtTypeOK, HistTypeOK, EmptyMap

LEMMA TypeStep == TypeOK /\ [Next]_vars => TypeOK'
<1> SUFFICES ASSUME TypeOK, [Next]_vars PROVE TypeOK'
  OBVIOUS
<1> USE DirectoryAssumption, BackendAssumption
<1> USE DEF TypeOK, vars, dirVars, hostVars, outVars, vtVars, histVars
<1>h. ASSUME UNCHANGED hostVars PROVE HostTypeOK'
  BY <1>h DEF HostTypeOK
<1>o. ASSUME UNCHANGED <<outVars, callbacks>> PROVE OutTypeOK'
  BY <1>o DEF OutTypeOK
<1>v. ASSUME UNCHANGED <<vtVars, batch>> PROVE VtTypeOK'
  BY <1>v DEF VtTypeOK
<1>y. ASSUME UNCHANGED histVars PROVE HistTypeOK'
  BY <1>y DEF HistTypeOK
<1>z. ASSUME UNCHANGED <<leases, delivered>>, NEW B, withdrawn' = withdrawn \cup Reading(B)
      PROVE  HistTypeOK'
  BY <1>z DEF HistTypeOK, VtTypeOK, Reading
<1>1. CASE CreateSession
  <2>1. HostTypeOK'
    BY <1>1 DEF CreateSession, HostTypeOK
  <2>2. OutTypeOK'
    BY <1>1 DEF CreateSession, OutTypeOK
  <2> QED
    BY <1>1, <1>v, <1>y, <2>1, <2>2 DEF CreateSession
<1>2. ASSUME NEW s \in sessions, PrepareSession(s) PROVE TypeOK'
  <2>1. HostTypeOK'
    BY <1>2 DEF PrepareSession, HostTypeOK
  <2> QED
    BY <1>2, <1>o, <1>v, <1>y, <2>1 DEF PrepareSession
<1>3. ASSUME NEW s \in sessions, DestroySession(s) PROVE TypeOK'
  <2>1. /\ sessions' = sessions \ {s} /\ prepared' = prepared \ {s}
        /\ inflight' \subseteq inflight /\ claimed' \subseteq claimed
        /\ UNCHANGED <<conn, sibling, next_host_id, next_output_id, callbacks, batch>>
        /\ HistTypeOK'
    BY <1>3, <1>z DEF DestroySession, release_entries
  <2>2. HostTypeOK'
    <3>1. /\ DOMAIN pools' \subseteq DOMAIN pools
          /\ pools' \in [DOMAIN pools' -> [session : Nat, entry : Entries]]
      BY <1>3 DEF DestroySession, Without, HostTypeOK
    <3>2. /\ DOMAIN buffers' \subseteq DOMAIN buffers
          /\ buffers' \in [DOMAIN buffers' -> Buffer]
      BY <1>3 DEF DestroySession, Without, HostTypeOK
    <3> QED
      BY <2>1, <3>1, <3>2 DEF HostTypeOK
  <2>3. OutTypeOK'
    <3>1. /\ DOMAIN queued_outputs' \subseteq DOMAIN queued_outputs
          /\ queued_outputs' \in [DOMAIN queued_outputs' -> Output]
      BY <1>3 DEF DestroySession, Without, OutTypeOK
    <3>2. /\ DOMAIN session_queues' = DOMAIN session_queues \ {s}
          /\ session_queues' \in [DOMAIN session_queues' -> Seq(Nat)]
      BY <1>3 DEF DestroySession, Without, OutTypeOK
    <3> QED
      BY <2>1, <3>1, <3>2 DEF OutTypeOK
  <2>4. VtTypeOK'
    BY <2>1 DEF VtTypeOK
  <2> QED
    BY <1>y, <2>1, <2>2, <2>3, <2>4
<1>4. ASSUME NEW s \in sessions \cup {0}, NEW shape \in Shapes, CreateBufferPool(s, shape)
      PROVE  TypeOK'
  <2>1. PICK e \in take_matching(claimed, shape) :
          claimed' = claimed \cup {e} /\ (BuildPool(s, e) \/ AbandonPool(e))
    BY <1>4 DEF CreateBufferPool
  <2>2. e \in Entries /\ s \in Nat /\ SlotCount[e] \in Nat
    BY <2>1, TakeMatchingUnclaimed DEF HostTypeOK
  <2>3. UNCHANGED <<conn, sibling, sessions, prepared, outVars, vtVars, batch, histVars>>
    BY <1>4 DEF CreateBufferPool
  <2>4. HostTypeOK'
    <3>0. ASSUME NEW n \in Nat, buffers' = AddBuffers(next_host_id, n)
          PROVE  /\ DOMAIN buffers' = DOMAIN buffers \cup SlotIds(next_host_id, n)
                 /\ buffers' \in [DOMAIN buffers' -> Buffer]
      BY <3>0 DEF AddBuffers, HostTypeOK, Buffer
    <3>1. CASE BuildPool(s, e)
      <4>1. /\ DOMAIN pools' = DOMAIN pools \cup {next_host_id}
            /\ pools' \in [DOMAIN pools' -> [session : Nat, entry : Entries]]
        BY <2>2, <3>1 DEF BuildPool, Put, HostTypeOK
      <4>2. next_host_id' = next_host_id + 1 + SlotCount[e]
        BY <3>1 DEF BuildPool
      <4>3. /\ DOMAIN buffers' = DOMAIN buffers \cup SlotIds(next_host_id, SlotCount[e])
            /\ buffers' \in [DOMAIN buffers' -> Buffer]
        BY <2>2, <3>0, <3>1, Zenon DEF BuildPool
      <4> QED
        BY <2>2, <2>3, <4>1, <4>2, <4>3 DEF HostTypeOK, SlotIds
    <3>2. CASE AbandonPool(e)
      <4>1. CASE UNCHANGED <<next_host_id, buffers>>
        BY <1>h, <2>3, <3>2, <4>1 DEF AbandonPool
      <4>2. ASSUME NEW n \in Nat, next_host_id' = next_host_id + 1 + n,
                   buffers' = AddBuffers(next_host_id, n)
            PROVE  HostTypeOK'
        <5>1. UNCHANGED pools
          BY <3>2 DEF AbandonPool
        <5>2. /\ DOMAIN buffers' = DOMAIN buffers \cup SlotIds(next_host_id, n)
              /\ buffers' \in [DOMAIN buffers' -> Buffer]
          BY <3>0, <4>2, Zenon
        <5> QED
          BY <2>3, <4>2, <5>1, <5>2 DEF HostTypeOK, SlotIds
      <4> QED
        BY <2>2, <3>2, <4>1, <4>2 DEF AbandonPool
    <3> QED
      BY <2>1, <3>1, <3>2
  <2> QED
    BY <1>o, <1>v, <1>y, <2>1, <2>2, <2>3, <2>4
<1>5. ASSUME NEW p \in DOMAIN pools, DestroyBufferPool(p) PROVE TypeOK'
  <2>0. /\ claimed' \subseteq claimed
        /\ UNCHANGED <<conn, sibling, next_host_id, sessions, prepared, outVars, vtVars,
                       batch>>
        /\ HistTypeOK'
    BY <1>5, <1>z DEF DestroyBufferPool, release_entries
  <2>1. HostTypeOK'
    <3>1. /\ DOMAIN pools' \subseteq DOMAIN pools
          /\ pools' \in [DOMAIN pools' -> [session : Nat, entry : Entries]]
      BY <1>5 DEF DestroyBufferPool, Without, HostTypeOK
    <3>2. /\ DOMAIN buffers' \subseteq DOMAIN buffers
          /\ buffers' \in [DOMAIN buffers' -> Buffer]
      BY <1>5 DEF DestroyBufferPool, Without, HostTypeOK
    <3> QED
      BY <2>0, <3>1, <3>2 DEF HostTypeOK
  <2> QED
    BY <1>o, <1>v, <2>0, <2>1
<1>6. ASSUME NEW p \in DOMAIN pools, NEW b \in DOMAIN buffers, AllocBuffer(p, b)
      PROVE  TypeOK'
  <2>1. Leased(buffers[b]) \in Buffer
    <3>1. buffers[b] \in Buffer
      BY DEF HostTypeOK
    <3> QED
      BY <3>1 DEF Leased, Buffer
  <2>2. HostTypeOK'
    BY <1>6, <2>1 DEF AllocBuffer, HostTypeOK
  <2>3. HistTypeOK'
    <3>1. b \in Nat /\ Leased(buffers[b]).generation \in Nat
      BY <2>1 DEF Buffer, HostTypeOK
    <3> QED
      BY <1>6, <3>1 DEF AllocBuffer, HistTypeOK
  <2> QED
    BY <1>6, <1>o, <1>v, <2>2, <2>3 DEF AllocBuffer
<1>7. ASSUME NEW p \in DOMAIN pools, NEW b \in DOMAIN buffers, NEW g \in 0 .. MaxGeneration,
             RecycleBuffer(p, b, g)
      PROVE  TypeOK'
  <2>1. HostTypeOK'
    BY <1>7 DEF RecycleBuffer, Buffer, HostTypeOK
  <2> QED
    BY <1>7, <1>o, <1>v, <1>z, <2>1 DEF RecycleBuffer
<1>8. ASSUME NEW f \in Frame, SubmitFrame(f) PROVE HostTypeOK' /\ inflight' \subseteq Frame
  <2>1. f.buffer \in DOMAIN buffers
    BY <1>8 DEF SubmitFrame, EncodeFrameStatus
  <2>2. HostTypeOK'
    BY <1>8, <2>1 DEF SubmitFrame, HostTypeOK, Buffer
  <2>3. inflight' \subseteq Frame
    BY <1>8 DEF SubmitFrame, VtTypeOK
  <2> QED
    BY <2>2, <2>3
<1>9. ASSUME NEW f \in Frames, EncodeFrame(f) PROVE TypeOK'
  <2>1. f \in Frame
    BY DEF Frames, Frame, HostTypeOK
  <2>2. UNCHANGED <<conn, dirVars, sessions, outVars, callbacks, batch, histVars>>
    BY <1>9 DEF EncodeFrame, SubmitFrame
  <2>3. HostTypeOK' /\ inflight' \subseteq Frame
    BY <1>8, <1>9, <2>1 DEF EncodeFrame
  <2>4. VtTypeOK'
    BY <2>2, <2>3 DEF VtTypeOK
  <2> QED
    BY <1>o, <1>y, <2>2, <2>3, <2>4
<1>10. ASSUME NEW f \in Frames, NEW g \in Frames, EncodeFrameBatch(<<f, g>>) PROVE TypeOK'
  <2>1. f \in Frame /\ g \in Frame
    BY DEF Frames, Frame, HostTypeOK
  <2>2. VtTypeOK'
    BY <1>10, <2>1 DEF EncodeFrameBatch, VtTypeOK
  <2> QED
    BY <1>10, <1>h, <1>o, <1>y, <2>2 DEF EncodeFrameBatch
<1>11. CASE BatchedFrame
  <2>1. Head(batch) \in Frame /\ Tail(batch) \in Seq(Frame)
    BY <1>11, HeadTailProperties DEF BatchedFrame, VtTypeOK
  <2>2. batch' \in Seq(Frame)
    BY <1>11, <2>1, EmptySeq, Zenon DEF BatchedFrame
  <2>3. CASE SubmitFrame(Head(batch))
    <3>1. UNCHANGED <<conn, dirVars, sessions, outVars, callbacks, histVars>>
      BY <2>3 DEF SubmitFrame
    <3>2. HostTypeOK' /\ inflight' \subseteq Frame
      BY <1>8, <2>1, <2>3
    <3>3. VtTypeOK'
      BY <2>2, <3>1, <3>2 DEF VtTypeOK
    <3> QED
      BY <1>o, <1>y, <3>1, <3>2, <3>3
  <2>4. CASE ~SubmitFrame(Head(batch))
    <3>1. UNCHANGED <<conn, dirVars, hostVars, outVars, vtVars, histVars>>
      BY <1>11, <2>4 DEF BatchedFrame
    <3>2. VtTypeOK'
      BY <2>2, <3>1 DEF VtTypeOK
    <3> QED
      BY <1>h, <1>o, <1>y, <3>1, <3>2
  <2> QED
    BY <2>3, <2>4
<1>12. ASSUME NEW s \in DOMAIN session_queues, NEW n \in 0 .. MAX_OUTPUT_BATCH + 1,
              DequeueOutput(s, n)
       PROVE  TypeOK'
  <2>1. HostTypeOK'
    <3>1. DOMAIN buffers' = DOMAIN buffers /\ buffers' \in [DOMAIN buffers' -> Buffer]
      <4>1. \A b \in DOMAIN buffers : /\ buffers[b] \in Buffer
                                      /\ [buffers[b] EXCEPT !.state = FREE] \in Buffer
        BY DEF HostTypeOK, Buffer
      <4> QED
        BY <1>12, <4>1 DEF DequeueOutput, MarkReusable
    <3> QED
      BY <1>12, <3>1 DEF DequeueOutput, HostTypeOK
  <2>2. OutTypeOK'
    <3>1. session_queues[s] \in Seq(Nat) /\ Len(session_queues[s]) \in Nat
      BY LenProperties DEF OutTypeOK
    <3>2. PopCount(s, n) \in Nat
      BY <3>1 DEF PopCount, Fifo
    <3>3. SubSeq(session_queues[s], PopCount(s, n) + 1, Len(session_queues[s])) \in Seq(Nat)
      BY <3>1, <3>2, SubSeqProperties
    <3> QED
      BY <1>12, <3>3 DEF DequeueOutput, OutTypeOK
  <2>3. HistTypeOK'
    <3>1. s \in Nat /\ \A o \in Dequeued(s, n) : o \in Nat /\ queued_outputs[o] \in Output
      BY DEF Dequeued, OutTypeOK, HostTypeOK
    <3> QED
      BY <1>12, <3>1 DEF DequeueOutput, HistTypeOK, Output
  <2> QED
    BY <1>12, <1>v, <2>1, <2>2, <2>3 DEF DequeueOutput
<1>13. ASSUME NEW ids, ReleaseOutput(ids) PROVE TypeOK'
  <2>1. OutTypeOK'
    BY <1>13 DEF ReleaseOutput, Without, OutTypeOK
  <2> QED
    BY <1>13, <1>h, <1>v, <1>y, <2>1 DEF ReleaseOutput
<1>14. CASE Disconnect
  BY <1>14, <1>h, <1>o, <1>v, <1>y, Zenon DEF Disconnect, release_entries
<1>15. CASE DropFields
  BY <1>15, <1>y DEF DropFields, EmptyMap, HostTypeOK, OutTypeOK, VtTypeOK
<1>16. ASSUME NEW f \in inflight, CallbackTakeId(f) PROVE TypeOK'
  <2>1. OutTypeOK'
    BY <1>16 DEF CallbackTakeId, OutTypeOK
  <2>2. VtTypeOK'
    <3>1. f.session \in Nat /\ f.buffer \in Nat /\ f.generation \in Nat /\ next_output_id \in Nat
      BY DEF VtTypeOK, Frame, OutTypeOK
    <3>2. [session |-> f.session, output |-> next_output_id, buffer |-> f.buffer,
           generation |-> f.generation, stored |-> FALSE]
          \in [session : Nat, output : Nat, buffer : Nat, generation : Nat, stored : BOOLEAN]
      BY <3>1
    <3>3. inflight' \subseteq inflight /\ UNCHANGED batch
      BY <1>16 DEF CallbackTakeId
    <3> QED
      BY <1>16, <3>2, <3>3, Zenon DEF CallbackTakeId, VtTypeOK
  <2> QED
    BY <1>16, <1>h, <1>y, <2>1, <2>2 DEF CallbackTakeId
<1>17. ASSUME NEW c \in callbacks, CallbackStore(c) PROVE TypeOK'
  <2>1. c \in [session : Nat, output : Nat, buffer : Nat, generation : Nat, stored : BOOLEAN]
    BY DEF VtTypeOK
  <2>2. VtTypeOK'
    BY <1>17, <2>1, Zenon DEF CallbackStore, VtTypeOK
  <2>3. OutTypeOK'
    <3>1. c.output \in 1 .. next_output_id - 1
      BY DEF OutTypeOK
    <3>2. /\ DOMAIN queued_outputs' = DOMAIN queued_outputs \cup {c.output}
          /\ queued_outputs' \in [DOMAIN queued_outputs' -> Output]
      BY <1>17, <2>1 DEF CallbackStore, Put, OutTypeOK, Output
    <3>3. \A d \in callbacks' : d.output \in 1 .. next_output_id - 1
      BY <1>17, <2>1, <3>1 DEF CallbackStore, OutTypeOK
    <3> QED
      BY <1>17, <3>1, <3>2, <3>3 DEF CallbackStore, OutTypeOK
  <2> QED
    BY <1>17, <1>h, <1>y, <2>2, <2>3 DEF CallbackStore
<1>18. ASSUME NEW c \in callbacks, CallbackPush(c) PROVE TypeOK'
  <2>1. c.session \in Nat /\ c.output \in Nat
    BY DEF VtTypeOK
  <2>2. VtTypeOK'
    BY <1>18 DEF CallbackPush, VtTypeOK
  <2>3. OutTypeOK'
    <3>1. Fifo(c.session) \in Seq(Nat)
      BY EmptySeq DEF Fifo, OutTypeOK
    <3>2. PushBack(Fifo(c.session), c.output) \in Seq(Nat)
      BY <2>1, <3>1, AppendProperties DEF PushBack
    <3>3. /\ DOMAIN session_queues' = DOMAIN session_queues \cup {c.session}
          /\ session_queues' \in [DOMAIN session_queues' -> Seq(Nat)]
      BY <1>18, <3>2 DEF CallbackPush, Put, OutTypeOK
    <3> QED
      BY <1>18, <2>1, <3>3 DEF CallbackPush, OutTypeOK
  <2> QED
    BY <1>18, <1>h, <1>y, <2>2, <2>3 DEF CallbackPush
<1>19. CASE CallbackNoOutput
  <2>1. /\ inflight' \subseteq inflight /\ callbacks' \subseteq callbacks
        /\ UNCHANGED <<conn, dirVars, hostVars, outVars, batch, histVars>>
    BY <1>19 DEF CallbackNoOutput
  <2>2. VtTypeOK'
    BY <2>1 DEF VtTypeOK
  <2>3. OutTypeOK'
    BY <2>1 DEF OutTypeOK
  <2> QED
    BY <1>h, <1>y, <2>1, <2>2, <2>3
<1>20. ASSUME NEW shape \in Shapes, SiblingClaims(shape) PROVE TypeOK'
  BY <1>20, <1>h, <1>o, <1>v, <1>y, TakeMatchingUnclaimed, Zenon DEF SiblingClaims
<1>21. ASSUME NEW e \in sibling, SiblingReleases(e) PROVE TypeOK'
  BY <1>21, <1>h, <1>o, <1>v, <1>y DEF SiblingReleases, release_entries
<1>22. CASE UNCHANGED vars
  BY <1>22, <1>h, <1>o, <1>v, <1>y
<1> QED
  <2>1. CASE Request
    BY <2>1, <1>1, <1>2, <1>3, <1>4, <1>5, <1>6, <1>7, <1>9, <1>10, <1>11, <1>12, <1>13,
       <1>14, <1>15, Zenon DEF Request
  <2>2. CASE VideoToolbox
    BY <2>2, <1>16, <1>17, <1>18, <1>19 DEF VideoToolbox
  <2>3. CASE Siblings
    BY <2>3, <1>20, <1>21 DEF Siblings
  <2> QED
    BY <2>1, <2>2, <2>3, <1>22 DEF Next

(* Every reachable state of the backend is well typed, and no session, pool,*)
(* buffer or output id is in use that its counter has not handed out.       *)
THEOREM TypeCorrect == Spec => []TypeOK
  BY TypeInit, TypeStep, PTL DEF Spec

-----------------------------------------------------------------------------
(* Cross-connection isolation.                                              *)

LEMMA ClaimInit == Init => ClaimInv
  BY DEF Init, ClaimInv, SurfaceExclusive, EmptyMap

LEMMA ClaimStep == TypeOK /\ ClaimInv /\ [Next]_vars => ClaimInv'
<1> SUFFICES ASSUME TypeOK, ClaimInv, [Next]_vars PROVE ClaimInv'
  OBVIOUS
<1> USE DEF ClaimInv, SurfaceExclusive
<1>a. ASSUME UNCHANGED <<conn, claimed, sibling, pools>> PROVE ClaimInv'
  BY <1>a
<1>b. ASSUME NEW P \in SUBSET DOMAIN pools, conn = "open", pools' = Without(pools, P),
             claimed' = release_entries(claimed, PoolEntries(P)), UNCHANGED sibling
      PROVE  ClaimInv'
  <2>1. \A q \in DOMAIN pools' : q \in DOMAIN pools \ P /\ pools'[q] = pools[q]
    BY <1>b DEF Without
  <2>2. \A q \in DOMAIN pools \ P : pools[q].entry \notin PoolEntries(P)
    BY <1>b DEF PoolEntries
  <2>3. sibling \cap PoolEntries(P) = {}
    BY <1>b DEF PoolEntries
  <2> QED
    BY <1>b, <2>1, <2>2, <2>3 DEF release_entries
<1>1. ASSUME NEW s \in sessions, DestroySession(s) PROVE ClaimInv'
  BY <1>1, <1>b DEF DestroySession, Ready
<1>2. ASSUME NEW s \in sessions \cup {0}, NEW shape \in Shapes, CreateBufferPool(s, shape)
      PROVE  ClaimInv'
  <2>1. PICK e \in take_matching(claimed, shape) :
          claimed' = claimed \cup {e} /\ (BuildPool(s, e) \/ AbandonPool(e))
    BY <1>2 DEF CreateBufferPool
  <2>2. conn = "open" /\ UNCHANGED <<conn, sibling>> /\ e \in Entries \ claimed
    BY <1>2, <2>1, TakeMatchingUnclaimed DEF CreateBufferPool, Ready
  <2>3. CASE AbandonPool(e)
    BY <2>1, <2>2, <2>3 DEF AbandonPool
  <2>4. CASE BuildPool(s, e)
    <3>1. next_host_id \notin DOMAIN pools
      BY DEF TypeOK, HostTypeOK
    <3>2. /\ DOMAIN pools' = DOMAIN pools \cup {next_host_id}
          /\ pools'[next_host_id].entry = e
          /\ \A q \in DOMAIN pools : pools'[q] = pools[q]
      BY <2>4, <3>1 DEF BuildPool, Put
    <3>3. \A q \in DOMAIN pools : pools[q].entry # e
      BY <2>2
    <3> QED
      BY <2>1, <2>2, <3>2, <3>3
  <2> QED
    BY <2>1, <2>3, <2>4
<1>3. ASSUME NEW p \in DOMAIN pools, DestroyBufferPool(p) PROVE ClaimInv'
  BY <1>3, <1>b, Zenon DEF DestroyBufferPool, Ready
<1>4. CASE Disconnect
  BY <1>4 DEF Disconnect, Ready, release_entries, PoolEntries
<1>5. CASE DropFields
  BY <1>5 DEF DropFields, dirVars
<1>6. ASSUME NEW shape \in Shapes, SiblingClaims(shape) PROVE ClaimInv'
  <2>1. PICK e \in Entries \ claimed :
          claimed' = claimed \cup {e} /\ sibling' = sibling \cup {e}
    BY <1>6, TakeMatchingUnclaimed DEF SiblingClaims
  <2> QED
    BY <1>6, <2>1 DEF SiblingClaims, hostVars
<1>7. ASSUME NEW e \in sibling, SiblingReleases(e) PROVE ClaimInv'
  BY <1>7 DEF SiblingReleases, release_entries, hostVars
<1> QED
  <2> USE DEF dirVars, hostVars
  <2>1. CASE Request
    BY <2>1, <1>a, <1>1, <1>2, <1>3, <1>4, <1>5, Zenon
    DEF Request, CreateSession, PrepareSession, AllocBuffer, RecycleBuffer, EncodeFrame,
        SubmitFrame, EncodeFrameBatch, BatchedFrame, DequeueOutput, ReleaseOutput
  <2>2. CASE VideoToolbox
    BY <2>2, <1>a, ZenonT(60)
    DEF VideoToolbox, CallbackTakeId, CallbackStore, CallbackPush, CallbackNoOutput
  <2>3. CASE Siblings
    BY <2>3, <1>6, <1>7 DEF Siblings
  <2> QED
    BY <2>1, <2>2, <2>3, <1>a DEF Next, vars

(* No IOSurface backs two live pools: for any directory and any interleaving*)
(* with other connections, the entry of an open connection's pool is        *)
(* claimed, and is neither another connection's nor another pool's.         *)
THEOREM SurfaceIsolation == Spec => []SurfaceExclusive
<1>1. Init => TypeOK /\ ClaimInv
  BY TypeInit, ClaimInit
<1>2. TypeOK /\ ClaimInv /\ [Next]_vars => (TypeOK /\ ClaimInv)'
  BY TypeStep, ClaimStep
<1>3. ClaimInv => SurfaceExclusive
  BY DEF ClaimInv
<1> QED
  BY <1>1, <1>2, <1>3, PTL DEF Spec

-----------------------------------------------------------------------------
(* The life of a slot.                                                      *)

(* A slot is created free; a new generation makes it writable; within a     *)
(* generation it is queued once and freed once, and ids are not reused.     *)
SlotStep ==
  /\ next_host_id <= next_host_id'
  /\ \A b \in DOMAIN buffers' :
       \/ b >= next_host_id
       \/ /\ b \in DOMAIN buffers
          /\ \/ buffers'[b].generation = buffers[b].generation + 1
             \/ /\ buffers'[b].generation = buffers[b].generation
                /\ \/ buffers'[b].state \in {buffers[b].state, FREE}
                   \/ buffers[b].state = WRITABLE /\ buffers'[b].state = QUEUED

(* Every step of the backend moves the slots along that life.               *)
LEMMA SlotLife == TypeOK /\ [Next]_vars => SlotStep
<1> SUFFICES ASSUME TypeOK, [Next]_vars PROVE SlotStep
  OBVIOUS
<1>0. /\ next_host_id \in Nat
      /\ \A b \in DOMAIN buffers : /\ b \in Nat /\ b < next_host_id
                                   /\ buffers[b] \in Buffer
  BY DEF TypeOK, HostTypeOK
<1>a. ASSUME next_host_id' \in Nat, next_host_id <= next_host_id', UNCHANGED buffers
      PROVE SlotStep
  BY <1>0, <1>a DEF SlotStep
<1>b. ASSUME NEW P, buffers' = Without(buffers, PoolBuffers(P)), UNCHANGED next_host_id
      PROVE  SlotStep
  BY <1>0, <1>b DEF SlotStep, Without
<1>c. ASSUME NEW n \in Nat, next_host_id' = next_host_id + 1 + n,
             buffers' = AddBuffers(next_host_id, n)
      PROVE  SlotStep
  <2>1. \A b \in SlotIds(next_host_id, n) : b >= next_host_id
    BY <1>0 DEF SlotIds
  <2> QED
    BY <1>0, <1>c, <2>1 DEF SlotStep, AddBuffers
<1>1. ASSUME NEW s \in sessions \cup {0}, NEW shape \in Shapes, CreateBufferPool(s, shape)
      PROVE  SlotStep
  <2>1. PICK e \in take_matching(claimed, shape) : BuildPool(s, e) \/ AbandonPool(e)
    BY <1>1 DEF CreateBufferPool
  <2>2. SlotCount[e] \in Nat
    BY <2>1, TakeMatchingUnclaimed, DirectoryAssumption, Zenon
  <2>3. CASE BuildPool(s, e)
    BY <1>c, <2>2, <2>3 DEF BuildPool
  <2>4. CASE AbandonPool(e)
    <3>1. CASE UNCHANGED <<next_host_id, buffers>>
      BY <1>0, <1>a, <3>1
    <3>2. CASE \E n \in 0 .. SlotCount[e] : /\ next_host_id' = next_host_id + 1 + n
                                            /\ buffers' = AddBuffers(next_host_id, n)
      BY <1>c, <2>2, <3>2
    <3> QED
      BY <2>4, <3>1, <3>2 DEF AbandonPool
  <2> QED
    BY <2>1, <2>3, <2>4
<1>2. ASSUME NEW p \in DOMAIN pools, NEW b \in DOMAIN buffers, AllocBuffer(p, b)
      PROVE  SlotStep
  BY <1>0, <1>2 DEF AllocBuffer, Leased, SlotStep
<1>3. ASSUME NEW p \in DOMAIN pools, NEW b \in DOMAIN buffers, NEW g \in 0 .. MaxGeneration,
             RecycleBuffer(p, b, g)
      PROVE  SlotStep
  BY <1>0, <1>3 DEF RecycleBuffer, Buffer, SlotStep
<1>4. ASSUME NEW f, SubmitFrame(f) PROVE SlotStep
  <2>1. f.buffer \in DOMAIN buffers /\ buffers[f.buffer].state = WRITABLE
    BY <1>4 DEF SubmitFrame, EncodeFrameStatus
  <2> QED
    BY <1>0, <1>4, <2>1 DEF SubmitFrame, Buffer, SlotStep
<1>5. ASSUME NEW s, NEW n, DequeueOutput(s, n) PROVE SlotStep
  BY <1>0, <1>5 DEF DequeueOutput, MarkReusable, Buffer, SlotStep
<1>6. CASE CreateSession
  BY <1>0, <1>6 DEF CreateSession, SlotStep
<1>7. CASE DropFields
  BY <1>0, <1>7 DEF DropFields, EmptyMap, SlotStep
<1>8. CASE UNCHANGED <<next_host_id, buffers>>
  BY <1>0, <1>8, <1>a
<1> QED
  <2> USE DEF hostVars
  <2>1. CASE Request
    BY <2>1, <1>b, <1>1, <1>2, <1>3, <1>4, <1>5, <1>6, <1>7, <1>8, ZenonT(60)
    DEF Request, PrepareSession, DestroySession, DestroyBufferPool, EncodeFrame,
        EncodeFrameBatch, BatchedFrame, ReleaseOutput, Disconnect
  <2>2. CASE VideoToolbox
    BY <2>2, <1>8, Zenon
    DEF VideoToolbox, CallbackTakeId, CallbackStore, CallbackPush, CallbackNoOutput
  <2>3. CASE Siblings
    BY <2>3, <1>8, Zenon DEF Siblings, SiblingClaims, SiblingReleases
  <2> QED
    BY <2>1, <2>2, <2>3, <1>8 DEF Next, vars

(* A spent lease stays spent: no later step makes its slot writable again   *)
(* under the same generation.                                               *)
LEMMA SpentStable ==
  ASSUME TypeOK, TypeOK', SlotStep, NEW b \in Nat, NEW g \in Nat, Spent(b, g)
  PROVE  Spent(b, g)'
<1>1. /\ next_host_id \in Nat /\ next_host_id' \in Nat
      /\ \A x \in DOMAIN buffers : x \in Nat /\ buffers[x] \in Buffer
      /\ \A x \in DOMAIN buffers' : x \in Nat /\ buffers'[x] \in Buffer
  BY DEF TypeOK, HostTypeOK
<1>2. b < next_host_id'
  BY <1>1 DEF Spent, SlotStep
<1>3. ASSUME b \in DOMAIN buffers'
      PROVE  /\ g <= buffers'[b].generation
             /\ g = buffers'[b].generation => buffers'[b].state # WRITABLE
  BY <1>1, <1>3 DEF Spent, SlotStep, Buffer, FREE, WRITABLE, QUEUED
<1> QED
  BY <1>2, <1>3 DEF Spent

-----------------------------------------------------------------------------
(* Where frames and outputs come from.                                      *)

LEMMA SourceInit == Init => SourceInv
  BY DEF Init, SourceInv, EmptyMap

LEMMA SourceStep == TypeOK /\ SourceInv /\ [Next]_vars => SourceInv'
<1> SUFFICES ASSUME TypeOK, SourceInv, [Next]_vars PROVE SourceInv'
  OBVIOUS
<1>0. TypeOK' /\ SlotStep
  BY TypeStep, SlotLife
<1>1. ASSUME NEW b \in Nat, NEW g \in Nat, Spent(b, g) PROVE Spent(b, g)'
  BY <1>0, <1>1, SpentStable
<1>2. /\ \A f \in inflight : /\ f \in Frame /\ f.buffer \in Nat /\ f.generation \in Nat
                             /\ Spent(f.buffer, f.generation)'
      /\ \A c \in callbacks : /\ c.buffer \in Nat /\ c.generation \in Nat
                              /\ Spent(c.buffer, c.generation)'
      /\ \A o \in DOMAIN queued_outputs :
           /\ queued_outputs[o].buffer \in Nat /\ queued_outputs[o].generation \in Nat
           /\ \A q : q = queued_outputs[o] => Spent(q.buffer, q.generation)'
  <2>1. \A f \in inflight : f \in Frame /\ f.buffer \in Nat /\ f.generation \in Nat
    BY DEF TypeOK, VtTypeOK, Frame
  <2>2. \A c \in callbacks : c.buffer \in Nat /\ c.generation \in Nat
    BY DEF TypeOK, VtTypeOK
  <2>3. \A o \in DOMAIN queued_outputs :
          queued_outputs[o].buffer \in Nat /\ queued_outputs[o].generation \in Nat
    BY DEF TypeOK, OutTypeOK, Output
  <2> QED
    BY <1>1, <2>1, <2>2, <2>3 DEF SourceInv
<1>a. ASSUME inflight' \subseteq inflight, callbacks' \subseteq callbacks,
             DOMAIN queued_outputs' \subseteq DOMAIN queued_outputs,
             \A o \in DOMAIN queued_outputs' : queued_outputs'[o] = queued_outputs[o]
      PROVE  SourceInv'
  BY <1>2, <1>a DEF SourceInv, SameSource
<1>3. ASSUME NEW f \in Frame, SubmitFrame(f) PROVE SourceInv'
  <2>1. /\ f.buffer \in DOMAIN buffers
        /\ buffers[f.buffer].state = WRITABLE /\ buffers[f.buffer].generation = f.generation
    BY <1>3 DEF SubmitFrame, EncodeFrameStatus
  <2>2. inflight' = inflight \cup {f} /\ UNCHANGED <<queued_outputs, callbacks>>
    BY <1>3 DEF SubmitFrame, outVars
  <2>3. Spent(f.buffer, f.generation)'
    <3>1. f.buffer < next_host_id /\ UNCHANGED next_host_id
      BY <1>3, <2>1 DEF SubmitFrame, TypeOK, HostTypeOK
    <3>2. buffers'[f.buffer].state = QUEUED /\ buffers'[f.buffer].generation = f.generation
      BY <1>3, <2>1 DEF SubmitFrame, TypeOK, HostTypeOK, Buffer
    <3>3. f.generation \in Nat
      BY DEF Frame
    <3> QED
      BY <3>1, <3>2, <3>3 DEF Spent, QUEUED, WRITABLE
  <2>4. /\ \A e \in inflight : ~SameSource(e, f)
        /\ \A c \in callbacks : ~SameSource(c, f)
        /\ \A o \in DOMAIN queued_outputs : ~SameSource(queued_outputs[o], f)
    BY <2>1 DEF SourceInv, Spent, SameSource
  <2> QED
    BY <1>2, <2>2, <2>3, <2>4 DEF SourceInv, SameSource
<1>4. ASSUME NEW f \in inflight, CallbackTakeId(f) PROVE SourceInv'
  <2>1. PICK c : /\ callbacks' = callbacks \cup {c} /\ SameSource(c, f)
                 /\ inflight' = inflight \ {f} /\ UNCHANGED queued_outputs
    BY <1>4, Zenon DEF CallbackTakeId, SameSource
  <2>2. Spent(c.buffer, c.generation)'
    BY <1>2, <2>1 DEF SameSource
  <2>3. \A e \in inflight' : e \in inflight /\ e # f /\ ~SameSource(e, f)
    BY <2>1 DEF SourceInv
  <2> QED
    BY <1>2, <2>1, <2>2, <2>3 DEF SourceInv, SameSource
<1>5. ASSUME NEW c \in callbacks, CallbackStore(c) PROVE SourceInv'
  <2>1. PICK d : callbacks' = (callbacks \ {c}) \cup {d} /\ SameSource(d, c)
    <3>1. c \in [session : Nat, output : Nat, buffer : Nat, generation : Nat,
                 stored : BOOLEAN]
      BY DEF TypeOK, VtTypeOK
    <3>2. SameSource([c EXCEPT !.stored = TRUE], c)
      BY <3>1 DEF SameSource
    <3> QED
      BY <1>5, <3>2, Zenon DEF CallbackStore
  <2>2. UNCHANGED inflight
    BY <1>5 DEF CallbackStore
  <2>3. /\ DOMAIN queued_outputs' = DOMAIN queued_outputs \cup {c.output}
        /\ SameSource(queued_outputs'[c.output], c)
        /\ \A o \in DOMAIN queued_outputs' \ {c.output} : queued_outputs'[o] = queued_outputs[o]
    BY <1>5 DEF CallbackStore, Put, SameSource
  <2>4. \A o \in DOMAIN queued_outputs' : \/ SameSource(queued_outputs'[o], c)
                                          \/ /\ o \in DOMAIN queued_outputs
                                             /\ queued_outputs'[o] = queued_outputs[o]
    BY <2>3
  <2>5. \A o \in DOMAIN queued_outputs' :
          Spent(queued_outputs[o].buffer, queued_outputs[o].generation)'
    BY <1>2, <2>4 DEF SameSource
  <2>6. Spent(d.buffer, d.generation)'
    BY <1>2, <2>1 DEF SameSource
  <2> QED
    BY <1>2, <2>1, <2>2, <2>4, <2>5, <2>6 DEF SourceInv, SameSource
<1>6. ASSUME NEW s, NEW T, \/ queued_outputs' = Without(queued_outputs, T)
                           \/ queued_outputs' = EmptyMap,
             inflight' \subseteq inflight, callbacks' \subseteq callbacks
      PROVE  SourceInv'
  BY <1>6, <1>a DEF Without, EmptyMap
<1>7. ASSUME inflight' \subseteq inflight, callbacks' \subseteq callbacks,
             UNCHANGED queued_outputs
      PROVE  SourceInv'
  BY <1>7, <1>a
<1> QED
  <2> USE DEF hostVars, outVars, vtVars
  <2>1. CASE Request
    <3>1. CASE \E s \in sessions : DestroySession(s)
      BY <3>1, <1>6 DEF DestroySession
    <3>2. CASE \E ids : ReleaseOutput(ids)
      BY <3>2, <1>6 DEF ReleaseOutput
    <3>3. CASE DropFields
      BY <3>3, <1>6 DEF DropFields
    <3>4. CASE \E f \in Frames : EncodeFrame(f)
      <4>1. Frames \subseteq Frame
        BY DEF Frames, Frame, TypeOK, HostTypeOK
      <4> QED
        BY <3>4, <4>1, <1>3 DEF EncodeFrame
    <3>5. CASE BatchedFrame
      <4>1. Head(batch) \in Frame
        BY <3>5, HeadTailProperties DEF BatchedFrame, TypeOK, VtTypeOK
      <4> QED
        BY <3>5, <4>1, <1>3, <1>7 DEF BatchedFrame
    <3> QED
      BY <2>1, <3>1, <3>2, <3>3, <3>4, <3>5, <1>7, Zenon
      DEF Request, CreateSession, PrepareSession, CreateBufferPool, DestroyBufferPool,
          AllocBuffer, RecycleBuffer, EncodeFrameBatch, DequeueOutput, Disconnect
  <2>2. CASE VideoToolbox
    BY <2>2, <1>4, <1>5, <1>7 DEF VideoToolbox, CallbackPush, CallbackNoOutput
  <2>3. CASE Siblings
    BY <2>3, <1>7, ZenonT(60) DEF Siblings, SiblingClaims, SiblingReleases
  <2> QED
    BY <2>1, <2>2, <2>3, <1>7 DEF Next, vars

-----------------------------------------------------------------------------
(* What was delivered, and what was leased.                                 *)

LEMMA DeliveredStep ==
  ASSUME TypeOK, SourceInv, DeliveredInv, DeliveredFreesSource, [Next]_vars
  PROVE  DeliveredInv' /\ DeliveredFreesSource'
<1>0. TypeOK' /\ SlotStep
  BY TypeStep, SlotLife
<1>1. ASSUME NEW d \in delivered PROVE Spent(d.buffer, d.generation)'
  <2>1. d.buffer \in Nat /\ d.generation \in Nat
    BY DEF TypeOK, HistTypeOK
  <2> QED
    BY <1>0, <2>1, SpentStable DEF DeliveredInv
<1>2. ASSUME NEW d \in delivered, d.buffer \in DOMAIN buffers',
             buffers'[d.buffer].generation = d.generation
      PROVE  buffers'[d.buffer].state = FREE
  <2>1. d.buffer \in Nat /\ d.generation \in Nat /\ next_host_id \in Nat
    BY DEF TypeOK, HistTypeOK, HostTypeOK
  <2>2. d.buffer < next_host_id /\ d.buffer \in DOMAIN buffers
    BY <1>0, <1>2, <2>1 DEF DeliveredInv, Spent, SlotStep
  <2>3. buffers[d.buffer].generation \in Nat
    BY <2>2 DEF TypeOK, HostTypeOK, Buffer
  <2>4. buffers[d.buffer].generation = d.generation
    BY <1>0, <1>2, <2>1, <2>2, <2>3 DEF DeliveredInv, Spent, SlotStep
  <2>5. buffers[d.buffer].state = FREE
    BY <2>2, <2>4 DEF DeliveredFreesSource
  <2> QED
    BY <1>0, <1>2, <2>1, <2>2, <2>3, <2>4, <2>5 DEF SlotStep, FREE, WRITABLE
<1>3. CASE delivered' = delivered
  BY <1>1, <1>2, <1>3 DEF DeliveredInv, DeliveredFreesSource
<1>4. ASSUME NEW s \in DOMAIN session_queues, NEW n \in 0 .. MAX_OUTPUT_BATCH + 1,
             DequeueOutput(s, n)
      PROVE  DeliveredInv' /\ DeliveredFreesSource'
  <2>1. ASSUME NEW d \in delivered' \ delivered
        PROVE  \E o \in Dequeued(s, n) : SameSource(d, queued_outputs[o])
    BY <1>4, <2>1 DEF DequeueOutput, SameSource
  <2>2. ASSUME NEW o \in Dequeued(s, n)
        PROVE  /\ Spent(queued_outputs[o].buffer, queued_outputs[o].generation)
               /\ queued_outputs[o].buffer \in Nat /\ queued_outputs[o].generation \in Nat
    BY <2>2 DEF Dequeued, SourceInv, TypeOK, OutTypeOK, Output
  <2>3. ASSUME NEW d \in delivered' \ delivered PROVE Spent(d.buffer, d.generation)'
    <3>1. Spent(d.buffer, d.generation) /\ d.buffer \in Nat /\ d.generation \in Nat
      BY <2>1, <2>2, <2>3 DEF SameSource
    <3> QED
      BY <1>0, <3>1, SpentStable
  <2>4. ASSUME NEW d \in delivered' \ delivered, d.buffer \in DOMAIN buffers',
               buffers'[d.buffer].generation = d.generation
        PROVE  buffers'[d.buffer].state = FREE
    <3>1. PICK o \in Dequeued(s, n) : SameSource(d, queued_outputs[o])
      BY <2>1, <2>4
    <3>2. buffers' = MarkReusable(Dequeued(s, n))
      BY <1>4 DEF DequeueOutput
    <3>3. d.buffer \in DOMAIN buffers /\ buffers[d.buffer] \in Buffer
      BY <2>4, <3>2 DEF MarkReusable, TypeOK, HostTypeOK
    <3>4. buffers[d.buffer].generation = d.generation
      BY <2>4, <3>2, <3>3 DEF MarkReusable, Buffer
    <3>5. buffers[d.buffer].state # WRITABLE
      BY <2>2, <3>1, <3>3, <3>4 DEF Spent, SameSource
    <3>6. CASE buffers[d.buffer].state = QUEUED
      BY <3>1, <3>2, <3>3, <3>4, <3>6 DEF MarkReusable, SameSource, Buffer
    <3>7. CASE buffers[d.buffer].state = FREE
      BY <3>2, <3>3, <3>7 DEF MarkReusable, FREE, QUEUED
    <3> QED
      BY <3>3, <3>5, <3>6, <3>7 DEF Buffer
  <2> QED
    BY <1>1, <1>2, <2>3, <2>4 DEF DeliveredInv, DeliveredFreesSource
<1> QED
  <2> USE DEF histVars
  <2>1. CASE Request
    BY <2>1, <1>3, <1>4, Zenon
    DEF Request, CreateSession, PrepareSession, DestroySession, CreateBufferPool,
        DestroyBufferPool, AllocBuffer, RecycleBuffer, EncodeFrame, SubmitFrame,
        EncodeFrameBatch, BatchedFrame, ReleaseOutput, Disconnect, DropFields
  <2>2. CASE VideoToolbox
    BY <2>2, <1>3, Zenon
    DEF VideoToolbox, CallbackTakeId, CallbackStore, CallbackPush, CallbackNoOutput
  <2>3. CASE Siblings
    BY <2>3, <1>3, Zenon DEF Siblings, SiblingClaims, SiblingReleases
  <2> QED
    BY <2>1, <2>2, <2>3, <1>3 DEF Next, vars

(* A delivered output has given its slot back: for every schedule of        *)
(* callbacks, dequeues and re-leases, no lease keeps its slot once the      *)
(* client was handed the lease's output.                                    *)
THEOREM DeliveryFreesSlot == Spec => []DeliveredFreesSource
<1> DEFINE I == TypeOK /\ SourceInv /\ DeliveredInv /\ DeliveredFreesSource
<1>1. Init => I
  BY TypeInit, SourceInit DEF Init, DeliveredInv, DeliveredFreesSource
<1>2. I /\ [Next]_vars => I'
  BY TypeStep, SourceStep, DeliveredStep
<1> QED
  BY <1>1, <1>2, PTL DEF Spec

LEMMA LeaseStep == TypeOK /\ LeaseInv /\ [Next]_vars => LeaseInv'
<1> SUFFICES ASSUME TypeOK, LeaseInv, [Next]_vars PROVE LeaseInv'
  OBVIOUS
<1>0. TypeOK' /\ SlotStep
  BY TypeStep, SlotLife
<1>t. /\ next_host_id \in Nat /\ next_host_id' \in Nat
      /\ \A x \in DOMAIN buffers : x \in Nat /\ buffers[x].generation \in Nat
      /\ \A x \in DOMAIN buffers' : x \in Nat /\ buffers'[x].generation \in Nat
      /\ \A l \in leases : l[1] \in Nat /\ l[2] \in Nat
  BY <1>0 DEF TypeOK, HostTypeOK, HistTypeOK, Buffer
<1>1. ASSUME NEW l \in leases
      PROVE  /\ l[1] < next_host_id'
             /\ l[1] \in DOMAIN buffers' => l[2] <= buffers'[l[1]].generation
  BY <1>0, <1>t DEF LeaseInv, SlotStep
<1>2. CASE leases' = leases
  BY <1>1, <1>2 DEF LeaseInv
<1>3. ASSUME NEW p \in DOMAIN pools, NEW b \in DOMAIN buffers, AllocBuffer(p, b)
      PROVE  LeaseInv'
  <2>1. leases' = leases \cup {<<b, Leased(buffers[b]).generation>>}
    BY <1>3 DEF AllocBuffer
  <2>2. buffers'[b] = Leased(buffers[b])
    BY <1>3 DEF AllocBuffer, TypeOK, HostTypeOK
  <2>3. b < next_host_id'
    BY <1>0, <1>3, <1>t DEF AllocBuffer, TypeOK, HostTypeOK
  <2>4. Leased(buffers[b]).generation \in Nat
    BY <1>t DEF Leased
  <2> QED
    BY <1>1, <2>1, <2>2, <2>3, <2>4 DEF LeaseInv
<1> QED
  <2> USE DEF histVars
  <2>1. CASE Request
    BY <2>1, <1>2, <1>3, Zenon
    DEF Request, CreateSession, PrepareSession, DestroySession, CreateBufferPool,
        DestroyBufferPool, RecycleBuffer, EncodeFrame, SubmitFrame, EncodeFrameBatch,
        BatchedFrame, DequeueOutput, ReleaseOutput, Disconnect, DropFields
  <2>2. CASE VideoToolbox
    BY <2>2, <1>2, Zenon
    DEF VideoToolbox, CallbackTakeId, CallbackStore, CallbackPush, CallbackNoOutput
  <2>3. CASE Siblings
    BY <2>3, <1>2, Zenon DEF Siblings, SiblingClaims, SiblingReleases
  <2> QED
    BY <2>1, <2>2, <2>3, <1>2 DEF Next, vars

(* ALLOC_BUFFER never returns a <<buffer, generation>> pair twice in the    *)
(* life of a connection, so a stale pair can only name a dead lease.        *)
THEOREM LeasesUnique == Spec => LeaseNeverReissued
<1>1. Init => TypeOK /\ LeaseInv
  BY TypeInit DEF Init, LeaseInv
<1>2. TypeOK /\ LeaseInv /\ [Next]_vars => (TypeOK /\ LeaseInv)'
  BY TypeStep, LeaseStep
<1>3. ASSUME TypeOK, LeaseInv,
             NEW p \in DOMAIN pools, NEW b \in DOMAIN buffers, AllocBuffer(p, b)
      PROVE  <<b, buffers'[b].generation>> \notin leases
  <2>1. buffers'[b].generation = buffers[b].generation + 1 /\ buffers[b].generation \in Nat
    BY <1>3 DEF AllocBuffer, Leased, TypeOK, HostTypeOK, Buffer
  <2> SUFFICES ASSUME <<b, buffers'[b].generation>> \in leases PROVE FALSE
    OBVIOUS
  <2>2. buffers'[b].generation <= buffers[b].generation
    BY <1>3 DEF LeaseInv
  <2> QED
    BY <2>1, <2>2
<1>4. TypeOK /\ LeaseInv =>
        [\A p \in DOMAIN pools, b \in DOMAIN buffers :
           AllocBuffer(p, b) => <<b, buffers'[b].generation>> \notin leases]_vars
  BY <1>3
<1> QED
  BY <1>1, <1>2, <1>4, PTL DEF Spec, LeaseNeverReissued

(* A queued slot is freed by the delivery of its own lease's output or by   *)
(* the client recycling that lease, by nothing else.                        *)
THEOREM OwnerFrees == Spec => FreedByOwner
<1> DEFINE I == TypeOK /\ SourceInv /\ DeliveredInv /\ DeliveredFreesSource
           Freed(b) == \/ RecycleBuffer(buffers[b].pool, b, buffers[b].generation)
                       \/ \E d \in delivered' \ delivered :
                            d.buffer = b /\ d.generation = buffers[b].generation
<1>1. Init => I
  BY TypeInit, SourceInit DEF Init, DeliveredInv, DeliveredFreesSource
<1>2. I /\ [Next]_vars => I'
  BY TypeStep, SourceStep, DeliveredStep
<1>3. ASSUME I, Next, NEW b \in DOMAIN buffers, buffers[b].state = QUEUED,
             b \in DOMAIN buffers', buffers'[b] # buffers[b]
      PROVE  Freed(b)
  <2>t. b < next_host_id /\ b \in Nat /\ next_host_id \in Nat
    BY <1>3 DEF TypeOK, HostTypeOK
  <2>f. FREE # QUEUED /\ WRITABLE # QUEUED
    BY DEF FREE, QUEUED, WRITABLE
  <2>a. ASSUME NEW n \in Nat, buffers' = AddBuffers(next_host_id, n) PROVE FALSE
    <3>1. b \notin SlotIds(next_host_id, n)
      BY <2>t, <2>a DEF SlotIds
    <3> QED
      BY <1>3, <2>a, <3>1 DEF AddBuffers
  <2>1. ASSUME NEW s \in sessions \cup {0}, NEW shape \in Shapes, CreateBufferPool(s, shape)
        PROVE  FALSE
    <3>1. PICK e \in take_matching(claimed, shape) : BuildPool(s, e) \/ AbandonPool(e)
      BY <2>1 DEF CreateBufferPool
    <3>2. SlotCount[e] \in Nat
      BY <3>1, TakeMatchingUnclaimed, DirectoryAssumption, Zenon
    <3> QED
      BY <1>3, <2>a, <3>1, <3>2 DEF BuildPool, AbandonPool
  <2>2. ASSUME NEW p \in DOMAIN pools, NEW c \in DOMAIN buffers, AllocBuffer(p, c)
        PROVE  FALSE
    BY <1>3, <2>2, <2>f DEF AllocBuffer
  <2>3. ASSUME NEW p \in DOMAIN pools, NEW c \in DOMAIN buffers, NEW g \in 0 .. MaxGeneration,
               RecycleBuffer(p, c, g)
        PROVE  Freed(b)
    <3>1. c = b
      BY <1>3, <2>3 DEF RecycleBuffer
    <3>2. p = buffers[b].pool /\ g = buffers[b].generation
      BY <2>3, <3>1 DEF RecycleBuffer, RecycleBufferStatus
    <3> QED
      BY <2>3, <3>1, <3>2
  <2>4. ASSUME NEW f, SubmitFrame(f) PROVE FALSE
    BY <1>3, <2>4, <2>f DEF SubmitFrame, EncodeFrameStatus
  <2>5. ASSUME NEW s, NEW n, DequeueOutput(s, n) PROVE Freed(b)
    <3>1. buffers' = MarkReusable(Dequeued(s, n))
      BY <2>5 DEF DequeueOutput
    <3>2. PICK o \in Dequeued(s, n) : /\ queued_outputs[o].buffer = b
                                      /\ queued_outputs[o].generation = buffers[b].generation
      <4> SUFFICES ASSUME \A o \in Dequeued(s, n) :
                            ~ (/\ queued_outputs[o].buffer = b
                               /\ queued_outputs[o].generation = buffers[b].generation)
                   PROVE  buffers'[b] = buffers[b]
        BY <1>3
      <4> HIDE DEF I
      <4> QED
        BY <1>3, <3>1 DEF MarkReusable
    <3> DEFINE d == [output |-> o, session |-> s, buffer |-> queued_outputs[o].buffer,
                     generation |-> queued_outputs[o].generation]
    <3>3. d \in delivered' /\ d.buffer = b /\ d.generation = buffers[b].generation
      BY <2>5, <3>2 DEF DequeueOutput
    <3> HIDE DEF d
    <3>4. d \notin delivered
      BY <1>3, <2>f, <3>3 DEF DeliveredFreesSource
    <3> QED
      BY <3>3, <3>4
  <2>6. ASSUME NEW P, buffers' = Without(buffers, PoolBuffers(P)) PROVE FALSE
    BY <1>3, <2>6 DEF Without
  <2>7. ASSUME buffers' \in {buffers, EmptyMap} PROVE FALSE
    BY <1>3, <2>7 DEF EmptyMap
  <2> USE DEF hostVars
  <2>8. CASE Request
    BY <2>8, <2>1, <2>2, <2>3, <2>4, <2>5, <2>6, <2>7, Zenon
    DEF Request, CreateSession, PrepareSession, DestroySession, DestroyBufferPool,
        EncodeFrame, EncodeFrameBatch, BatchedFrame, ReleaseOutput, Disconnect, DropFields
  <2>9. CASE VideoToolbox
    BY <2>9, <2>7, ZenonT(60)
    DEF VideoToolbox, CallbackTakeId, CallbackStore, CallbackPush, CallbackNoOutput
  <2>10. CASE Siblings
    BY <2>10, <2>7, Zenon DEF Siblings, SiblingClaims, SiblingReleases
  <2> QED
    BY <1>3, <2>8, <2>9, <2>10 DEF Next
<1>4. I /\ [Next]_vars =>
        [\A b \in DOMAIN buffers :
           buffers[b].state = QUEUED /\ b \in DOMAIN buffers' /\ buffers'[b] # buffers[b] =>
             \/ RecycleBuffer(buffers[b].pool, b, buffers[b].generation)
             \/ \E d \in delivered' \ delivered :
                  d.buffer = b /\ d.generation = buffers[b].generation]_vars
  BY <1>3, Zenon
<1> QED
  BY <1>1, <1>2, <1>4, PTL DEF Spec, FreedByOwner

-----------------------------------------------------------------------------
(* Teardown.                                                                *)

LEMMA OrphansInit == Init => NoOrphans
  BY DEF Init, NoOrphans, EmptyMap

LEMMA OrphansStep == TypeOK /\ NoOrphans /\ [Next]_vars => NoOrphans'
<1> SUFFICES ASSUME TypeOK, NoOrphans, [Next]_vars PROVE NoOrphans'
  OBVIOUS
<1>h. /\ next_host_id \in Nat
      /\ buffers \in [DOMAIN buffers -> Buffer]
      /\ \A p \in DOMAIN pools : p # next_host_id
  BY DEF TypeOK, HostTypeOK
<1>f. FREE # QUEUED /\ WRITABLE # FREE
  BY DEF FREE, QUEUED, WRITABLE
<1> USE DEF hostVars, outVars, vtVars
<1>1. CASE CreateSession
  BY <1>1 DEF CreateSession, NoOrphans
<1>2. ASSUME NEW s \in sessions, PrepareSession(s) PROVE NoOrphans'
  BY <1>2 DEF PrepareSession, NoOrphans
<1>3. ASSUME NEW s \in sessions, DestroySession(s) PROVE NoOrphans'
  <2> DEFINE P == {p \in DOMAIN pools : pools[p].session = s}
  <2>1. /\ sessions' = sessions \ {s}
        /\ pools' = Without(pools, P) /\ buffers' = Without(buffers, PoolBuffers(P))
    BY <1>3, ZenonT(60) DEF DestroySession
  <2>2. \A p \in DOMAIN pools' : pools'[p].session \in sessions' \cup {0}
    BY <2>1 DEF Without, NoOrphans
  <2>3. \A b \in DOMAIN buffers' : \/ buffers'[b].pool \in DOMAIN pools'
                                   \/ buffers'[b].generation = 0 /\ buffers'[b].state = FREE
    BY <2>1 DEF Without, PoolBuffers, NoOrphans
  <2>4. \A o \in DOMAIN queued_outputs' : queued_outputs'[o].session \in sessions'
    BY <1>3, <2>1, ZenonT(60) DEF DestroySession, Without, NoOrphans
  <2>5. DOMAIN session_queues' \subseteq sessions'
    BY <1>3, <2>1, ZenonT(60) DEF DestroySession, Without, NoOrphans
  <2>6. \A f \in inflight' \cup callbacks' : f.session \in sessions'
    BY <1>3, <2>1, Zenon DEF DestroySession, NoOrphans
  <2> QED
    BY <2>2, <2>3, <2>4, <2>5, <2>6 DEF NoOrphans
<1>4. ASSUME NEW s \in sessions \cup {0}, NEW shape \in Shapes, CreateBufferPool(s, shape)
      PROVE  NoOrphans'
  <2>1. PICK e \in take_matching(claimed, shape) : BuildPool(s, e) \/ AbandonPool(e)
    BY <1>4 DEF CreateBufferPool
  <2>2. UNCHANGED <<sessions, queued_outputs, session_queues, inflight, callbacks>>
    BY <1>4 DEF CreateBufferPool
  <2>3. CASE BuildPool(s, e)
    BY <2>2, <2>3, <1>h DEF BuildPool, Put, AddBuffers, NoOrphans
  <2>4. CASE AbandonPool(e)
    <3>1. \/ buffers' = buffers
          \/ \E n \in 0 .. SlotCount[e] : buffers' = AddBuffers(next_host_id, n)
      BY <2>4 DEF AbandonPool
    <3>2. \A b \in DOMAIN buffers' : \/ b \in DOMAIN buffers /\ buffers'[b] = buffers[b]
                                     \/ buffers'[b].generation = 0 /\ buffers'[b].state = FREE
      <4>1. ASSUME NEW n, buffers' = AddBuffers(next_host_id, n),
                   NEW b \in DOMAIN buffers', b \notin DOMAIN buffers \/ buffers'[b] # buffers[b]
            PROVE  buffers'[b].generation = 0 /\ buffers'[b].state = FREE
        BY <4>1 DEF AddBuffers
      <4> QED
        BY <3>1, <4>1
    <3> QED
      BY <2>2, <2>4, <3>2 DEF AbandonPool, NoOrphans
  <2> QED
    BY <2>1, <2>3, <2>4
<1>5. ASSUME NEW p \in DOMAIN pools, DestroyBufferPool(p) PROVE NoOrphans'
  BY <1>5 DEF DestroyBufferPool, Without, PoolBuffers, NoOrphans
<1>6. ASSUME NEW p \in DOMAIN pools, NEW b \in DOMAIN buffers, AllocBuffer(p, b)
      PROVE  NoOrphans'
  BY <1>6, <1>h DEF AllocBuffer, Leased, NoOrphans
<1>7. ASSUME NEW p \in DOMAIN pools, NEW b \in DOMAIN buffers, NEW g \in 0 .. MaxGeneration,
             RecycleBuffer(p, b, g)
      PROVE  NoOrphans'
  BY <1>7, <1>h DEF RecycleBuffer, RecycleBufferStatus, Buffer, NoOrphans
<1>8. ASSUME NEW f, SubmitFrame(f) PROVE NoOrphans'
  <2>1. f.session \in sessions /\ buffers[f.buffer].state = WRITABLE
    BY <1>8 DEF SubmitFrame, EncodeFrameStatus
  <2>2. \A b \in DOMAIN buffers : buffers'[b].pool = buffers[b].pool
                                  /\ buffers'[b].generation = buffers[b].generation
    BY <1>8, <1>h DEF SubmitFrame, Buffer
  <2>3. \A b \in DOMAIN buffers : b = f.buffer \/ buffers'[b].state = buffers[b].state
    BY <1>8, <1>h DEF SubmitFrame, Buffer
  <2>4. DOMAIN buffers' = DOMAIN buffers
    BY <1>8 DEF SubmitFrame
  <2>5. \A b \in DOMAIN buffers' : \/ buffers'[b].pool \in DOMAIN pools
                                   \/ buffers'[b].generation = 0 /\ buffers'[b].state = FREE
    BY <2>1, <2>2, <2>3, <2>4, <1>f DEF NoOrphans
  <2> QED
    BY <1>8, <2>1, <2>5 DEF SubmitFrame, NoOrphans
<1>9. ASSUME NEW s \in DOMAIN session_queues, NEW n, DequeueOutput(s, n) PROVE NoOrphans'
  <2>1. buffers' = MarkReusable(Dequeued(s, n)) /\ DOMAIN session_queues' = DOMAIN session_queues
    BY <1>9 DEF DequeueOutput
  <2>2. \A b \in DOMAIN buffers : /\ buffers'[b].pool = buffers[b].pool
                                  /\ buffers'[b].generation = buffers[b].generation
                                  /\ buffers'[b].state \in {buffers[b].state, FREE}
    BY <2>1, <1>h DEF MarkReusable, Buffer
  <2>3. DOMAIN buffers' = DOMAIN buffers
    BY <2>1 DEF MarkReusable
  <2> QED
    BY <1>9, <2>1, <2>2, <2>3 DEF DequeueOutput, NoOrphans
<1>10. ASSUME NEW ids, ReleaseOutput(ids) PROVE NoOrphans'
  BY <1>10 DEF ReleaseOutput, Without, NoOrphans
<1>11. CASE Disconnect
  BY <1>11 DEF Disconnect, NoOrphans
<1>12. CASE DropFields
  BY <1>12 DEF DropFields, EmptyMap, NoOrphans
<1>13. ASSUME NEW f \in inflight, CallbackTakeId(f) PROVE NoOrphans'
  BY <1>13 DEF CallbackTakeId, NoOrphans
<1>14. ASSUME NEW c \in callbacks, CallbackStore(c) PROVE NoOrphans'
  <2>1. c.session \in sessions /\ [c EXCEPT !.stored = TRUE].session = c.session
    BY DEF NoOrphans, TypeOK, VtTypeOK
  <2>2. \A o \in DOMAIN queued_outputs' : queued_outputs'[o].session \in sessions
    BY <1>14, <2>1 DEF CallbackStore, Put, NoOrphans
  <2> QED
    BY <1>14, <2>1, <2>2, Zenon DEF CallbackStore, NoOrphans
<1>15. ASSUME NEW c \in callbacks, CallbackPush(c) PROVE NoOrphans'
  BY <1>15, ZenonT(60) DEF CallbackPush, Put, NoOrphans
<1>16. CASE CallbackNoOutput
  BY <1>16 DEF CallbackNoOutput, NoOrphans
<1>17. CASE UNCHANGED <<hostVars, outVars, vtVars>>
  BY <1>17 DEF NoOrphans
<1> QED
  <2>1. CASE Request
    BY <2>1, <1>1, <1>2, <1>3, <1>4, <1>5, <1>6, <1>7, <1>8, <1>9, <1>10, <1>11, <1>12, <1>17, Zenon
    DEF Request, EncodeFrame, EncodeFrameBatch, BatchedFrame
  <2>2. CASE VideoToolbox
    BY <2>2, <1>13, <1>14, <1>15, <1>16 DEF VideoToolbox
  <2>3. CASE Siblings
    BY <2>3, <1>17, ZenonT(60) DEF Siblings, SiblingClaims, SiblingReleases
  <2> QED
    BY <2>1, <2>2, <2>3, <1>17 DEF Next, vars

(* Destroying sessions and pools, in any order and at any moment of a       *)
(* callback, leaves no pool, output, FIFO, frame or leased buffer behind.   *)
THEOREM NothingOrphaned == Spec => []NoOrphans
<1>1. TypeOK /\ NoOrphans /\ [Next]_vars => (TypeOK /\ NoOrphans)'
  BY TypeStep, OrphansStep
<1> QED
  BY <1>1, TypeInit, OrphansInit, PTL DEF Spec

-----------------------------------------------------------------------------
(* Slots VideoToolbox reads.                                                *)

(* Each frame in flight that the client has not withdrawn still has its     *)
(* lease, queued.                                                           *)
FrameHeld ==
  conn = "open" =>
    \A f \in inflight \ withdrawn : /\ f.buffer \in DOMAIN buffers
                                    /\ buffers[f.buffer].state = QUEUED
                                    /\ buffers[f.buffer].generation = f.generation

LEMMA WithdrawnGrows == [Next]_vars => withdrawn \subseteq withdrawn'
  BY Zenon DEF Next, vars, histVars, Request, VideoToolbox, Siblings, CreateSession, PrepareSession,
     DestroySession, CreateBufferPool, DestroyBufferPool, AllocBuffer, RecycleBuffer,
     EncodeFrame, EncodeFrameBatch, BatchedFrame, SubmitFrame, CallbackTakeId, CallbackStore,
     CallbackPush, CallbackNoOutput, DequeueOutput, ReleaseOutput, Disconnect, DropFields,
     SiblingClaims, SiblingReleases

LEMMA FrameHeldStep ==
  TypeOK /\ SourceInv /\ FrameHeld /\ [Next]_vars => FrameHeld'
<1> SUFFICES ASSUME TypeOK, SourceInv, FrameHeld, [Next]_vars, conn' = "open",
                    NEW f \in inflight' \ withdrawn'
             PROVE  /\ f.buffer \in DOMAIN buffers'
                    /\ buffers'[f.buffer].state = QUEUED
                    /\ buffers'[f.buffer].generation = f.generation
  BY ZenonT(60) DEF FrameHeld
<1> DEFINE Held == /\ f.buffer \in DOMAIN buffers'
                   /\ buffers'[f.buffer].state = QUEUED
                   /\ buffers'[f.buffer].generation = f.generation
<1>h. buffers \in [DOMAIN buffers -> Buffer] /\ f.buffer \in Nat /\ next_host_id \in Nat
  BY TypeStep DEF TypeOK, HostTypeOK, VtTypeOK, Frame
<1>f. FREE # QUEUED /\ WRITABLE # QUEUED
  BY DEF FREE, QUEUED, WRITABLE
<1>w. f \notin withdrawn
  BY WithdrawnGrows
<1>o. ASSUME f \in inflight, conn = "open"
      PROVE  /\ f.buffer \in DOMAIN buffers /\ f.buffer < next_host_id
             /\ buffers[f.buffer].state = QUEUED
             /\ buffers[f.buffer].generation = f.generation
  BY <1>o, <1>w DEF FrameHeld, TypeOK, HostTypeOK
<1> USE DEF hostVars, vtVars
<1>1. CASE UNCHANGED buffers /\ inflight' \subseteq inflight /\ conn = "open"
  BY <1>1, <1>o
<1>2. ASSUME NEW s \in sessions, DestroySession(s) PROVE Held
  <2> DEFINE P == {p \in DOMAIN pools : pools[p].session = s}
  <2>1. /\ buffers' = Without(buffers, PoolBuffers(P))
        /\ f \in inflight /\ f.session # s /\ conn = "open"
    BY <1>2, ZenonT(60) DEF DestroySession, Ready
  <2>2. f.buffer \notin PoolBuffers(P)
    BY <1>2, <2>1, ZenonT(60) DEF DestroySession, Reading
  <2> QED
    BY <1>o, <2>1, <2>2 DEF Without
<1>3. ASSUME NEW s \in sessions \cup {0}, NEW shape \in Shapes, CreateBufferPool(s, shape)
      PROVE  Held
  <2>1. PICK e \in take_matching(claimed, shape) : BuildPool(s, e) \/ AbandonPool(e)
    BY <1>3 DEF CreateBufferPool
  <2>2. f \in inflight /\ conn = "open"
    BY <1>3 DEF CreateBufferPool
  <2>3. SlotCount[e] \in Nat
    BY <2>1, TakeMatchingUnclaimed, DirectoryAssumption, ZenonT(60)
  <2>4. ASSUME NEW n \in Nat, buffers' = AddBuffers(next_host_id, n) PROVE Held
    <3>1. f.buffer \notin SlotIds(next_host_id, n)
      BY <1>h, <1>o, <2>2, <2>4 DEF SlotIds
    <3> QED
      BY <1>o, <2>2, <2>4, <3>1 DEF AddBuffers
  <2>5. CASE BuildPool(s, e)
    BY <2>3, <2>4, <2>5, ZenonT(60) DEF BuildPool
  <2>6. CASE AbandonPool(e)
    <3>1. \/ buffers' = buffers
          \/ \E n \in 0 .. SlotCount[e] : buffers' = AddBuffers(next_host_id, n)
      BY <2>6 DEF AbandonPool
    <3>2. 0 .. SlotCount[e] \subseteq Nat
      BY <2>3
    <3> QED
      BY <1>o, <2>2, <2>4, <3>1, <3>2
  <2> QED
    BY <2>1, <2>5, <2>6
<1>4. ASSUME NEW p \in DOMAIN pools, DestroyBufferPool(p) PROVE Held
  <2>1. /\ buffers' = Without(buffers, PoolBuffers({p}))
        /\ f \in inflight /\ conn = "open"
    BY <1>4 DEF DestroyBufferPool, Ready
  <2>2. f.buffer \notin PoolBuffers({p})
    BY <1>4, <2>1 DEF DestroyBufferPool, Reading
  <2> QED
    BY <1>o, <2>1, <2>2 DEF Without
<1>5. ASSUME NEW p \in DOMAIN pools, NEW b \in DOMAIN buffers, AllocBuffer(p, b) PROVE Held
  <2>1. f \in inflight /\ conn = "open" /\ f.buffer # b
    BY <1>5, <1>o, <1>f DEF AllocBuffer, Ready
  <2> QED
    BY <1>5, <1>o, <2>1 DEF AllocBuffer
<1>6. ASSUME NEW p \in DOMAIN pools, NEW b \in DOMAIN buffers, NEW g \in 0 .. MaxGeneration,
             RecycleBuffer(p, b, g)
      PROVE  Held
  <2>1. f \in inflight /\ conn = "open" /\ g = buffers[b].generation
    BY <1>6 DEF RecycleBuffer, RecycleBufferStatus, Ready
  <2>2. f.buffer # b
    BY <1>6, <2>1 DEF RecycleBuffer, Reading
  <2> QED
    BY <1>6, <1>o, <2>1, <2>2 DEF RecycleBuffer
<1>7. ASSUME NEW e, SubmitFrame(e), conn = "open" PROVE Held
  <2>1. /\ e.buffer \in DOMAIN buffers /\ buffers[e.buffer].state = WRITABLE
        /\ buffers[e.buffer].generation = e.generation
        /\ buffers' = [buffers EXCEPT ![e.buffer].state = QUEUED]
        /\ inflight' = inflight \cup {e}
    BY <1>7 DEF SubmitFrame, EncodeFrameStatus
  <2>2. CASE f = e
    BY <2>1, <2>2, <1>h DEF Buffer
  <2>3. CASE f \in inflight
    BY <2>1, <2>3, <1>7, <1>o, <1>f
  <2> QED
    BY <2>1, <2>2, <2>3
<1>8. ASSUME NEW s, NEW n, DequeueOutput(s, n) PROVE Held
  <2>1. buffers' = MarkReusable(Dequeued(s, n)) /\ f \in inflight /\ conn = "open"
    BY <1>8, ZenonT(60) DEF DequeueOutput, Ready
  <2>2. \A o \in Dequeued(s, n) : ~ (/\ queued_outputs[o].buffer = f.buffer
                                     /\ queued_outputs[o].generation = f.generation)
    BY <2>1, Zenon DEF Dequeued, SourceInv, SameSource
  <2> QED
    BY <2>1, <2>2, <1>o DEF MarkReusable
<1> QED
  <2>1. CASE Request
    BY <2>1, <1>1, <1>2, <1>3, <1>4, <1>5, <1>6, <1>7, <1>8, ZenonT(60)
    DEF Request, CreateSession, PrepareSession, EncodeFrame, EncodeFrameBatch, BatchedFrame,
        ReleaseOutput, Disconnect, DropFields, Ready
  <2>2. CASE VideoToolbox
    BY <2>2, <1>1, ZenonT(60)
    DEF VideoToolbox, CallbackTakeId, CallbackStore, CallbackPush, CallbackNoOutput
  <2>3. CASE Siblings
    BY <2>3, <1>1, Zenon DEF Siblings, SiblingClaims, SiblingReleases
  <2> QED
    BY <2>1, <2>2, <2>3, <1>1 DEF Next, vars

(* A slot VideoToolbox reads, and the client has not taken away itself, is  *)
(* neither freed, leased again, written, nor backed by a surface another    *)
(* connection holds.                                                        *)
THEOREM ReadSlotsPinned == Spec => []InflightPinned
<1> DEFINE I == TypeOK /\ ClaimInv /\ SourceInv /\ NoOrphans /\ FrameHeld
<1>1. Init => I
  BY TypeInit, ClaimInit, SourceInit, OrphansInit DEF Init, FrameHeld
<1>2. I /\ [Next]_vars => I'
  BY TypeStep, ClaimStep, SourceStep, OrphansStep, FrameHeldStep
<1>3. I => InflightPinned
  <2> SUFFICES ASSUME I, conn = "open", NEW f \in inflight \ withdrawn
               PROVE  /\ f.buffer \in DOMAIN buffers
                      /\ buffers[f.buffer].state = QUEUED
                      /\ buffers[f.buffer].generation = f.generation
                      /\ buffers[f.buffer].pool \in DOMAIN pools
                      /\ pools[buffers[f.buffer].pool].entry \notin sibling
                      /\ \A g \in 0 .. MaxGeneration : WriteBufferStatus(f.buffer, g) # "OK"
    BY DEF InflightPinned
  <2>1. /\ f.buffer \in DOMAIN buffers
        /\ buffers[f.buffer].state = QUEUED
        /\ buffers[f.buffer].generation = f.generation
    BY DEF FrameHeld
  <2>2. buffers[f.buffer].pool \in DOMAIN pools
    BY <2>1 DEF NoOrphans, FREE, QUEUED
  <2>3. pools[buffers[f.buffer].pool].entry \notin sibling
    BY <2>2 DEF ClaimInv, SurfaceExclusive
  <2>4. \A g \in 0 .. MaxGeneration : WriteBufferStatus(f.buffer, g) # "OK"
    BY <2>1 DEF WriteBufferStatus, QUEUED, WRITABLE
  <2> QED
    BY <2>1, <2>2, <2>3, <2>4, ZenonT(60)
<1> QED
  BY <1>1, <1>2, <1>3, PTL DEF Spec

=============================================================================
