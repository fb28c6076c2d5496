-------------------------- MODULE ComponentProofs ---------------------------
(***************************************************************************)
(* Proofs about three components, each from one inductive invariant.       *)
(*                                                                         *)
(* Broker: however the worker, the child, the guests and the broker's own  *)
(* failures fall, main leaves nothing running and tears down in order, for *)
(* any set of guests and any faults.  PoolSurface: the slots fit, for      *)
(* pools of every width, height, format and slot count, any page size and  *)
(* any stride alignment.  SessionProperties: the table mirrors the host    *)
(* and its references balance, for every set of keys and values and every  *)
(* size of the table.                                                      *)
(***************************************************************************)
EXTENDS Broker, PoolSurface, SessionProperties, Integers, FiniteSetTheorems, TLAPS

(* A leaf that the provers do not settle in their usual time gets more.     *)
USE SMTT(60), SMT, SMTT(30), ZenonT(60)

-----------------------------------------------------------------------------
(* The broker's main.                                                       *)

(* All that a step of the bridge, a guest or the worker does to what main  *)
(* relies on: an acceptor may stop, and a worker may bind or exit.         *)
LEMMA BridgeEffect ==
    ASSUME BridgeNext
    PROVE  /\ acceptor' = acceptor \/ (acceptor = "listening" /\ acceptor' = "stopped")
           /\ worker' = worker \/ worker \in {"booting", "serving"}
  BY Zenon DEF BridgeNext, GuestDials, GuestCloses, WorkerCloses, AcceptConnection, ConnectWorker,
         ConnectGivesUp, CloneFails, UpstreamEnds, DownstreamEnds, AcceptorStops, AcceptFails,
         ListenerClosed, WorkerBinds, WorkerExits, bridge

(* At the start main holds nothing.                                        *)
LEMMA SuperviseInit == Init => SuperviseInv
  BY DEF Init, BridgeInit, SuperviseInv, Leaving, Orderly

(* Every step of main, of the processes and of the bridge keeps what main  *)
(* holds where it is.                                                      *)
LEMMA SuperviseStep == SuperviseInv /\ [Next]_vars => SuperviseInv'
  <1> SUFFICES ASSUME SuperviseInv, [Next]_vars
               PROVE  SuperviseInv'
    OBVIOUS
  <1> USE DEF SuperviseInv, Leaving, Orderly
  <1>1. CASE AllocatePools
    BY <1>1 DEF AllocatePools, bridge
  <1>2. CASE SpawnWorker
    BY <1>2 DEF SpawnWorker, bridge
  <1>3. CASE StartBridge
    BY <1>3 DEF StartBridge
  <1>4. CASE SpawnChild
    BY <1>4 DEF SpawnChild, bridge
  <1>5. CASE Exec
    BY <1>5 DEF Exec, bridge
  <1>6. CASE PollChild
    BY <1>6 DEF PollChild, bridge
  <1>7. CASE PollWorker
    BY <1>7 DEF PollWorker, bridge
  <1>8. CASE PollFails
    BY <1>8 DEF PollFails, bridge
  <1>9. CASE KillChild
    BY <1>9 DEF KillChild, bridge
  <1>10. CASE DropBridge
    BY <1>10 DEF DropBridge
  <1>11. CASE JoinBridge
    BY <1>11 DEF JoinBridge, bridge
  <1>12. CASE DropWorker
    BY <1>12 DEF DropWorker
  <1>13. CASE DropEntries
    BY <1>13 DEF DropEntries, bridge
  <1>14. CASE Exit
    BY <1>14 DEF Exit
  <1>15. CASE HoldEnds
    BY <1>15 DEF HoldEnds, bridge
  <1>16. CASE Signalled
    BY <1>16 DEF Signalled
  <1>17. CASE ChildExits
    BY <1>17 DEF ChildExits, bridge
  <1>18. CASE Bridged(BridgeNext)
    <2>1. BridgeNext /\ UNCHANGED process
      BY <1>18 DEF Bridged
    <2>2. /\ acceptor' = acceptor \/ (acceptor = "listening" /\ acceptor' = "stopped")
          /\ worker' = worker \/ worker \in {"booting", "serving"}
      BY <2>1, BridgeEffect
    <2> QED
      BY <2>1, <2>2 DEF process
  <1>19. CASE UNCHANGED vars
    BY <1>19 DEF vars, bridge, process
  <1> QED
    BY <1>1, <1>2, <1>3, <1>4, <1>5, <1>6, <1>7, <1>8, <1>9, <1>10, <1>11, <1>12, <1>13,
       <1>14, <1>15, <1>16, <1>17, <1>18, <1>19, Zenon DEF Next, Main

(* main's position tells what it holds, always.                            *)
LEMMA Supervised == Spec => []SuperviseInv
  BY SuperviseInit, SuperviseStep, PTL DEF Spec

(* A broker that returns from main on any path, and that no signal killed, *)
(* leaves neither worker nor child running, and reports success only for a *)
(* child that succeeded.                                                   *)
THEOREM NothingStays == Spec => []NothingLeftRunning
  <1>1. SuperviseInv => NothingLeftRunning
    BY DEF SuperviseInv, NothingLeftRunning, Orderly
  <1> QED
    BY <1>1, Supervised, PTL

(* The surfaces are released only once the worker that maps them is gone,  *)
(* and the worker is dropped only once no guest is accepted for it.        *)
THEOREM OrderOfTeardown == Spec => []TornDownInOrder
  <1>1. SuperviseInv => TornDownInOrder
    BY DEF SuperviseInv, TornDownInOrder, Orderly
  <1> QED
    BY <1>1, Supervised, PTL
-----------------------------------------------------------------------------
(* The surfaces that the broker allocates.                                  *)

(* Multiplication by a natural number is monotone.                         *)
LEMMA Monotone ==
    ASSUME NEW a \in Nat, NEW m \in Int, NEW n \in Int, m <= n
    PROVE  a * m <= a * n
  <1>1. a * (n - m) >= 0
    <2>1. n - m \in Nat
      OBVIOUS
    <2> QED
      BY <2>1
  <1>2. a * (n - m) = a * n - a * m
    OBVIOUS
  <1> QED
    BY <1>1, <1>2

(* What division and remainder by a positive number give.                  *)
LEMMA Division ==
    ASSUME NEW v \in Nat, NEW a \in Nat \ {0}
    PROVE  /\ v \div a \in Nat
           /\ v % a \in 0 .. a - 1
           /\ v = a * (v \div a) + (v % a)
  <1>1. v \div a \in Int /\ v % a \in 0 .. a - 1
    OBVIOUS
  <1>2. v = a * (v \div a) + (v % a)
    OBVIOUS
  <1>3. v \div a >= 0
    <2> DEFINE q == v \div a
    <2> HIDE DEF q
    <2>1. q \in Int /\ v % a \in 0 .. a - 1 /\ v = a * q + (v % a)
      BY <1>1, <1>2 DEF q
    <2> SUFFICES ASSUME q <= -1 PROVE FALSE
      BY <2>1 DEF q
    <2>2. a * q <= a * (-1)
      BY <2>1, Monotone
    <2> QED
      BY <2>1, <2>2
  <1> QED
    BY <1>1, <1>2, <1>3

(* A quotient is determined by its remainder's range.                      *)
LEMMA Quotient ==
    ASSUME NEW a \in Nat \ {0}, NEW k \in Nat, NEW s \in 0 .. a - 1
    PROVE  (a * k + s) \div a = k
  <1> DEFINE x == a * k + s
             q == x \div a
  <1>1. x \in Nat
    OBVIOUS
  <1>2. /\ q \in Nat
        /\ a * q <= x
        /\ x < a * q + a
    <2>1. q \in Nat /\ x % a \in 0 .. a - 1 /\ x = a * q + (x % a)
      BY <1>1, Division, Zenon
    <2> HIDE DEF x, q
    <2> QED
      BY <1>1, <2>1
  <1> HIDE DEF q
  <1>3. ~ (q < k)
    <2> SUFFICES ASSUME q < k PROVE FALSE
      OBVIOUS
    <2>1. a * (q + 1) <= a * k
      BY <1>2, Monotone
    <2>2. a * (q + 1) = a * q + a
      BY <1>2
    <2> QED
      BY <1>2, <2>1, <2>2
  <1>4. ~ (k < q)
    <2> SUFFICES ASSUME k < q PROVE FALSE
      OBVIOUS
    <2>1. a * (k + 1) <= a * q
      BY <1>2, Monotone
    <2>2. a * (k + 1) = a * k + a
      OBVIOUS
    <2> QED
      BY <1>2, <2>1, <2>2
  <1> QED
    BY <1>2, <1>3, <1>4 DEF q

(* The broker's rounding, which masks, and the worker's, which adds what   *)
(* is missing, are the same function, and round up.                        *)
LEMMA Rounding ==
    ASSUME NEW v \in Nat, NEW a \in Nat \ {0}
    PROVE  /\ align_up(v, a) = vtf_align_size(v, a)
           /\ align_up(v, a) \in Nat
           /\ align_up(v, a) >= v
  <1> DEFINE q == v \div a
             r == v % a
  <1>1. q \in Nat /\ r \in 0 .. a - 1 /\ v = a * q + r
    BY Division, Zenon
  <1>2. CASE r = 0
    <2>1. v + a - 1 = a * q + (a - 1)
      BY <1>1, <1>2
    <2>2. (v + a - 1) \div a = q
      <3>1. a - 1 \in 0 .. a - 1
        OBVIOUS
      <3>2. (a * q + (a - 1)) \div a = q
        BY <1>1, <3>1, Quotient
      <3> QED
        BY <2>1, <3>2
    <2>3. align_up(v, a) = q * a
      BY <2>2 DEF align_up
    <2>4. q * a = v
      BY <1>1, <1>2
    <2> QED
      BY <1>2, <2>3, <2>4 DEF vtf_align_size
  <1>3. CASE r # 0
    <2> DEFINE k == q + 1
               s == r - 1
    <2>1. k \in Nat /\ s \in 0 .. a - 1
      BY <1>1, <1>3
    <2>2. a * k = a * q + a
      BY <1>1
    <2>3. v + a - 1 = a * k + s
      BY <1>1, <2>2
    <2>4. (v + a - 1) \div a = k
      BY <2>1, <2>3, Quotient
    <2>5. align_up(v, a) = k * a
      BY <2>4 DEF align_up
    <2>6. k * a = a * k
      BY <2>1
    <2>7. align_up(v, a) = v + (a - r)
      BY <1>1, <2>2, <2>5, <2>6
    <2> QED
      BY <1>1, <1>3, <2>7 DEF vtf_align_size
  <1> QED
    BY <1>2, <1>3

-----------------------------------------------------------------------------
(* A configured shape, and the bytes of a slot's rows.                     *)
Stride(shape) ==
    vtf_align_size(BytesPerSample(shape.pixel_format) * shape.width, STRIDE_ALIGNMENT)

Total(shape) == vtf_fill_buffer_layout(shape).total_size

(* For the formats the broker serves: a slot takes its padded rows, the    *)
(* planes wrapped for VideoToolbox end within it, and where no row needs   *)
(* padding they are the planes the guest is told and the broker's own      *)
(* count of the slot's bytes is the worker's.                              *)
LEMMA SlotShape ==
    ASSUME NEW shape \in PoolShapes, shape.pixel_format \in {"420v", "BGRA"}
    PROVE  /\ Total(shape) \in Nat
           /\ PlanesEnd(Wrapped(shape)) \in Nat
           /\ PlanesEnd(Wrapped(shape)) <= Total(shape)
           /\ \/ /\ shape.pixel_format = "BGRA"
                 /\ (shape.width * 4) % STRIDE_ALIGNMENT # 0
              \/ /\ Wrapped(shape) = vtf_fill_buffer_layout(shape).planes
                 /\ RawSlot(shape) = Total(shape)
  <1> DEFINE w == shape.width
             h == shape.height
             A == STRIDE_ALIGNMENT
  <1>1. w \in Nat \ {0} /\ h \in Nat \ {0} /\ A \in Nat \ {0}
    BY PoolAssumption, LayoutAssumption DEF Shapes
  <1>2. CASE shape.pixel_format = "420v"
    <2> DEFINE S == align_up(w, A)
               g == h \div 2
    <2>1. BytesPerSample(shape.pixel_format) = 1
      BY <1>2 DEF BytesPerSample
    <2>2. S \in Nat /\ S = vtf_align_size(w, A)
      BY <1>1, Rounding
    <2>3. Stride(shape) = S
      BY <1>1, <2>1, <2>2 DEF Stride
    <2>4. g \in Nat
      BY <1>1
    <2>5. Wrapped(shape) = Planes(shape, S)
      BY <1>2 DEF Wrapped
    <2>6. vtf_fill_buffer_layout(shape) = Layout(shape, S)
      BY <2>3 DEF vtf_fill_buffer_layout, Stride
    <2> HIDE DEF S
    <2>7. PlanesEnd(Planes(shape, S)) = S * h + S * g
      BY <1>2 DEF PlanesEnd, Planes, Plane, Biplanar
    <2>8. S * h \in Nat /\ S * g \in Nat
      BY <1>1, <2>2, <2>4
    <2>9. Total(shape) = S * h + S * g
      BY <2>6, <2>7 DEF Total, Layout
    <2>10. vtf_fill_buffer_layout(shape).planes = Planes(shape, S)
      BY <2>6 DEF Layout
    <2>11. RawSlot(shape) = S * h + S * g
      BY <1>2 DEF RawSlot, S
    <2> QED
      BY <2>5, <2>7, <2>8, <2>9, <2>10, <2>11
  <1>3. CASE shape.pixel_format = "BGRA"
    <2> DEFINE b == w * 4
               S == vtf_align_size(b, A)
    <2>1. BytesPerSample(shape.pixel_format) = 4
      BY <1>3 DEF BytesPerSample
    <2>2. b \in Nat /\ 4 * w = b
      BY <1>1
    <2>3. S \in Nat /\ b <= S
      BY <1>1, <2>2, Rounding
    <2>4. Stride(shape) = S
      BY <2>1, <2>2 DEF Stride
    <2>5. Wrapped(shape) = Planes(shape, b)
      BY <1>3 DEF Wrapped
    <2>6. vtf_fill_buffer_layout(shape) = Layout(shape, S)
      BY <2>4 DEF vtf_fill_buffer_layout, Stride
    <2>7. b % A = 0 => S = b
      BY DEF vtf_align_size
    <2>8. RawSlot(shape) = b * h
      BY <1>3 DEF RawSlot
    <2> HIDE DEF S, b
    <2>9. \A n \in Nat : PlanesEnd(Planes(shape, n)) = n * h
      BY <1>1, <1>3 DEF PlanesEnd, Planes, Plane, Biplanar
    <2>10. Total(shape) = S * h
      BY <2>3, <2>6, <2>9 DEF Total, Layout
    <2>11. PlanesEnd(Wrapped(shape)) = b * h
      BY <2>2, <2>5, <2>9
    <2>12. b * h <= S * h
      <3>1. h * b <= h * S
        BY <1>1, <2>2, <2>3, Monotone
      <3> QED
        BY <1>1, <2>2, <2>3, <3>1
    <2>13. S * h \in Nat /\ b * h \in Nat
      BY <1>1, <2>2, <2>3
    <2>14. vtf_fill_buffer_layout(shape).planes = Planes(shape, S)
      BY <2>6 DEF Layout
    <2> QED
      BY <1>3, <2>5, <2>7, <2>8, <2>10, <2>11, <2>12, <2>13, <2>14 DEF b
  <1> QED
    BY <1>2, <1>3

(* The surface is at least the broker's rounded slot size times the slots. *)
LEMMA SurfaceHolds ==
    ASSUME NEW shape \in PoolShapes, NEW n \in Nat, RawSlot(shape) \in Nat
    PROVE  /\ PackedSize(shape, n) \in Nat
           /\ n * RawSlot(shape) <= PackedSize(shape, n)
  <1> DEFINE T == RawSlot(shape)
             P == pool_slot_alloc_size(shape)
             total == P * n
             bpr == shape.width * 4
             rows == (total + bpr - 1) \div bpr
  <1>1. P \in Nat /\ T <= P
    BY LayoutAssumption, Rounding DEF pool_slot_alloc_size, page_round_up
  <1>2. bpr \in Nat \ {0}
    BY PoolAssumption DEF Shapes
  <1> HIDE DEF T, P, bpr
  <1>3. total \in Nat /\ total = n * P
    BY <1>1
  <1>4. n * T <= n * P
    BY <1>1, Monotone DEF T
  <1>5. n * T <= total
    BY <1>3, <1>4
  <1> HIDE DEF total
  <1>6. rows \in Nat
    BY <1>2, <1>3, Division
  <1>7. PackedSize(shape, n) = IF bpr * rows > total THEN bpr * rows ELSE total
    BY DEF PackedSize, total, P, bpr
  <1> HIDE DEF rows
  <1>8. bpr * rows \in Nat
    BY <1>2, <1>6
  <1>9. n * T \in Nat
    BY DEF T
  <1> QED
    BY <1>3, <1>5, <1>7, <1>8, <1>9 DEF T

-----------------------------------------------------------------------------
(* The slots of a pool being served are laid end to end, on a surface of   *)
(* the size the broker computes.                                           *)
PoolInv ==
    /\ spec \in [shape : PoolShapes, slot_count : SlotCounts]
    /\ slots \in Seq([offset : Int, planes : {Wrapped(spec.shape)}])
    /\ Len(slots) <= spec.slot_count
    /\ broker # "serving" => slots = << >>
    /\ broker = "serving" =>
           /\ spec.shape.pixel_format \in {"420v", "BGRA"}
           /\ surface = PackedSize(spec.shape, spec.slot_count)
    /\ \A i \in DOMAIN slots : slots[i].offset = (i - 1) * Total(spec.shape)

LEMMA PoolInit == SurfaceInit => PoolInv
  <1> SUFFICES ASSUME SurfaceInit PROVE PoolInv
    OBVIOUS
  <1>1. spec.slot_count \in Nat
    BY PoolAssumption, Zenon DEF SurfaceInit
  <1> QED
    BY <1>1 DEF SurfaceInit, PoolInv

LEMMA PoolStep == PoolInv /\ [SurfaceNext]_surface_vars => PoolInv'
  <1> SUFFICES ASSUME PoolInv, [SurfaceNext]_surface_vars PROVE PoolInv'
    OBVIOUS
  <1>1. CASE AllocatePool
    BY <1>1 DEF AllocatePool, PoolInv
  <1>2. CASE RefusePool
    BY <1>2 DEF RefusePool, PoolInv
  <1>3. CASE WrapSlot
    <2> DEFINE T == Total(spec.shape)
               n == Len(slots)
               new == [offset |-> n * T, planes |-> Wrapped(spec.shape)]
    <2>1. spec.slot_count \in Nat /\ spec.shape \in PoolShapes
      BY PoolAssumption, Zenon DEF PoolInv
    <2>2. T \in Nat
      BY <1>3, <2>1, SlotShape DEF PoolInv, WrapSlot
    <2>3. slots' = Append(slots, new)
      BY <1>3 DEF WrapSlot, slot_offset, Total
    <2> HIDE DEF T
    <2>4. n \in Nat /\ n * T \in Int
      BY <2>2 DEF PoolInv
    <2>5. new \in [offset : Int, planes : {Wrapped(spec.shape)}]
      BY <2>4
    <2>6. /\ slots' \in Seq([offset : Int, planes : {Wrapped(spec.shape)}])
          /\ Len(slots') = n + 1
          /\ \A i \in 1 .. n : slots'[i] = slots[i]
          /\ slots'[n + 1] = new
      BY <2>3, <2>5 DEF PoolInv
    <2>7. UNCHANGED << spec, broker, surface >> /\ n < spec.slot_count /\ broker = "serving"
      BY <1>3 DEF WrapSlot, MoreSlots
    <2>8. \A i \in DOMAIN slots' : slots'[i].offset = (i - 1) * T
      <3> TAKE i \in DOMAIN slots'
      <3>1. CASE i \in 1 .. n
        <4>1. i \in DOMAIN slots /\ slots'[i] = slots[i]
          BY <2>6, <3>1 DEF PoolInv
        <4>2. slots[i].offset = (i - 1) * T
          BY <4>1 DEF PoolInv, T
        <4> QED
          BY <4>1, <4>2
      <3>2. CASE i = n + 1
        <4>1. i - 1 = n
          BY <2>4, <3>2
        <4>2. slots'[i].offset = n * T
          BY <2>6, <3>2
        <4> QED
          BY <4>1, <4>2
      <3> QED
        BY <2>4, <2>6, <3>1, <3>2
    <2> QED
      BY <2>1, <2>4, <2>6, <2>7, <2>8 DEF PoolInv, T
  <1>4. CASE UNCHANGED surface_vars
    BY <1>4 DEF surface_vars, PoolInv
  <1> QED
    BY <1>1, <1>2, <1>3, <1>4 DEF SurfaceNext

LEMMA PoolFits == PoolInv => SlotsFit
  <1> SUFFICES ASSUME PoolInv PROVE SlotsFit
    OBVIOUS
  <1> DEFINE shape == spec.shape
             T == Total(shape)
             E == PlanesEnd(Wrapped(shape))
             N == spec.slot_count
  <1>1. CASE slots = << >>
    BY <1>1 DEF SlotsFit
  <1>2. CASE slots # << >>
    <2>1. shape \in PoolShapes /\ N \in Nat
      BY PoolAssumption, Zenon DEF PoolInv
    <2>2. shape.pixel_format \in {"420v", "BGRA"} /\ surface = PackedSize(shape, N)
      BY <1>2 DEF PoolInv
    <2>3. T \in Nat /\ E \in Nat /\ E <= T
      BY <2>1, <2>2, SlotShape
    <2>4. \/ RowsDiffer
          \/ Wrapped(shape) = vtf_fill_buffer_layout(shape).planes /\ RawSlot(shape) = T
      BY <2>1, <2>2, SlotShape DEF RowsDiffer
    <2>5. \A i \in DOMAIN slots : /\ i \in 1 .. N
                                  /\ slots[i].planes = Wrapped(shape)
                                  /\ slots[i].offset = (i - 1) * T
                                  /\ SlotEnd(slots[i]) = slots[i].offset + T
      <3> TAKE i \in DOMAIN slots
      <3>1. i \in 1 .. Len(slots) /\ Len(slots) \in Nat /\ Len(slots) <= N
        BY DEF PoolInv
      <3>2. slots[i] \in [offset : Int, planes : {Wrapped(shape)}]
        <4> DEFINE Slot == [offset : Int, planes : {Wrapped(shape)}]
        <4>1. slots \in Seq(Slot)
          BY DEF PoolInv
        <4> HIDE DEF Slot
        <4>2. slots[i] \in Slot
          BY <3>1, <4>1
        <4> QED
          BY <4>2 DEF Slot
      <3>3. slots[i].offset = (i - 1) * T
        BY DEF PoolInv
      <3>4. SlotEnd(slots[i]) = slots[i].offset + T
        BY DEF SlotEnd, Total
      <3> HIDE DEF T, N
      <3> QED
        BY <2>1, <3>1, <3>2, <3>3, <3>4
    <2>6. RawSlot(shape) = T => N * T <= surface /\ surface \in Nat
      BY <2>1, <2>2, <2>3, SurfaceHolds
    <2> HIDE DEF T, E, N, shape
    <2>7. \A i \in DOMAIN slots :
              /\ slots[i].offset \in Int
              /\ slots[i].offset + E <= SlotEnd(slots[i])
              /\ SlotEnd(slots[i]) = T * i
      <3> TAKE i \in DOMAIN slots
      <3>1. (i - 1) * T \in Int /\ (i - 1) * T + T = T * i
        BY <2>1, <2>3, <2>5
      <3> QED
        BY <2>3, <2>5, <3>1
    <2>8. \A i \in DOMAIN slots : RawSlot(shape) = T => SlotEnd(slots[i]) <= surface
      <3> SUFFICES ASSUME NEW i \in DOMAIN slots, RawSlot(shape) = T
                   PROVE  SlotEnd(slots[i]) <= surface
        OBVIOUS
      <3>1. T * i <= T * N
        BY <2>1, <2>3, <2>5, Monotone
      <3>2. T * N = N * T /\ T * i \in Int /\ T * N \in Int
        BY <2>1, <2>3, <2>5
      <3> QED
        BY <2>6, <2>7, <3>1, <3>2
    <2>9. \A i, j \in DOMAIN slots : i < j => slots[i].offset + E <= slots[j].offset
      <3> SUFFICES ASSUME NEW i \in DOMAIN slots, NEW j \in DOMAIN slots, i < j
                   PROVE  slots[i].offset + E <= slots[j].offset
        OBVIOUS
      <3>1. i \in Int /\ j \in Int /\ i <= j - 1
        BY <2>1, <2>5
      <3>2. T * i <= T * (j - 1)
        BY <2>3, <3>1, Monotone
      <3>3. slots[j].offset = T * (j - 1) /\ T * i \in Int
        BY <2>3, <2>5, <3>1
      <3>4. slots[i].offset \in Int /\ slots[i].offset + E <= T * i
        BY <2>7
      <3> QED
        BY <2>3, <2>7, <3>2, <3>3, <3>4
    <2> QED
      BY <2>4, <2>5, <2>7, <2>8, <2>9 DEF SlotsFit, E, shape
  <1> QED
    BY <1>1, <1>2

(***************************************************************************)
(* Every slot the worker lays out lies on the surface that the broker      *)
(* allocated, and no wrapped plane reaches into the next slot, except for  *)
(* the padding of BGRA rows.                                               *)
(***************************************************************************)
THEOREM SlotsOnSurface == SurfaceSpec => []SlotsFit
  BY PoolInit, PoolStep, PoolFits, PTL DEF SurfaceSpec

-----------------------------------------------------------------------------
(* The session properties.                                                  *)

(* Packing a value and unpacking it keeps its meaning.                      *)
LEMMA Conversion ==
  ASSUME NEW o \in Objects, Encodable(Content[o])
  PROVE  Unpacked(Payload(Content[o])) = Meaning(Content[o])
  <1> DEFINE v == Content[o]
  <1>1. CASE v.kind = "boolean"
    BY <1>1 DEF Unpacked, Payload, Meaning
  <1>2. CASE v.kind = "number"
    BY <1>2 DEF Unpacked, Payload, Meaning
  <1>3. CASE v.kind = "string"
    BY <1>3 DEF Unpacked, Payload, Meaning
  <1>4. CASE v.kind = "array"
    <2>1. DOMAIN v.items = 1 .. 2
      BY <1>4, PropertiesAssumption DEF Encodable
    <2>2. Payload(v) = [value_kind |-> 4, array |-> [i \in 1 .. 2 |-> v.items[i].n]]
      BY <1>4 DEF Payload
    <2>3. Unpacked(Payload(v)) = <<"array", [i \in 1 .. 2 |-> v.items[i].n]>>
      BY <2>2 DEF Unpacked
    <2> QED
      BY <1>4, <2>1, <2>3 DEF Meaning
  <1>5. CASE v.kind = "dictionary"
    <2> DEFINE hor == v.items["HorizontalSpacing"].n
               ver == v.items["VerticalSpacing"].n
               keys == <<"HorizontalSpacing", "VerticalSpacing">>
               values == <<hor, ver>>
    <2>1. Payload(v) = [value_kind |-> 5, keys |-> keys, values |-> values]
      BY <1>5 DEF Payload
    <2>2. Unpacked(Payload(v)) =
            <<"dictionary",
              [k \in Range(keys) |-> values[CHOOSE i \in 1 .. 2 : keys[i] = k]]>>
      BY <2>1 DEF Unpacked
    <2>3. Range(keys) = PAR
      BY DEF Range, PAR
    <2>4. (CHOOSE i \in 1 .. 2 : keys[i] = "HorizontalSpacing") = 1
      OBVIOUS
    <2>5. (CHOOSE i \in 1 .. 2 : keys[i] = "VerticalSpacing") = 2
      OBVIOUS
    <2>6. \A k \in PAR : values[CHOOSE i \in 1 .. 2 : keys[i] = k] = v.items[k].n
      BY <2>4, <2>5 DEF PAR
    <2>7. Meaning(v) = <<"dictionary", [k \in PAR |-> v.items[k].n]>>
      BY <1>5 DEF Meaning
    <2> HIDE DEF v, keys, values
    <2> QED
      BY <2>2, <2>3, <2>6, <2>7 DEF v
  <1> QED
    BY <1>1, <1>2, <1>3, <1>4, <1>5 DEF Encodable

-----------------------------------------------------------------------------
Holders(o) == {i \in DOMAIN stored_properties : stored_properties[i].value = o}

(* A key has one entry of the table, so that replacing its value leaves no  *)
(* older one behind; a value is counted once per entry that holds it.       *)
PropertiesInv ==
  /\ stored_properties \in Seq([key : Keys, value : Objects])
  /\ Len(stored_properties) <= SLOTS
  /\ \A i, j \in DOMAIN stored_properties :
       stored_properties[i].key = stored_properties[j].key => i = j
  /\ refs \in [Objects -> Int] /\ owned \in [Objects -> Int]
  /\ StoredIsApplied
  /\ ReferencesBalanced

LEMMA HoldersFinite ==
  ASSUME PropertiesInv
  PROVE  \A o \in Objects : /\ IsFiniteSet(Holders(o))
                            /\ Cardinality(Holders(o)) \in Nat
                            /\ refs[o] = owned[o] + Cardinality(Holders(o))
  <1> TAKE o \in Objects
  <1>1. IsFiniteSet(DOMAIN stored_properties)
    <2>1. DOMAIN stored_properties = 1 .. Len(stored_properties)
          /\ Len(stored_properties) \in Int
      BY DEF PropertiesInv
    <2> QED
      BY <2>1, FS_Interval
  <1>2. Holders(o) \in SUBSET DOMAIN stored_properties
    BY DEF Holders
  <1>3. IsFiniteSet(Holders(o))
    BY <1>1, <1>2, FS_Subset
  <1> QED
    BY <1>3, FS_CardinalityType DEF PropertiesInv, ReferencesBalanced, Holders

LEMMA PropertiesInit == MirrorInit => PropertiesInv
  <1> SUFFICES ASSUME MirrorInit PROVE PropertiesInv
    OBVIOUS
  <1>1. Len(stored_properties) <= SLOTS /\ DOMAIN stored_properties = {} /\ DOMAIN applied = {}
    BY PropertiesAssumption DEF MirrorInit
  <1>2. StoredIsApplied
    BY <1>1 DEF StoredIsApplied
  <1>3. ASSUME NEW o \in Objects
        PROVE  refs[o] = owned[o] + Cardinality({i \in DOMAIN stored_properties :
                                                   stored_properties[i].value = o})
    <2>1. {i \in DOMAIN stored_properties : stored_properties[i].value = o} = {}
      BY <1>1
    <2> QED
      BY <2>1, FS_EmptySet DEF MirrorInit
  <1> QED
    BY <1>1, <1>2, <1>3 DEF MirrorInit, PropertiesInv, ReferencesBalanced

(* A step that leaves the table alone, and gives and takes references only  *)
(* together with the application's.                                         *)
LEMMA TableKept ==
  ASSUME PropertiesInv, UNCHANGED <<stored_properties, applied>>,
         host' = "live" => host = "live",
         refs' \in [Objects -> Int], owned' \in [Objects -> Int],
         \A o \in Objects : refs'[o] - refs[o] = owned'[o] - owned[o]
  PROVE  PropertiesInv'
  <1>1. StoredIsApplied'
    BY DEF PropertiesInv, StoredIsApplied, SlotsOf
  <1>2. ASSUME NEW o \in Objects
        PROVE  refs'[o] = owned'[o] + Cardinality(Holders(o)')
    <2>1. Holders(o)' = Holders(o)
      BY DEF Holders
    <2>2. Cardinality(Holders(o)) \in Nat /\ refs[o] = owned[o] + Cardinality(Holders(o))
      BY HoldersFinite
    <2>3. refs[o] \in Int /\ owned[o] \in Int /\ refs'[o] \in Int /\ owned'[o] \in Int
      BY DEF PropertiesInv
    <2> QED
      BY <2>1, <2>2, <2>3
  <1>3. ReferencesBalanced'
    BY <1>2 DEF ReferencesBalanced, Holders
  <1> QED
    BY <1>1, <1>3 DEF PropertiesInv

LEMMA ReplaceStep ==
  ASSUME PropertiesInv, NEW i \in DOMAIN stored_properties, NEW o \in Objects, Replace(i, o),
         UNCHANGED owned
  PROVE  /\ stored_properties' \in Seq([key : Keys, value : Objects])
         /\ DOMAIN stored_properties' = DOMAIN stored_properties
         /\ Len(stored_properties') = Len(stored_properties)
         /\ stored_properties'[i].key = stored_properties[i].key
         /\ stored_properties'[i].value = o
         /\ \A j \in DOMAIN stored_properties :
              j # i => stored_properties'[j] = stored_properties[j]
         /\ refs' \in [Objects -> Int]
         /\ ReferencesBalanced'
  <1> DEFINE Entry == [key : Keys, value : Objects]
             w == stored_properties[i].value
  <1>1. stored_properties \in Seq(Entry)
    BY DEF PropertiesInv
  <1>2. stored_properties[i] \in Entry
    <2> HIDE DEF Entry
    <2> QED
      BY <1>1
  <1>3. /\ stored_properties' = [stored_properties EXCEPT ![i].value = o]
        /\ refs' = Retain(Release(refs, w), o)
    BY DEF Replace
  <1>4. /\ DOMAIN stored_properties' = DOMAIN stored_properties
        /\ stored_properties'[i] = [stored_properties[i] EXCEPT !.value = o]
        /\ \A j \in DOMAIN stored_properties :
             j # i => stored_properties'[j] = stored_properties[j]
    BY <1>1, <1>3
  <1>5. /\ stored_properties'[i] \in Entry
        /\ stored_properties'[i].key = stored_properties[i].key
        /\ stored_properties'[i].value = o
    BY <1>2, <1>4
  <1>6. /\ stored_properties' \in Seq(Entry)
        /\ Len(stored_properties') = Len(stored_properties)
    <2> DEFINE e == [stored_properties[i] EXCEPT !.value = o]
    <2>1. stored_properties' = [stored_properties EXCEPT ![i] = e]
      BY <1>3
    <2>2. e \in Entry
      BY <1>4, <1>5
    <2> HIDE DEF e, Entry
    <2> QED
      BY <1>1, <2>1, <2>2
  <1>7. w \in Objects /\ refs \in [Objects -> Int]
    BY <1>2 DEF PropertiesInv
  <1>8. /\ refs' \in [Objects -> Int]
        /\ \A x \in Objects : refs'[x] = refs[x] - (IF x = w THEN 1 ELSE 0)
                                                 + (IF x = o THEN 1 ELSE 0)
    BY <1>3, <1>7 DEF Retain, Release
  <1>9. ASSUME NEW x \in Objects PROVE refs'[x] = owned'[x] + Cardinality(Holders(x)')
    <2>1. /\ IsFiniteSet(Holders(x)) /\ Cardinality(Holders(x)) \in Nat
          /\ refs[x] = owned[x] + Cardinality(Holders(x))
      BY HoldersFinite
    <2>2. i \in Holders(x) <=> x = w
      BY DEF Holders
    <2>3. refs[x] \in Int /\ owned[x] \in Int
      BY DEF PropertiesInv
    <2>4. CASE x = o
      <3>1. Holders(x)' = Holders(x) \cup {i}
        BY <1>4, <1>5, <2>4 DEF Holders
      <3>2. Cardinality(Holders(x)') = IF i \in Holders(x) THEN Cardinality(Holders(x))
                                                            ELSE Cardinality(Holders(x)) + 1
        BY <2>1, <3>1, FS_AddElement, Zenon
      <3> QED
        BY <1>8, <2>1, <2>2, <2>3, <2>4, <3>2
    <2>5. CASE x # o
      <3>1. Holders(x)' = Holders(x) \ {i}
        BY <1>4, <1>5, <2>5 DEF Holders
      <3>2. Cardinality(Holders(x)') = IF i \in Holders(x) THEN Cardinality(Holders(x)) - 1
                                                            ELSE Cardinality(Holders(x))
        BY <2>1, <3>1, FS_RemoveElement, Zenon
      <3> QED
        BY <1>8, <2>1, <2>2, <2>3, <2>5, <3>2
    <2> QED
      BY <2>4, <2>5
  <1>10. ReferencesBalanced'
    BY <1>9 DEF ReferencesBalanced, Holders
  <1> QED
    BY <1>4, <1>5, <1>6, <1>8, <1>10

LEMMA AddStep ==
  ASSUME PropertiesInv, NEW key \in Keys, NEW o \in Objects, Add(key, o), UNCHANGED owned
  PROVE  LET n == Len(stored_properties)
         IN  /\ stored_properties' \in Seq([key : Keys, value : Objects])
             /\ DOMAIN stored_properties' = DOMAIN stored_properties \cup {n + 1}
             /\ Len(stored_properties') = n + 1 /\ n < SLOTS
             /\ n + 1 \notin DOMAIN stored_properties
             /\ stored_properties'[n + 1] = [key |-> key, value |-> o]
             /\ \A j \in DOMAIN stored_properties :
                  stored_properties'[j] = stored_properties[j]
             /\ refs' \in [Objects -> Int]
             /\ ReferencesBalanced'
  <1> DEFINE Entry == [key : Keys, value : Objects]
             e == [key |-> key, value |-> o]
             n == Len(stored_properties)
  <1>1. stored_properties \in Seq(Entry) /\ e \in Entry
    BY DEF PropertiesInv
  <1>2. stored_properties' = Append(stored_properties, e) /\ refs' = Retain(refs, o) /\ n < SLOTS
    BY DEF Add
  <1>3. e.value = o
    OBVIOUS
  <1> HIDE DEF Entry, e
  <1>4. /\ stored_properties' \in Seq(Entry)
        /\ DOMAIN stored_properties' = DOMAIN stored_properties \cup {n + 1}
        /\ Len(stored_properties') = n + 1
        /\ n + 1 \notin DOMAIN stored_properties
        /\ stored_properties'[n + 1] = e
        /\ \A j \in DOMAIN stored_properties : stored_properties'[j] = stored_properties[j]
    BY <1>1, <1>2
  <1>5. /\ refs' \in [Objects -> Int]
        /\ \A x \in Objects : refs'[x] = refs[x] + (IF x = o THEN 1 ELSE 0)
    BY <1>2 DEF Retain, PropertiesInv
  <1>6. ASSUME NEW x \in Objects PROVE refs'[x] = owned'[x] + Cardinality(Holders(x)')
    <2>1. /\ IsFiniteSet(Holders(x)) /\ Cardinality(Holders(x)) \in Nat
          /\ refs[x] = owned[x] + Cardinality(Holders(x))
      BY HoldersFinite
    <2>2. n + 1 \notin Holders(x) /\ refs[x] \in Int /\ owned[x] \in Int
      BY <1>4 DEF Holders, PropertiesInv
    <2>3. CASE x = o
      <3>1. Holders(x)' = Holders(x) \cup {n + 1}
        BY <1>3, <1>4, <2>3 DEF Holders
      <3>2. Cardinality(Holders(x)') = Cardinality(Holders(x)) + 1
        BY <2>1, <2>2, <3>1, FS_AddElement, Zenon
      <3> QED
        BY <1>5, <2>1, <2>2, <2>3, <3>2
    <2>4. CASE x # o
      <3>1. Holders(x)' = Holders(x)
        BY <1>3, <1>4, <2>4 DEF Holders
      <3> QED
        BY <1>5, <2>1, <2>2, <2>4, <3>1
    <2> QED
      BY <2>3, <2>4
  <1>7. ReferencesBalanced'
    BY <1>6 DEF ReferencesBalanced, Holders
  <1> QED
    BY <1>2, <1>4, <1>5, <1>7 DEF Entry, e

LEMMA SetStep ==
  ASSUME PropertiesInv, NEW key \in Keys, NEW o \in Objects, VTSessionSetProperty(key, o)
  PROVE  PropertiesInv'
  <1> DEFINE v == Meaning(Content[o])
  <1>1. /\ Encodable(Content[o])
        /\ applied' = [k \in DOMAIN applied \cup {key} |->
                         IF k = key THEN Unpacked(Payload(Content[o])) ELSE applied[k]]
        /\ IF SlotsOf(key) # {} THEN \E i \in SlotsOf(key) : Replace(i, o)
                                ELSE Add(key, o) \/ Full
        /\ host = "live" /\ UNCHANGED <<host, owned>>
    BY DEF VTSessionSetProperty
  <1>2. /\ DOMAIN applied' = DOMAIN applied \cup {key}
        /\ applied'[key] = v
        /\ \A k \in DOMAIN applied : k # key => applied'[k] = applied[k]
    BY <1>1, Conversion
  <1>3. /\ \A j \in DOMAIN stored_properties :
             /\ stored_properties[j].key \in DOMAIN applied
             /\ applied[stored_properties[j].key] = Meaning(Content[stored_properties[j].value])
        /\ \A k \in DOMAIN applied : SlotsOf(k) # {} \/ Len(stored_properties) = SLOTS
    BY <1>1 DEF PropertiesInv, StoredIsApplied
  <1> HIDE DEF v
  <1>4. ASSUME NEW i \in SlotsOf(key), Replace(i, o) PROVE PropertiesInv'
    <2>1. i \in DOMAIN stored_properties /\ stored_properties[i].key = key
      BY DEF SlotsOf
    <2>2. /\ stored_properties' \in Seq([key : Keys, value : Objects])
          /\ DOMAIN stored_properties' = DOMAIN stored_properties
          /\ Len(stored_properties') = Len(stored_properties)
          /\ stored_properties'[i].key = key
          /\ stored_properties'[i].value = o
          /\ \A j \in DOMAIN stored_properties :
               j # i => stored_properties'[j] = stored_properties[j]
          /\ refs' \in [Objects -> Int]
          /\ ReferencesBalanced'
      BY <1>1, <1>4, <2>1, ReplaceStep, Zenon
    <2>3. \A j \in DOMAIN stored_properties : stored_properties'[j].key = stored_properties[j].key
      BY <2>1, <2>2, Zenon
    <2>4. \A k : SlotsOf(k)' = SlotsOf(k)
      BY <2>2, <2>3 DEF SlotsOf
    <2>5. \A j \in DOMAIN stored_properties : j # i => stored_properties[j].key # key
      BY <2>1 DEF PropertiesInv
    <2>6. \A j \in DOMAIN stored_properties' :
            /\ stored_properties'[j].key \in DOMAIN applied'
            /\ applied'[stored_properties'[j].key] = Meaning(Content[stored_properties'[j].value])
      <3> TAKE j \in DOMAIN stored_properties'
      <3>1. CASE j = i
        BY <1>2, <2>2, <3>1 DEF v
      <3>2. CASE j # i
        BY <1>2, <1>3, <2>2, <2>5, <3>2
      <3> QED
        BY <3>1, <3>2
    <2>7. \A k \in DOMAIN applied' : SlotsOf(k)' # {} \/ Len(stored_properties') = SLOTS
      BY <1>2, <1>3, <2>2, <2>4
    <2>8. StoredIsApplied'
      BY <2>6, <2>7 DEF StoredIsApplied
    <2> QED
      BY <1>1, <2>2, <2>3, <2>8, Zenon DEF PropertiesInv
  <1>5. ASSUME SlotsOf(key) = {}, Add(key, o) PROVE PropertiesInv'
    <2> DEFINE n == Len(stored_properties)
    <2>1. /\ stored_properties' \in Seq([key : Keys, value : Objects])
          /\ DOMAIN stored_properties' = DOMAIN stored_properties \cup {n + 1}
          /\ Len(stored_properties') = n + 1 /\ n < SLOTS
          /\ n + 1 \notin DOMAIN stored_properties
          /\ stored_properties'[n + 1] = [key |-> key, value |-> o]
          /\ \A j \in DOMAIN stored_properties : stored_properties'[j] = stored_properties[j]
          /\ refs' \in [Objects -> Int]
          /\ ReferencesBalanced'
      BY <1>1, <1>5, AddStep, Zenon
    <2>2. stored_properties'[n + 1].key = key /\ stored_properties'[n + 1].value = o
      BY <2>1
    <2>3. \A j \in DOMAIN stored_properties : stored_properties[j].key # key
      BY <1>5 DEF SlotsOf
    <2>4. n \in Nat /\ SLOTS \in Nat
      BY PropertiesAssumption DEF PropertiesInv
    <2> HIDE DEF n
    <2>5. \A j \in DOMAIN stored_properties' :
            /\ stored_properties'[j].key \in DOMAIN applied'
            /\ applied'[stored_properties'[j].key] = Meaning(Content[stored_properties'[j].value])
      <3> TAKE j \in DOMAIN stored_properties'
      <3>1. CASE j = n + 1
        BY <1>2, <2>2, <3>1 DEF v
      <3>2. CASE j \in DOMAIN stored_properties
        BY <1>2, <1>3, <2>1, <2>3, <3>2
      <3> QED
        BY <2>1, <3>1, <3>2
    <2>6. \A k \in DOMAIN applied' : SlotsOf(k)' # {}
      <3> TAKE k \in DOMAIN applied'
      <3>1. CASE k = key
        BY <2>1, <2>2, <3>1 DEF SlotsOf
      <3>2. CASE k # key
        <4>1. SlotsOf(k) # {}
          BY <1>2, <1>3, <2>1, <2>4, <3>2 DEF n
        <4>2. SlotsOf(k) \subseteq SlotsOf(k)'
          BY <2>1 DEF SlotsOf
        <4> QED
          BY <4>1, <4>2
      <3> QED
        BY <3>1, <3>2
    <2>7. StoredIsApplied'
      BY <2>5, <2>6 DEF StoredIsApplied
    <2>8. \A i, j \in DOMAIN stored_properties' :
            stored_properties'[i].key = stored_properties'[j].key => i = j
      BY <2>1, <2>2, <2>3, Zenon DEF PropertiesInv
    <2> QED
      BY <1>1, <2>1, <2>4, <2>7, <2>8 DEF PropertiesInv
  <1>6. ASSUME SlotsOf(key) = {}, Full PROVE PropertiesInv'
    <2>1. UNCHANGED <<stored_properties, refs, owned, host>>
          /\ Len(stored_properties) >= SLOTS
      BY <1>1, <1>6 DEF Full
    <2>2. Len(stored_properties) = SLOTS
      BY <2>1, PropertiesAssumption DEF PropertiesInv
    <2>3. \A j \in DOMAIN stored_properties : stored_properties[j].key # key
      BY <1>6 DEF SlotsOf
    <2>4. StoredIsApplied'
      BY <1>2, <1>3, <2>1, <2>2, <2>3 DEF StoredIsApplied
    <2>5. ReferencesBalanced'
      BY <2>1 DEF PropertiesInv, ReferencesBalanced
    <2> QED
      BY <2>1, <2>4, <2>5 DEF PropertiesInv
  <1> QED
    BY <1>1, <1>4, <1>5, <1>6

LEMMA FinalizeStep ==
  ASSUME PropertiesInv, FinalizeSession
  PROVE  PropertiesInv'
  <1>1. /\ host' = "gone" /\ stored_properties' = <<>> /\ UNCHANGED owned
        /\ refs' = [o \in Objects |-> refs[o] - Cardinality(Holders(o))]
    BY DEF FinalizeSession, Holders
  <1>2. ASSUME NEW o \in Objects
        PROVE  /\ refs'[o] \in Int
               /\ refs'[o] = owned'[o] + Cardinality(Holders(o)')
    <2>1. Holders(o)' = {}
      BY <1>1 DEF Holders
    <2>2. Cardinality(Holders(o)') = 0
      BY <2>1, FS_EmptySet
    <2>3. Cardinality(Holders(o)) \in Nat /\ refs[o] = owned[o] + Cardinality(Holders(o))
      BY HoldersFinite
    <2>4. refs[o] \in Int /\ owned[o] \in Int
      BY DEF PropertiesInv
    <2> QED
      BY <1>1, <2>2, <2>3, <2>4
  <1>3. ReferencesBalanced'
    BY <1>2 DEF ReferencesBalanced, Holders
  <1>4. StoredIsApplied'
    BY <1>1 DEF StoredIsApplied
  <1>5. Len(stored_properties') <= SLOTS
    BY <1>1, PropertiesAssumption
  <1>6. refs' \in [Objects -> Int]
    BY <1>1, <1>2
  <1> QED
    BY <1>1, <1>3, <1>4, <1>5, <1>6 DEF PropertiesInv

LEMMA PropertiesStep == PropertiesInv /\ [MirrorNext]_mirrorVars => PropertiesInv'
  <1> SUFFICES ASSUME PropertiesInv, [MirrorNext]_mirrorVars PROVE PropertiesInv'
    OBVIOUS
  <1>1. refs \in [Objects -> Int] /\ owned \in [Objects -> Int]
    BY DEF PropertiesInv
  <1>2. CASE UNCHANGED <<applied, stored_properties, refs, owned>> /\ host' \in {host, "gone"}
    BY <1>1, <1>2, TableKept
  <1>3. ASSUME NEW key \in Keys, NEW o \in Objects, VTSessionSetProperty(key, o)
        PROVE  PropertiesInv'
    BY <1>3, SetStep
  <1>4. ASSUME NEW key \in Keys, VTSessionCopyProperty(key) PROVE PropertiesInv'
    <2>1. PICK i \in SlotsOf(key) :
            LET o == stored_properties[i].value
            IN  refs' = Retain(refs, o) /\ owned' = Retain(owned, o)
      BY <1>4 DEF VTSessionCopyProperty
    <2> DEFINE o == stored_properties[i].value
    <2>2. refs' = Retain(refs, o) /\ owned' = Retain(owned, o)
      BY <2>1
    <2> HIDE DEF o
    <2>3. /\ refs' \in [Objects -> Int] /\ owned' \in [Objects -> Int]
          /\ \A x \in Objects : refs'[x] - refs[x] = owned'[x] - owned[x]
      <3>1. o \in Objects
        <4>1. stored_properties[i] \in [key : Keys, value : Objects]
          <5> DEFINE Entry == [key : Keys, value : Objects]
          <5>1. stored_properties \in Seq(Entry) /\ i \in DOMAIN stored_properties
            BY DEF PropertiesInv, SlotsOf
          <5> HIDE DEF Entry
          <5>2. stored_properties[i] \in Entry
            BY <5>1
          <5> QED
            BY <5>2 DEF Entry
        <4> QED
          BY <4>1 DEF o
      <3> QED
        BY <1>1, <2>2, <3>1 DEF Retain
    <2> QED
      BY <1>4, <2>3, TableKept DEF VTSessionCopyProperty
  <1>5. CASE VTCompressionSessionInvalidate
    BY <1>2, <1>5 DEF VTCompressionSessionInvalidate
  <1>6. CASE FinalizeSession
    BY <1>6, FinalizeStep
  <1>7. ASSUME NEW o \in Objects, CFRelease(o) PROVE PropertiesInv'
    <2>1. /\ refs' \in [Objects -> Int] /\ owned' \in [Objects -> Int]
          /\ \A x \in Objects : refs'[x] - refs[x] = owned'[x] - owned[x]
      BY <1>1, <1>7 DEF CFRelease, Release
    <2> QED
      BY <1>7, <2>1, TableKept DEF CFRelease
  <1>8. CASE ConnectionLost
    BY <1>2, <1>8 DEF ConnectionLost
  <1>9. CASE UNCHANGED mirrorVars
    BY <1>2, <1>9 DEF mirrorVars
  <1> QED
    BY <1>3, <1>4, <1>5, <1>6, <1>7, <1>8, <1>9 DEF MirrorNext

(***************************************************************************)
(* The shim's table answers with the value VideoToolbox holds, and forgets  *)
(* one only when the table is full, whatever is set how often.              *)
(***************************************************************************)
THEOREM TableMirrorsHost == MirrorSpec => []StoredIsApplied
  <1>1. PropertiesInv => StoredIsApplied
    BY DEF PropertiesInv
  <1> QED
    BY <1>1, PropertiesInit, PropertiesStep, PTL DEF MirrorSpec

(***************************************************************************)
(* Every reference is held by an entry of the table or by the application;  *)
(* a finalized session holds none.                                          *)
(***************************************************************************)
THEOREM ReferencesKept == MirrorSpec => []ReferencesBalanced
  <1>1. PropertiesInv => ReferencesBalanced
    BY DEF PropertiesInv
  <1> QED
    BY <1>1, PropertiesInit, PropertiesStep, PTL DEF MirrorSpec
==============================================================================
