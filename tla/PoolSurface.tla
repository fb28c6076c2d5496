---------------------------- MODULE PoolSurface -----------------------------
(***************************************************************************)
(* One packed pool, from the broker's allocation of its surface            *)
(* (allocate_pools) to the worker's division of it into slots, each        *)
(* wrapped as a pixel buffer that VideoToolbox reads (the slot loop of     *)
(* OP_CREATE_BUFFER_POOL).  The two programs share only the pool's shape   *)
(* and its number of slots; each computes sizes from them on its own.      *)
(***************************************************************************)
EXTENDS BufferLayout

CONSTANTS
    PoolShapes,         \* the shapes the operator configures
    SlotCounts          \* the slot counts the operator configures

ASSUME PoolAssumption ==
    /\ PoolShapes \subseteq Shapes(Nat \ {0}, Nat \ {0}, PixelFormats)
    /\ SlotCounts \subseteq Nat \ {0}

VARIABLES
    spec,               \* the pool's configuration: shape and slot count
    broker,             \* "starting", "serving", or "failed" for good
    surface,            \* bytes of the surface the broker allocated
    slots               \* the wrapped slots, in order

surface_vars == << spec, broker, surface, slots >>

SurfaceInit ==
    /\ spec \in [shape : PoolShapes, slot_count : SlotCounts]
    /\ broker = "starting"
    /\ surface = 0
    /\ slots = << >>

-----------------------------------------------------------------------------
(* The broker. *)

RawSlotTight(shape) ==
    shape.width * BytesPerSample(shape.pixel_format) * shape.height

\* The bytes of one slot before they are rounded up to whole pages.
RawSlot(shape) ==
    IF shape.pixel_format = "BGRA"
    THEN shape.width * 4 * shape.height
    ELSE LET stride == align_up(shape.width, STRIDE_ALIGNMENT)
         IN  stride * shape.height + stride * (shape.height \div 2)

pool_slot_alloc_size(shape) == page_round_up(RawSlot(shape))

\* The surface is described as a BGRA image that many rows high.
PackedSize(shape, slot_count) ==
    LET total      == pool_slot_alloc_size(shape) * slot_count
        raw_bpr    == shape.width * 4
        raw_height == (total + raw_bpr - 1) \div raw_bpr
        raw_alloc  == raw_bpr * raw_height
    IN  IF raw_alloc > total THEN raw_alloc ELSE total

AllocatePool ==
    /\ broker = "starting"
    /\ spec.shape.pixel_format \in {"420v", "BGRA"}
    /\ broker' = "serving"
    /\ surface' = PackedSize(spec.shape, spec.slot_count)
    /\ UNCHANGED << spec, slots >>

\* An error here ends the broker before it starts a worker.
RefusePool ==
    /\ broker = "starting"
    /\ spec.shape.pixel_format \notin {"420v", "BGRA"}
    /\ broker' = "failed"
    /\ UNCHANGED << spec, surface, slots >>

-----------------------------------------------------------------------------
(* The worker. *)

SlotOffsetOverlapping(index) ==
    index * RawSlotTight(spec.shape)

slot_offset(index) ==
    index * vtf_fill_buffer_layout(spec.shape).total_size

WrappedTight(shape) ==
    Planes(shape, BytesPerSample(shape.pixel_format) * shape.width)

\* The planes handed to CVPixelBufferCreateWith{Bytes,PlanarBytes}.
Wrapped(shape) ==
    Planes(shape, IF shape.pixel_format = "BGRA"
                  THEN shape.width * 4
                  ELSE align_up(shape.width, STRIDE_ALIGNMENT))

MoreSlots == Len(slots) < spec.slot_count

WrapSlot ==
    /\ broker = "serving"
    /\ MoreSlots
    /\ slots' = Append(slots, [offset |-> slot_offset(Len(slots)),
                               planes |-> Wrapped(spec.shape)])
    /\ UNCHANGED << spec, broker, surface >>

SurfaceNext == AllocatePool \/ RefusePool \/ WrapSlot

SurfaceSpec == SurfaceInit /\ [][SurfaceNext]_surface_vars

-----------------------------------------------------------------------------
(* Properties. *)

\* The bytes from the surface's start up to the end of what a slot holds.
SlotEnd(slot) ==
    slot.offset + vtf_fill_buffer_layout(spec.shape).total_size

\* The broker, and the worker's wrapper, do not pad the rows of a BGRA pool;
\* the layout the worker lays slots out with, and tells the guest, does.
RowsDiffer ==
    /\ spec.shape.pixel_format = "BGRA"
    /\ (spec.shape.width * 4) % STRIDE_ALIGNMENT # 0

(***************************************************************************)
(* The surface the broker allocates holds every slot the worker lays out   *)
(* in it: "the IOSurface is sized slot_count x per_slot_bytes".  The guest *)
(* writes, and VideoToolbox reads, up to the end of a slot; the planes lie *)
(* inside their slot, so no slot's pixels are read from, or written over,  *)
(* the bytes of the next.  And the planes VideoToolbox reads are those the *)
(* guest was told to write in the reply of OP_CREATE_BUFFER_POOL.  The     *)
(* exception to both: BGRA rows that need padding, which only one of the   *)
(* two layouts pads, and which make the last slots end past the surface.   *)
(***************************************************************************)
SlotsFit ==
    /\ \A i \in DOMAIN slots :
           /\ slots[i].offset + PlanesEnd(slots[i].planes) <= SlotEnd(slots[i])
           /\ \/ RowsDiffer
              \/ /\ SlotEnd(slots[i]) <= surface
                 /\ slots[i].planes = vtf_fill_buffer_layout(spec.shape).planes
    /\ \A i, j \in DOMAIN slots :
           i < j => slots[i].offset + PlanesEnd(slots[i].planes) <= slots[j].offset
=============================================================================
