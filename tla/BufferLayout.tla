---------------------------- MODULE BufferLayout ----------------------------
(***************************************************************************)
(* The layout arithmetic of a pixel buffer, which three programs compute   *)
(* independently and have to agree on: the broker sizes a pool's surface,  *)
(* the worker divides it into slots and tells VideoToolbox where each      *)
(* slot's planes lie, and the guest shim places the planes of a decoded    *)
(* frame.  All dimensions are in bytes or samples.  The 64-byte stride     *)
(* alignment is a literal in every one of the programs and a constant      *)
(* here, so that the byte-level runs can use a small one.                  *)
(***************************************************************************)
EXTENDS Naturals, Sequences

CONSTANTS
    STRIDE_ALIGNMENT,   \* 64 in the code
    PAGE_SIZE           \* sysconf(_SC_PAGESIZE) where the broker runs

ASSUME LayoutAssumption ==
    /\ STRIDE_ALIGNMENT \in Nat \ {0}
    /\ PAGE_SIZE \in Nat \ {0}

Biplanar == {"420v", "420f", "x420", "xf20"}
PixelFormats == Biplanar \cup {"BGRA"}

\* A pixel buffer's dimensions and format.
Shapes(widths, heights, formats) ==
    [width : widths, height : heights, pixel_format : formats]

vtf_align_size(value, alignment) ==
    LET remainder == value % alignment
    IN  IF remainder = 0 THEN value ELSE value + (alignment - remainder)

(***************************************************************************)
(* The form (value + alignment - 1) & !(alignment - 1) that the broker,    *)
(* the slot wrapper and the shim use; for the powers of two they pass it   *)
(* rounds down to a multiple.                                              *)
(***************************************************************************)
align_up(value, alignment) ==
    ((value + alignment - 1) \div alignment) * alignment

page_round_up(value) == align_up(value, PAGE_SIZE)

BytesPerSample(pixel_format) ==
    CASE pixel_format \in {"420v", "420f"} -> 1
      [] pixel_format \in {"x420", "xf20"} -> 2
      [] pixel_format = "BGRA"             -> 4

Plane(offset, width, height, stride) ==
    [offset |-> offset, width |-> width, height |-> height, stride |-> stride]

\* One plane of whole pixels, or a luma plane followed by a half-size
\* interleaved chroma plane of the same stride.
Planes(shape, stride) ==
    LET luma == Plane(0, shape.width, shape.height, stride)
    IN  IF shape.pixel_format \in Biplanar
        THEN << luma, Plane(stride * shape.height, shape.width \div 2,
                            shape.height \div 2, stride) >>
        ELSE << luma >>

\* The bytes up to the end of the last plane.
PlanesEnd(planes) ==
    LET last == planes[Len(planes)]
    IN  last.offset + last.stride * last.height

Layout(shape, stride) ==
    [planes |-> Planes(shape, stride),
     total_size |-> PlanesEnd(Planes(shape, stride))]

\* The layout the worker computes and tells the guest.
vtf_fill_buffer_layout(shape) ==
    Layout(shape, vtf_align_size(BytesPerSample(shape.pixel_format) * shape.width,
                                 STRIDE_ALIGNMENT))

\* The layout the shim computes for the bytes of a decoded frame.
vtf_decode_layout_for_format(shape) ==
    Layout(shape, align_up(BytesPerSample(shape.pixel_format) * shape.width,
                           STRIDE_ALIGNMENT))

\* The bytes of one row of a plane that carry pixels: the chroma plane
\* interleaves two samples per column.
RowBytes(shape, p) ==
    LET plane == vtf_fill_buffer_layout(shape).planes[p]
    IN  BytesPerSample(shape.pixel_format) * plane.width * (IF p = 2 THEN 2 ELSE 1)
=============================================================================
