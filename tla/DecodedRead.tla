---------------------------- MODULE DecodedRead -----------------------------
(***************************************************************************)
(* How the pixels of a decoded frame reach the guest.  Once the worker has *)
(* the stream's parameter sets (DecodeFormat), the shim decides whether    *)
(* frames are read in one reply or in chunks, from the dimensions of the   *)
(* format description; for each frame the worker copies rows out of        *)
(* VideoToolbox's buffer, whose rows may be padded differently, into the   *)
(* canonical layout; the shim puts the bytes together and finds the planes *)
(* at the offsets it computes itself.  A byte is written as <<plane, row,  *)
(* column>> of the buffer it was copied from.                              *)
(***************************************************************************)
EXTENDS BufferLayout, DecodeFormat, Integers

CONSTANTS
    Streams,                        \* a description and the shape it decodes to
    RowPaddings,                    \* bytes VideoToolbox pads a row with
    MAX_DECODED_FRAME_BYTES,        \* the inline budget
    WRITE_BUFFER_CHUNK_BYTES        \* the size of a chunk

ASSUME ReadAssumption ==
    /\ \A s \in Streams : s.shape \in Shapes(Nat \ {0}, Nat \ {0}, PixelFormats)
    /\ RowPaddings \subseteq Nat
    /\ MAX_DECODED_FRAME_BYTES \in Nat
    /\ WRITE_BUFFER_CHUNK_BYTES \in Nat \ {0}

VARIABLES
    shape,              \* the shape of the session's frames
    chunked_output,     \* the session's mode, toggled at creation
    source,             \* VideoToolbox's row size per plane; << >>: no frame
    copies,             \* the row copies made for the last reply
    offset,             \* the shim's position in a chunked read
    out,                \* the bytes the shim has read of the frame
    result              \* "none", or how the shim is done with the frame

readVars == << source, copies, offset, out, result >>

vars == << formatVars, shape, chunked_output, readVars >>

Zero == << 0, 0, 0 >>       \* a byte the worker cleared
Stale == << 0, 1, 0 >>      \* a byte an earlier reply left in the reply buffer

Least(a, b) == IF a < b THEN a ELSE b
Greatest(a, b) == IF a > b THEN a ELSE b

layout == vtf_fill_buffer_layout(shape)

NeedsChunkedLumaOnly(s) == s.width * s.height > MAX_DECODED_FRAME_BYTES

(***************************************************************************)
(* VTDecompressionSessionCreate: a session whose nominal frame exceeds the *)
(* inline budget is switched to chunks with OP_BIND_DECODE_OUTPUT_POOL.    *)
(***************************************************************************)
needs_chunked(s) ==
    (s.width * s.height * 3) \div 2 > MAX_DECODED_FRAME_BYTES

\* A description made of parameter sets has the dimensions 0 x 0.
HasDimensions == description.from # "sets"

Init ==
    /\ \E s \in Streams :
           /\ description = s.description
           /\ shape = s.shape
    /\ FormatInit
    /\ chunked_output = FALSE
    /\ source = << >>
    /\ copies = {}
    /\ offset = 0
    /\ out = << >>
    /\ result = "none"

Describes == DescribeFormat /\ UNCHANGED << shape, chunked_output, readVars >>

\* The rest of VTDecompressionSessionCreate.
SessionCreated ==
    /\ SetDecodeFormat
    /\ chunked_output' = (status' = "created" /\ HasDimensions /\ needs_chunked(shape))
    /\ UNCHANGED << shape, readVars >>

(***************************************************************************)
(* VideoToolbox's frame, dequeued by the shim.  A buffer of one plane is   *)
(* copied whole, which assumes that its rows have the canonical size.      *)
(***************************************************************************)
FrameDequeued ==
    /\ status = "created"
    /\ source = << >>
    /\ IF Len(layout.planes) = 1
       THEN source' = << layout.planes[1].stride >>
       ELSE \E luma, chroma \in RowPaddings :
                source' = << RowBytes(shape, 1) + luma, RowBytes(shape, 2) + chroma >>
    /\ UNCHANGED << formatVars, shape, chunked_output, copies, offset, out, result >>

-----------------------------------------------------------------------------
(* The worker's copies, each of len bytes of one row from column col. *)

\* vtf_copy_pixel_buffer_to_bytes
FrameCopies ==
    UNION { { [dst |-> layout.planes[p].offset + row * layout.planes[p].stride,
               plane |-> p, row |-> row, col |-> 0,
               len |-> Least(layout.planes[p].stride, source[p])] :
              row \in 0 .. layout.planes[p].height - 1 } : p \in DOMAIN layout.planes }

RowContentUnclamped(p) == layout.planes[p].stride

\* The bytes of a canonical row that the source has.
row_content(p) == Least(source[p], layout.planes[p].stride)

RowStart(col_start) == 0

\* The column of the source row that a slice starts at.
source_column(col_start) == col_start

\* Where in the chunk that starts at byte from a row's slice goes.
dst_offset_in_chunk(row_byte_offset, col_start, plane_offset, from) ==
    row_byte_offset + col_start + plane_offset - from

\* vtf_copy_pixel_buffer_byte_range, for the rows of plane p.
RangeCopies(p, from, length) ==
    LET plane       == layout.planes[p]
        range_start == Greatest(from, plane.offset)
        range_end   == Least(from + length, plane.offset + plane.stride * plane.height)
        local_start == range_start - plane.offset
        local_end   == range_end - plane.offset
        col_start(row) == Greatest(local_start, row * plane.stride) - row * plane.stride
        copy_end(row)  == Least(Least(local_end, (row + 1) * plane.stride) - row * plane.stride,
                                row_content(p))
        rows == local_start \div plane.stride .. (local_end - 1) \div plane.stride
    IN  IF range_start >= range_end
        THEN {}
        ELSE { [dst |-> dst_offset_in_chunk(row * plane.stride, col_start(row),
                                            plane.offset, from),
                plane |-> p, row |-> row, col |-> source_column(col_start(row)),
                len |-> copy_end(row) - col_start(row)] :
               row \in { r \in rows : col_start(r) < copy_end(r) } }

\* The n bytes of a reply over a background, after the copies cs.
Painted(n, background, cs) ==
    [ i \in 1 .. n |->
        LET hits == { c \in cs : c.dst <= i - 1 /\ i - 1 < c.dst + c.len }
        IN  IF hits = {}
            THEN background
            ELSE LET c == CHOOSE c \in hits : TRUE
                 IN  << c.plane, c.row, c.col + (i - 1 - c.dst) >> ]

-----------------------------------------------------------------------------
(* The shim's reads, with the worker's handler of each. *)

Reading ==
    /\ source # << >>
    /\ result = "none"

\* OP_READ_DECODED_FRAME over the budget: the frame is released unread.
ReadDecodedFrameRefused ==
    /\ Reading /\ ~ chunked_output
    /\ layout.total_size > MAX_DECODED_FRAME_BYTES
    /\ result' = "RESOURCE_EXHAUSTED"
    /\ UNCHANGED << formatVars, shape, chunked_output, source, copies, offset, out >>

ReadDecodedFrame ==
    /\ Reading /\ ~ chunked_output
    /\ layout.total_size <= MAX_DECODED_FRAME_BYTES
    /\ \E cs \in {FrameCopies} :
           /\ copies' = cs
           /\ out' = Painted(layout.total_size, Stale, cs)
    /\ result' = "delivered"
    /\ UNCHANGED << formatVars, shape, chunked_output, source, offset >>

\* What the shim has to read in chunks.
total_bytes == vtf_decode_layout_for_format(shape).total_size

chunk_len == Least(total_bytes - offset, WRITE_BUFFER_CHUNK_BYTES)

Advanced == offset + chunk_len

\* The worker refuses a chunk that ends past the frame, which ends the read.
ReadDecodedFrameChunk ==
    /\ Reading /\ chunked_output
    /\ offset < total_bytes
    /\ \E in_bounds \in {offset + chunk_len <= layout.total_size},
          cs \in {UNION { RangeCopies(p, offset, chunk_len) : p \in DOMAIN layout.planes }} :
           /\ copies' = IF in_bounds THEN cs ELSE copies
           /\ out' = IF in_bounds THEN out \o Painted(chunk_len, Zero, cs) ELSE out
           /\ offset' = IF in_bounds THEN Advanced ELSE offset
           /\ result' = IF in_bounds THEN result ELSE "BOUNDS_VIOLATION"
    /\ UNCHANGED << formatVars, shape, chunked_output, source >>

ChunksRead ==
    /\ Reading /\ chunked_output
    /\ offset >= total_bytes
    /\ result' = "delivered"
    /\ UNCHANGED << formatVars, shape, chunked_output, source, copies, offset, out >>

\* The pixel buffer cannot be locked, in either mode.
ReadFails ==
    /\ Reading
    /\ result' = "INTERNAL_FAILURE"
    /\ UNCHANGED << formatVars, shape, chunked_output, source, copies, offset, out >>

Read ==
    \/ ReadDecodedFrame
    \/ ReadDecodedFrameRefused
    \/ ReadDecodedFrameChunk
    \/ ChunksRead

Next == Describes \/ SessionCreated \/ FrameDequeued \/ Read \/ ReadFails

Spec == Init /\ [][Next]_vars

(***************************************************************************)
(* The shim reads in a loop on its own thread, and the worker answers each *)
(* request it gets.                                                        *)
(***************************************************************************)
FairSpec == Spec /\ WF_vars(Read)

-----------------------------------------------------------------------------
(* Properties. *)

(***************************************************************************)
(* Whether a frame is read in one piece or in chunks, and however          *)
(* VideoToolbox pads its rows, the shim finds every pixel of every plane   *)
(* where its own layout puts it: the two row copiers, the chunk loop and   *)
(* the two layout functions agree to the byte.                             *)
(***************************************************************************)
PixelsDelivered ==
    result = "delivered" =>
        LET planes == vtf_decode_layout_for_format(shape).planes
        IN  \A p \in DOMAIN planes :
                \A row \in 0 .. planes[p].height - 1, col \in 0 .. RowBytes(shape, p) - 1 :
                    out[planes[p].offset + row * planes[p].stride + col + 1]
                        = << p, row, col >>

(***************************************************************************)
(* Every row copy stays inside the row it reads and the reply it writes,   *)
(* the claim the two copiers' comments make.                               *)
(***************************************************************************)
CopiesInBounds ==
    \A c \in copies :
        /\ c.col + c.len <= source[c.plane]
        /\ c.dst >= 0
        /\ c.dst + c.len <= IF chunked_output THEN WRITE_BUFFER_CHUNK_BYTES
                                              ELSE layout.total_size

\* The frames whose size width x height x 3/2 gives: 8-bit samples, and rows
\* that need no padding.
NominalSize(s) ==
    s.pixel_format \in {"420v", "420f"} /\ s.width % STRIDE_ALIGNMENT = 0

(***************************************************************************)
(* A dequeued frame reaches the application, unless VideoToolbox's buffer  *)
(* cannot be locked: the chunk loop advances to the end and asks for       *)
(* nothing past it, and the mode chosen at creation is one the worker      *)
(* serves.  The exceptions: the estimate of VTDecompressionSessionCreate   *)
(* leaves out row padding and wider samples, so a frame near the budget    *)
(* with either is read inline, and refused; and it is 0 for a description  *)
(* made of parameter sets, so every frame over the budget is refused.      *)
(***************************************************************************)
FrameArrives ==
    (source # << >>) ~> \/ result \in {"delivered", "INTERNAL_FAILURE"}
                        \/ /\ result = "RESOURCE_EXHAUSTED"
                           /\ ~ (NominalSize(shape) /\ HasDimensions)
=============================================================================
