---------------------------- MODULE DecodeFormat ----------------------------
(***************************************************************************)
(* How the parameter sets of a stream reach VideoToolbox.  An application  *)
(* describes the stream to the shim in one of three ways: the parameter    *)
(* sets themselves, an avcC or hvcC configuration record, or the format    *)
(* description of an encoder's output, which the worker's callback took    *)
(* apart and the shim put together again.  VTDecompressionSessionCreate    *)
(* packs the sets of the description into the fixed fields of              *)
(* OP_SET_DECODE_FORMAT, and the worker slices them out.  A parameter set  *)
(* is a sequence of bytes.                                                 *)
(***************************************************************************)
EXTENDS Naturals, Sequences
LOCAL INSTANCE SequencesExt
LOCAL INSTANCE FiniteSetsExt

CONSTANTS
    MAX_PARAMETER_SETS,         \* 4 in the code
    MAX_PARAMETER_SET_BYTES     \* 128 in the code

ASSUME FormatAssumption ==
    /\ MAX_PARAMETER_SETS \in Nat \ {0}
    /\ MAX_PARAMETER_SET_BYTES \in Nat \ {0}

VARIABLES
    description,    \* what the application has: how, its sets, its record
    fd,             \* the shim's format description
    request,        \* the payload of OP_SET_DECODE_FORMAT
    format,         \* what the worker handed to VideoToolbox
    status          \* how far VTDecompressionSessionCreate is

formatVars == << description, fd, request, format, status >>

Nothing == [codec |-> "none", nal_header_length |-> 0, sets |-> << >>]

NoRequest == [codec |-> "none", nal_header_length |-> 0, sizes |-> << >>, data |-> << >>]

Sizes(sets) == [i \in DOMAIN sets |-> Len(sets[i])]

\* The position in concatenated data at which set i starts, from 0.
Start(sizes, i) == FoldLeft(LAMBDA sum, size : sum + size, 0, SubSeq(sizes, 1, i - 1))

Total(sizes) == Start(sizes, Len(sizes) + 1)

SlicesFromZero(sizes, data) ==
    [i \in DOMAIN sizes |-> SubSeq(data, 1, sizes[i])]

\* The sets of concatenated data.
Slices(sizes, data) ==
    [i \in DOMAIN sizes |->
        SubSeq(data, Start(sizes, i) + 1, Start(sizes, i) + sizes[i])]

\* How many sets a loop takes that stops at the first one that is not good.
Leading(good) == Max({ n \in 0 .. MAX_PARAMETER_SETS : 1 .. n \subseteq good })

-----------------------------------------------------------------------------
(* The configuration records: bytes are counted from 0, as in the code. *)

At(bytes, offset) == bytes[offset + 1]

U16(bytes, offset) == 256 * At(bytes, offset) + At(bytes, offset + 1)

Truncated == [ok |-> FALSE, units |-> << >>, offset |-> 0]

(***************************************************************************)
(* count units, each behind its 16-bit length, from offset; the loop of    *)
(* both parsers.                                                           *)
(***************************************************************************)
RECURSIVE Units(_, _, _)
Units(bytes, offset, count) ==
    IF count = 0
    THEN [ok |-> TRUE, units |-> << >>, offset |-> offset]
    ELSE IF offset + 2 > Len(bytes) \/ offset + 2 + U16(bytes, offset) > Len(bytes)
    THEN Truncated
    ELSE LET end  == offset + 2 + U16(bytes, offset)
             rest == Units(bytes, end, count - 1)
         IN  IF rest.ok
             THEN [rest EXCEPT !.units = << SubSeq(bytes, offset + 3, end) >> \o @]
             ELSE Truncated

\* The arrays of an hvcC record: units are [type, unit].
RECURSIVE Arrays(_, _, _)
Arrays(bytes, offset, count) ==
    IF count = 0
    THEN [ok |-> TRUE, units |-> << >>, offset |-> offset]
    ELSE IF offset + 3 > Len(bytes)
    THEN Truncated
    ELSE LET type == At(bytes, offset) % 64
             this == Units(bytes, offset + 3, U16(bytes, offset + 1))
             rest == Arrays(bytes, this.offset, count - 1)
         IN  IF this.ok /\ rest.ok
             THEN [rest EXCEPT !.units =
                      [i \in DOMAIN this.units |-> [type |-> type, unit |-> this.units[i]]] \o @]
             ELSE Truncated

NoSets == [sets |-> << >>, nal_header_length |-> 0]

vtf_parse_avcc_config_record(bytes) ==
    IF Len(bytes) < 7 \/ At(bytes, 0) # 1 \/ At(bytes, 5) % 32 = 0
    THEN NoSets
    ELSE LET sps == Units(bytes, 6, At(bytes, 5) % 32)
             pps == Units(bytes, sps.offset + 1, At(bytes, sps.offset))
         IN  IF ~ sps.ok \/ sps.offset >= Len(bytes)
             THEN NoSets
             ELSE IF ~ pps.ok \/ pps.units = << >>
             THEN NoSets
             ELSE [sets |-> << Head(sps.units), Head(pps.units) >>,
                   nal_header_length |-> 1 + (At(bytes, 4) % 4)]

LastOfType(units, type) ==
    LET these == SelectSeq(units, LAMBDA u : u.type = type)
    IN  IF these = << >> THEN << >> ELSE << these[Len(these)].unit >>

\* The first unit of a type, if there is one.
FirstOfType(units, type) ==
    LET these == SelectSeq(units, LAMBDA u : u.type = type)
    IN  IF these = << >> THEN << >> ELSE << Head(these).unit >>

VPS == 32
SPS == 33
PPS == 34

vtf_parse_hvcc_config_record(bytes) ==
    IF Len(bytes) < 23 \/ At(bytes, 0) # 1
    THEN NoSets
    ELSE LET all  == Arrays(bytes, 23, At(bytes, 22))
             sets == FirstOfType(all.units, VPS) \o FirstOfType(all.units, SPS)
                         \o FirstOfType(all.units, PPS)
         IN  IF Len(sets) = 3
             THEN [sets |-> sets, nal_header_length |-> 1 + (At(bytes, 21) % 4)]
             ELSE NoSets

\* No extensions, no atoms or no atom of the codec: an empty record here.
vtf_extract_param_sets_from_extensions(codec, record) ==
    CASE codec = "avc1" -> vtf_parse_avcc_config_record(record)
      [] codec = "hvc1" -> vtf_parse_hvcc_config_record(record)
      [] OTHER -> NoSets

-----------------------------------------------------------------------------
(* The constructors of a format description. *)

\* Copies the sets it can, up to one that is empty or not all there.
vtf_create_video_format_description(codec, sizes, data, nal_header_length) ==
    LET count == Leading({ i \in DOMAIN sizes :
                               sizes[i] # 0 /\ Start(sizes, i + 1) <= Len(data) })
    IN  [codec |-> codec, nal_header_length |-> nal_header_length,
         sets |-> Slices(SubSeq(sizes, 1, count), data)]

Describe(from) == status = "none" /\ description.from = from

\* CMVideoFormatDescriptionCreateFromH264ParameterSets and its HEVC twin.
CreateFromParameterSets ==
    /\ Describe("sets")
    /\ LET sets == description.sets
       IN  IF Len(sets) \in 1 .. MAX_PARAMETER_SETS /\ \A i \in DOMAIN sets : sets[i] # << >>
           THEN /\ fd' = vtf_create_video_format_description(description.codec, Sizes(sets),
                             FlattenSeq(sets), description.nal_header_length)
                /\ status' = "described"
           ELSE /\ fd' = Nothing
                /\ status' = "failed"
    /\ UNCHANGED << description, request, format >>

\* A record that does not parse is no error: the description has no sets.
CMVideoFormatDescriptionCreate ==
    /\ Describe("record")
    /\ LET extracted == vtf_extract_param_sets_from_extensions(description.codec,
                                                               description.record)
       IN  fd' = [codec |-> description.codec,
                  nal_header_length |-> extracted.nal_header_length,
                  sets |-> extracted.sets]
    /\ status' = "described"
    /\ UNCHANGED << description, request, format >>

(***************************************************************************)
(* The output callback copies the encoder's sets into the reply, up to one *)
(* that does not fit; the shim builds the sample's description of it.      *)
(***************************************************************************)
DescribeOutput ==
    /\ Describe("output")
    /\ LET all   == Sizes(description.sets)
           count == Leading({ i \in DOMAIN all : Start(all, i + 1) <= MAX_PARAMETER_SET_BYTES })
           kept  == SubSeq(description.sets, 1, count)
       IN  fd' = vtf_create_video_format_description(description.codec, Sizes(kept),
                     FlattenSeq(kept), description.nal_header_length)
    /\ status' = "described"
    /\ UNCHANGED << description, request, format >>

-----------------------------------------------------------------------------
(* VTDecompressionSessionCreate. *)

Padded(data) ==
    [i \in 1 .. MAX_PARAMETER_SET_BYTES |-> IF i <= Len(data) THEN data[i] ELSE 0]

\* CMVideoFormatDescriptionGetH264ParameterSetAtIndex and its HEVC twin give
\* the sets of a description of their codec, and an error otherwise.
GetParameterSets(d, expected_codec) == IF d.codec = expected_codec THEN d.sets ELSE << >>

(***************************************************************************)
(* The HEVC accessor for HEVC, the H.264 one for everything else.  On      *)
(* failure the session just created on the worker is destroyed.            *)
(***************************************************************************)
vtf_pack_decode_format_payload ==
    /\ status = "described"
    /\ LET sets == GetParameterSets(fd, IF fd.codec = "hvc1" THEN "hvc1" ELSE "avc1")
       IN  IF /\ Len(sets) \in 1 .. MAX_PARAMETER_SETS
              /\ Total(Sizes(sets)) <= MAX_PARAMETER_SET_BYTES
           THEN /\ request' = [codec |-> fd.codec, nal_header_length |-> fd.nal_header_length,
                               sizes |-> Sizes(sets), data |-> Padded(FlattenSeq(sets))]
                /\ status' = "requested"
           ELSE /\ status' = "failed"
                /\ UNCHANGED request
    /\ UNCHANGED << description, fd, format >>

\* The worker's checks of the payload.
Acceptable(payload) ==
    /\ Len(payload.sizes) \in 1 .. MAX_PARAMETER_SETS
    /\ Total(payload.sizes) <= MAX_PARAMETER_SET_BYTES
    /\ payload.codec \in {"avc1", "hvc1"}

(***************************************************************************)
(* OP_SET_DECODE_FORMAT: VideoToolbox takes the sets, or refuses them, as  *)
(* it does an empty one.                                                   *)
(***************************************************************************)
SetDecodeFormat ==
    /\ status = "requested"
    /\ IF Acceptable(request)
       THEN \E accepted \in { a \in BOOLEAN : a => \A i \in DOMAIN request.sizes :
                                                        request.sizes[i] # 0 } :
                IF accepted
                THEN /\ format' = [codec |-> request.codec,
                                   nal_header_length |-> request.nal_header_length,
                                   sets |-> Slices(request.sizes, request.data)]
                     /\ status' = "created"
                ELSE /\ status' = "refused"
                     /\ UNCHANGED format
       ELSE /\ status' = "failed"
            /\ UNCHANGED format
    /\ UNCHANGED << description, fd, request >>

DescribeFormat ==
    \/ CreateFromParameterSets
    \/ CMVideoFormatDescriptionCreate
    \/ DescribeOutput
    \/ vtf_pack_decode_format_payload

FormatInit ==
    /\ fd = Nothing
    /\ request = NoRequest
    /\ format = Nothing
    /\ status = "none"

-----------------------------------------------------------------------------
(* Properties. *)

\* The sets of a description that the payload and the shim have room for.
HasRoom(d) ==
    /\ Len(d.sets) <= MAX_PARAMETER_SETS
    /\ Total(Sizes(d.sets)) <= MAX_PARAMETER_SET_BYTES

(***************************************************************************)
(* A decoder is created for exactly the parameter sets the application's   *)
(* description holds, byte for byte, in order and with the NAL length they *)
(* were described with, whichever way they were described; and creation    *)
(* fails only for a description that holds none, an empty one, too many,   *)
(* or another codec's.  Two parsers, three packers and two slicers have to *)
(* agree for this.  The exception: the sets of an encoder's output that do *)
(* not fit the reply are dropped without an error, and the decoder then    *)
(* gets the first ones only.                                               *)
(***************************************************************************)
ParameterSetsArrive ==
    /\ status = "created" /\ (description.from = "output" => HasRoom(description))
       => format = [codec |-> description.codec,
                    nal_header_length |-> description.nal_header_length,
                    sets |-> description.sets]
    /\ status = "failed" =>
           \/ description.codec \notin {"avc1", "hvc1"}
           \/ description.sets = << >>
           \/ ~ HasRoom(description)
           \/ \E i \in DOMAIN description.sets : description.sets[i] = << >>
=============================================================================
