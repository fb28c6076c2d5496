-------------------------- MODULE SessionProperties --------------------------
(***************************************************************************)
(* The properties of a compression session: the application sets them       *)
(* through VTSessionSetProperty, which packs the CF value into a request,   *)
(* has vt-real unpack it and set it on the VideoToolbox session, and keeps  *)
(* a reference to the value in a table of the session object;               *)
(* VTSessionCopyProperty answers from that table and never asks the host.   *)
(*                                                                         *)
(* The application follows the CF ownership rules: it passes only values it *)
(* owns a reference to, and releases what it owns.  A refused call with no  *)
(* effect is a stuttering step.  Keys and strings are those of the code,    *)
(* strings compared whole (none is near the 63 bytes a payload can carry).  *)
(***************************************************************************)
EXTENDS Naturals, Sequences, FiniteSets, Functions

CONSTANTS
  Keys,     \* the property keys the application uses
  Objects,  \* its CF value objects
  Content,  \* Objects -> what they hold
  SLOTS,    \* the length of stored_properties: 16
  MaxOwned  \* bound: references to a value the application owns

ASSUME PropertiesAssumption ==
  /\ SLOTS \in Nat \ {0} /\ MaxOwned \in Nat \ {0}
  /\ DOMAIN Content = Objects
  /\ \A o \in Objects : Content[o].kind = "array" =>
       DOMAIN Content[o].items = 1 .. Len(Content[o].items)

VARIABLES
  session,            \* the session object: "open", "invalidated", "finalized"
  host,               \* the worker's session: "live", "gone"
  applied,            \* key -> the value VideoToolbox holds
  stored_properties,  \* sequence of [key, value]
  refs,               \* object -> its reference count
  owned               \* object -> how many of them the application owns

mirrorVars == <<session, host, applied, stored_properties, refs, owned>>

-----------------------------------------------------------------------------
(* vtf_fill_set_property_payload.                                           *)

Number(v) == v.kind = "number"

PAR == {"HorizontalSpacing", "VerticalSpacing"}

(* The values that have a payload; the others are answered -12902.          *)
Encodable(v) ==
  \/ v.kind \in {"boolean", "string"}
  \/ v.kind = "number" /\ v.type \in {"sint32", "sint64", "int"}
  \/ v.kind = "array" /\ Len(v.items) = 2 /\ \A i \in 1 .. 2 : Number(v.items[i])
  \/ v.kind = "dictionary" /\ \A k \in PAR : k \in DOMAIN v.items /\ Number(v.items[k])

Payload(v) ==
  CASE v.kind = "boolean"    -> [value_kind |-> 1, bool |-> v.bool]
    [] v.kind = "number"     -> [value_kind |-> 2, sint64 |-> v.n]
    [] v.kind = "string"     -> [value_kind |-> 3, string |-> v.text]
    [] v.kind = "array"      -> [value_kind |-> 4, array |-> [i \in 1 .. 2 |-> v.items[i].n]]
    [] v.kind = "dictionary" -> [value_kind |-> 5,
                                 keys |-> <<"HorizontalSpacing", "VerticalSpacing">>,
                                 values |-> <<v.items["HorizontalSpacing"].n,
                                              v.items["VerticalSpacing"].n>>]

-----------------------------------------------------------------------------
(* OP_SET_PROPERTY in vt-real.                                              *)

SupportedKeys ==
  {"AverageBitRate", "MaxKeyFrameInterval", "MoreFramesBeforeStart", "MoreFramesAfterEnd",
   "AllowFrameReordering", "H264EntropyMode", "MaxH264SliceBytes", "TransferFunction",
   "YCbCrMatrix", "ColorPrimaries", "DataRateLimits", "AllowOpenGOP", "MinAllowedFrameQP",
   "MaxAllowedFrameQP", "PrioritizeEncodingSpeedOverQuality", "PixelAspectRatio", "RealTime",
   "ProfileLevel", "ConstantBitRate", "EncoderID", "ExpectedFrameRate",
   "MaximizePowerEfficiency", "Quality", "ReferenceBufferCount", "SpatialAdaptiveQPLevel",
   "TargetQualityForAlpha"}

(* The strings that name a constant of Apple's frameworks: most for every   *)
(* key, some only for the keys that have a constant of that name.           *)
KnownStrings(key) ==
  {"H264_Main_AutoLevel", "H264_High_AutoLevel", "CABAC", "CAVLC", "SMPTE_ST_2084_PQ",
   "SMPTE_ST_428_1", "ITU_R_2100_HLG", "UseGamma", "SMPTE_C", "EBU_3213", "ITU_R_601_4"}
  \cup {s \in {"ITU_R_709_2", "ITU_R_2020"} :
          key \in {"TransferFunction", "YCbCrMatrix", "ColorPrimaries"}}
  \cup {s \in {"SMPTE_240M_1995"} : key \in {"TransferFunction", "YCbCrMatrix"}}

(* Otherwise STATUS_PROPERTY_NOT_SUPPORTED.                                 *)
Supported(key, p) ==
  /\ key \in SupportedKeys
  /\ p.value_kind = 3 => p.string \in KnownStrings(key)

(* The CF value built from a payload.  (A number is passed on after its     *)
(* temporary is dropped; the values here are small enough to be tagged      *)
(* pointers, which outlive it.)                                             *)
Unpacked(p) ==
  CASE p.value_kind = 1 -> <<"boolean", p.bool>>
    [] p.value_kind = 2 -> <<"number", p.sint64>>
    [] p.value_kind = 3 -> <<"string", p.string>>
    [] p.value_kind = 4 -> <<"array", p.array>>
    [] p.value_kind = 5 ->
         <<"dictionary",
           [k \in Range(p.keys) |-> p.values[CHOOSE i \in 1 .. 2 : p.keys[i] = k]]>>

-----------------------------------------------------------------------------
MirrorInit ==
  /\ session = "open" /\ host = "live"
  /\ applied = [k \in {} |-> 0]
  /\ stored_properties = <<>>
  /\ owned = [o \in Objects |-> 1] /\ refs = owned

Retain(counts, o) == [counts EXCEPT ![o] = @ + 1]
Release(counts, o) == [counts EXCEPT ![o] = @ - 1]

(* The entry of a key: at most one, by the way the table is filled.         *)
SlotsOf(key) == {i \in DOMAIN stored_properties : stored_properties[i].key = key}

(* Mutant: a key that has an entry keeps its first value.                   *)
ReplaceNothing(i, o) == UNCHANGED <<stored_properties, refs>>

(* Mutant: the value a new one replaces is not released.                    *)
ReplaceUnreleased(i, o) ==
  /\ stored_properties' = [stored_properties EXCEPT ![i].value = o]
  /\ refs' = Retain(refs, o)

Replace(i, o) ==
  /\ stored_properties' = [stored_properties EXCEPT ![i].value = o]
  /\ refs' = Retain(Release(refs, stored_properties[i].value), o)

Add(key, o) ==
  /\ Len(stored_properties) < SLOTS
  /\ stored_properties' = Append(stored_properties, [key |-> key, value |-> o])
  /\ refs' = Retain(refs, o)

(* The table is full: the call answers -12900, the host has set the value.  *)
Full ==
  /\ Len(stored_properties) >= SLOTS
  /\ UNCHANGED <<stored_properties, refs>>

(* VideoToolbox may refuse any value; then nothing changes.                 *)
VTSessionSetProperty(key, o) ==
  LET p == Payload(Content[o])
  IN  /\ session = "open" /\ owned[o] > 0
      /\ Encodable(Content[o])
      /\ host = "live" /\ Supported(key, p)
      /\ applied' = [k \in DOMAIN applied \cup {key} |->
                       IF k = key THEN Unpacked(p) ELSE applied[k]]
      /\ IF SlotsOf(key) # {} THEN \E i \in SlotsOf(key) : Replace(i, o)
                              ELSE Add(key, o) \/ Full
      /\ UNCHANGED <<session, host, owned>>

VTSessionCopyProperty(key) ==
  /\ session = "open"
  /\ \E i \in SlotsOf(key) :
       LET o == stored_properties[i].value
       IN  /\ owned[o] < MaxOwned
           /\ refs' = Retain(refs, o) /\ owned' = Retain(owned, o)
  /\ UNCHANGED <<session, host, applied, stored_properties>>

(* VTCompressionSessionInvalidate: OP_DESTROY_SESSION; the values stay.     *)
VTCompressionSessionInvalidate ==
  /\ session = "open"
  /\ session' = "invalidated" /\ host' = "gone"
  /\ UNCHANGED <<applied, stored_properties, refs, owned>>

(* vtf_finalize_vt_session, at the last CFRelease of the session.           *)
FinalizeSession ==
  /\ session # "finalized"
  /\ session' = "finalized" /\ host' = "gone"
  /\ refs' = [o \in Objects |->
                refs[o] - Cardinality({i \in DOMAIN stored_properties :
                                         stored_properties[i].value = o})]
  /\ stored_properties' = <<>>
  /\ UNCHANGED <<applied, owned>>

(* The application gives up a reference it owns.                            *)
CFRelease(o) ==
  /\ owned[o] > 0
  /\ owned' = Release(owned, o) /\ refs' = Release(refs, o)
  /\ UNCHANGED <<session, host, applied, stored_properties>>

(* The worker's backend ends with its connection; a later request of this   *)
(* session, on a new connection, finds no session (-12902).                 *)
ConnectionLost ==
  /\ host = "live"
  /\ host' = "gone"
  /\ UNCHANGED <<session, applied, stored_properties, refs, owned>>

MirrorNext ==
  \/ \E key \in Keys :
       \/ \E o \in Objects : VTSessionSetProperty(key, o)
       \/ VTSessionCopyProperty(key)
  \/ VTCompressionSessionInvalidate
  \/ FinalizeSession
  \/ \E o \in Objects : CFRelease(o)
  \/ ConnectionLost

MirrorSpec == MirrorInit /\ [][MirrorNext]_mirrorVars

-----------------------------------------------------------------------------
(* What a CF value says to VideoToolbox.                                    *)
Meaning(v) ==
  <<v.kind,
    CASE v.kind = "boolean"    -> v.bool
      [] v.kind = "number"     -> v.n
      [] v.kind = "string"     -> v.text
      [] v.kind = "array"      -> [i \in DOMAIN v.items |-> v.items[i].n]
      [] v.kind = "dictionary" -> [k \in PAR |-> v.items[k].n]>>

(* VTSessionCopyProperty may answer without asking the host: as long as the *)
(* host session lives, the value stored for a key means what VideoToolbox   *)
(* holds for it, after any sequence of accepted, refused and repeated sets  *)
(* and through packing and unpacking; and only a full table makes the shim  *)
(* forget a value that the host took.                                       *)
StoredIsApplied ==
  host = "live" =>
    /\ \A i \in DOMAIN stored_properties :
         LET e == stored_properties[i]
         IN  e.key \in DOMAIN applied /\ applied[e.key] = Meaning(Content[e.value])
    /\ \A k \in DOMAIN applied : SlotsOf(k) # {} \/ Len(stored_properties) = SLOTS

(* The references balance, whether values are replaced, copied out, set     *)
(* under several keys or left to vtf_finalize_vt_session: a value the       *)
(* session stores or the application owns is alive, and nothing is kept     *)
(* alive by a session that is gone.                                         *)
ReferencesBalanced ==
  \A o \in Objects :
    refs[o] = owned[o] + Cardinality({i \in DOMAIN stored_properties :
                                        stored_properties[i].value = o})
=============================================================================
