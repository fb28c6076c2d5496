--------------------------- MODULE MCDecodedRead ----------------------------
(* Streams for model checking, with a writer of configuration records. *)
EXTENDS DecodedRead
LOCAL INSTANCE SequencesExt

\* With rows aligned to 4 bytes: widths on both sides of a boundary, odd and
\* even heights, a format of each sample size.
TinyShapes == Shapes(1 .. 6, 1 .. 4, {"420v", "x420"}) \cup Shapes({1, 2}, {1, 3}, {"BGRA"})

\* Rows shorter than, as long as, and longer than the canonical ones.
SomePaddings == {0, 1, 3}

-----------------------------------------------------------------------------
(* Configuration records, written from ISO/IEC 14496-15. *)

Unit(unit) == << Len(unit) \div 256, Len(unit) % 256 >> \o unit

Written(units) == FlattenSeq([i \in DOMAIN units |-> Unit(units[i])])

avcC(nal, sps, pps) ==
    << 1, 100, 0, 30, 252 + nal - 1, 224 + Len(sps) >> \o Written(sps)
        \o << Len(pps) >> \o Written(pps)

\* arrays: of [type, units]; bit 7 of the type says that an array is complete.
hvcC(nal, arrays) ==
    << 1 >> \o [i \in 1 .. 20 |-> 0] \o << 248 + nal - 1, Len(arrays) >>
        \o FlattenSeq([i \in DOMAIN arrays |->
               << 128 + arrays[i].type, 0, Len(arrays[i].units) >> \o Written(arrays[i].units)])

Description(from, codec, nal, sets, record) ==
    [from |-> from, codec |-> codec, nal_header_length |-> nal, sets |-> sets, record |-> record]

\* Parameter sets of different contents and sizes; one is empty.
Sets == { << >>, << 7 >>, << 7, 1 >>, << 8, 2, 3 >> }

SetLists ==
    UNION { [1 .. n -> Sets] : n \in 0 .. 3 }
        \cup { << << 1 >>, << 2 >>, << 3 >>, << 4 >>, << 5 >> >> }

\* An encoder's parameter sets have contents.
AsSets ==
    { Description("sets", codec, 4, sets, << >>) : codec \in {"avc1", "hvc1"}, sets \in SetLists }
        \cup { Description("output", codec, 4, sets, << >>) :
               codec \in {"avc1", "hvc1"},
               sets \in { l \in SetLists : \A i \in DOMAIN l : l[i] # << >> } }

\* Lists of units of one kind in a record.
UnitLists == { << >>, << << 7 >> >>, << << 7, 1 >>, << 8, 2, 3 >> >>, << << >>, << 9 >> >> }

FirstEach(lists) ==
    IF \E i \in DOMAIN lists : lists[i] = << >> THEN << >>
    ELSE [i \in DOMAIN lists |-> Head(lists[i])]

\* A record of which the last cut bytes are missing describes nothing.
Cut(codec, nal, sets, record, cut) ==
    Description("record", codec, nal, IF cut = 0 THEN sets ELSE << >>,
                SubSeq(record, 1, Len(record) - cut))

AvcRecords ==
    { Cut("avc1", nal, FirstEach(<< sps, pps >>), avcC(nal, sps, pps), cut) :
      nal \in {1, 4}, sps \in UnitLists, pps \in UnitLists, cut \in 0 .. 7 }

\* The arrays of a record come in any order, with others among them.
Orders == { << 32, 33, 34 >>, << 34, 32, 33 >>, << 39, 33, 32, 34 >>, << 32, 33, 34, 32 >> }

HevcRecords ==
    { LET array(i) == [type |-> order[i], units |-> IF i = k THEN units ELSE << << i >> >>]
          record   == [i \in DOMAIN order |-> array(i)]
          of(type) == FlattenSeq([i \in DOMAIN order |->
                          IF order[i] = type THEN record[i].units ELSE << >>])
      IN  Cut("hvc1", 4, FirstEach(<< of(32), of(33), of(34) >>), hvcC(4, record), cut) :
      order \in Orders, k \in 1 .. 3, units \in UnitLists, cut \in {0, 1, 3, 6, 12} }

OtherRecords ==
    { Description("record", codec, 0, << >>, << >>) : codec \in {"avc1", "hvc1", "jpeg"} }

SomeShape == [width |-> 4, height |-> 2, pixel_format |-> "420v"]

Usual == { Description("sets", "avc1", 4, << << 7 >>, << 8 >> >>, << >>),
           Cut("avc1", 4, << << 7 >>, << 8 >> >>, avcC(4, << << 7 >> >>, << << 8 >> >>), 0) }

\* Every description with one shape, and every shape with two descriptions.
SomeStreams ==
    [description : AsSets \cup AvcRecords \cup HevcRecords \cup OtherRecords, shape : {SomeShape}]
        \cup [description : Usual, shape : TinyShapes]
=============================================================================
