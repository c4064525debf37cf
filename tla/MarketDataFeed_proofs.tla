----------------------- MODULE MarketDataFeed_proofs -----------------------
(***************************************************************************)
(* For every ladder, depth of snapshots and length of a message, the feed  *)
(* numbers its messages without a gap, drops a snapshot only when the wire *)
(* format has no room for it, and keeps a subscriber in step who loses     *)
(* messages; a recording of it can be read back wherever it is cut.        *)
(***************************************************************************)
EXTENDS MarketDataFeed, TLAPS, FiniteSetTheorems

USE SMT, Zenon, SMTT(20), ZenonT(30)

-----------------------------------------------------------------------------
(* The inductive invariant of the feed.                                    *)

View == [Sides -> [Indices -> LevelStates]]

SideRecords == UNION {[known -> LevelStates] : known \in SUBSET Indices}

\* The messages that the publisher writes.
Message ==
  [kind : {"Trade"}, sequence : Nat]
    \cup [kind : {"ExecutionReport"}]
    \cup [kind : {"BookDelta"}, sequence : Nat, side : Sides, index : Indices,
          level : LevelStates, action : {"Delete", "Update"}]
    \cup [kind : {"BookSnapshot"}, sequence : Nat, bids : SideRecords, asks : SideRecords]

\* A frame whose header says what its payload is, and how long.
WellFramed(f) ==
  /\ f.type = f.payload.kind
  /\ f.bytes = HeaderBytes + f.length
  /\ IF f.type = "BookSnapshot" THEN f.length = SnapshotBytes(f.payload)
                                ELSE f.length = PayloadBytes[f.type]
  /\ f.type = "BookDelta" =>
       (f.payload.action = "Delete" <=> f.payload.level.order_count = 0)

MessageFrame ==
  {f \in [type : {"Trade", "ExecutionReport", "BookDelta", "BookSnapshot"},
          length : Nat, bytes : Nat, payload : Message] : WellFramed(f)}

FeedTypeOK ==
  /\ levels \in View
  /\ next_sequence \in Nat
  /\ scratch \in Nat /\ scratch >= InitialScratch
  /\ sink \in Seq(MessageFrame)
  /\ sub \in [phase : {"waiting", "synced"}, expected : Nat, view : View,
              known : [Sides -> SUBSET Indices]]
  /\ missed \in BOOLEAN

\* Message k is about the level of side s at index i.
Touches(k, s, i) ==
  sink[k].type = "BookDelta" /\ sink[k].payload.side = s /\ sink[k].payload.index = i

\* No message after position k is.
UntouchedAfter(k, s, i) == \A j \in DOMAIN sink : j > k => ~Touches(j, s, i)

\* The last delta of a level has it as it is.
DeltasCurrent ==
  \A k \in DOMAIN sink, s \in Sides, i \in Indices :
    Touches(k, s, i) /\ UntouchedAfter(k, s, i) => sink[k].payload.level = levels[s][i]

\* What a snapshot tells of a level holds until the next delta of that level.
SnapshotsCurrent ==
  \A k \in DOMAIN sink : sink[k].type = "BookSnapshot" =>
    \A s \in Sides : \A i \in KnownFrom(s, Records(sink[k].payload, s)) :
      UntouchedAfter(k, s, i) => ViewOf(Records(sink[k].payload, s))[i] = levels[s][i]

\* So does what a subscriber knows, unless it missed a message.
SubscriberCurrent ==
  sub.phase = "synced" /\ ~missed =>
    \A s \in Sides : \A i \in sub.known[s] :
      UntouchedAfter(0, s, i) => sub.view[s][i] = levels[s][i]

\* The number that a subscriber expects is the next to come, or is passed by
\* when it missed a message.
ExpectsNext ==
  sub.phase = "synced" =>
    IF missed THEN \A n \in Nat : NumberAfter(0, n) => sub.expected < n
              ELSE NumberAfter(0, sub.expected)

FeedInv ==
  /\ FeedTypeOK
  /\ NumbersAreConsecutive
  /\ DeltasCurrent
  /\ SnapshotsCurrent
  /\ SubscriberCurrent
  /\ ExpectsNext

-----------------------------------------------------------------------------
(* Messages on the wire.                                                   *)

\* The number of records of a side is a number.
LEMMA RecordsCounted ==
  ASSUME NEW r \in SideRecords
  PROVE  NumRecords(r) \in Nat
<1>1. DOMAIN r \subseteq Indices
  BY DEF SideRecords
<1>2. IsFiniteSet(Indices)
  BY FeedAssumption, FS_Interval DEF Indices
<1> QED
  BY <1>1, <1>2, FS_Subset, FS_CardinalityType DEF NumRecords

\* The fields of what is on the wire.
LEMMA FrameFields ==
  ASSUME NEW f \in MessageFrame
  PROVE  /\ f.type \in {"Trade", "ExecutionReport", "BookDelta", "BookSnapshot"}
         /\ f.type = f.payload.kind
         /\ f.length \in Nat /\ f.bytes = HeaderBytes + f.length
         /\ f.type # "BookSnapshot" => f.length = PayloadBytes[f.type]
         /\ f.type # "ExecutionReport" => f.payload.sequence \in Nat
         /\ f.type = "BookDelta" =>
              /\ f.payload.side \in Sides /\ f.payload.index \in Indices
              /\ f.payload.level \in LevelStates
              /\ f.payload.action = "Delete" <=> f.payload.level.order_count = 0
         /\ f.type = "BookSnapshot" =>
              /\ f.payload.bids \in SideRecords /\ f.payload.asks \in SideRecords
              /\ f.length = SnapshotBytes(f.payload)
              /\ f.length >= SnapshotHeaderBytes
<1>1. f.payload \in Message /\ f.length \in Nat /\ WellFramed(f)
      /\ f.type \in {"Trade", "ExecutionReport", "BookDelta", "BookSnapshot"}
  BY DEF MessageFrame
<1>2. f.payload.kind # "ExecutionReport" => f.payload.sequence \in Nat
  BY <1>1 DEF Message
<1>3. f.payload.kind = "BookDelta" =>
        /\ f.payload.side \in Sides /\ f.payload.index \in Indices
        /\ f.payload.level \in LevelStates
  BY <1>1 DEF Message
<1>4. f.payload.kind = "BookSnapshot" =>
        f.payload.bids \in SideRecords /\ f.payload.asks \in SideRecords
  BY <1>1 DEF Message
<1>5. f.payload.kind = "BookSnapshot" => SnapshotBytes(f.payload) >= SnapshotHeaderBytes
  <2> SUFFICES ASSUME f.payload.kind = "BookSnapshot"
               PROVE  SnapshotBytes(f.payload) >= SnapshotHeaderBytes
    OBVIOUS
  <2>1. NumRecords(f.payload.bids) \in Nat /\ NumRecords(f.payload.asks) \in Nat
    BY <1>4, RecordsCounted
  <2> QED
    BY <2>1 DEF SnapshotBytes, SnapshotHeaderBytes, LevelRecordBytes
<1> QED
  BY <1>1, <1>2, <1>3, <1>4, <1>5 DEF WellFramed

\* A reader finds the message at the front of a buffer when it is whole, and
\* otherwise asks for more.
LEMMA DecodesFront ==
  ASSUME NEW in, NEW f \in MessageFrame, Head(in.frames) = f, in.size \in Nat
  PROVE  decode_front(in) = IF in.size >= f.bytes THEN Ok(in, f.bytes) ELSE NotOk("Incomplete")
<1>1. /\ f.bytes = HeaderBytes + f.length /\ f.length \in Nat
      /\ f.type # "BookSnapshot" => f.length = PayloadBytes[f.type]
      /\ f.type = "BookSnapshot" => /\ f.length = SnapshotBytes(f.payload)
                                    /\ f.length >= SnapshotHeaderBytes
  BY FrameFields
<1>2. peek_header(in).type = f.type /\ peek_header(in).length = f.length
  BY DEF peek_header
<1>3. CASE ~HasHeader(in)
  BY <1>1, <1>3 DEF HasHeader, decode_front, decode_snapshot, HeaderBytes
<1>4. CASE HasHeader(in) /\ f.type = "BookSnapshot"
  <2>1. decode_front(in) = decode_snapshot(in)
    BY <1>2, <1>4 DEF decode_front
  <2>2. decode_snapshot(in) =
          IF in.size < HeaderBytes + f.length THEN NotOk("Incomplete")
          ELSE Ok(in, HeaderBytes + f.length)
    BY <1>1, <1>2, <1>4 DEF decode_snapshot, SnapshotHeaderBytes
  <2> QED
    BY <1>1, <2>1, <2>2 DEF HeaderBytes
<1>5. CASE HasHeader(in) /\ f.type # "BookSnapshot"
  <2>1. decode_front(in) = decode(in, f.type)
    BY <1>2, <1>5 DEF decode_front
  <2>2. decode(in, f.type) =
          IF in.size < HeaderBytes + f.length THEN NotOk("Incomplete")
          ELSE Ok(in, HeaderBytes + f.length)
    BY <1>1, <1>2, <1>5 DEF decode
  <2> QED
    BY <1>1, <2>1, <2>2 DEF HeaderBytes
<1> QED
  BY <1>3, <1>4, <1>5

\* The subscriber reads the payload of the first frame.
LEMMA IncomingIs ==
  ASSUME FeedTypeOK, sink # << >>
  PROVE  /\ sink[1] \in MessageFrame
         /\ Incoming = sink[1].payload
<1>1. sink[1] \in MessageFrame /\ Head(sink) = sink[1]
  BY DEF FeedTypeOK
<1> DEFINE in == Buffer(sink, sink[1].bytes)
<1>2. /\ Head(in.frames) = sink[1] /\ in.size = sink[1].bytes /\ in.size \in Nat
  BY <1>1, FrameFields DEF Buffer, HeaderBytes
<1>3. Incoming = decode_front(in).payload
  BY <1>1 DEF Incoming
<1> HIDE DEF in
<1>4. decode_front(in) = Ok(in, sink[1].bytes)
  BY <1>1, <1>2, DecodesFront
<1> QED
  BY <1>1, <1>2, <1>3, <1>4 DEF Ok

-----------------------------------------------------------------------------
(* Positions in the stream.                                                *)

\* A message that is written comes after all others.
LEMMA Written ==
  ASSUME FeedTypeOK, NEW f \in MessageFrame, sink' = sink \o <<f>>
  PROVE  /\ sink' \in Seq(MessageFrame)
         /\ Len(sink) \in Nat /\ Len(sink') = Len(sink) + 1
         /\ DOMAIN sink = 1 .. Len(sink) /\ DOMAIN sink' = 1 .. Len(sink) + 1
         /\ \A k \in DOMAIN sink : sink'[k] = sink[k] /\ sink[k] \in MessageFrame
         /\ sink'[Len(sink) + 1] = f
  BY DEF FeedTypeOK

\* When one is taken from the front, the others move up.
LEMMA Taken ==
  ASSUME FeedTypeOK, sink # << >>, sink' = Tail(sink)
  PROVE  /\ sink' \in Seq(MessageFrame)
         /\ Len(sink) \in Nat \ {0} /\ Len(sink') = Len(sink) - 1
         /\ DOMAIN sink = 1 .. Len(sink) /\ DOMAIN sink' = 1 .. Len(sink) - 1
         /\ \A k \in DOMAIN sink' : sink'[k] = sink[k + 1]
         /\ \A k \in DOMAIN sink : sink[k] \in MessageFrame
  BY DEF FeedTypeOK

\* A numbered message carries the number that was expected, so what is
\* expected at an earlier position is not changed by writing one.
LEMMA NumberAfterWrite ==
  ASSUME FeedTypeOK, NEW f \in MessageFrame, sink' = sink \o <<f>>,
         f.type = "ExecutionReport" => next_sequence' = next_sequence,
         f.type # "ExecutionReport" => /\ f.payload.sequence = next_sequence
                                       /\ next_sequence' = next_sequence + 1,
         NEW k \in 0 .. Len(sink), NEW n
  PROVE  NumberAfter(k, n)' <=> NumberAfter(k, n)
<1> DEFINE later == {j \in Numbered : j > k}
           laterNow == {j \in Numbered' : j > k}
<1>1. /\ Len(sink) \in Nat
      /\ DOMAIN sink = 1 .. Len(sink) /\ DOMAIN sink' = 1 .. Len(sink) + 1
      /\ \A j \in DOMAIN sink : sink'[j] = sink[j]
      /\ sink'[Len(sink) + 1] = f
  BY Written
<1>2. CASE f.type = "ExecutionReport"
  <2>1. later = laterNow /\ \A j \in later : sink'[j] = sink[j]
    BY <1>1, <1>2 DEF Numbered
  <2> QED
    BY Zenon, <1>2, <2>1 DEF NumberAfter
<1>3. CASE f.type # "ExecutionReport"
  <2>1. /\ laterNow = later \cup {Len(sink) + 1}
        /\ \A j \in later : sink'[j] = sink[j] /\ j < Len(sink) + 1 /\ j \in Nat
    BY <1>1, <1>3 DEF Numbered
  <2>2. NumberAfter(k, n) <=>
          \/ later = {} /\ n = next_sequence
          \/ \E j \in later : (\A i \in later : j <= i) /\ n = sink[j].payload.sequence
    BY DEF NumberAfter
  <2>3. NumberAfter(k, n)' <=>
          \E j \in laterNow : (\A i \in laterNow : j <= i) /\ n = sink'[j].payload.sequence
    BY <2>1 DEF NumberAfter
  <2> HIDE DEF later, laterNow
  <2>4. CASE later = {}
    BY <1>1, <1>3, <2>1, <2>2, <2>3, <2>4
  <2>5. CASE later # {}
    <3>1. ASSUME NEW j \in laterNow, \A i \in laterNow : j <= i
          PROVE  j \in later /\ \A i \in later : j <= i
      BY <1>1, <2>1, <2>5, <3>1
    <3>2. ASSUME NEW j \in later, \A i \in later : j <= i
          PROVE  j \in laterNow /\ \A i \in laterNow : j <= i
      BY <1>1, <2>1, <3>2
    <3> QED
      BY Zenon, <2>1, <2>2, <2>3, <2>5, <3>1, <3>2
  <2> QED
    BY <2>4, <2>5
<1> QED
  BY <1>2, <1>3

LEMMA NumberAfterTake ==
  ASSUME FeedTypeOK, sink # << >>, sink' = Tail(sink), next_sequence' = next_sequence,
         NEW k \in 0 .. Len(sink) - 1, NEW n
  PROVE  NumberAfter(k, n)' <=> NumberAfter(k + 1, n)
<1> DEFINE later == {j \in Numbered : j > k + 1}
           laterNow == {j \in Numbered' : j > k}
<1>1. /\ Len(sink) \in Nat \ {0}
      /\ DOMAIN sink = 1 .. Len(sink) /\ DOMAIN sink' = 1 .. Len(sink) - 1
      /\ \A j \in DOMAIN sink' : sink'[j] = sink[j + 1]
  BY Taken
<1>2. /\ \A j \in laterNow : j \in Nat /\ j + 1 \in later /\ sink'[j] = sink[j + 1]
      /\ \A j \in later : j \in Nat /\ j - 1 \in laterNow /\ sink'[j - 1] = sink[j]
  BY <1>1 DEF Numbered
<1>3. NumberAfter(k + 1, n) <=>
        \/ later = {} /\ n = next_sequence
        \/ \E j \in later : (\A i \in later : j <= i) /\ n = sink[j].payload.sequence
  BY DEF NumberAfter
<1>4. NumberAfter(k, n)' <=>
        \/ laterNow = {} /\ n = next_sequence
        \/ \E j \in laterNow : (\A i \in laterNow : j <= i) /\ n = sink'[j].payload.sequence
  BY DEF NumberAfter
<1> HIDE DEF later, laterNow
<1>5. laterNow = {} <=> later = {}
  BY <1>2
<1>6. ASSUME NEW j \in later, \A i \in later : j <= i
      PROVE  j - 1 \in laterNow /\ \A i \in laterNow : j - 1 <= i
  BY <1>2, <1>6
<1>7. ASSUME NEW j \in laterNow, \A i \in laterNow : j <= i
      PROVE  j + 1 \in later /\ \A i \in later : j + 1 <= i
  BY <1>2, <1>7
<1> QED
  BY ZenonT(30), <1>2, <1>3, <1>4, <1>5, <1>6, <1>7

\* What the first message of the stream says of the number expected.
LEMMA FirstNumber ==
  ASSUME FeedTypeOK, sink # << >>, NEW n
  PROVE  IF sink[1].type = "ExecutionReport"
         THEN NumberAfter(0, n) <=> NumberAfter(1, n)
         ELSE NumberAfter(0, n) <=> n = sink[1].payload.sequence
<1>1. /\ Len(sink) \in Nat \ {0} /\ DOMAIN sink = 1 .. Len(sink)
  BY DEF FeedTypeOK
<1>2. CASE sink[1].type = "ExecutionReport"
  <2>1. {j \in Numbered : j > 0} = {j \in Numbered : j > 1}
    BY <1>1, <1>2 DEF Numbered
  <2> QED
    BY <1>2, <2>1 DEF NumberAfter
<1>3. CASE sink[1].type # "ExecutionReport"
  <2>1. 1 \in {j \in Numbered : j > 0} /\ \A j \in {j \in Numbered : j > 0} : j \in Nat /\ 1 <= j
    BY <1>1, <1>3 DEF Numbered
  <2> QED
    BY <1>3, <2>1 DEF NumberAfter
<1> QED
  BY <1>2, <1>3

\* One number at most is expected at a position.
LEMMA NumberAfterUnique ==
  ASSUME FeedTypeOK, NEW k \in Nat, NEW n, NEW m, NumberAfter(k, n), NumberAfter(k, m)
  PROVE  n = m
<1> DEFINE later == {j \in Numbered : j > k}
<1>1. \A j \in later : j \in Nat
  BY DEF Numbered, FeedTypeOK
<1>2. \A x : NumberAfter(k, x) =>
        \/ later = {} /\ x = next_sequence
        \/ \E j \in later : (\A i \in later : j <= i) /\ x = sink[j].payload.sequence
  BY DEF NumberAfter
<1> HIDE DEF later
<1>3. \A i, j \in later : i <= j /\ j <= i => i = j
  BY <1>1
<1> QED
  BY <1>2, <1>3

-----------------------------------------------------------------------------
(* The publisher.                                                          *)

\* A nonempty set of natural numbers has a least element.
LEMMA LeastNatural ==
  ASSUME NEW T \in SUBSET Nat, T # {}
  PROVE  \E x \in T : \A y \in T : x <= y
<1> DEFINE R == {ss \in Nat \X Nat : ss[1] < ss[2]}
<1>1. IsWellFoundedOn(R, Nat)
  BY NatLessThanWellFounded DEF OpToRel
<1>2. \A x, y \in Nat : y < x => <<y, x>> \in R
  OBVIOUS
<1> HIDE DEF R
<1>3. PICK x \in T : \A y \in T : ~(<<y, x>> \in R)
  BY <1>1, WFMin, Zenon
<1>4. ASSUME NEW y \in T PROVE x <= y
  <2>1. x \in Nat /\ y \in Nat /\ ~(<<y, x>> \in R)
    BY <1>3
  <2>2. ~(y < x)
    BY <1>2, <2>1
  <2> QED
    BY <2>1, <2>2
<1> QED
  BY <1>4

\* Of some levels of a side one is the best.
LEMMA BestOfSome ==
  ASSUME NEW s \in Sides, NEW T \in SUBSET Indices, T # {}
  PROVE  \E i \in T : \A j \in T : ~Better(s, j, i)
<1> DEFINE d(i) == IF s = "Buy" THEN NumLevels - 1 - i ELSE i
           D == {d(i) : i \in T}
<1>1. \A i \in T : i \in Nat /\ d(i) \in Nat
  BY FeedAssumption DEF Indices
<1>2. D \in SUBSET Nat /\ D # {}
  BY <1>1
<1>3. PICK x \in D : \A y \in D : x <= y
  <2> HIDE DEF D
  <2> QED
    BY <1>2, LeastNatural
<1>4. PICK i \in T : x = d(i)
  BY <1>3
<1>5. \A j \in T : d(i) <= d(j)
  BY <1>3, <1>4
<1>6. ASSUME NEW j \in T PROVE ~Better(s, j, i)
  BY <1>1, <1>5, FeedAssumption DEF Better
<1> QED
  BY <1>6

\* A snapshot tells each level as it is that is as good as one of its records:
\* a level that it left out is empty or worse than all of them.
LEMMA CollectTells ==
  ASSUME FeedTypeOK, NEW s \in Sides, NEW depth \in Depths
  PROVE  /\ collect(s, depth) \in SideRecords
         /\ \A i \in KnownFrom(s, collect(s, depth)) :
              ViewOf(collect(s, depth))[i] = levels[s][i]
<1> DEFINE occupied == {i \in Indices : levels[s][i].order_count > 0}
           ahead(i) == {j \in occupied : Better(s, j, i)}
           top == {i \in occupied : Cardinality(ahead(i)) < Max({depth, 1})}
<1>1. collect(s, depth) = [i \in top |-> levels[s][i]]
  BY DEF collect
<1>2. \A i \in Indices : levels[s][i] \in LevelStates /\ i \in Nat
  <2>1. \A i \in Indices : i \in Nat
    BY FeedAssumption DEF Indices
  <2> QED
    BY <2>1 DEF FeedTypeOK, View
<1>3. top \in SUBSET Indices /\ occupied \in SUBSET Indices
  OBVIOUS
<1>4. collect(s, depth) \in SideRecords
  <2> HIDE DEF top
  <2>1. collect(s, depth) \in [top -> LevelStates]
    BY <1>1, <1>2, <1>3
  <2> QED
    BY <1>3, <2>1 DEF SideRecords
<1>5. Max({depth, 1}) \in Nat /\ Max({depth, 1}) >= 1
  <2>1. depth \in Nat
    BY FeedAssumption
  <2> QED
    BY <2>1 DEF Max
<1>6. \A i \in occupied : IsFiniteSet(ahead(i)) /\ Cardinality(ahead(i)) \in Nat
  <2>1. IsFiniteSet(Indices)
    BY FeedAssumption, FS_Interval DEF Indices
  <2>2. \A i \in occupied : IsFiniteSet(ahead(i))
    BY <1>3, <2>1, FS_Subset
  <2> QED
    BY <2>2, FS_CardinalityType
<1>7. ASSUME NEW i \in occupied, NEW j \in top, ~Better(s, j, i)
      PROVE  i \in top
  <2>1. ahead(i) \subseteq ahead(j)
    BY <1>2, <1>7 DEF Better
  <2>2. Cardinality(ahead(i)) <= Cardinality(ahead(j))
    BY <1>6, <2>1, FS_Subset
  <2>3. /\ Cardinality(ahead(j)) < Max({depth, 1}) /\ Cardinality(ahead(i)) \in Nat
        /\ Cardinality(ahead(j)) \in Nat
    BY <1>6
  <2> HIDE DEF ahead
  <2>4. Cardinality(ahead(i)) < Max({depth, 1})
    BY <1>5, <2>2, <2>3
  <2> QED
    BY <2>4
<1>8. ASSUME occupied # {} PROVE top # {}
  <2>1. PICK i \in occupied : \A j \in occupied : ~Better(s, j, i)
    BY <1>3, <1>8, BestOfSome, Zenon
  <2>2. ahead(i) = {}
    BY <2>1
  <2>3. Cardinality(ahead(i)) = 0
    BY <2>2, FS_EmptySet
  <2> QED
    BY <1>5, <2>3
<1>9. ASSUME NEW i \in KnownFrom(s, collect(s, depth))
      PROVE  ViewOf(collect(s, depth))[i] = levels[s][i]
  <2>1. i \in Indices /\ (top # {} => \E j \in top : ~Better(s, j, i))
    BY Zenon, <1>1 DEF KnownFrom
  <2>2. CASE i \in top
    BY <1>1, <2>1, <2>2 DEF ViewOf
  <2>3. CASE i \notin top
    <3>1. i \notin occupied
      BY Zenon, <1>7, <1>8, <2>1, <2>3
    <3>2. levels[s][i] = NoLevel
      BY <1>2, <2>1, <3>1, FeedAssumption
    <3> QED
      BY <1>1, <2>1, <2>3, <3>2 DEF ViewOf
  <2> QED
    BY <2>2, <2>3
<1> QED
  BY <1>4, <1>9

\* Writing a message preserves the invariant when it has the next number, if
\* any, a delta says what became of its level and a snapshot tells the truth.
LEMMA WriteKeepsInv ==
  ASSUME FeedInv, NEW f \in MessageFrame, sink' = sink \o <<f>>,
         sub' = sub, missed' = missed,
         scratch' \in Nat /\ scratch' >= InitialScratch,
         f.type = "ExecutionReport" => next_sequence' = next_sequence,
         f.type # "ExecutionReport" => /\ f.payload.sequence = next_sequence
                                       /\ next_sequence' = next_sequence + 1,
         levels' \in View,
         \A s \in Sides, i \in Indices :
           levels'[s][i] =
             IF f.type = "BookDelta" /\ f.payload.side = s /\ f.payload.index = i
             THEN f.payload.level ELSE levels[s][i],
         f.type = "BookSnapshot" =>
           \A s \in Sides : \A i \in KnownFrom(s, Records(f.payload, s)) :
             ViewOf(Records(f.payload, s))[i] = levels[s][i]
  PROVE  FeedInv'
<1>0. PICK last : last = Len(sink) + 1
  OBVIOUS
<1> DEFINE About(s, i) == f.type = "BookDelta" /\ f.payload.side = s /\ f.payload.index = i
<1>1. /\ FeedTypeOK /\ NumbersAreConsecutive /\ DeltasCurrent /\ SnapshotsCurrent
      /\ SubscriberCurrent /\ ExpectsNext
  BY DEF FeedInv
<1>2. /\ sink' \in Seq(MessageFrame)
      /\ last \in Nat
      /\ DOMAIN sink = 1 .. Len(sink) /\ Len(sink) \in Nat
      /\ \A k \in DOMAIN sink' : k \in DOMAIN sink \/ k = last
      /\ \A k \in DOMAIN sink : k \in DOMAIN sink' /\ sink'[k] = sink[k] /\ k < last /\ k \in Nat
      /\ last \in DOMAIN sink' /\ sink'[last] = f
  <2>1. /\ sink' \in Seq(MessageFrame)
        /\ Len(sink) \in Nat /\ Len(sink') = Len(sink) + 1
        /\ DOMAIN sink = 1 .. Len(sink) /\ DOMAIN sink' = 1 .. Len(sink) + 1
        /\ \A k \in DOMAIN sink : sink'[k] = sink[k] /\ sink[k] \in MessageFrame
        /\ sink'[Len(sink) + 1] = f
    BY <1>1, Written
  <2> QED
    BY <1>0, <2>1
<1>3. FeedTypeOK'
  <2>1. next_sequence' \in Nat
    BY <1>1 DEF FeedTypeOK
  <2> QED
    BY <1>1, <1>2, <2>1 DEF FeedTypeOK
<1>4. \A k \in 0 .. Len(sink) : \A n : NumberAfter(k, n)' <=> NumberAfter(k, n)
  BY <1>1, NumberAfterWrite
<1>5. NumbersAreConsecutive'
  <2> SUFFICES ASSUME NEW k \in DOMAIN sink', sink'[k].type # "ExecutionReport"
               PROVE  NumberAfter(k, sink[k].payload.sequence + 1)'
    BY DEF NumbersAreConsecutive, Numbered
  <2>1. CASE k \in DOMAIN sink
    <3>1. /\ k \in 0 .. Len(sink) /\ sink'[k] = sink[k]
          /\ NumberAfter(k, sink[k].payload.sequence + 1)
      BY <1>1, <1>2, <2>1 DEF NumbersAreConsecutive, Numbered
    <3>2. PICK n : n = sink[k].payload.sequence + 1
      OBVIOUS
    <3>3. NumberAfter(k, n)'
      BY <1>4, <3>1, <3>2
    <3> QED
      BY Zenon, <3>1, <3>2, <3>3 DEF NumberAfter
  <2>2. CASE k = last
    <3>1. /\ sink'[k].payload.sequence + 1 = next_sequence'
          /\ \A j \in Numbered' : ~(j > k)
      BY <1>2, <2>2 DEF Numbered
    <3> QED
      BY <3>1 DEF NumberAfter
  <2> QED
    BY <1>2, <2>1, <2>2
<1>6. \A k \in DOMAIN sink, s \in Sides, i \in Indices : Touches(k, s, i)' <=> Touches(k, s, i)
  BY <1>2 DEF Touches
<1>7. \A s \in Sides, i \in Indices : Touches(last, s, i)' <=> About(s, i)
  BY <1>2 DEF Touches
<1>8. ASSUME NEW k \in 0 .. Len(sink), NEW s \in Sides, NEW i \in Indices, UntouchedAfter(k, s, i)'
      PROVE  UntouchedAfter(k, s, i) /\ levels'[s][i] = levels[s][i]
  <2>1. \A j \in DOMAIN sink' : j > k => ~Touches(j, s, i)'
    BY <1>8 DEF UntouchedAfter
  <2>2. ~About(s, i)
    BY <1>2, <1>7, <2>1
  <2>3. UntouchedAfter(k, s, i)
    BY <1>2, <1>6, <2>1 DEF UntouchedAfter
  <2> QED
    BY <2>2, <2>3
<1>9. DeltasCurrent'
  <2> SUFFICES ASSUME NEW k \in DOMAIN sink', NEW s \in Sides, NEW i \in Indices,
                      Touches(k, s, i)', UntouchedAfter(k, s, i)'
               PROVE  sink'[k].payload.level = levels'[s][i]
    BY DEF DeltasCurrent
  <2>1. CASE k \in DOMAIN sink
    <3>1. k \in 0 .. Len(sink) /\ sink'[k] = sink[k]
      BY <1>2, <2>1
    <3>2. UntouchedAfter(k, s, i) /\ levels'[s][i] = levels[s][i]
      BY <1>8, <3>1, ZenonT(30)
    <3>3. Touches(k, s, i)
      BY <1>6, <2>1, ZenonT(30)
    <3>4. sink[k].payload.level = levels[s][i]
      BY <1>1, <2>1, <3>2, <3>3, ZenonT(30) DEF DeltasCurrent
    <3> QED
      BY <3>1, <3>2, <3>4, ZenonT(30)
  <2>2. CASE k = last
    BY <1>2, <1>7, <2>2
  <2> QED
    BY <1>2, <2>1, <2>2
<1>10. SnapshotsCurrent'
  <2> SUFFICES ASSUME NEW k \in DOMAIN sink', sink'[k].type = "BookSnapshot",
                      NEW s \in Sides, NEW i \in KnownFrom(s, Records(sink'[k].payload, s)),
                      UntouchedAfter(k, s, i)'
               PROVE  ViewOf(Records(sink'[k].payload, s))[i] = levels'[s][i]
    BY DEF SnapshotsCurrent, KnownFrom, ViewOf, Records
  <2>0. i \in Indices
    BY DEF KnownFrom
  <2>1. CASE k \in DOMAIN sink
    <3>1. k \in 0 .. Len(sink) /\ sink'[k] = sink[k]
      BY <1>2, <2>1
    <3>2. UntouchedAfter(k, s, i) /\ levels'[s][i] = levels[s][i]
      BY <1>8, <2>0, <3>1, ZenonT(30)
    <3>3. sink[k].type = "BookSnapshot" /\ i \in KnownFrom(s, Records(sink[k].payload, s))
      BY <3>1, ZenonT(30)
    <3>4. ViewOf(Records(sink[k].payload, s))[i] = levels[s][i]
      BY <1>1, <2>1, <3>2, <3>3, ZenonT(30) DEF SnapshotsCurrent
    <3> QED
      BY <3>1, <3>2, <3>4, ZenonT(30)
  <2>2. CASE k = last
    <3>1. sink'[k] = f /\ f.type = "BookSnapshot" /\ levels'[s][i] = levels[s][i]
      BY <1>2, <2>0, <2>2
    <3>2. i \in KnownFrom(s, Records(f.payload, s))
      BY <3>1
    <3> QED
      BY <3>1, <3>2
  <2> QED
    BY <1>2, <2>1, <2>2
<1>11. SubscriberCurrent'
  <2> SUFFICES ASSUME sub.phase = "synced", ~missed,
                      NEW s \in Sides, NEW i \in sub.known[s], UntouchedAfter(0, s, i)'
               PROVE  sub.view[s][i] = levels'[s][i]
    BY DEF SubscriberCurrent
  <2>1. i \in Indices /\ 0 \in 0 .. Len(sink)
    BY <1>1, <1>2 DEF FeedTypeOK
  <2>2. UntouchedAfter(0, s, i) /\ levels'[s][i] = levels[s][i]
    BY <1>8, <2>1
  <2> QED
    BY <1>1, <2>2 DEF SubscriberCurrent
<1>12. ExpectsNext'
  <2>1. \A n : NumberAfter(0, n)' <=> NumberAfter(0, n)
    BY <1>2, <1>4
  <2>2. NumberAfter(0, sub.expected)' <=> NumberAfter(0, sub.expected)
    <3>1. PICK n : n = sub.expected
      OBVIOUS
    <3>2. NumberAfter(0, n)' <=> NumberAfter(0, n)
      BY <2>1
    <3> QED
      BY Zenon, <3>1, <3>2 DEF NumberAfter
  <2> QED
    BY <1>1, <2>1, <2>2 DEF ExpectsNext
<1> QED
  BY <1>3, <1>5, <1>9, <1>10, <1>11, <1>12 DEF FeedInv

\* The length field holds every length up to its maximum.
LEMMA LengthHeld ==
  ASSUME NEW n \in Nat, n <= MaxLength
  PROVE  n % (MaxLength + 1) = n
<1>1. MaxLength \in Nat
  BY FeedAssumption
<1> QED
  BY <1>1

\* What the publisher encodes with a fixed size is a message on the wire.
LEMMA FixedSizeFrame ==
  ASSUME NEW type \in {"Trade", "ExecutionReport", "BookDelta"},
         NEW payload \in Message, payload.kind = type,
         type = "BookDelta" => (payload.action = "Delete" <=> payload.level.order_count = 0),
         NEW room \in Nat, room >= HeaderBytes + PayloadBytes[type]
  PROVE  \E f \in MessageFrame : /\ encode(room, type, payload) = <<f>>
                                 /\ f.type = type /\ f.payload = payload
<1> DEFINE f == Frame(type, PayloadBytes[type], payload)
<1>1. PayloadBytes[type] \in Nat /\ type \in DOMAIN PayloadBytes
  BY DEF PayloadBytes
<1>2. f = [type |-> type, length |-> PayloadBytes[type],
           bytes |-> HeaderBytes + PayloadBytes[type], payload |-> payload]
  BY <1>1, FeedAssumption, LengthHeld DEF Frame
<1>3. encode(room, type, payload) = <<f>>
  BY <1>1 DEF encode, HeaderBytes
<1>4. f \in MessageFrame
  <2>1. HeaderBytes + PayloadBytes[type] \in Nat
    BY <1>1 DEF HeaderBytes
  <2>2. WellFramed(f)
    BY <1>2 DEF WellFramed
  <2> QED
    BY <1>1, <1>2, <2>1, <2>2 DEF MessageFrame
<1> QED
  BY <1>2, <1>3, <1>4

\* So is a snapshot that is encoded at all.
LEMMA SnapshotFrame ==
  ASSUME NEW snapshot \in Message, snapshot.kind = "BookSnapshot",
         NEW room \in Nat, encode_snapshot(room, snapshot) # << >>
  PROVE  \E f \in MessageFrame : /\ encode_snapshot(room, snapshot) = <<f>>
                                 /\ f.type = "BookSnapshot" /\ f.payload = snapshot
<1> DEFINE n == SnapshotBytes(snapshot)
           f == Frame("BookSnapshot", n, snapshot)
<1>1. snapshot.bids \in SideRecords /\ snapshot.asks \in SideRecords
  BY DEF Message
<1>2. n \in Nat
  <2>1. NumRecords(snapshot.bids) \in Nat /\ NumRecords(snapshot.asks) \in Nat
    BY <1>1, RecordsCounted
  <2> QED
    BY <2>1 DEF SnapshotBytes, SnapshotHeaderBytes, LevelRecordBytes
<1>3. encode_snapshot(room, snapshot) = <<f>> /\ ~(n > MaxLength)
  BY DEF encode_snapshot
<1> HIDE DEF n
<1>4. n <= MaxLength
  BY <1>2, <1>3, FeedAssumption
<1>5. f = [type |-> "BookSnapshot", length |-> n, bytes |-> HeaderBytes + n, payload |-> snapshot]
  BY <1>2, <1>4, LengthHeld DEF Frame
<1>6. f \in MessageFrame
  <2>1. HeaderBytes + n \in Nat
    BY <1>2 DEF HeaderBytes
  <2>2. WellFramed(f)
    BY <1>5 DEF WellFramed, n
  <2> QED
    BY <1>2, <1>5, <2>1, <2>2 DEF MessageFrame
<1> QED
  BY <1>3, <1>5, <1>6

\* Publishing a trade, a report or a change of a level.
LEMMA TradeKeepsInv ==
  ASSUME FeedInv, publish_trade
  PROVE  FeedInv'
<1> DEFINE m == [kind |-> "Trade", sequence |-> next_sequence]
<1>1. FeedTypeOK
  BY DEF FeedInv
<1>2. m \in Message /\ m.kind = "Trade" /\ m.sequence = next_sequence
  BY <1>1 DEF FeedTypeOK, Message
<1>3. 64 >= HeaderBytes + PayloadBytes["Trade"]
  BY DEF HeaderBytes, PayloadBytes
<1> HIDE DEF m
<1>4. PICK f \in MessageFrame : /\ encode(64, "Trade", m) = <<f>>
                                /\ f.type = "Trade" /\ f.payload = m
  BY <1>2, <1>3, FixedSizeFrame
<1>5. /\ sink' = sink \o <<f>> /\ sub' = sub /\ missed' = missed
      /\ scratch' = scratch /\ levels' = levels /\ next_sequence' = next_sequence + 1
  BY Zenon, <1>4 DEF publish_trade, write, m
<1>6. scratch' \in Nat /\ scratch' >= InitialScratch /\ levels' \in View
  BY <1>1, <1>5 DEF FeedTypeOK
<1> QED
  BY <1>2, <1>4, <1>5, <1>6, WriteKeepsInv

LEMMA ReportKeepsInv ==
  ASSUME FeedInv, publish_execution_report
  PROVE  FeedInv'
<1> DEFINE m == [kind |-> "ExecutionReport"]
<1>1. FeedTypeOK
  BY DEF FeedInv
<1>2. m \in Message /\ m.kind = "ExecutionReport"
  BY DEF Message
<1>3. 128 >= HeaderBytes + PayloadBytes["ExecutionReport"]
  BY DEF HeaderBytes, PayloadBytes
<1> HIDE DEF m
<1>4. PICK f \in MessageFrame : /\ encode(128, "ExecutionReport", m) = <<f>>
                                /\ f.type = "ExecutionReport" /\ f.payload = m
  BY <1>2, <1>3, FixedSizeFrame
<1>5. /\ sink' = sink \o <<f>> /\ sub' = sub /\ missed' = missed
      /\ scratch' = scratch /\ levels' = levels /\ next_sequence' = next_sequence
  BY Zenon, <1>4 DEF publish_execution_report, write, m
<1>6. scratch' \in Nat /\ scratch' >= InitialScratch /\ levels' \in View
  BY <1>1, <1>5 DEF FeedTypeOK
<1> QED
  BY <1>2, <1>4, <1>5, <1>6, WriteKeepsInv

LEMMA LevelUpdateKeepsInv ==
  ASSUME FeedInv, NEW s \in Sides, NEW i \in Indices, NEW lvl \in LevelStates,
         publish_level_update(s, i, lvl)
  PROVE  FeedInv'
<1> DEFINE m == [kind |-> "BookDelta", sequence |-> next_sequence, side |-> s,
                 index |-> i, level |-> lvl, action |-> delta_action(lvl)]
<1>1. FeedTypeOK
  BY DEF FeedInv
<1>2. /\ delta_action(lvl) \in {"Delete", "Update"}
      /\ delta_action(lvl) = "Delete" <=> lvl.order_count = 0
  BY DEF delta_action
<1>3. /\ m \in Message /\ m.kind = "BookDelta" /\ m.sequence = next_sequence
      /\ m.side = s /\ m.index = i /\ m.level = lvl
      /\ m.action = "Delete" <=> m.level.order_count = 0
  BY <1>1, <1>2 DEF FeedTypeOK, Message
<1>4. 64 >= HeaderBytes + PayloadBytes["BookDelta"]
  BY DEF HeaderBytes, PayloadBytes
<1> HIDE DEF m
<1>5. PICK f \in MessageFrame : /\ encode(64, "BookDelta", m) = <<f>>
                                /\ f.type = "BookDelta" /\ f.payload = m
  BY <1>3, <1>4, FixedSizeFrame
<1>6. /\ sink' = sink \o <<f>> /\ sub' = sub /\ missed' = missed
      /\ scratch' = scratch /\ levels' = [levels EXCEPT ![s][i] = lvl]
      /\ next_sequence' = next_sequence + 1
  BY Zenon, <1>5 DEF publish_level_update, write, m
<1>7. scratch' \in Nat /\ scratch' >= InitialScratch /\ levels' \in View
  BY <1>1, <1>6 DEF FeedTypeOK, View
<1>8. \A t \in Sides, j \in Indices :
        levels'[t][j] = IF f.type = "BookDelta" /\ f.payload.side = t /\ f.payload.index = j
                        THEN f.payload.level ELSE levels[t][j]
  BY <1>1, <1>3, <1>5, <1>6 DEF FeedTypeOK, View
<1> QED
  BY Zenon, <1>3, <1>5, <1>6, <1>7, <1>8, WriteKeepsInv

\* What the publisher puts into a snapshot is a message, and true of the book.
LEMMA SnapshotTells ==
  ASSUME FeedTypeOK, NEW depth \in Depths
  PROVE  /\ Snapshot(depth) \in Message
         /\ Snapshot(depth).kind = "BookSnapshot"
         /\ Snapshot(depth).sequence = next_sequence
         /\ SnapshotBytes(Snapshot(depth)) \in Nat
         /\ NumRecords(Snapshot(depth).bids) \in Nat
         /\ NumRecords(Snapshot(depth).asks) \in Nat
         /\ \A s \in Sides : \A i \in KnownFrom(s, Records(Snapshot(depth), s)) :
              ViewOf(Records(Snapshot(depth), s))[i] = levels[s][i]
<1> DEFINE b == collect("Buy", depth)
           a == collect("Sell", depth)
<1>1. "Buy" \in Sides /\ "Sell" \in Sides
  BY DEF Sides
<1>2. /\ b \in SideRecords /\ a \in SideRecords
      /\ \A i \in KnownFrom("Buy", b) : ViewOf(b)[i] = levels["Buy"][i]
      /\ \A i \in KnownFrom("Sell", a) : ViewOf(a)[i] = levels["Sell"][i]
  BY <1>1, CollectTells
<1>3. Snapshot(depth) = [kind |-> "BookSnapshot", sequence |-> next_sequence, bids |-> b, asks |-> a]
  BY DEF Snapshot
<1> HIDE DEF a, b
<1>4. NumRecords(b) \in Nat /\ NumRecords(a) \in Nat
  BY <1>2, RecordsCounted
<1>5. SnapshotBytes(Snapshot(depth)) \in Nat
  BY <1>3, <1>4 DEF SnapshotBytes, SnapshotHeaderBytes, LevelRecordBytes
<1>6. Snapshot(depth) \in Message
  BY <1>2, <1>3 DEF Message, FeedTypeOK
<1>7. Records(Snapshot(depth), "Buy") = b /\ Records(Snapshot(depth), "Sell") = a
  BY <1>3 DEF Records
<1>8. \A s \in Sides : s = "Buy" \/ s = "Sell"
  BY DEF Sides
<1>9. ASSUME NEW s \in Sides
      PROVE  \A i \in KnownFrom(s, Records(Snapshot(depth), s)) :
               ViewOf(Records(Snapshot(depth), s))[i] = levels[s][i]
  <2>1. CASE s = "Buy"
    BY <1>2, <1>7, <2>1, ZenonT(30)
  <2>2. CASE s = "Sell"
    BY <1>2, <1>7, <2>2, ZenonT(30)
  <2> QED
    BY <1>8, <2>1, <2>2, ZenonT(30)
<1>10. /\ Snapshot(depth).kind = "BookSnapshot" /\ Snapshot(depth).sequence = next_sequence
       /\ Snapshot(depth).bids = b /\ Snapshot(depth).asks = a
  BY <1>3
<1> QED
  BY <1>4, <1>5, <1>6, <1>9, <1>10, ZenonT(30)

\* The buffer only grows.
LEMMA ScratchGrows ==
  ASSUME FeedTypeOK, NEW a \in 0 .. 4
  PROVE  scratch_after(a) \in Nat /\ scratch_after(a) >= scratch
<1>1. a \in {0, 1, 2, 3, 4} /\ scratch \in Nat
  BY DEF FeedTypeOK
<1>2. scratch_after(a) \in {scratch, scratch * 2, scratch * 4, scratch * 8, scratch * 16}
  BY <1>1 DEF scratch_after
<1> QED
  BY <1>1, <1>2

\* After as many failures as the publisher counts the buffer has some size, and
\* what it writes is a frame with the snapshot.
LEMMA SnapshotWritten ==
  ASSUME FeedTypeOK, NEW depth \in Depths, publish_snapshot(depth)
  PROVE  /\ scratch' \in Nat /\ scratch' >= InitialScratch
         /\ IF Successes(Snapshot(depth)) = {}
            THEN sink' = sink /\ next_sequence' = next_sequence
            ELSE /\ next_sequence' = next_sequence + 1
                 /\ \E f \in MessageFrame : /\ sink' = sink \o <<f>>
                                            /\ f.type = "BookSnapshot"
                                            /\ f.payload = Snapshot(depth)
<1> DEFINE ok == Successes(Snapshot(depth))
           failures == IF ok = {} THEN Max(Attempts) + 1 ELSE Min(ok)
<1>1. /\ scratch' = scratch_after(failures)
      /\ IF ok = {} THEN sink' = sink ELSE sink' = sink \o encode_snapshot(scratch', Snapshot(depth))
      /\ next_sequence' = sequence_after(ok # {})
  BY DEF publish_snapshot, write
<1>2. ok \subseteq 0 .. 3 /\ Attempts = 0 .. 3
  BY DEF Successes, Attempts
<1>3. ok # {} => Min(ok) \in ok
  <2> SUFFICES ASSUME ok # {} PROVE Min(ok) \in ok
    OBVIOUS
  <2> HIDE DEF ok
  <2>1. ok \in SUBSET Nat
    BY <1>2
  <2>2. \E x \in ok : \A y \in ok : x <= y
    BY <2>1, LeastNatural
  <2> QED
    BY <2>2 DEF Min
<1>4. Max(Attempts) = 3
  <2>1. 3 \in 0 .. 3 /\ \A y \in 0 .. 3 : 3 >= y
    OBVIOUS
  <2>2. \A x \in 0 .. 3 : (\A y \in 0 .. 3 : x >= y) => x = 3
    OBVIOUS
  <2> QED
    BY <1>2, <2>1, <2>2 DEF Max
<1>5. failures \in 0 .. 4
  BY <1>2, <1>3, <1>4
<1>6. scratch' \in Nat /\ scratch' >= InitialScratch
  <2>1. scratch' \in Nat /\ scratch' >= scratch
    <3> HIDE DEF failures
    <3> QED
      BY <1>1, <1>5, ScratchGrows
  <2> QED
    BY <2>1, FeedAssumption DEF FeedTypeOK
<1>7. CASE ok = {}
  BY <1>1, <1>6, <1>7 DEF sequence_after
<1>8. CASE ok # {}
  <2>1. scratch' = scratch_after(Min(ok)) /\ Min(ok) \in ok
    BY <1>1, <1>3, <1>8
  <2>2. encode_snapshot(scratch', Snapshot(depth)) # << >>
    BY <2>1 DEF Successes
  <2>3. Snapshot(depth) \in Message /\ Snapshot(depth).kind = "BookSnapshot"
    BY SnapshotTells
  <2>4. PICK f \in MessageFrame : /\ encode_snapshot(scratch', Snapshot(depth)) = <<f>>
                                  /\ f.type = "BookSnapshot" /\ f.payload = Snapshot(depth)
    BY <1>6, <2>2, <2>3, SnapshotFrame
  <2> QED
    BY Zenon, <1>1, <1>6, <1>8, <2>4 DEF sequence_after
<1> QED
  BY Zenon, <1>7, <1>8

LEMMA SnapshotKeepsInv ==
  ASSUME FeedInv, NEW depth \in Depths, publish_snapshot(depth)
  PROVE  FeedInv'
<1>1. FeedTypeOK
  BY DEF FeedInv
<1>2. levels' = levels /\ sub' = sub /\ missed' = missed
  BY DEF publish_snapshot
<1>3. scratch' \in Nat /\ scratch' >= InitialScratch
  BY <1>1, SnapshotWritten
<1>4. CASE Successes(Snapshot(depth)) = {}
  <2>1. sink' = sink /\ next_sequence' = next_sequence
    BY <1>1, <1>4, SnapshotWritten
  <2>2. FeedTypeOK'
    BY <1>1, <1>2, <1>3, <2>1 DEF FeedTypeOK
  <2>3. NumbersAreConsecutive' /\ ExpectsNext'
    BY <1>2, <2>1 DEF FeedInv, NumbersAreConsecutive, ExpectsNext, NumberAfter, Numbered
  <2>4. DeltasCurrent' /\ SnapshotsCurrent' /\ SubscriberCurrent'
    BY <1>2, <2>1 DEF FeedInv, DeltasCurrent, SnapshotsCurrent, SubscriberCurrent,
                      UntouchedAfter, Touches
  <2> QED
    BY <2>2, <2>3, <2>4 DEF FeedInv
<1>5. CASE Successes(Snapshot(depth)) # {}
  <2>1. next_sequence' = next_sequence + 1
    BY <1>1, <1>5, SnapshotWritten
  <2>2. PICK f \in MessageFrame : /\ sink' = sink \o <<f>>
                                  /\ f.type = "BookSnapshot" /\ f.payload = Snapshot(depth)
    BY Zenon, <1>1, <1>5, SnapshotWritten
  <2>3. f.payload.sequence = next_sequence /\ levels' \in View
    BY <1>1, <1>2, <2>2, SnapshotTells DEF FeedTypeOK
  <2>4. \A s \in Sides : \A i \in KnownFrom(s, Records(f.payload, s)) :
          ViewOf(Records(f.payload, s))[i] = levels[s][i]
    BY <1>1, <2>2, SnapshotTells
  <2> QED
    BY <1>2, <1>3, <2>1, <2>2, <2>3, <2>4, WriteKeepsInv
<1> QED
  BY <1>4, <1>5

-----------------------------------------------------------------------------
(* Reading from the stream and losing from it.                             *)

\* When the first message is taken, what lay after position k + 1 lies after
\* position k.
LEMMA UntouchedAfterTake ==
  ASSUME FeedTypeOK, sink # << >>, sink' = Tail(sink), NEW s \in Sides, NEW i \in Indices
  PROVE  /\ \A k \in DOMAIN sink' : Touches(k, s, i)' <=> Touches(k + 1, s, i)
         /\ \A k \in Nat : UntouchedAfter(k, s, i)' => UntouchedAfter(k + 1, s, i)
         /\ UntouchedAfter(1, s, i) /\ ~Touches(1, s, i) => UntouchedAfter(0, s, i)
<1>1. /\ Len(sink) \in Nat \ {0}
      /\ DOMAIN sink = 1 .. Len(sink) /\ DOMAIN sink' = 1 .. Len(sink) - 1
      /\ \A k \in DOMAIN sink' : sink'[k] = sink[k + 1]
  BY Taken
<1>2. \A k \in DOMAIN sink' : Touches(k, s, i)' <=> Touches(k + 1, s, i)
  BY <1>1 DEF Touches
<1>3. ASSUME NEW k \in Nat, UntouchedAfter(k, s, i)'
      PROVE  UntouchedAfter(k + 1, s, i)
  <2> SUFFICES ASSUME NEW j \in DOMAIN sink, j > k + 1
               PROVE  ~Touches(j, s, i)
    BY DEF UntouchedAfter
  <2>1. j - 1 \in DOMAIN sink' /\ j - 1 > k /\ (j - 1) + 1 = j
    BY <1>1
  <2>2. PICK h : h = j - 1
    OBVIOUS
  <2>3. h \in DOMAIN sink' /\ h > k /\ h + 1 = j
    BY <2>1, <2>2
  <2>4. ~Touches(h, s, i)'
    BY <1>3, <2>3 DEF UntouchedAfter
  <2>5. ~Touches(h + 1, s, i)
    BY <1>2, <2>3, <2>4
  <2> QED
    BY <2>3, <2>5
<1>4. UntouchedAfter(1, s, i) /\ ~Touches(1, s, i) => UntouchedAfter(0, s, i)
  BY <1>1 DEF UntouchedAfter
<1> QED
  BY <1>2, <1>3, <1>4

\* What the invariant says of the messages themselves holds of the rest.
LEMMA RestKeepsInv ==
  ASSUME FeedInv, sink # << >>, sink' = Tail(sink),
         levels' = levels, next_sequence' = next_sequence
  PROVE  NumbersAreConsecutive' /\ DeltasCurrent' /\ SnapshotsCurrent'
<1>1. FeedTypeOK /\ NumbersAreConsecutive /\ DeltasCurrent /\ SnapshotsCurrent
  BY DEF FeedInv
<1>2. /\ Len(sink) \in Nat \ {0}
      /\ DOMAIN sink = 1 .. Len(sink) /\ DOMAIN sink' = 1 .. Len(sink) - 1
      /\ \A k \in DOMAIN sink' : sink'[k] = sink[k + 1]
  BY <1>1, Taken
<1>3. \A k \in DOMAIN sink' : k \in Nat /\ k + 1 \in DOMAIN sink /\ k \in 0 .. Len(sink) - 1
  BY <1>2
<1>4. NumbersAreConsecutive'
  <2> SUFFICES ASSUME NEW k \in DOMAIN sink', sink'[k].type # "ExecutionReport"
               PROVE  NumberAfter(k, sink[k].payload.sequence + 1)'
    BY DEF NumbersAreConsecutive, Numbered
  <2>1. PICK n : n = sink'[k].payload.sequence + 1
    OBVIOUS
  <2>2. NumberAfter(k + 1, n)
    BY <1>1, <1>2, <1>3, <2>1 DEF NumbersAreConsecutive, Numbered
  <2>3. NumberAfter(k, n)'
    BY <1>1, <1>3, <2>2, NumberAfterTake
  <2> QED
    BY Zenon, <2>1, <2>3 DEF NumberAfter
<1>5. DeltasCurrent'
  <2> SUFFICES ASSUME NEW k \in DOMAIN sink', NEW s \in Sides, NEW i \in Indices,
                      Touches(k, s, i)', UntouchedAfter(k, s, i)'
               PROVE  sink'[k].payload.level = levels'[s][i]
    BY DEF DeltasCurrent
  <2>1. Touches(k + 1, s, i) /\ UntouchedAfter(k + 1, s, i)
    BY <1>1, <1>3, UntouchedAfterTake
  <2> QED
    BY <1>1, <1>2, <1>3, <2>1 DEF DeltasCurrent
<1>6. SnapshotsCurrent'
  <2> SUFFICES ASSUME NEW k \in DOMAIN sink', sink'[k].type = "BookSnapshot",
                      NEW s \in Sides, NEW i \in KnownFrom(s, Records(sink'[k].payload, s)),
                      UntouchedAfter(k, s, i)'
               PROVE  ViewOf(Records(sink'[k].payload, s))[i] = levels'[s][i]
    BY DEF SnapshotsCurrent, KnownFrom, ViewOf, Records
  <2>1. i \in Indices
    BY DEF KnownFrom
  <2>2. UntouchedAfter(k + 1, s, i)
    BY <1>1, <1>3, <2>1, UntouchedAfterTake
  <2> QED
    BY <1>1, <1>2, <1>3, <2>2 DEF SnapshotsCurrent
<1> QED
  BY <1>4, <1>5, <1>6

\* A numbered message is followed by its successor, and one that the
\* subscriber expects is one before which it missed nothing.
LEMMA FirstOfStream ==
  ASSUME FeedInv, sink # << >>, sink' = Tail(sink), next_sequence' = next_sequence
  PROVE  /\ sink[1].type = "ExecutionReport" => \A n : NumberAfter(0, n)' <=> NumberAfter(0, n)
         /\ sink[1].type # "ExecutionReport" =>
              /\ sink[1].payload.sequence \in Nat
              /\ NumberAfter(0, sink[1].payload.sequence)
              /\ \A n : n = sink[1].payload.sequence + 1 => NumberAfter(0, n)'
              /\ \A n : NumberAfter(0, n)' => n = sink[1].payload.sequence + 1
              /\ sub.phase = "synced" =>
                   IF missed THEN sub.expected < sink[1].payload.sequence
                             ELSE sub.expected = sink[1].payload.sequence
<1>1. FeedTypeOK /\ NumbersAreConsecutive /\ ExpectsNext
  BY DEF FeedInv
<1>2. /\ Len(sink) \in Nat \ {0} /\ DOMAIN sink = 1 .. Len(sink)
      /\ sink[1] \in MessageFrame
  BY <1>1, Taken
<1>3. \A n : NumberAfter(0, n)' <=> NumberAfter(1, n)
  <2>1. 0 \in 0 .. Len(sink) - 1 /\ 0 + 1 = 1
    BY <1>2
  <2> QED
    BY <1>1, <2>1, NumberAfterTake
<1>4. CASE sink[1].type = "ExecutionReport"
  BY <1>1, <1>3, <1>4, FirstNumber
<1>5. CASE sink[1].type # "ExecutionReport"
  <2> DEFINE q == sink[1].payload.sequence
  <2>1. q \in Nat
    BY <1>2, <1>5, FrameFields
  <2>2. \A n : NumberAfter(0, n) <=> n = q
    BY <1>1, <1>5, FirstNumber
  <2>3. NumberAfter(1, q + 1)
    BY <1>1, <1>2, <1>5 DEF NumbersAreConsecutive, Numbered
  <2>4. \A n : NumberAfter(1, n) => n = q + 1
    BY <1>1, <2>3, NumberAfterUnique
  <2>5. sub.phase = "synced" => IF missed THEN sub.expected < q ELSE sub.expected = q
    BY <1>1, <2>1, <2>2 DEF ExpectsNext
  <2> HIDE DEF q
  <2>6. \A n : NumberAfter(0, n)' <=> n = q + 1
    BY <1>3, <2>3, <2>4
  <2> QED
    BY <1>5, <2>1, <2>2, <2>5, <2>6 DEF q
<1> QED
  BY <1>4, <1>5

\* Losing a message: the subscriber goes on to know what it knew, or has missed
\* a number that lies behind the ones to come.
LEMMA LoseKeepsInv ==
  ASSUME FeedInv, Lose
  PROVE  FeedInv'
<1> DEFINE m == sink[1].payload
<1>1. /\ FeedTypeOK /\ SubscriberCurrent /\ ExpectsNext
  BY DEF FeedInv
<1>2. /\ sink # << >> /\ sink' = Tail(sink) /\ levels' = levels
      /\ next_sequence' = next_sequence /\ scratch' = scratch /\ sub' = sub
  BY DEF Lose
<1>3. sink[1] \in MessageFrame /\ Incoming = m /\ sink[1].type = m.kind
  BY <1>1, <1>2, IncomingIs, FrameFields
<1>4. missed' = (sub.phase = "synced" /\ (missed \/ sink[1].type # "ExecutionReport"))
  BY <1>3 DEF Lose
<1>5. FeedTypeOK'
  <2>1. sink' \in Seq(MessageFrame)
    BY <1>1, <1>2, Taken
  <2>2. missed' \in BOOLEAN
    BY <1>4
  <2> QED
    BY <1>1, <1>2, <2>1, <2>2 DEF FeedTypeOK
<1>6. NumbersAreConsecutive' /\ DeltasCurrent' /\ SnapshotsCurrent'
  BY <1>2, RestKeepsInv
<1>7. SubscriberCurrent'
  <2> SUFFICES ASSUME sub.phase = "synced", ~missed',
                      NEW s \in Sides, NEW i \in sub.known[s], UntouchedAfter(0, s, i)'
               PROVE  sub.view[s][i] = levels[s][i]
    BY <1>2 DEF SubscriberCurrent
  <2>1. ~missed /\ sink[1].type = "ExecutionReport" /\ i \in Indices
    BY Zenon, <1>1, <1>4 DEF FeedTypeOK
  <2>2. ~Touches(1, s, i)
    BY <2>1 DEF Touches
  <2>3. UntouchedAfter(1, s, i)
    BY <1>1, <1>2, <2>1, UntouchedAfterTake
  <2>4. UntouchedAfter(0, s, i)
    BY <1>1, <1>2, <2>1, <2>2, <2>3, UntouchedAfterTake
  <2> QED
    BY <1>1, <2>1, <2>4 DEF SubscriberCurrent
<1>8. ExpectsNext'
  <2> SUFFICES ASSUME sub.phase = "synced"
               PROVE  IF missed' THEN \A n \in Nat : NumberAfter(0, n)' => sub.expected < n
                                 ELSE NumberAfter(0, sub.expected)'
    BY <1>2 DEF ExpectsNext
  <2>1. CASE sink[1].type = "ExecutionReport"
    <3>1. \A n : NumberAfter(0, n)' <=> NumberAfter(0, n)
      BY <1>2, <2>1, FirstOfStream
    <3>2. missed' = missed
      BY <1>1, <1>4, <2>1 DEF FeedTypeOK
    <3>3. PICK e : e = sub.expected
      OBVIOUS
    <3>4. IF missed THEN \A n \in Nat : NumberAfter(0, n) => e < n ELSE NumberAfter(0, e)
      BY <1>1, <3>3 DEF ExpectsNext
    <3>5. IF missed' THEN \A n \in Nat : NumberAfter(0, n)' => e < n ELSE NumberAfter(0, e)'
      BY <3>1, <3>2, <3>4
    <3> QED
      BY Zenon, <1>2, <3>3, <3>5 DEF NumberAfter
  <2>2. CASE sink[1].type # "ExecutionReport"
    <3>1. /\ m.sequence \in Nat
          /\ \A n : NumberAfter(0, n)' => n = m.sequence + 1
          /\ IF missed THEN sub.expected < m.sequence ELSE sub.expected = m.sequence
      BY <1>2, <2>2, FirstOfStream
    <3>2. missed' /\ sub.expected \in Nat
      BY Zenon, <1>1, <1>4, <2>2 DEF FeedTypeOK
    <3>3. sub.expected < m.sequence + 1
      BY <3>1, <3>2
    <3> HIDE DEF m
    <3> QED
      BY <3>1, <3>2, <3>3
  <2> QED
    BY <2>1, <2>2
<1> QED
  BY <1>5, <1>6, <1>7, <1>8 DEF FeedInv

\* Reading a message preserves the invariant when the subscriber afterwards
\* waits, or expects the successor of that message and knows the truth.
LEMMA ReadKeepsInv ==
  ASSUME FeedInv, Receive, sink[1].type # "ExecutionReport",
         sub' \in [phase : {"waiting", "synced"}, expected : Nat, view : View,
                   known : [Sides -> SUBSET Indices]],
         sub'.phase = "synced" =>
           /\ sub'.expected = sink[1].payload.sequence + 1
           /\ \A s \in Sides : \A i \in sub'.known[s] :
                UntouchedAfter(1, s, i) => sub'.view[s][i] = levels[s][i]
  PROVE  FeedInv'
<1>1. FeedTypeOK
  BY DEF FeedInv
<1>2. /\ sink # << >> /\ sink' = Tail(sink) /\ levels' = levels
      /\ next_sequence' = next_sequence /\ scratch' = scratch
  BY DEF Receive
<1>3. ~missed' /\ missed' \in BOOLEAN
  BY Zenon, <1>1, <1>2, IncomingIs, FrameFields DEF Receive
<1>4. FeedTypeOK'
  <2>1. sink' \in Seq(MessageFrame)
    BY <1>1, <1>2, Taken
  <2> QED
    BY <1>1, <1>2, <1>3, <2>1 DEF FeedTypeOK
<1>5. NumbersAreConsecutive' /\ DeltasCurrent' /\ SnapshotsCurrent'
  BY <1>2, RestKeepsInv
<1>6. SubscriberCurrent'
  <2> SUFFICES ASSUME sub'.phase = "synced",
                      NEW s \in Sides, NEW i \in sub'.known[s], UntouchedAfter(0, s, i)'
               PROVE  sub'.view[s][i] = levels[s][i]
    BY <1>2 DEF SubscriberCurrent
  <2>1. i \in Indices
    OBVIOUS
  <2>2. UntouchedAfter(1, s, i)
    BY <1>1, <1>2, <2>1, UntouchedAfterTake
  <2> QED
    BY <2>2
<1>7. ExpectsNext'
  <2> SUFFICES ASSUME sub'.phase = "synced"
               PROVE  NumberAfter(0, sub.expected)'
    BY <1>3 DEF ExpectsNext
  <2>1. PICK e : e = sub'.expected
    OBVIOUS
  <2>2. e = sink[1].payload.sequence + 1
    BY <2>1
  <2>3. NumberAfter(0, e)'
    BY <1>2, <2>2, FirstOfStream
  <2> QED
    BY <2>1, <2>3 DEF NumberAfter
<1> QED
  BY <1>4, <1>5, <1>6, <1>7 DEF FeedInv

\* A report has no number and changes nothing that the subscriber knows.
LEMMA ReadReportKeepsInv ==
  ASSUME FeedInv, Receive, sink[1].type = "ExecutionReport"
  PROVE  FeedInv'
<1>1. /\ FeedTypeOK /\ SubscriberCurrent /\ ExpectsNext
  BY DEF FeedInv
<1>2. /\ sink # << >> /\ sink' = Tail(sink) /\ levels' = levels
      /\ next_sequence' = next_sequence /\ scratch' = scratch
  BY DEF Receive
<1>3. Incoming.kind = "ExecutionReport"
  BY <1>1, <1>2, IncomingIs, FrameFields
<1>4. sub' = sub /\ missed' = missed
  BY <1>1, <1>3 DEF Receive, OnMessage, FeedTypeOK
<1>5. FeedTypeOK'
  <2>1. sink' \in Seq(MessageFrame)
    BY <1>1, <1>2, Taken
  <2> QED
    BY <1>1, <1>2, <1>4, <2>1 DEF FeedTypeOK
<1>6. NumbersAreConsecutive' /\ DeltasCurrent' /\ SnapshotsCurrent'
  BY <1>2, RestKeepsInv
<1>7. SubscriberCurrent'
  <2> SUFFICES ASSUME sub.phase = "synced", ~missed,
                      NEW s \in Sides, NEW i \in sub.known[s], UntouchedAfter(0, s, i)'
               PROVE  sub.view[s][i] = levels[s][i]
    BY <1>2, <1>4 DEF SubscriberCurrent
  <2>1. i \in Indices /\ ~Touches(1, s, i)
    BY <1>1 DEF FeedTypeOK, Touches
  <2>2. UntouchedAfter(1, s, i)
    BY <1>1, <1>2, <2>1, UntouchedAfterTake
  <2>3. UntouchedAfter(0, s, i)
    BY <1>1, <1>2, <2>1, <2>2, UntouchedAfterTake
  <2> QED
    BY <1>1, <2>3 DEF SubscriberCurrent
<1>8. ExpectsNext'
  <2>1. \A n : NumberAfter(0, n)' <=> NumberAfter(0, n)
    BY <1>2, FirstOfStream
  <2>2. PICK e : e = sub.expected
    OBVIOUS
  <2>3. sub.phase = "synced" =>
          IF missed THEN \A n \in Nat : NumberAfter(0, n) => e < n ELSE NumberAfter(0, e)
    BY <1>1, <2>2 DEF ExpectsNext
  <2>4. sub'.phase = "synced" =>
          IF missed' THEN \A n \in Nat : NumberAfter(0, n)' => e < n ELSE NumberAfter(0, e)'
    BY <1>4, <2>1, <2>3
  <2>5. sub'.expected = e
    BY <1>4, <2>2
  <2> QED
    BY <2>4, <2>5 DEF ExpectsNext, NumberAfter
<1> QED
  BY <1>5, <1>6, <1>7, <1>8 DEF FeedInv

\* A snapshot puts the subscriber in step, whatever it missed before.
LEMMA ReadSnapshotKeepsInv ==
  ASSUME FeedInv, Receive, sink[1].type = "BookSnapshot"
  PROVE  FeedInv'
<1> DEFINE m == sink[1].payload
<1>1. FeedTypeOK /\ SnapshotsCurrent
  BY DEF FeedInv
<1>2. /\ sink # << >> /\ sink[1] \in MessageFrame /\ Incoming = m
      /\ m.kind = "BookSnapshot" /\ 1 \in DOMAIN sink
      /\ m.sequence \in Nat /\ m.bids \in SideRecords /\ m.asks \in SideRecords
  <2>1. sink # << >>
    BY DEF Receive
  <2>2. sink[1] \in MessageFrame /\ Incoming = m
    BY <1>1, <2>1, IncomingIs
  <2>3. 1 \in DOMAIN sink
    BY <1>1, <2>1 DEF FeedTypeOK
  <2> QED
    BY <2>1, <2>2, <2>3, FrameFields
<1>3. \A s \in Sides : Records(m, s) \in SideRecords
  BY <1>2 DEF Records
<1>4. \A s \in Sides : /\ ViewOf(Records(m, s)) \in [Indices -> LevelStates]
                       /\ KnownFrom(s, Records(m, s)) \in SUBSET Indices
  <2> SUFFICES ASSUME NEW r \in SideRecords
               PROVE  ViewOf(r) \in [Indices -> LevelStates]
    BY <1>3 DEF KnownFrom
  <2>1. \A i \in DOMAIN r : r[i] \in LevelStates
    BY DEF SideRecords
  <2> QED
    BY <2>1, FeedAssumption DEF ViewOf
<1>5. sub' = Resync(m)
  BY <1>2 DEF Receive, OnMessage
<1> HIDE DEF m
<1>6. /\ sub' \in [phase : {"waiting", "synced"}, expected : Nat, view : View,
                   known : [Sides -> SUBSET Indices]]
      /\ sub'.expected = m.sequence + 1
      /\ \A s \in Sides : /\ sub'.view[s] = ViewOf(Records(m, s))
                          /\ sub'.known[s] = KnownFrom(s, Records(m, s))
  <2> DEFINE v == [s \in Sides |-> ViewOf(Records(m, s))]
             w == [s \in Sides |-> KnownFrom(s, Records(m, s))]
  <2>1. v \in View /\ w \in [Sides -> SUBSET Indices]
    BY <1>4 DEF View
  <2>2. /\ \A s \in Sides : v[s] = ViewOf(Records(m, s))
        /\ \A s \in Sides : w[s] = KnownFrom(s, Records(m, s))
    OBVIOUS
  <2>3. sub' = [sub EXCEPT !.phase = "synced", !.expected = m.sequence + 1,
                           !.view = v, !.known = w]
    BY <1>5 DEF Resync
  <2> HIDE DEF v, w
  <2>4. /\ sub' \in [phase : {"waiting", "synced"}, expected : Nat, view : View,
                     known : [Sides -> SUBSET Indices]]
        /\ sub'.expected = m.sequence + 1 /\ sub'.view = v /\ sub'.known = w
    <3>1. m.sequence + 1 \in Nat
      BY <1>2
    <3>2. sub' = [phase |-> "synced", expected |-> m.sequence + 1, view |-> v, known |-> w]
      BY Zenon, <1>1, <2>3 DEF FeedTypeOK
    <3> QED
      BY <2>1, <3>1, <3>2
  <2> QED
    BY <2>2, <2>4
<1>7. ASSUME NEW s \in Sides, NEW i \in sub'.known[s], UntouchedAfter(1, s, i)
      PROVE  sub'.view[s][i] = levels[s][i]
  BY <1>1, <1>2, <1>6, <1>7 DEF SnapshotsCurrent, m
<1> QED
  BY <1>6, <1>7, ReadKeepsInv DEF m

\* A trade or a delta: waiting for a snapshot the subscriber ignores it, after a
\* gap it waits for one, and otherwise it missed nothing and applies it.
LEMMA ReadTradeOrDeltaKeepsInv ==
  ASSUME FeedInv, Receive, sink[1].type \in {"Trade", "BookDelta"}
  PROVE  FeedInv'
<1> DEFINE m == sink[1].payload
           Subscriber == [phase : {"waiting", "synced"}, expected : Nat, view : View,
                          known : [Sides -> SUBSET Indices]]
<1>1. FeedTypeOK /\ DeltasCurrent /\ SubscriberCurrent
  BY DEF FeedInv
<1>2. sink # << >> /\ sink' = Tail(sink) /\ next_sequence' = next_sequence
  BY DEF Receive
<1>3. sink[1] \in MessageFrame /\ Incoming = m /\ m.kind = sink[1].type
  BY <1>1, <1>2, IncomingIs, FrameFields
<1>4. sub' = OnMessage(m) /\ sub \in Subscriber
  BY <1>1, <1>3 DEF Receive, FeedTypeOK
<1>5. CASE sub.phase # "synced"
  <2>1. sub' = sub
    BY <1>3, <1>4, <1>5 DEF OnMessage
  <2> QED
    BY <1>4, <1>5, <2>1, ReadKeepsInv
<1>6. CASE sub.phase = "synced" /\ m.sequence # sub.expected
  <2>1. sub' = Unsynced
    BY <1>3, <1>4, <1>6 DEF OnMessage
  <2>2. Unsynced \in Subscriber /\ Unsynced.phase = "waiting"
    BY FeedAssumption DEF Unsynced, NoView, View
  <2> QED
    BY <2>1, <2>2, ReadKeepsInv
<1>7. CASE sub.phase = "synced" /\ m.sequence = sub.expected
  <2>1. m.sequence \in Nat /\ ~missed
    <3>1. /\ m.sequence \in Nat
          /\ IF missed THEN sub.expected < m.sequence ELSE sub.expected = m.sequence
      BY <1>2, <1>7, FirstOfStream
    <3> QED
      BY <1>7, <3>1
  <2>2. \A s \in Sides : \A i \in sub.known[s] :
          UntouchedAfter(1, s, i) /\ ~Touches(1, s, i) => sub.view[s][i] = levels[s][i]
    <3> SUFFICES ASSUME NEW s \in Sides, NEW i \in sub.known[s],
                        UntouchedAfter(1, s, i), ~Touches(1, s, i)
                 PROVE  sub.view[s][i] = levels[s][i]
      OBVIOUS
    <3>1. i \in Indices
      BY <1>4
    <3>2. UntouchedAfter(0, s, i)
      BY <1>1, <1>2, <3>1, UntouchedAfterTake
    <3> QED
      BY <1>1, <1>7, <2>1, <3>2 DEF SubscriberCurrent
  <2>3. CASE sink[1].type = "Trade"
    <3>1. sub' = [sub EXCEPT !.expected = m.sequence + 1]
      BY <1>3, <1>4, <1>7, <2>3 DEF OnMessage
    <3>2. sub' \in Subscriber /\ sub'.expected = m.sequence + 1
          /\ sub'.view = sub.view /\ sub'.known = sub.known
      BY <1>4, <2>1, <3>1
    <3>3. \A s, i : ~Touches(1, s, i)
      BY <2>3 DEF Touches
    <3> QED
      BY <2>2, <2>3, <3>2, <3>3, ReadKeepsInv
  <2>4. CASE sink[1].type = "BookDelta"
    <3> DEFINE lvl == IF m.action = "Delete" THEN NoLevel ELSE m.level
    <3>1. /\ m.side \in Sides /\ m.index \in Indices /\ m.level \in LevelStates
          /\ m.action = "Delete" <=> m.level.order_count = 0
      BY <1>3, <2>4, FrameFields
    <3>2. lvl = m.level
      BY <3>1, FeedAssumption
    <3>3. sub' = [sub EXCEPT !.expected = m.sequence + 1,
                             !.view[m.side][m.index] = m.level,
                             !.known[m.side] = @ \cup {m.index}]
      BY Zenon, <1>3, <1>4, <1>7, <2>4, <3>2 DEF OnMessage, Apply
    <3>4. /\ sub' \in Subscriber /\ sub'.expected = m.sequence + 1
          /\ sub'.view = [sub.view EXCEPT ![m.side][m.index] = m.level]
          /\ sub'.known = [sub.known EXCEPT ![m.side] = @ \cup {m.index}]
      <4> DEFINE v == [sub.view EXCEPT ![m.side][m.index] = m.level]
                 w == [sub.known EXCEPT ![m.side] = @ \cup {m.index}]
      <4> HIDE DEF m
      <4>1. v \in View
        BY <1>4, <3>1 DEF View
      <4>2. w \in [Sides -> SUBSET Indices]
        BY <1>4, <3>1
      <4>3. sub' = [phase |-> sub.phase, expected |-> m.sequence + 1, view |-> v, known |-> w]
        BY Zenon, <1>4, <3>3
      <4>4. m.sequence + 1 \in Nat /\ sub.phase \in {"waiting", "synced"}
        BY <1>4, <2>1
      <4> HIDE DEF v, w
      <4>5. sub' \in Subscriber /\ sub'.expected = m.sequence + 1 /\ sub'.view = v /\ sub'.known = w
        BY <4>1, <4>2, <4>3, <4>4
      <4> QED
        BY <4>5 DEF v, w
    <3>5. ASSUME NEW s \in Sides, NEW i \in sub'.known[s], UntouchedAfter(1, s, i)
          PROVE  sub'.view[s][i] = levels[s][i]
      <4>1. 1 \in DOMAIN sink /\ i \in Indices
        BY <1>1, <1>2, <3>4 DEF FeedTypeOK
      <4>2. CASE s = m.side /\ i = m.index
        <5>1. Touches(1, s, i)
          BY <2>4, <4>2 DEF Touches
        <5>2. m.level = levels[s][i]
          BY <1>1, <3>5, <4>1, <5>1 DEF DeltasCurrent
        <5>3. sub'.view[s][i] = m.level
          <6>1. sub.view \in [Sides -> [Indices -> LevelStates]] /\ s \in Sides /\ i \in Indices
            BY <1>4, <4>1 DEF View
          <6>2. sub'.view = [sub.view EXCEPT ![s][i] = m.level]
            BY Zenon, <3>4, <4>2
          <6> HIDE DEF m
          <6> QED
            BY <6>1, <6>2
        <5> QED
          BY <5>2, <5>3
      <4>3. CASE ~(s = m.side /\ i = m.index)
        <5>1. ~Touches(1, s, i)
          BY <4>3 DEF Touches
        <5>2. i \in sub.known[s] /\ sub'.view[s][i] = sub.view[s][i]
          <6> HIDE DEF m
          <6> QED
            BY <1>4, <3>1, <3>4, <4>1, <4>3 DEF View
        <5> QED
          BY <2>2, <3>5, <5>1, <5>2
      <4> QED
        BY <4>2, <4>3
    <3> QED
      BY Zenon, <2>4, <3>4, <3>5, ReadKeepsInv
  <2> QED
    BY <2>3, <2>4
<1> QED
  BY <1>5, <1>6, <1>7

-----------------------------------------------------------------------------
(* The theorems about the stream and its subscriber.                       *)

LEMMA FeedInvHolds == FeedSpec => []FeedInv
<1>1. FeedInit => FeedInv
  <2> SUFFICES ASSUME FeedInit PROVE FeedInv
    OBVIOUS
  <2>1. /\ levels = NoView /\ next_sequence = 1 /\ scratch = InitialScratch
        /\ sink = << >> /\ sub = Unsynced /\ missed = FALSE
    BY DEF FeedInit
  <2>2. NoView \in View
    BY FeedAssumption DEF NoView, View
  <2>3. /\ Unsynced \in [phase : {"waiting", "synced"}, expected : Nat, view : View,
                         known : [Sides -> SUBSET Indices]]
        /\ Unsynced.phase = "waiting"
    BY <2>2 DEF Unsynced
  <2>4. sink \in Seq(MessageFrame) /\ DOMAIN sink = {}
    BY <2>1
  <2>5. FeedTypeOK
    <3>1. next_sequence \in Nat /\ scratch \in Nat /\ scratch >= InitialScratch
      BY <2>1, FeedAssumption
    <3> QED
      BY <2>1, <2>2, <2>3, <2>4, <3>1, Zenon DEF FeedTypeOK
  <2>6. NumbersAreConsecutive /\ DeltasCurrent /\ SnapshotsCurrent
    BY <2>4 DEF NumbersAreConsecutive, Numbered, DeltasCurrent, SnapshotsCurrent
  <2>7. SubscriberCurrent /\ ExpectsNext
    BY <2>1, <2>3 DEF SubscriberCurrent, ExpectsNext
  <2> QED
    BY <2>5, <2>6, <2>7 DEF FeedInv
<1>2. FeedInv /\ [FeedNext]_feedVars => FeedInv'
  <2> SUFFICES ASSUME FeedInv, [FeedNext]_feedVars PROVE FeedInv'
    OBVIOUS
  <2>1. ASSUME Publisher PROVE FeedInv'
    BY <2>1, TradeKeepsInv, ReportKeepsInv, LevelUpdateKeepsInv, SnapshotKeepsInv DEF Publisher
  <2>2. ASSUME Receive PROVE FeedInv'
    <3>1. sink # << >> /\ FeedTypeOK
      BY <2>2 DEF Receive, FeedInv
    <3>2. sink[1].type \in {"Trade", "ExecutionReport", "BookDelta", "BookSnapshot"}
      BY <3>1, IncomingIs, FrameFields
    <3> QED
      BY <2>2, <3>2, ReadReportKeepsInv, ReadSnapshotKeepsInv, ReadTradeOrDeltaKeepsInv
  <2>3. ASSUME Lose PROVE FeedInv'
    BY <2>3, LoseKeepsInv
  <2>4. ASSUME UNCHANGED feedVars PROVE FeedInv'
    <3>1. /\ levels' = levels /\ next_sequence' = next_sequence /\ scratch' = scratch
          /\ sink' = sink /\ sub' = sub /\ missed' = missed
      BY <2>4 DEF feedVars
    <3>2. FeedTypeOK' /\ NumbersAreConsecutive'
      BY <3>1 DEF FeedInv, FeedTypeOK, NumbersAreConsecutive, NumberAfter, Numbered
    <3>3. DeltasCurrent' /\ SnapshotsCurrent'
      BY <3>1 DEF FeedInv, DeltasCurrent, SnapshotsCurrent, Touches, UntouchedAfter
    <3>4. SubscriberCurrent' /\ ExpectsNext'
      BY <3>1 DEF FeedInv, SubscriberCurrent, ExpectsNext, NumberAfter, Numbered,
                  Touches, UntouchedAfter
    <3> QED
      BY <3>2, <3>3, <3>4 DEF FeedInv
  <2> QED
    BY <2>1, <2>2, <2>3, <2>4 DEF FeedNext
<1> QED
  BY <1>1, <1>2, PTL DEF FeedSpec

\* The numbered messages of the stream always count up without a gap to the
\* last number given out: what publish_snapshot drops takes no number, and
\* publish_execution_report gives none.
THEOREM NumbersStayConsecutive == FeedSpec => []NumbersAreConsecutive
<1>1. FeedInv => NumbersAreConsecutive
  BY DEF FeedInv
<1> QED
  BY <1>1, FeedInvHolds, PTL

\* A subscriber that is synced, has read everything and missed nothing that it
\* could notice has the levels that publish_level_update and publish_snapshot
\* told it of as they are, for every ladder, every depth and every loss.
THEOREM SubscriberStaysInStep == FeedSpec => []SubscriberInStep
<1>1. FeedInv => SubscriberInStep
  <2> SUFFICES ASSUME FeedInv, sub.phase = "synced", sink = << >>, ~missed,
                      NEW s \in Sides, NEW i \in sub.known[s]
               PROVE  sub.view[s][i] = levels[s][i]
    BY DEF SubscriberInStep
  <2>1. UntouchedAfter(0, s, i)
    BY DEF UntouchedAfter
  <2> QED
    BY <2>1 DEF FeedInv, SubscriberCurrent
<1> QED
  BY <1>1, FeedInvHolds, PTL

\* publish_snapshot drops a snapshot only when the length field has no room for
\* it: the fourth attempt has a buffer for every other one.
THEOREM OnlyTooLongIsDropped == FeedSpec => DroppedOnlyAboveCeiling
<1>1. ASSUME FeedInv, NEW depth \in Depths, publish_snapshot(depth), sink' = sink
      PROVE  SnapshotBytes(Snapshot(depth)) > MaxLength
  <2> DEFINE snapshot == Snapshot(depth)
             n == NumRecords(snapshot.bids) + NumRecords(snapshot.asks)
  <2>1. FeedTypeOK
    BY <1>1 DEF FeedInv
  <2>2. /\ SnapshotBytes(snapshot) \in Nat
        /\ NumRecords(snapshot.bids) \in Nat /\ NumRecords(snapshot.asks) \in Nat
    BY <2>1, SnapshotTells
  <2>3. SnapshotBytes(snapshot) = SnapshotHeaderBytes + n * LevelRecordBytes
    BY DEF SnapshotBytes
  <2>4. encode_snapshot(scratch_after(3), snapshot) = << >>
    <3>1. Successes(snapshot) = {}
      <4> SUFFICES ASSUME Successes(snapshot) # {} PROVE FALSE
        OBVIOUS
      <4>1. PICK f \in MessageFrame : sink' = sink \o <<f>>
        BY Zenon, <1>1, <2>1, SnapshotWritten
      <4>2. Len(sink') = Len(sink) + 1 /\ Len(sink) \in Nat
        BY <2>1, <4>1, Written
      <4> QED
        BY <1>1, <4>2
    <3> HIDE DEF snapshot
    <3> QED
      BY <3>1 DEF Successes, Attempts
  <2>5. scratch_after(3) = scratch * 8
    BY DEF scratch_after
  <2> HIDE DEF snapshot
  <2>6. ASSUME SnapshotBytes(snapshot) <= MaxLength PROVE FALSE
    <3>1. MaxLength \in Nat /\ scratch \in Nat /\ InitialScratch \in Nat /\ scratch >= InitialScratch
      BY <2>1, FeedAssumption DEF FeedTypeOK
    <3>2. n \in 0 .. MaxLength
      BY <2>2, <2>3, <2>6, <3>1 DEF SnapshotHeaderBytes, LevelRecordBytes
    <3>3. HeaderBytes + SnapshotBytes(snapshot) <= 8 * InitialScratch
      <4> HIDE DEF n
      <4> QED
        BY <2>3, <2>6, <3>2, ScratchAssumption
    <3>4. 8 * InitialScratch <= scratch * 8
      BY <3>1
    <3>5. /\ ~(scratch_after(3) < HeaderBytes + SnapshotBytes(snapshot))
          /\ ~(SnapshotBytes(snapshot) > MaxLength)
      BY <2>2, <2>5, <2>6, <3>1, <3>3, <3>4 DEF HeaderBytes
    <3>6. /\ ~(NumRecords(snapshot.bids) > MaxLength)
          /\ ~(NumRecords(snapshot.asks) > MaxLength)
      BY <2>2, <3>1, <3>2
    <3>7. encode_snapshot(scratch_after(3), snapshot) # << >>
      BY <3>5, <3>6 DEF encode_snapshot
    <3> QED
      BY <2>4, <3>7
  <2>7. SnapshotBytes(snapshot) > MaxLength
    BY <2>2, <2>6, FeedAssumption
  <2> QED
    BY <2>7 DEF snapshot
<1>2. FeedInv /\ [FeedNext]_feedVars =>
        [\A depth \in Depths :
           publish_snapshot(depth) /\ sink' = sink => SnapshotBytes(Snapshot(depth)) > MaxLength]_feedVars
  BY <1>1
<1> QED
  BY <1>2, FeedInvHolds, PTL DEF FeedSpec, DroppedOnlyAboveCeiling

-----------------------------------------------------------------------------
(* Reading a recording back.                                               *)

\* Counting up from zero in a set reaches every number.
LEMMA CountUp ==
  ASSUME NEW N \in Nat, NEW T, 0 \in T, \A k \in 1 .. N : k - 1 \in T => k \in T
  PROVE  \A k \in 0 .. N : k \in T
<1> DEFINE Bad == {k \in 0 .. N : k \notin T}
<1> SUFFICES ASSUME Bad # {} PROVE FALSE
  OBVIOUS
<1>1. Bad \in SUBSET Nat
  OBVIOUS
<1>2. PICK k \in Bad : \A j \in Bad : k <= j
  <2> HIDE DEF Bad
  <2> QED
    BY <1>1, LeastNatural
<1>3. k \in 1 .. N /\ k \notin T
  BY <1>2
<1>4. k - 1 \in 0 .. N /\ ~(k <= k - 1)
  BY <1>3
<1>5. k - 1 \in T
  BY <1>2, <1>4
<1> QED
  BY <1>3, <1>5

\* Running totals exist.
LEMMA RunningTotals ==
  ASSUME NEW N \in Nat, NEW add \in [1 .. N -> Nat]
  PROVE  \E f : f = [j \in 0 .. N |-> IF j = 0 THEN 0 ELSE f[j - 1] + add[j]]
<1> DEFINE Totals(f, m) == \A j \in 0 .. m : f[j] = IF j = 0 THEN 0 ELSE f[j - 1] + add[j]
           T == {m \in Nat : \E f \in [0 .. m -> Nat] : Totals(f, m)}
<1>1. 0 \in T
  <2> DEFINE f == [j \in 0 .. 0 |-> 0]
  <2>1. f \in [0 .. 0 -> Nat] /\ Totals(f, 0)
    OBVIOUS
  <2> HIDE DEF f, Totals
  <2> QED
    BY <2>1
<1>2. ASSUME NEW k \in 1 .. N, k - 1 \in T PROVE k \in T
  <2>1. PICK f \in [0 .. k - 1 -> Nat] : Totals(f, k - 1)
    BY <1>2
  <2> DEFINE g == [j \in 0 .. k |-> IF j = k THEN f[k - 1] + add[k] ELSE f[j]]
  <2>2. g \in [0 .. k -> Nat]
    BY <2>1
  <2>3. ASSUME NEW j \in 0 .. k PROVE g[j] = IF j = 0 THEN 0 ELSE g[j - 1] + add[j]
    <3>1. CASE j = k
      <4>1. g[j] = f[k - 1] + add[k] /\ g[j - 1] = f[k - 1] /\ j # 0
        BY <3>1
      <4> QED
        BY <3>1, <4>1
    <3>2. CASE j # k
      <4>1. j \in 0 .. k - 1 /\ g[j] = f[j] /\ (j # 0 => g[j - 1] = f[j - 1])
        BY <3>2
      <4> QED
        BY <2>1, <4>1
    <3> QED
      BY <3>1, <3>2
  <2>4. Totals(g, k)
    BY Zenon, <2>3
  <2> HIDE DEF g, Totals
  <2>5. k \in Nat
    OBVIOUS
  <2> QED
    BY Zenon, <2>2, <2>4, <2>5
<1> HIDE DEF T
<1>3. N \in T
  <2>1. \A k \in 0 .. N : k \in T
    BY Zenon, <1>1, <1>2, CountUp
  <2> QED
    BY <2>1
<1>4. PICK f \in [0 .. N -> Nat] : Totals(f, N)
  BY Zenon, <1>3 DEF T
<1>5. f = [j \in 0 .. N |-> IF j = 0 THEN 0 ELSE f[j - 1] + add[j]]
  BY <1>4
<1> QED
  BY <1>5

\* The bytes of the first messages add up.
LEMMA BytesAddUp ==
  ASSUME FeedTypeOK
  PROVE  /\ BytesOf(0) = 0
         /\ \A k \in 1 .. Len(sink) : BytesOf(k) = BytesOf(k - 1) + sink[k].bytes
         /\ \A k \in 0 .. Len(sink) : BytesOf(k) \in Nat
<1> DEFINE N == Len(sink)
           Total(f) == f = [j \in 0 .. N |-> IF j = 0 THEN 0 ELSE f[j - 1] + sink[j].bytes]
           bytes == CHOOSE f : Total(f)
<1>1. N \in Nat /\ \A j \in 1 .. N : sink[j].bytes \in Nat
  <2>1. N \in Nat /\ \A j \in 1 .. N : sink[j] \in MessageFrame
    BY DEF FeedTypeOK
  <2> QED
    BY <2>1, FrameFields DEF HeaderBytes
<1>2. \A k : BytesOf(k) = bytes[k]
  BY DEF BytesOf
<1> HIDE DEF N, bytes
<1>3. \E f : Total(f)
  <2> DEFINE add == [j \in 1 .. N |-> sink[j].bytes]
  <2>1. add \in [1 .. N -> Nat] /\ \A j \in 1 .. N : add[j] = sink[j].bytes
    BY <1>1
  <2> HIDE DEF add
  <2>2. PICK f : f = [j \in 0 .. N |-> IF j = 0 THEN 0 ELSE f[j - 1] + add[j]]
    BY Zenon, <1>1, <2>1, RunningTotals
  <2>3. \A j \in 0 .. N : j # 0 => j \in 1 .. N
    BY <1>1
  <2>4. Total(f)
    BY Zenon, <2>1, <2>2, <2>3
  <2> QED
    BY Zenon, <2>4
<1>4. Total(bytes)
  <2> HIDE DEF Total
  <2> QED
    BY <1>3 DEF bytes
<1>5. bytes[0] = 0 /\ \A k \in 1 .. N : bytes[k] = bytes[k - 1] + sink[k].bytes
  BY <1>1, <1>4
<1> HIDE DEF Total
<1>6. \A k \in 0 .. N : bytes[k] \in Nat
  <2> DEFINE T == {k \in Nat : bytes[k] \in Nat}
  <2>1. 0 \in T /\ \A k \in 1 .. N : k - 1 \in T => k \in T
    BY <1>1, <1>5
  <2> HIDE DEF T
  <2>2. \A k \in 0 .. N : k \in T
    BY <1>1, <2>1, CountUp
  <2> QED
    BY <2>2 DEF T
<1> QED
  BY <1>2, <1>5, <1>6 DEF N

\* Wherever a recording is cut, some number of messages is whole in it.
LEMMA SomeAreWhole ==
  ASSUME FeedTypeOK, NEW cut \in Nat
  PROVE  \E n \in 0 .. Len(sink) : /\ WholeIn(n, cut)
                                   /\ \A k \in 0 .. n : BytesOf(k) <= cut
<1> DEFINE N == Len(sink)
           Ends == {n \in 0 .. N : n < N => cut < BytesOf(n + 1)}
<1>1. /\ N \in Nat /\ BytesOf(0) = 0
      /\ \A k \in 0 .. N : BytesOf(k) \in Nat
  BY BytesAddUp DEF FeedTypeOK
<1> HIDE DEF N
<1>2. Ends \in SUBSET Nat /\ N \in Ends
  BY <1>1
<1>3. PICK n \in Ends : \A m \in Ends : n <= m
  <2> HIDE DEF Ends
  <2> QED
    BY <1>2, LeastNatural
<1>4. \A k \in 0 .. n : BytesOf(k) <= cut
  <2> SUFFICES ASSUME NEW k \in 0 .. n, k # 0 PROVE BytesOf(k) <= cut
    BY <1>1
  <2>1. k - 1 \in 0 .. N /\ ~(n <= k - 1) /\ k - 1 < N /\ k \in 0 .. N
    BY <1>1, <1>3
  <2>2. k - 1 \notin Ends
    BY <1>3, <2>1
  <2>3. ~(cut < BytesOf(k - 1 + 1)) /\ k - 1 + 1 = k
    BY <2>1, <2>2
  <2> QED
    BY <1>1, <2>1, <2>3
<1>5. n \in 0 .. N /\ n \in 0 .. n /\ (n < N => cut < BytesOf(n + 1))
  BY <1>1, <1>3
<1>6. WholeIn(n, cut)
  BY <1>4, <1>5 DEF WholeIn, N
<1> QED
  BY <1>4, <1>5, <1>6 DEF N

\* What is left of a sequence after its first n elements.
LEMMA Remainder ==
  ASSUME NEW S, NEW q \in Seq(S), NEW n \in 1 .. Len(q)
  PROVE  /\ Head(SubSeq(q, n, Len(q))) = q[n]
         /\ Tail(SubSeq(q, n, Len(q))) = SubSeq(q, n + 1, Len(q))
         /\ SubSeq(q, 1, Len(q)) = q
  OBVIOUS

\* A list that goes one further.
LEMMA PrefixGrows ==
  ASSUME NEW S, NEW n \in Nat \ {0}, NEW p \in [1 .. n -> S]
  PROVE  Append([k \in 1 .. n - 1 |-> p[k]], p[n]) = p
<1> DEFINE q == [k \in 1 .. n - 1 |-> p[k]]
<1>1. n - 1 \in Nat /\ q \in [1 .. n - 1 -> S]
  OBVIOUS
<1>2. q \in Seq(S) /\ Len(q) = n - 1
  BY <1>1
<1>3. \A k \in 1 .. n - 1 : q[k] = p[k]
  OBVIOUS
<1> HIDE DEF q
<1>4. /\ Append(q, p[n]) \in [1 .. n -> S]
      /\ \A k \in 1 .. n : Append(q, p[n])[k] = p[k]
  <2>1. p[n] \in S
    OBVIOUS
  <2> DEFINE a == Append(q, p[n])
  <2>2. a \in Seq(S) /\ Len(a) = n
    BY <1>2, <2>1
  <2>3. a \in [1 .. n -> S]
    <3> HIDE DEF a
    <3> QED
      BY <2>2
  <2>4. \A k \in 1 .. n - 1 : a[k] = q[k]
    BY <1>2, <2>1
  <2>5. a[n] = p[n]
    BY <1>2, <2>1
  <2> HIDE DEF a
  <2>6. \A k \in 1 .. n : a[k] = p[k]
    BY <1>3, <2>4, <2>5
  <2> QED
    BY <2>3, <2>6 DEF a
<1>5. Append(q, p[n]) = p
  BY <1>4
<1> QED
  BY <1>5 DEF q

\* One step of the parser: it takes the message at the front when it is whole,
\* and otherwise stops.
LEMMA ParseStep ==
  ASSUME NEW frames, NEW size \in Nat, NEW got, NEW f \in MessageFrame, Head(frames) = f
  PROVE  ParseOne([rest |-> Buffer(frames, size), got |-> got, status |-> "Ok"]) =
           IF size >= f.bytes
           THEN [rest |-> Buffer(Tail(frames), size - f.bytes),
                 got |-> Append(got, f.payload), status |-> "Ok"]
           ELSE [rest |-> Buffer(frames, size), got |-> got, status |-> "Incomplete"]
<1> DEFINE in == Buffer(frames, size)
           a == [rest |-> in, got |-> got, status |-> "Ok"]
           d == decode_front(in)
<1>1. in.frames = frames /\ in.size = size
  BY DEF Buffer
<1>2. a.rest = in /\ a.got = got /\ a.status = "Ok"
  OBVIOUS
<1>3. \A s : [a EXCEPT !.status = s] = [rest |-> in, got |-> got, status |-> s]
  OBVIOUS
<1> HIDE DEF in
<1>4. d = IF size >= f.bytes THEN Ok(in, f.bytes) ELSE NotOk("Incomplete")
  BY <1>1, DecodesFront
<1> HIDE DEF a, d
<1>5. ParseOne(a) =
        IF d.status # "Ok" THEN [a EXCEPT !.status = d.status]
        ELSE IF d.consumed # Head(in.frames).bytes THEN [a EXCEPT !.status = "OutOfStep"]
        ELSE [rest |-> Buffer(Tail(in.frames), in.size - d.consumed),
              got |-> Append(got, d.payload), status |-> "Ok"]
  BY <1>2 DEF ParseOne, d
<1>6. CASE size >= f.bytes
  <2>1. d.status = "Ok" /\ d.consumed = f.bytes /\ d.payload = f.payload
    BY <1>1, <1>4, <1>6 DEF Ok
  <2> QED
    BY <1>1, <1>5, <1>6, <2>1 DEF a, in
<1>7. CASE ~(size >= f.bytes)
  <2>1. d.status = "Incomplete"
    BY <1>4, <1>7 DEF NotOk
  <2> QED
    BY <1>3, <1>5, <1>7, <2>1 DEF a, in
<1> QED
  BY <1>6, <1>7

\* A parser of a recording that is cut anywhere reads the messages that are
\* whole in it, and stops in order.
LEMMA AnyCutReadsBack ==
  ASSUME FeedTypeOK, NEW cut \in Nat
  PROVE  ReadsBack(cut)
<1> DEFINE N == Len(sink)
           in == Buffer(sink, cut)
           Got(n) == [k \in 1 .. n |-> sink[k].payload]
           Left(n) == Buffer(SubSeq(sink, n + 1, N), cut - BytesOf(n))
<1>1. PICK w \in 0 .. N : WholeIn(w, cut) /\ \A k \in 0 .. w : BytesOf(k) <= cut
  BY SomeAreWhole
<1> DEFINE At(n) == IF n <= w THEN [rest |-> Left(n), got |-> Got(n), status |-> "Ok"]
                    ELSE [rest |-> Left(w), got |-> Got(w), status |-> "Incomplete"]
           Run(f) == f = [n \in 0 .. N |->
                            IF n = 0 THEN [rest |-> in, got |-> << >>, status |-> "Ok"]
                            ELSE ParseOne(f[n - 1])]
           after == CHOOSE f : Run(f)
<1>2. /\ N \in Nat /\ sink \in Seq(MessageFrame) /\ w \in Nat
      /\ \A k \in 1 .. N : sink[k] \in MessageFrame /\ sink[k].bytes \in Nat
  <2>1. N \in Nat /\ sink \in Seq(MessageFrame) /\ \A k \in 1 .. N : sink[k] \in MessageFrame
    BY DEF FeedTypeOK
  <2> QED
    BY <2>1, FrameFields DEF HeaderBytes
<1>3. /\ BytesOf(0) = 0
      /\ \A k \in 1 .. N : BytesOf(k) = BytesOf(k - 1) + sink[k].bytes
      /\ \A k \in 0 .. N : BytesOf(k) \in Nat
  BY BytesAddUp
<1>4. Parse(in) = after[N]
  BY DEF Parse, Buffer
<1> HIDE DEF N, after, in
<1>5. At(0) = [rest |-> in, got |-> << >>, status |-> "Ok"]
  <2>1. Got(0) = << >>
    OBVIOUS
  <2>2. SubSeq(sink, 0 + 1, N) = sink /\ cut - BytesOf(0) = cut
    BY <1>2, <1>3 DEF N
  <2>3. Left(0) = in
    BY Zenon, <2>2 DEF in
  <2> HIDE DEF Got, Left
  <2> QED
    BY <1>2, <2>1, <2>3
<1>6. ASSUME NEW n \in 1 .. N PROVE At(n) = ParseOne(At(n - 1))
  <2>1. /\ n - 1 \in 0 .. N /\ n - 1 + 1 = n /\ n - 1 \in Nat
        /\ BytesOf(n - 1) \in Nat /\ BytesOf(n) \in Nat
        /\ BytesOf(n) = BytesOf(n - 1) + sink[n].bytes
        /\ sink[n] \in MessageFrame /\ sink[n].bytes \in Nat
    <3>1. n - 1 \in 0 .. N /\ n - 1 + 1 = n /\ n - 1 \in Nat /\ n \in 0 .. N
      BY <1>2
    <3> QED
      BY <1>2, <1>3, <3>1
  <2>2. /\ Head(SubSeq(sink, n, N)) = sink[n]
        /\ Tail(SubSeq(sink, n, N)) = SubSeq(sink, n + 1, N)
    BY <1>2, Remainder DEF N
  <2>3. CASE n - 1 <= w
    <3>1. BytesOf(n - 1) <= cut
      BY <1>1, <1>2, <2>1, <2>3
    <3>2. /\ At(n - 1) = [rest |-> Buffer(SubSeq(sink, n, N), cut - BytesOf(n - 1)),
                          got |-> Got(n - 1), status |-> "Ok"]
          /\ cut - BytesOf(n - 1) \in Nat
      <4>1. Left(n - 1) = Buffer(SubSeq(sink, n, N), cut - BytesOf(n - 1))
        BY <2>1
      <4>2. cut - BytesOf(n - 1) \in Nat
        BY <2>1, <3>1
      <4> HIDE DEF Left, Got
      <4> QED
        BY <2>3, <4>1, <4>2
    <3>3. ParseOne(At(n - 1)) =
            IF cut - BytesOf(n - 1) >= sink[n].bytes
            THEN [rest |-> Buffer(SubSeq(sink, n + 1, N), cut - BytesOf(n - 1) - sink[n].bytes),
                  got |-> Append(Got(n - 1), sink[n].payload), status |-> "Ok"]
            ELSE [rest |-> Buffer(SubSeq(sink, n, N), cut - BytesOf(n - 1)),
                  got |-> Got(n - 1), status |-> "Incomplete"]
      <4> HIDE DEF At, Got
      <4> QED
        BY ZenonT(30), <2>1, <2>2, <3>2, ParseStep
    <3>4. CASE n <= w
      <4>1. BytesOf(n) <= cut
        BY <1>1, <1>2, <3>4
      <4>2. /\ cut - BytesOf(n - 1) >= sink[n].bytes
            /\ cut - BytesOf(n - 1) - sink[n].bytes = cut - BytesOf(n)
        BY <2>1, <4>1
      <4>3. Append(Got(n - 1), sink[n].payload) = Got(n)
        <5>1. \A k \in 1 .. n : sink[k].payload \in Message
          BY <1>2 DEF MessageFrame
        <5>2. Got(n) \in [1 .. n -> Message]
          BY <5>1
        <5> QED
          BY <5>1, <5>2, PrefixGrows
      <4> HIDE DEF Got
      <4> QED
        BY <3>3, <3>4, <4>2, <4>3
    <3>5. CASE ~(n <= w)
      <4>1. w = n - 1 /\ w < N
        BY <1>2, <2>3, <3>5
      <4>2. cut < BytesOf(n)
        BY <1>1, <2>1, <4>1 DEF WholeIn, N
      <4>3. ~(cut - BytesOf(n - 1) >= sink[n].bytes)
        BY <2>1, <4>2
      <4> HIDE DEF Got
      <4> QED
        BY <2>1, <3>3, <3>5, <4>1, <4>3
    <3> QED
      BY <3>4, <3>5
  <2>4. CASE ~(n - 1 <= w)
    <3>1. ~(n <= w)
      BY <1>2, <2>4
    <3>2. At(n) = At(n - 1) /\ At(n - 1).status = "Incomplete"
      BY <2>4, <3>1
    <3> HIDE DEF At
    <3> QED
      BY <3>2 DEF ParseOne
  <2> QED
    BY <2>3, <2>4
<1> HIDE DEF At
<1>7. \E f : Run(f)
  <2> DEFINE f == [n \in 0 .. N |-> At(n)]
  <2>1. \A n \in 0 .. N : f[n] = IF n = 0 THEN [rest |-> in, got |-> << >>, status |-> "Ok"]
                                 ELSE ParseOne(f[n - 1])
    BY <1>2, <1>5, <1>6
  <2>2. Run(f)
    BY <2>1
  <2> QED
    BY Zenon, <2>2
<1>8. Run(after)
  <2> HIDE DEF Run
  <2> QED
    BY <1>7 DEF after
<1>9. after[N] = At(N)
  <2> DEFINE T == {n \in Nat : after[n] = At(n)}
  <2>1. after[0] = At(0) /\ \A n \in 1 .. N : after[n] = ParseOne(after[n - 1])
    BY <1>2, <1>5, <1>8
  <2> HIDE DEF Run
  <2>2. 0 \in T /\ \A n \in 1 .. N : n - 1 \in T => n \in T
    BY <1>2, <1>6, <2>1
  <2> HIDE DEF T
  <2>3. \A n \in 0 .. N : n \in T
    BY Zenon, <1>2, <2>2, CountUp
  <2>4. N \in T
    BY <1>2, <2>3
  <2> QED
    BY <2>4 DEF T
<1>10. /\ At(N).got = Got(w)
       /\ At(N).status = IF w = N THEN "Ok" ELSE "Incomplete"
  <2> HIDE DEF Got
  <2>1. N <= w <=> w = N
    BY <1>2
  <2> QED
    BY <2>1 DEF At
<1> QED
  BY <1>1, <1>4, <1>9, <1>10 DEF ReadsBack, N, in

\* A recording of the stream is read back as the messages that are whole in
\* it and then as incomplete, for messages of every length (decode,
\* decode_snapshot and what encode and encode_snapshot wrote): at the cuts that
\* the runs try, and at any other.
THEOREM RecordingsReadBack ==
  FeedSpec => [](RecordingReadsBack /\ \A cut \in Nat : ReadsBack(cut))
<1>1. FeedInv => RecordingReadsBack /\ \A cut \in Nat : ReadsBack(cut)
  <2> SUFFICES ASSUME FeedInv PROVE RecordingReadsBack /\ \A cut \in Nat : ReadsBack(cut)
    OBVIOUS
  <2>1. FeedTypeOK
    BY DEF FeedInv
  <2>2. \A cut \in Nat : ReadsBack(cut)
    BY <2>1, AnyCutReadsBack
  <2>3. ASSUME NEW k \in DOMAIN sink,
               NEW d \in {0, 1, HeaderBytes - 1, HeaderBytes, HeaderBytes + 1,
                          sink[k].bytes - 1, sink[k].bytes}
        PROVE  ReadsBack(BytesOf(k - 1) + d)
    <3>1. sink[k] \in MessageFrame /\ k - 1 \in 0 .. Len(sink)
      BY <2>1 DEF FeedTypeOK
    <3>2. sink[k].bytes \in Nat /\ sink[k].bytes - 1 \in Nat
      BY <3>1, FrameFields DEF HeaderBytes
    <3>3. d \in Nat
      BY <3>2 DEF HeaderBytes
    <3>4. BytesOf(k - 1) \in Nat
      BY <2>1, <3>1, BytesAddUp
    <3>5. BytesOf(k - 1) + d \in Nat
      BY <3>3, <3>4
    <3> QED
      BY <2>2, <3>5
  <2>4. RecordingReadsBack
    BY <2>3 DEF RecordingReadsBack, Cuts
  <2> QED
    BY <2>2, <2>4
<1> QED
  BY <1>1, FeedInvHolds, PTL
=============================================================================
