--------------------------- MODULE MarketDataFeed ---------------------------
(***************************************************************************)
(* The market data publisher (marketdata/publisher.hpp), the byte stream   *)
(* it writes to (marketdata/sinks.hpp), and a subscriber of that stream    *)
(* who joins late, loses messages, notices by the sequence numbers and     *)
(* starts again from a snapshot.  The reader of the stream clears what it  *)
(* has read, so that sink holds the messages still to be read.             *)
(*                                                                         *)
(* The book is seen through the aggregates of its levels; the driver calls *)
(* the publisher after each change (ReplayEngine has when and why).  The   *)
(* subscriber is not part of the source: it does what the comments of      *)
(* protocol/messages.hpp ask of one.                                       *)
(***************************************************************************)
EXTENDS Codec, FiniteSetsExt

CONSTANTS NumLevels,        \* prices of the ladder, by index
          LevelStates,      \* what a level may be: quantity and order count
          Depths,           \* depths of the snapshots asked for
          InitialScratch,   \* snapshot_scratch_bytes, 8192 by default
          MaxUnread,        \* bound: messages in the stream
          MaxSequence,      \* bound: sequence numbers given out
          MaxScratch        \* bound: no snapshot is asked for above this size

Sides == {"Buy", "Sell"}
Indices == 0 .. NumLevels - 1

NoLevel == [total_quantity |-> 0, order_count |-> 0]

\* A level without orders has no quantity.  Every fixed-size payload fits into
\* the length field.
ASSUME FeedAssumption ==
  /\ NumLevels \in Nat
  /\ NoLevel \in LevelStates
  /\ LevelStates \subseteq [total_quantity : Nat, order_count : Nat]
  /\ \A lvl \in LevelStates : lvl.order_count = 0 => lvl = NoLevel
  /\ Depths \subseteq Nat
  /\ MaxLength \in Nat /\ \A type \in DOMAIN PayloadBytes : PayloadBytes[type] <= MaxLength
  /\ InitialScratch \in Nat \ {0}

\* The largest snapshot that the length field allows fits into a buffer that
\* has doubled three times, as it does with 8192 bytes and 16 bits.
\* (8192 is the default and no caller passes less; the constructor takes any
\* size.)
ASSUME ScratchAssumption ==
  \A n \in 0 .. MaxLength :
    LET payload == SnapshotHeaderBytes + n * LevelRecordBytes
    IN  payload <= MaxLength => HeaderBytes + payload <= 8 * InitialScratch

VARIABLES
  levels,           \* the levels of the book, by side and index
  next_sequence,
  scratch,          \* size of snapshot_scratch_
  sink,             \* the frames written and not yet read, in order
  sub,              \* the subscriber
  missed            \* history: a message was lost that no later one betrayed yet

feedVars == <<levels, next_sequence, scratch, sink, sub, missed>>

NoView == [s \in Sides |-> [i \in Indices |-> NoLevel]]

\* A subscriber that waits for a snapshot, having just joined or seen a gap.
Unsynced == [phase |-> "waiting", expected |-> 0, view |-> NoView,
             known |-> [s \in Sides |-> {}]]

FeedInit ==
  /\ levels = NoView
  /\ next_sequence = 1
  /\ scratch = InitialScratch
  /\ sink = << >>
  /\ sub = Unsynced
  /\ missed = FALSE

-----------------------------------------------------------------------------
(* The publisher.                                                          *)

write(frames) == sink' = sink \o frames

publish_trade ==
  /\ write(encode(64, "Trade", [kind |-> "Trade", sequence |-> next_sequence]))
  /\ next_sequence' = next_sequence + 1
  /\ UNCHANGED <<levels, scratch, sub, missed>>

\* Execution reports share the stream but carry no sequence number.
publish_execution_report ==
  /\ write(encode(128, "ExecutionReport", [kind |-> "ExecutionReport"]))
  /\ UNCHANGED <<levels, next_sequence, scratch, sub, missed>>

\* A defect in which the last order of a level is taken for none.
delta_action_off_by_one(lvl) == IF lvl.order_count <= 1 THEN "Delete" ELSE "Update"

delta_action(lvl) == IF lvl.order_count = 0 THEN "Delete" ELSE "Update"

\* A level of the book changes and the driver has it published.
publish_level_update(s, i, lvl) ==
  /\ levels' = [levels EXCEPT ![s][i] = lvl]
  /\ write(encode(64, "BookDelta",
             [kind |-> "BookDelta", sequence |-> next_sequence, side |-> s,
              index |-> i, level |-> lvl, action |-> delta_action(lvl)]))
  /\ next_sequence' = next_sequence + 1
  /\ UNCHANGED <<scratch, sub, missed>>

Better(s, i, j) == IF s = "Buy" THEN i > j ELSE i < j

\* The best levels of a side, up to the depth: the visitor stores a level
\* before it compares with depth, so the first is always there.
collect(s, depth) ==
  LET occupied == {i \in Indices : levels[s][i].order_count > 0}
      top == {i \in occupied :
                Cardinality({j \in occupied : Better(s, j, i)}) < Max({depth, 1})}
  IN  [i \in top |-> levels[s][i]]

Snapshot(depth) ==
  [kind |-> "BookSnapshot", sequence |-> next_sequence,
   bids |-> collect("Buy", depth), asks |-> collect("Sell", depth)]

\* A defect that gives up one attempt earlier.
Attempts_one_less == 0 .. 2

Attempts == 0 .. 3

\* The size of the buffer after so many failures: each doubles it.
scratch_after(failures) == scratch * <<1, 2, 4, 8, 16>>[failures + 1]

\* The attempts at which the snapshot fits into the buffer.
Successes(snapshot) ==
  {a \in Attempts : encode_snapshot(scratch_after(a), snapshot) # << >>}

\* A defect in which a dropped snapshot takes a number.
sequence_after_always(written) == next_sequence + 1

sequence_after(written) == IF written THEN next_sequence + 1 ELSE next_sequence

publish_snapshot(depth) ==
  LET snapshot == Snapshot(depth)
      ok == Successes(snapshot)
      failures == IF ok = {} THEN Max(Attempts) + 1 ELSE Min(ok)
  IN  /\ scratch' = scratch_after(failures)
      /\ IF ok = {} THEN UNCHANGED sink ELSE write(encode_snapshot(scratch', snapshot))
      /\ next_sequence' = sequence_after(ok # {})
      /\ UNCHANGED <<levels, sub, missed>>

-----------------------------------------------------------------------------
(* The subscriber.                                                         *)

\* The side of a view that a snapshot's records give, and the indices at
\* which it can be relied upon: those as good as some record, or all when there
\* is no record.
ViewOf(records) == [i \in Indices |-> IF i \in DOMAIN records THEN records[i] ELSE NoLevel]

KnownFrom(s, records) ==
  {i \in Indices : DOMAIN records # {} => \E j \in DOMAIN records : ~Better(s, j, i)}

Records(m, s) == IF s = "Buy" THEN m.bids ELSE m.asks

Resync(m) ==
  [sub EXCEPT !.phase = "synced", !.expected = m.sequence + 1,
              !.view = [s \in Sides |-> ViewOf(Records(m, s))],
              !.known = [s \in Sides |-> KnownFrom(s, Records(m, s))]]

\* Update sets the level to what the message says, Delete removes it.
Apply(m) ==
  [sub EXCEPT !.expected = m.sequence + 1,
              !.view[m.side][m.index] = IF m.action = "Delete" THEN NoLevel ELSE m.level,
              !.known[m.side] = @ \cup {m.index}]

OnMessage(m) ==
  IF m.kind = "ExecutionReport" THEN sub
  ELSE IF m.kind = "BookSnapshot" THEN Resync(m)
  ELSE IF sub.phase # "synced" THEN sub
  ELSE IF m.sequence # sub.expected THEN Unsynced
  ELSE IF m.kind = "Trade" THEN [sub EXCEPT !.expected = @ + 1]
  ELSE Apply(m)

\* What the reader decodes at the front of the stream.
Incoming == decode_front(Buffer(sink, Head(sink).bytes)).payload

Receive ==
  /\ sink # << >>
  /\ sub' = OnMessage(Incoming)
  /\ missed' = (missed /\ Incoming.kind = "ExecutionReport")
  /\ sink' = Tail(sink)
  /\ UNCHANGED <<levels, next_sequence, scratch>>

\* The transport drops the message.
Lose ==
  /\ sink # << >>
  /\ missed' = (sub.phase = "synced" /\ (missed \/ Incoming.kind # "ExecutionReport"))
  /\ sink' = Tail(sink)
  /\ UNCHANGED <<levels, next_sequence, scratch, sub>>

Publisher ==
  /\ Len(sink) < MaxUnread
  /\ next_sequence <= MaxSequence
  /\ \/ publish_trade
     \/ publish_execution_report
     \/ \E s \in Sides, i \in Indices, lvl \in LevelStates : publish_level_update(s, i, lvl)
     \/ scratch <= MaxScratch /\ \E depth \in Depths : publish_snapshot(depth)

FeedNext == Publisher \/ Receive \/ Lose

FeedSpec == FeedInit /\ [][FeedNext]_feedVars

-----------------------------------------------------------------------------
\* A subscriber that has read the stream to its end, and whose last sequenced
\* message continued the numbers, has the book: every price that its snapshot
\* reached or that a later delta touched shows the level as it is.  Losses in
\* between, snapshots of limited depth and unnumbered reports do not mislead it.
SubscriberInStep ==
  sub.phase = "synced" /\ sink = << >> /\ ~missed =>
    \A s \in Sides : \A i \in sub.known[s] : sub.view[s][i] = levels[s][i]

Numbered == {k \in DOMAIN sink : sink[k].type # "ExecutionReport"}

\* The first numbered message after position k has the number n, which is the
\* next to be given out when there is none.
NumberAfter(k, n) ==
  LET later == {j \in Numbered : j > k}
  IN  \/ later = {} /\ n = next_sequence
      \/ \E j \in later : (\A i \in later : j <= i) /\ n = sink[j].payload.sequence

\* The numbered messages of the stream count up without a gap to the last
\* number given out, dropped snapshots and unnumbered reports notwithstanding:
\* a gap that a subscriber sees is a loss.
NumbersAreConsecutive == \A k \in Numbered : NumberAfter(k, sink[k].payload.sequence + 1)

\* A snapshot that is asked for is sent unless its length does not fit into
\* the header: the buffer may be too small at first, but four attempts take
\* it as far as the wire format goes.
DroppedOnlyAboveCeiling ==
  [][\A depth \in Depths :
       publish_snapshot(depth) /\ sink' = sink => SnapshotBytes(Snapshot(depth)) > MaxLength]_feedVars

\* The bytes of the first k messages.
BytesOf(k) ==
  LET bytes[j \in 0 .. Len(sink)] == IF j = 0 THEN 0 ELSE bytes[j - 1] + sink[j].bytes
  IN  bytes[k]

\* Where a crash may cut a recording: at and around the beginnings of a
\* message, of its payload and of its end.
Cuts == UNION {{BytesOf(k - 1) + d : d \in {0, 1, HeaderBytes - 1, HeaderBytes, HeaderBytes + 1,
                                             sink[k].bytes - 1, sink[k].bytes}} : k \in DOMAIN sink}

\* The first n messages are whole in a recording cut there, and no more.
WholeIn(n, cut) == BytesOf(n) <= cut /\ (n < Len(sink) => cut < BytesOf(n + 1))

ReadsBack(cut) ==
  \E n \in 0 .. Len(sink) :
    /\ WholeIn(n, cut)
    /\ Parse(Buffer(sink, cut)).got = [k \in 1 .. n |-> sink[k].payload]
    /\ Parse(Buffer(sink, cut)).status = IF n = Len(sink) THEN "Ok" ELSE "Incomplete"

\* A recording that ends anywhere, in the middle of a message too, is read
\* back as the messages that are whole in it, in order, and then as incomplete:
\* never as malformed, and never out of step with the frames.
RecordingReadsBack == \A cut \in Cuts : ReadsBack(cut)
=============================================================================
