-------------------------------- MODULE Codec --------------------------------
(***************************************************************************)
(* The wire format of protocol/messages.hpp and its codec                  *)
(* (protocol/codec.hpp).                                                   *)
(*                                                                         *)
(* A message on the wire is a frame: its header (type and length), the     *)
(* number of bytes it takes up and, in place of the copied bytes, the      *)
(* payload they were copied from.  A buffer that is read is the sequence   *)
(* of the frames that begin in it and its size in bytes, which may end in  *)
(* the middle of a frame.                                                  *)
(***************************************************************************)
EXTENDS Integers, Sequences, FiniteSets

CONSTANT MaxLength   \* the largest value of MessageHeader::length, 0xFFFF

HeaderBytes == 4
SnapshotHeaderBytes == 16
LevelRecordBytes == 24

\* sizeof of the fixed-size payloads, by the MessageType that tags them.
PayloadBytes == [NewOrder |-> 40, CancelOrder |-> 16, ReplaceOrder |-> 32,
                 ExecutionReport |-> 56, Trade |-> 40, BookDelta |-> 40]

\* The frame of a payload of so many bytes; the length field is unsigned and
\* holds MaxLength + 1 values.
Frame(type, payload_bytes, payload) ==
  [type |-> type, length |-> payload_bytes % (MaxLength + 1),
   bytes |-> HeaderBytes + payload_bytes, payload |-> payload]

\* What encode writes into a buffer of out bytes: a frame, or nothing when the
\* buffer is too small.
encode(out, type, payload) ==
  IF out < HeaderBytes + PayloadBytes[type] THEN << >>
  ELSE <<Frame(type, PayloadBytes[type], payload)>>

\* Here a snapshot is [sequence, bids, asks].  The records of a side are keyed
\* by price: on the wire they follow one another, best first, and the header
\* has their number.
NumRecords(side) == Cardinality(DOMAIN side)

SnapshotBytes(snapshot) ==
  SnapshotHeaderBytes + (NumRecords(snapshot.bids) + NumRecords(snapshot.asks)) * LevelRecordBytes

\* A defect in which the length field is not checked for overflow.
encode_snapshot_any_length(out, snapshot) ==
  IF out < HeaderBytes + SnapshotBytes(snapshot) THEN << >>
  ELSE <<Frame("BookSnapshot", SnapshotBytes(snapshot), snapshot)>>

encode_snapshot(out, snapshot) ==
  IF \/ out < HeaderBytes + SnapshotBytes(snapshot)
     \/ NumRecords(snapshot.bids) > MaxLength
     \/ NumRecords(snapshot.asks) > MaxLength
     \/ SnapshotBytes(snapshot) > MaxLength
  THEN << >>
  ELSE <<Frame("BookSnapshot", SnapshotBytes(snapshot), snapshot)>>

-----------------------------------------------------------------------------
Buffer(frames, size) == [frames |-> frames, size |-> size]

\* Whether a header can be read at the front of in.
HasHeader(in) == in.size >= HeaderBytes

peek_header(in) == [type |-> Head(in.frames).type, length |-> Head(in.frames).length]

NotOk(status) == [status |-> status, consumed |-> 0]

Ok(in, total) ==
  [status |-> "Ok", payload |-> Head(in.frames).payload, consumed |-> total]

decode(in, type) ==
  LET header == peek_header(in)
      total == HeaderBytes + header.length
  IN  IF ~HasHeader(in) THEN NotOk("Incomplete")
      ELSE IF header.type # type THEN NotOk("UnexpectedType")
      ELSE IF header.length # PayloadBytes[type] THEN NotOk("Malformed")
      ELSE IF in.size < total THEN NotOk("Incomplete")
      ELSE Ok(in, total)

decode_snapshot(in) ==
  LET header == peek_header(in)
      total == HeaderBytes + header.length
  IN  IF ~HasHeader(in) THEN NotOk("Incomplete")
      ELSE IF header.type # "BookSnapshot" THEN NotOk("UnexpectedType")
      ELSE IF in.size < total THEN NotOk("Incomplete")
      ELSE IF header.length < SnapshotHeaderBytes THEN NotOk("Malformed")
      ELSE IF SnapshotBytes(Head(in.frames).payload) # header.length
      THEN NotOk("Malformed")
      ELSE Ok(in, total)

\* The dispatch of a stream parser, as the comment on peek_header intends it.
decode_front(in) ==
  IF HasHeader(in) /\ peek_header(in).type # "BookSnapshot"
  THEN decode(in, peek_header(in).type)
  ELSE decode_snapshot(in)

\* One message of a stream parser: rest is what it has not read yet, got the
\* payloads so far.
ParseOne(a) ==
  LET d == decode_front(a.rest)
  IN  IF a.status # "Ok" THEN a
      ELSE IF d.status # "Ok" THEN [a EXCEPT !.status = d.status]
      ELSE IF d.consumed # Head(a.rest.frames).bytes THEN [a EXCEPT !.status = "OutOfStep"]
      ELSE [rest |-> Buffer(Tail(a.rest.frames), a.rest.size - d.consumed),
            got |-> Append(a.got, d.payload),
            status |-> "Ok"]

\* What a stream parser makes of a buffer: the payloads it decodes, front to
\* back, and the status it stops with.
Parse(in) ==
  LET after[n \in 0 .. Len(in.frames)] ==
        IF n = 0 THEN [rest |-> in, got |-> << >>, status |-> "Ok"] ELSE ParseOne(after[n - 1])
  IN  after[Len(in.frames)]
=============================================================================
