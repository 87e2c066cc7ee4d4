--------------------------------- MODULE Wire ---------------------------------
(***************************************************************************)
(* Frames on the virtio port (read_frame, write_frame and validate_message *)
(* of vsb-protocol/src/lib.rs): a length, little-endian, and a JSON text,  *)
(* written with two calls.  The port itself is external: it keeps no       *)
(* boundaries, drops what the guest writes while no hostd is connected,    *)
(* and neither side learns when a process on the other is replaced.        *)
(*                                                                         *)
(* way = "up": agent to hostd, whose handler closes and connects again     *)
(* after a bad frame.  way = "down": hostd to the reader thread of the     *)
(* agent, which retries after an end of file and ends after a bad frame.   *)
(*                                                                         *)
(* Scaled: a length is two digits to the base Base; a byte of text, read   *)
(* as the second of them, makes it too large, as it does for each of the   *)
(* two upper bytes of a u32.                                               *)
(***************************************************************************)
EXTENDS Integers, Sequences

CONSTANTS
    Kinds,        \* kinds of messages
    Length,       \* Kinds -> bytes of text
    Invalid,      \* the kinds that do not pass validate_message
    Base, Text,   \* base of a length; a byte of text as a digit
    MAX_FRAME_SIZE,
    MaxFrames     \* bound on the frames written

WireAssumption ==
    /\ Base \in Nat /\ Text \in 1..(Base - 1)
    /\ Invalid \subseteq Kinds /\ Length \in [Kinds -> 1..(Base * Base - 1)]
    /\ MAX_FRAME_SIZE \in Nat /\ MAX_FRAME_SIZE < Text * Base

VARIABLES
    way,          \* "up" or "down"
    connected,    \* a hostd is connected
    writer,       \* [body, kind]: the text of a frame is still to be written
    channel,      \* bytes on their way: [frame, pos, digit]
    eof,          \* "down": the reader can still notice that hostd was gone
    reader,       \* [pc, need]: what it waits for
    frames,       \* the kinds of the frames begun so far
    delivered,    \* which of them the reader has got, in order
    lost,         \* ghost: bytes were dropped, or never written
    cut, refused  \* ghosts: a frame was cut; a frame was refused

vars == <<way, connected, writer, channel, eof, reader, frames, delivered,
          lost, cut, refused>>

Waiting == [pc |-> "header", need |-> 2]
Between == [body |-> FALSE]

validate_message(k) == k \notin Invalid

(* Mutant: the length counts its own first byte.                           *)
HeaderLong(k) == <<(Length[k] + 1) % Base, (Length[k] + 1) \div Base>>
Header(k) == <<Length[k] % Base, Length[k] \div Base>>

(* Positions below 1 are the length, the others text.                      *)
HeaderOf(f, k) == [i \in 1..2 |-> [frame |-> f, pos |-> i - 2, digit |-> Header(k)[i]]]
TextOf(f, k) == [i \in 1..Length[k] |-> [frame |-> f, pos |-> i, digit |-> Text]]

(* The frame whose whole text the bytes are, if there is one.              *)
Parse(bytes) == {f \in 1..Len(frames) : bytes = TextOf(f, frames[f])}
-----------------------------------------------------------------------------
Init ==
    /\ way \in {"up", "down"}
    /\ connected = FALSE /\ eof = FALSE /\ channel = <<>>
    /\ writer = Between /\ reader = Waiting
    /\ frames = <<>> /\ delivered = <<>> /\ lost = FALSE /\ cut = FALSE /\ refused = FALSE

Connect ==
    /\ ~connected
    /\ connected' = TRUE
    /\ eof' = FALSE
    /\ cut' = (cut \/ writer.body)
    /\ UNCHANGED <<way, writer, channel, reader, frames, delivered, lost, refused>>

Carried(bytes) == /\ channel' = IF connected THEN channel \o bytes ELSE channel
                  /\ lost' = (lost \/ ~connected)

(* write_frame up to its first write_all.  A message that does not         *)
(* validate, or is too large, is not written at all.                       *)
WriteHeader(k) ==
    /\ Len(frames) < MaxFrames
    /\ ~writer.body
    /\ validate_message(k) /\ Length[k] <= MAX_FRAME_SIZE
    /\ way = "down" => connected
    /\ frames' = Append(frames, k)
    /\ Carried(HeaderOf(Len(frames'), k))
    /\ writer' = [body |-> TRUE, kind |-> k]
    /\ UNCHANGED <<way, connected, eof, reader, delivered, cut, refused>>

WriteText ==
    /\ writer.body
    /\ Carried(TextOf(Len(frames), writer.kind))
    /\ writer' = Between
    /\ UNCHANGED <<way, connected, eof, reader, frames, delivered, cut, refused>>

(* The writing process dies and another takes its place; with hostd, its   *)
(* connection ends.                                                        *)
WriterDies ==
    /\ writer.body \/ (way = "down" /\ connected)
    /\ cut' = (cut \/ writer.body) /\ lost' = (lost \/ writer.body)
    /\ writer' = Between
    /\ IF way = "down" THEN connected' = FALSE /\ eof' = TRUE
                       ELSE UNCHANGED <<connected, eof>>
    /\ UNCHANGED <<way, channel, reader, frames, delivered, refused>>

(* The handler closes its connection: what was on its way is lost.         *)
Close ==
    /\ connected' = FALSE /\ channel' = <<>> /\ reader' = Waiting
    /\ lost' = (lost \/ channel # <<>> \/ reader # Waiting)

(* InvalidData.                                                            *)
Refuse ==
    /\ refused' = TRUE
    /\ IF way = "up" THEN Close
       ELSE /\ reader' = [pc |-> "ended", need |-> 0]
            /\ UNCHANGED <<connected, channel, lost>>

Rest(n) == SubSeq(channel, n + 1, Len(channel))

ReadHeader ==
    /\ reader.pc = "header" /\ Len(channel) >= reader.need
    /\ LET length == channel[1].digit + Base * channel[2].digit IN
       IF length > MAX_FRAME_SIZE THEN Refuse
       ELSE /\ channel' = Rest(2)
            /\ reader' = [pc |-> "text", need |-> length]
            /\ UNCHANGED <<connected, lost, refused>>
    /\ UNCHANGED <<way, writer, eof, frames, delivered, cut>>

Accepted(bytes) == {f \in Parse(bytes) : validate_message(frames[f])}

(* Mutant: every call reads through a buffer of its own.                   *)
ReadTextBuffered ==
    /\ reader.pc = "text" /\ Len(channel) >= reader.need
    /\ LET got == Accepted(SubSeq(channel, 1, reader.need)) IN
       IF got = {} THEN Refuse /\ UNCHANGED delivered
       ELSE /\ \E f \in got : delivered' = Append(delivered, f)
            /\ channel' = <<>>
            /\ reader' = Waiting
            /\ UNCHANGED <<connected, lost, refused>>
    /\ UNCHANGED <<way, writer, eof, frames, cut>>

ReadText ==
    /\ reader.pc = "text" /\ Len(channel) >= reader.need
    /\ LET got == Accepted(SubSeq(channel, 1, reader.need)) IN
       IF got = {} THEN Refuse /\ UNCHANGED delivered
       ELSE /\ \E f \in got : delivered' = Append(delivered, f)
            /\ channel' = Rest(reader.need)
            /\ reader' = Waiting
            /\ UNCHANGED <<connected, lost, refused>>
    /\ UNCHANGED <<way, writer, eof, frames, cut>>

(* The reader thread notices that no hostd is connected, drops what it has *)
(* of a frame, and waits for the next.                                     *)
ReadEof ==
    /\ eof /\ reader.pc # "ended" /\ Len(channel) < reader.need
    /\ channel # <<>> \/ reader # Waiting
    /\ channel' = <<>> /\ reader' = Waiting /\ lost' = TRUE
    /\ UNCHANGED <<way, connected, writer, eof, frames, delivered, cut, refused>>

(* The handler waits too long, or hostd dies: the connection is closed.    *)
ReadTimeout ==
    /\ way = "up" /\ connected
    /\ Close
    /\ UNCHANGED <<way, writer, eof, frames, delivered, cut, refused>>

Next ==
    \/ Connect \/ WriteText \/ WriterDies \/ ReadHeader \/ ReadText \/ ReadEof
    \/ ReadTimeout
    \/ \E k \in Kinds : WriteHeader(k)

Spec == Init /\ [][Next]_vars
-----------------------------------------------------------------------------
(* A message is lost only when its bytes are: none is skipped, repeated or *)
(* overtaken while a hostd stays connected, however the calls of the two   *)
(* sides interleave.                                                       *)
Lossless ==
    ~lost =>
        /\ delivered = [i \in 1..Len(delivered) |-> i]
        /\ channel = <<>> /\ reader = Waiting /\ ~writer.body =>
              Len(delivered) = Len(frames)

(* A frame is refused, which ends the agent's reader for good, only if a   *)
(* writer died, or hostd connected, between the two writes of a frame.     *)
RefusedOnlyIfCut == refused => cut
=============================================================================
