------------------------------ MODULE WireProofs ------------------------------
(***************************************************************************)
(* Proofs about Wire, for any kinds of messages, any base and any number   *)
(* of frames: a message is lost only with its bytes, and a frame is        *)
(* refused only if it, or one before it, was cut.                          *)
(*                                                                         *)
(* The argument follows the bytes, not the calls: as long as no frame was  *)
(* cut, each byte on its way is followed by the rest of its frame, and     *)
(* that by the next frame, and the reader's state says where in a frame    *)
(* the first byte is.                                                      *)
(***************************************************************************)
EXTENDS Wire, SequenceTheorems, TLAPS

Written == {k \in Kinds : validate_message(k) /\ Length[k] <= MAX_FRAME_SIZE}
Ended == [pc |-> "ended", need |-> 0]
Bytes == [frame : Nat, pos : Int, digit : Nat]

TypeOK ==
    /\ way \in {"up", "down"} /\ connected \in BOOLEAN /\ eof \in BOOLEAN
    /\ writer \in {Between} \cup [body : {TRUE}, kind : Written]
    /\ reader \in {Waiting, Ended} \cup [pc : {"text"}, need : Nat]
    /\ channel \in Seq(Bytes)
    /\ frames \in Seq(Written) /\ delivered \in Seq(Nat)
    /\ lost \in BOOLEAN /\ cut \in BOOLEAN /\ refused \in BOOLEAN
    /\ writer.body => frames # <<>> /\ writer.kind = frames[Len(frames)]

(* The last position of frame f that is written, when the last frame of fs *)
(* is open, and a byte of it.                                              *)
End(fs, open, f) == IF f = Len(fs) /\ open THEN 0 ELSE Length[fs[f]]
Byte(f, k, p) == [frame |-> f, pos |-> p,
                  digit |-> IF p < 1 THEN Header(k)[p + 2] ELSE Text]

(* Byte i of ch is byte p of frame f, the rest of the frame is behind it,  *)
(* and behind that the next frame.                                         *)
Follows(ch, fs, open, i, f, p) ==
    /\ f \in 1..Len(fs) /\ p \in -1..End(fs, open, f)
    /\ \A q \in p..End(fs, open, f) :
          i + q - p <= Len(ch) /\ ch[i + q - p] = Byte(f, fs[f], q)
    /\ p = End(fs, open, f) =>
          IF f = Len(fs) THEN i = Len(ch)
          ELSE i < Len(ch) /\ ch[i + 1] = Byte(f + 1, fs[f + 1], -1)

Stream(ch, fs, open) ==
    \A i \in 1..Len(ch) : Follows(ch, fs, open, i, ch[i].frame, ch[i].pos)

Unbroken == Stream(channel, frames, writer.body)

(* The reader waits for the first byte of the channel, or for the next     *)
(* that is written.                                                        *)
Expected ==
    IF channel = <<>>
    THEN /\ reader.pc = "text" =>
              writer.body /\ connected /\ reader.need = Length[writer.kind]
         /\ reader.pc = "header" => ~(writer.body /\ connected)
    ELSE /\ reader.pc = "text" =>
              channel[1].pos = 1 /\ reader.need = Length[frames[channel[1].frame]]
         /\ reader.pc = "header" => channel[1].pos = -1

(* The frame the reader gets next.                                         *)
NextFrame ==
    IF channel # <<>> THEN channel[1].frame = Len(delivered) + 1
    ELSE Len(frames) = Len(delivered) + (IF reader.pc = "text" THEN 1 ELSE 0)

Ends ==
    /\ way = "up" /\ ~connected => channel = <<>> /\ reader = Waiting
    /\ way = "down" /\ writer.body => connected
    /\ eof => way = "down" /\ ~connected
    /\ reader = Ended => refused

Ghosts ==
    /\ cut => lost
    /\ writer.body /\ ~connected => lost
    /\ refused => cut

Whole == ~cut => Unbroken /\ Expected
InOrder == ~lost => NextFrame /\ delivered = [i \in 1..Len(delivered) |-> i]

IInv == TypeOK /\ Ends /\ Ghosts /\ Whole /\ InOrder
-----------------------------------------------------------------------------
LEMMA Division ==
  ASSUME NEW b \in Nat, b > 1, NEW n \in Nat
  PROVE  n % b \in Nat /\ n \div b \in Nat /\ n = (n % b) + b * (n \div b)
OBVIOUS

(* The two digits of a length stand for it.                                *)
LEMMA HeaderValue ==
  ASSUME WireAssumption, NEW k \in Kinds
  PROVE  /\ Length[k] \in Nat \ {0}
         /\ Header(k) \in [1..2 -> Nat]
         /\ Header(k)[1] + Base * Header(k)[2] = Length[k]
<1>1. Base \in Nat /\ Base > 1 /\ Length[k] \in Nat \ {0}
  BY DEF WireAssumption
<1>2. PICK n : n = Length[k]
  OBVIOUS
<1>3. n % Base \in Nat /\ n \div Base \in Nat /\ n = (n % Base) + Base * (n \div Base)
  BY <1>1, <1>2, Division
<1>4. Header(k) = <<n % Base, n \div Base>>
  BY <1>2 DEF Header
<1> QED BY <1>1, <1>2, <1>3, <1>4

(* What write_frame writes are the bytes of its frame.                     *)
LEMMA FrameBytes ==
  ASSUME WireAssumption, NEW f \in Nat, NEW k \in Kinds
  PROVE  /\ HeaderOf(f, k) \in Seq(Bytes) /\ Len(HeaderOf(f, k)) = 2
         /\ HeaderOf(f, k)[1] = Byte(f, k, -1) /\ HeaderOf(f, k)[2] = Byte(f, k, 0)
         /\ TextOf(f, k) \in Seq(Bytes) /\ Len(TextOf(f, k)) = Length[k]
         /\ \A p \in 1..Length[k] : TextOf(f, k)[p] = Byte(f, k, p)
<1>1. Length[k] \in Nat /\ Header(k) \in [1..2 -> Nat] /\ Text \in Nat
  BY HeaderValue DEF WireAssumption
<1>2. /\ HeaderOf(f, k) \in Seq(Bytes) /\ Len(HeaderOf(f, k)) = 2
      /\ HeaderOf(f, k)[1] = Byte(f, k, -1) /\ HeaderOf(f, k)[2] = Byte(f, k, 0)
  BY <1>1 DEF HeaderOf, Byte, Bytes
<1>3. \A p \in 1..Length[k] : /\ TextOf(f, k)[p] = Byte(f, k, p)
                             /\ TextOf(f, k)[p] \in Bytes
  BY <1>1 DEF TextOf, Byte, Bytes
<1>4. TextOf(f, k) \in Seq(Bytes) /\ Len(TextOf(f, k)) = Length[k]
  <2>1. PICK n : n = Length[k]
    OBVIOUS
  <2>2. PICK s : s = TextOf(f, k)
    OBVIOUS
  <2>3. n \in Nat /\ s = [i \in 1..n |-> s[i]] /\ \A i \in 1..n : s[i] \in Bytes
    BY <1>1, <1>3, <2>1, <2>2 DEF TextOf
  <2>4. s \in Seq(Bytes) /\ Len(s) = n
    BY <2>3
  <2> QED BY <2>1, <2>2, <2>4
<1> QED BY <1>2, <1>3, <1>4

LEMMA EndType ==
  ASSUME WireAssumption, NEW fs \in Seq(Written), NEW open \in BOOLEAN,
         NEW f \in 1..Len(fs)
  PROVE  End(fs, open, f) \in Nat /\ fs[f] \in Written /\ Length[fs[f]] \in Nat \ {0}
<1>1. fs[f] \in Written
  OBVIOUS
<1>2. Length[fs[f]] \in Nat \ {0}
  BY <1>1, HeaderValue DEF Written
<1> QED BY <1>1, <1>2 DEF End

(* What is left when the first n bytes were taken.                         *)
LEMMA RestOfStream ==
  ASSUME WireAssumption, NEW ch \in Seq(Bytes), NEW fs \in Seq(Written),
         NEW open \in BOOLEAN, Stream(ch, fs, open),
         NEW n \in 0..Len(ch)
  PROVE  \E rest :
           /\ rest = SubSeq(ch, n + 1, Len(ch))
           /\ rest \in Seq(Bytes) /\ Len(rest) = Len(ch) - n
           /\ \A i \in 1..Len(rest) : rest[i] = ch[i + n]
           /\ Stream(rest, fs, open)
<1>0. PICK rest : rest = SubSeq(ch, n + 1, Len(ch))
  OBVIOUS
<1>1. /\ rest \in Seq(Bytes) /\ Len(rest) = Len(ch) - n
      /\ \A i \in 1..Len(rest) : rest[i] = ch[i + n]
  BY <1>0
<1>2. ASSUME NEW i \in 1..Len(rest)
      PROVE  Follows(rest, fs, open, i, rest[i].frame, rest[i].pos)
  <2>1. i + n \in 1..Len(ch) /\ rest[i] = ch[i + n]
    BY <1>1
  <2>2. PICK f, p : f = ch[i + n].frame /\ p = ch[i + n].pos
    OBVIOUS
  <2>3. Follows(ch, fs, open, i + n, f, p)
    BY <2>1, <2>2 DEF Stream
  <2>4. f \in 1..Len(fs)
    BY <2>3 DEF Follows
  <2>5. PICK e \in Nat : e = End(fs, open, f) /\ p \in -1..e
    BY <2>3, <2>4, EndType DEF Follows
  <2>6. ASSUME NEW q \in p..e
        PROVE  i + q - p <= Len(rest) /\ rest[i + q - p] = Byte(f, fs[f], q)
    <3>1. i + n + q - p <= Len(ch) /\ ch[i + n + q - p] = Byte(f, fs[f], q)
      BY <2>3, <2>5 DEF Follows
    <3>2. n \in Nat /\ i \in Nat /\ i >= 1 /\ p \in Int /\ q \in Int /\ q >= p
      BY <2>5
    <3>3. i + q - p <= Len(ch) - n /\ i + q - p >= 1 /\ (i + q - p) + n = i + n + q - p
      BY <3>1, <3>2
    <3>4. i + q - p \in 1..Len(rest)
      BY <1>1, <3>2, <3>3
    <3> QED BY <1>1, <3>1, <3>3, <3>4
  <2>7. ASSUME p = e
        PROVE  IF f = Len(fs) THEN i = Len(rest)
               ELSE i < Len(rest) /\ rest[i + 1] = Byte(f + 1, fs[f + 1], -1)
    <3>1. CASE f = Len(fs)
      <4>1. i + n = Len(ch)
        BY <2>3, <2>5, <2>7, <3>1 DEF Follows
      <4>2. n \in Nat /\ i \in Nat
        OBVIOUS
      <4>3. i = Len(ch) - n
        BY <4>1, <4>2
      <4> QED BY <1>1, <3>1, <4>3
    <3>2. CASE f # Len(fs)
      <4>1. i + n < Len(ch) /\ ch[i + n + 1] = Byte(f + 1, fs[f + 1], -1)
        BY <2>3, <2>5, <2>7, <3>2 DEF Follows
      <4>2. n \in Nat /\ i \in Nat /\ i >= 1
        OBVIOUS
      <4>3. i + 1 <= Len(ch) - n /\ (i + 1) + n = i + n + 1
        BY <4>1, <4>2
      <4>4. i + 1 \in 1..Len(rest)
        BY <1>1, <4>2, <4>3
      <4>5. i < Len(rest)
        BY <1>1, <4>2, <4>3
      <4>6. rest[i + 1] = ch[(i + 1) + n]
        BY <1>1, <4>4
      <4> QED BY <3>2, <4>1, <4>3, <4>5, <4>6
    <3> QED BY <3>1, <3>2
  <2> QED BY <2>1, <2>2, <2>4, <2>5, <2>6, <2>7 DEF Follows
<1> QED BY <1>0, <1>1, <1>2 DEF Stream

LEMMA Concat ==
  ASSUME NEW s \in Seq(Bytes), NEW t \in Seq(Bytes)
  PROVE  /\ s \o t \in Seq(Bytes) /\ Len(s \o t) = Len(s) + Len(t)
         /\ \A i \in 1..Len(s) : (s \o t)[i] = s[i]
         /\ \A i \in 1..Len(t) : (s \o t)[Len(s) + i] = t[i]
OBVIOUS

(* A header is written behind the last byte of the last frame.             *)
LEMMA HeaderOnStream ==
  ASSUME WireAssumption, NEW ch \in Seq(Bytes), NEW fs \in Seq(Written),
         Stream(ch, fs, FALSE), NEW k \in Written,
         NEW n, n = Len(fs), NEW next, next = ch \o HeaderOf(n + 1, k)
  PROVE  Stream(next, Append(fs, k), TRUE)
<1>1. PICK c \in Nat : c = Len(ch)
  OBVIOUS
<1>2. PICK gs \in Seq(Written) : gs = Append(fs, k)
  <2>1. Append(fs, k) \in Seq(Written)
    OBVIOUS
  <2> QED BY <2>1
<1>3. /\ n \in Nat /\ Len(gs) = n + 1 /\ gs[n + 1] = k
      /\ \A f \in 1..n : gs[f] = fs[f]
  BY <1>2
<1>4. PICK h : h = HeaderOf(n + 1, k)
  OBVIOUS
<1>5. /\ h \in Seq(Bytes) /\ Len(h) = 2
      /\ h[1] = Byte(n + 1, k, -1) /\ h[2] = Byte(n + 1, k, 0)
  <2>1. n + 1 \in Nat /\ k \in Kinds
    BY <1>3 DEF Written
  <2> QED BY <1>4, <2>1, FrameBytes
<1>6. /\ Len(next) = c + 2 /\ \A i \in 1..c : next[i] = ch[i]
      /\ next[c + 1] = Byte(n + 1, k, -1) /\ next[c + 2] = Byte(n + 1, k, 0)
  <2>1. /\ Len(next) = c + Len(h) /\ \A i \in 1..c : next[i] = ch[i]
        /\ \A i \in 1..Len(h) : next[c + i] = h[i]
    BY <1>1, <1>4, <1>5, Concat
  <2>2. next[c + 1] = h[1] /\ next[c + 2] = h[2]
    BY <1>5, <2>1
  <2> QED BY <1>5, <2>1, <2>2
<1>7. End(gs, TRUE, n + 1) = 0 /\ \A f \in 1..n : End(gs, TRUE, f) = End(fs, FALSE, f)
  BY <1>3 DEF End
<1>8. ASSUME NEW i \in 1..c PROVE Follows(next, gs, TRUE, i, ch[i].frame, ch[i].pos)
  <2>1. PICK f, p : f = ch[i].frame /\ p = ch[i].pos
    OBVIOUS
  <2>2. Follows(ch, fs, FALSE, i, f, p)
    BY <1>1, <2>1 DEF Stream
  <2>3. f \in 1..n
    BY <2>2 DEF Follows
  <2>4. PICK e \in Nat : e = End(fs, FALSE, f) /\ p \in -1..e
    BY <2>2, <2>3, EndType DEF Follows
  <2>5. ASSUME NEW q \in p..e
        PROVE  i + q - p <= c + 2 /\ next[i + q - p] = Byte(f, fs[f], q)
    <3>1. i + q - p <= c /\ ch[i + q - p] = Byte(f, fs[f], q)
      BY <1>1, <2>2, <2>4 DEF Follows
    <3>2. i + q - p \in 1..c
      BY <2>4, <3>1
    <3> QED BY <1>6, <3>1, <3>2, SMTT(30)
  <2>6. ASSUME p = e PROVE i < c + 2 /\ next[i + 1] = Byte(f + 1, gs[f + 1], -1)
    <3>1. CASE f = n
      <4>1. i = c
        BY <1>1, <2>2, <2>4, <2>6, <3>1 DEF Follows
      <4> QED BY <1>3, <1>6, <3>1, <4>1
    <3>2. CASE f # n
      <4>1. i < c /\ ch[i + 1] = Byte(f + 1, fs[f + 1], -1)
        BY <1>1, <2>2, <2>4, <2>6, <3>2 DEF Follows
      <4>2. f + 1 \in 1..n /\ i + 1 \in 1..c
        BY <1>3, <2>3, <3>2, <4>1
      <4> QED BY <1>3, <1>6, <4>1, <4>2, SMTT(30)
    <3> QED BY <3>1, <3>2
  <2>7. f \in 1..Len(gs) /\ f # Len(gs) /\ gs[f] = fs[f] /\ End(gs, TRUE, f) = e
    <3>1. f \in Nat /\ f <= n /\ f >= 1
      BY <1>3, <2>3
    <3>2. f \in 1..Len(gs) /\ f # Len(gs)
      BY <1>3, <3>1
    <3> QED BY <1>3, <1>7, <2>3, <2>4, <3>2
  <2> QED BY <1>6, <2>1, <2>4, <2>5, <2>6, <2>7 DEF Follows
<1>9. Follows(next, gs, TRUE, c + 1, n + 1, -1)
  <2>1. \A q \in -1..0 : /\ (c + 1) + q - (-1) <= c + 2
                         /\ next[(c + 1) + q - (-1)] = Byte(n + 1, k, q)
    <3>1. CASE TRUE
      <4>1. ASSUME NEW q \in -1..0 PROVE q = -1 \/ q = 0
        OBVIOUS
      <4>2. (c + 1) + (-1) - (-1) = c + 1 /\ (c + 1) + 0 - (-1) = c + 2 /\ c + 1 <= c + 2
        OBVIOUS
      <4> QED BY <1>6, <4>1, <4>2
    <3> QED BY <3>1
  <2>2. n + 1 \in 1..Len(gs) /\ -1 \in -1..0 /\ -1 # 0
    BY <1>3
  <2> QED BY <1>3, <1>6, <1>7, <2>1, <2>2 DEF Follows
<1>10. Follows(next, gs, TRUE, c + 2, n + 1, 0)
  <2>1. \A q \in 0..0 : /\ (c + 2) + q - 0 <= c + 2
                        /\ next[(c + 2) + q - 0] = Byte(n + 1, k, q)
    BY <1>6
  <2>2. n + 1 \in 1..Len(gs) /\ 0 \in -1..0
    BY <1>3
  <2> QED BY <1>3, <1>6, <1>7, <2>1, <2>2 DEF Follows
<1>11. ASSUME NEW i \in 1..Len(next)
       PROVE  Follows(next, gs, TRUE, i, next[i].frame, next[i].pos)
  <2>1. i \in 1..c \/ i = c + 1 \/ i = c + 2
    BY <1>6, SMTT(30)
  <2>2. /\ next[c + 1].frame = n + 1 /\ next[c + 1].pos = -1
        /\ next[c + 2].frame = n + 1 /\ next[c + 2].pos = 0
    <3>1. \A f, p : Byte(f, k, p).frame = f /\ Byte(f, k, p).pos = p
      BY DEF Byte
    <3> QED BY <1>6, <3>1, SMTT(30)
  <2> QED BY <2>1, <2>2, <1>6, <1>8, <1>9, <1>10
<1> QED BY <1>2, <1>11 DEF Stream

(* A text is written behind its header, or behind what is left of it.      *)
LEMMA TextOnStream ==
  ASSUME WireAssumption, NEW ch \in Seq(Bytes), NEW fs \in Seq(Written),
         Stream(ch, fs, TRUE), NEW n \in Nat \ {0}, n = Len(fs),
         NEW k, k = fs[n], NEW next, next = ch \o TextOf(n, k)
  PROVE  Stream(next, fs, FALSE)
<1>1. PICK c \in Nat : c = Len(ch)
  OBVIOUS
<1>2. PICK t : t = TextOf(n, k)
  OBVIOUS
<1>3. PICK l \in Nat \ {0} : l = Length[k] /\ k \in Kinds
  <2>1. n \in 1..Len(fs)
    OBVIOUS
  <2> QED BY <2>1, EndType DEF Written
<1>4. t \in Seq(Bytes) /\ Len(t) = l /\ \A p \in 1..l : t[p] = Byte(n, k, p)
  BY <1>2, <1>3, FrameBytes
<1>5. /\ Len(next) = c + l /\ \A i \in 1..c : next[i] = ch[i]
      /\ \A p \in 1..l : next[c + p] = Byte(n, k, p)
  <2>1. /\ Len(next) = c + Len(t) /\ \A i \in 1..c : next[i] = ch[i]
        /\ \A i \in 1..Len(t) : next[c + i] = t[i]
    <3>1. next = ch \o t
      BY <1>2
    <3>2. t \in Seq(Bytes)
      BY <1>4
    <3>3. /\ Len(ch \o t) = Len(ch) + Len(t) /\ \A i \in 1..Len(ch) : (ch \o t)[i] = ch[i]
          /\ \A i \in 1..Len(t) : (ch \o t)[Len(ch) + i] = t[i]
      BY <3>2, Concat
    <3> QED BY <1>1, <3>1, <3>3
  <2>2. \A p \in 1..l : next[c + p] = Byte(n, k, p)
    BY <1>4, <2>1
  <2> QED BY <1>4, <2>1, <2>2
<1>6. /\ End(fs, FALSE, n) = l /\ End(fs, TRUE, n) = 0
      /\ \A f \in 1..n : f # n => End(fs, FALSE, f) = End(fs, TRUE, f)
  BY <1>3 DEF End
<1>7. \A f, p : Byte(f, k, p).frame = f /\ Byte(f, k, p).pos = p
  BY DEF Byte
<1>8. ASSUME NEW i \in 1..c PROVE Follows(next, fs, FALSE, i, ch[i].frame, ch[i].pos)
  <2>1. PICK f, p : f = ch[i].frame /\ p = ch[i].pos
    OBVIOUS
  <2>2. Follows(ch, fs, TRUE, i, f, p)
    BY <1>1, <2>1 DEF Stream
  <2>3. f \in 1..n
    BY <2>2 DEF Follows
  <2>4. CASE f # n
    <3>1. PICK e \in Nat : e = End(fs, TRUE, f) /\ p \in -1..e
      BY <2>2, <2>3, EndType DEF Follows
    <3>2. ASSUME NEW q \in p..e
          PROVE  i + q - p <= c + l /\ next[i + q - p] = Byte(f, fs[f], q)
      <4>1. i + q - p <= c /\ ch[i + q - p] = Byte(f, fs[f], q)
        BY <1>1, <2>2, <3>1 DEF Follows
      <4>2. i + q - p \in 1..c
        BY <3>1, <4>1
      <4> QED BY <1>5, <4>1, <4>2
    <3>3. ASSUME p = e PROVE i < c + l /\ next[i + 1] = Byte(f + 1, fs[f + 1], -1)
      <4>1. i < c /\ ch[i + 1] = Byte(f + 1, fs[f + 1], -1)
        BY <1>1, <2>2, <2>4, <3>1, <3>3 DEF Follows
      <4>2. i + 1 \in 1..c
        BY <4>1
      <4> QED BY <1>5, <4>1, <4>2
    <3>4. End(fs, FALSE, f) = e /\ f \in 1..Len(fs) /\ p \in -1..e /\ f # Len(fs)
      BY <1>6, <2>3, <2>4, <3>1
    <3>5. Follows(next, fs, FALSE, i, f, p)
      BY <1>5, <3>2, <3>3, <3>4 DEF Follows
    <3> QED BY <2>1, <3>5
  <2>5. CASE f = n
    <3>1. p \in -1..0 /\ \A q \in p..0 : i + q - p <= c /\ ch[i + q - p] = Byte(n, k, q)
      BY <1>1, <1>6, <2>2, <2>5 DEF Follows
    <3>2. PICK j \in 1..c : j = i - p
      <4>1. 0 \in p..0 /\ i + 0 - p = i - p /\ i - p >= 1
        BY <3>1
      <4> QED BY <3>1, <4>1
    <3>3. ch[j] = Byte(n, k, 0)
      <4>1. 0 \in p..0 /\ i + 0 - p = j
        BY <3>1, <3>2
      <4> QED BY <3>1, <4>1
    <3>4. Follows(ch, fs, TRUE, j, n, 0)
      <4>1. ch[j].frame = n /\ ch[j].pos = 0
        BY <1>7, <3>3
      <4>2. Follows(ch, fs, TRUE, j, ch[j].frame, ch[j].pos)
        BY <1>1 DEF Stream
      <4> QED BY <4>1, <4>2
    <3>5. j = c
      BY <1>1, <1>6, <3>4 DEF Follows
    <3>6. ASSUME NEW q \in p..l
          PROVE  i + q - p <= c + l /\ next[i + q - p] = Byte(n, k, q)
      <4>1. p \in Int /\ q \in Int /\ i + q - p = c + q
        BY <3>1, <3>2, <3>5
      <4>2. CASE q <= 0
        <5>1. i + q - p <= c /\ ch[i + q - p] = Byte(n, k, q)
          BY <3>1, <4>1, <4>2
        <5>2. i + q - p \in 1..c
          BY <3>1, <4>1, <5>1
        <5> QED BY <1>5, <5>1, <5>2
      <4>3. CASE q >= 1
        <5>1. q \in 1..l
          BY <4>1, <4>3
        <5>2. next[c + q] = Byte(n, k, q) /\ c + q <= c + l
          BY <1>5, <5>1
        <5> QED BY <4>1, <5>2
      <4>4. q <= 0 \/ q >= 1
        BY <4>1
      <4> QED BY <4>2, <4>3, <4>4
    <3>7. p \in -1..l /\ p # l
      BY <3>1
    <3>8. Follows(next, fs, FALSE, i, n, p)
      BY <1>5, <1>6, <2>3, <2>5, <3>6, <3>7 DEF Follows
    <3> QED BY <2>1, <2>5, <3>8
  <2> QED BY <2>4, <2>5
<1>9. ASSUME NEW p \in 1..l PROVE Follows(next, fs, FALSE, c + p, n, p)
  <2>1. ASSUME NEW q \in p..l
        PROVE  (c + p) + q - p <= c + l /\ next[(c + p) + q - p] = Byte(n, k, q)
    <3>1. (c + p) + q - p = c + q /\ q \in 1..l
      OBVIOUS
    <3> QED BY <1>5, <3>1
  <2>2. p \in -1..l /\ n \in 1..Len(fs)
    OBVIOUS
  <2> QED BY <1>5, <1>6, <2>1, <2>2 DEF Follows
<1>10. ASSUME NEW i \in 1..Len(next)
       PROVE  Follows(next, fs, FALSE, i, next[i].frame, next[i].pos)
  <2>0. i \in Nat /\ i >= 1
    BY <1>5
  <2>1. CASE i <= c
    <3>1. i \in 1..c
      BY <2>0, <2>1
    <3> QED BY <1>5, <1>8, <3>1
  <2>2. CASE i > c
    <3>1. PICK p \in 1..l : i = c + p
      <4>1. i - c \in 1..l /\ i = c + (i - c)
        BY <1>5, <2>0, <2>2
      <4> QED BY <4>1
    <3>2. next[i] = Byte(n, k, p)
      BY <1>5, <3>1
    <3>3. next[i].frame = n /\ next[i].pos = p
      BY <1>7, <3>2
    <3>4. Follows(next, fs, FALSE, i, n, p)
      BY <1>9, <3>1
    <3> QED BY <3>3, <3>4
  <2>3. i <= c \/ i > c
    BY <2>0
  <2> QED BY <2>1, <2>2, <2>3
<1> QED BY <1>10 DEF Stream

(* The first bytes of a stream are a whole header ...                      *)
LEMMA HeadOfStream ==
  ASSUME WireAssumption, NEW ch \in Seq(Bytes), NEW fs \in Seq(Written),
         NEW open \in BOOLEAN, Stream(ch, fs, open),
         Len(ch) >= 2, ch[1].pos = -1, NEW f, f = ch[1].frame, NEW k, k = fs[f]
  PROVE  /\ f \in 1..Len(fs) /\ k \in Written
         /\ ch[1] = Byte(f, k, -1) /\ ch[2] = Byte(f, k, 0)
         /\ IF Len(ch) = 2 THEN f = Len(fs) /\ open
            ELSE ch[3].frame = f /\ ch[3].pos = 1
<1>1. Follows(ch, fs, open, 1, f, -1)
  BY DEF Stream
<1>2. f \in 1..Len(fs)
  BY <1>1 DEF Follows
<1>3. PICK e \in Nat : e = End(fs, open, f)
  BY <1>2, EndType
<1>4. \A q \in -1..e : 1 + q - (-1) <= Len(ch) /\ ch[1 + q - (-1)] = Byte(f, k, q)
  BY <1>1, <1>3 DEF Follows
<1>5. ch[1] = Byte(f, k, -1) /\ ch[2] = Byte(f, k, 0)
  <2>1. -1 \in -1..e /\ 0 \in -1..e /\ 1 + (-1) - (-1) = 1 /\ 1 + 0 - (-1) = 2
    OBVIOUS
  <2> QED BY <1>4, <2>1
<1>6. k \in Written
  BY <1>2, EndType
<1>7. CASE e = 0
  <2>1. Follows(ch, fs, open, 2, f, 0)
    <3>1. ch[2].frame = f /\ ch[2].pos = 0
      <4>1. Byte(f, k, 0).frame = f /\ Byte(f, k, 0).pos = 0
        BY DEF Byte
      <4> QED BY <1>5, <4>1
    <3>2. 2 \in 1..Len(ch)
      OBVIOUS
    <3>3. Follows(ch, fs, open, 2, ch[2].frame, ch[2].pos)
      BY <3>2 DEF Stream
    <3> QED BY <3>1, <3>3
  <2>2. f = Len(fs) /\ open
    BY <1>2, <1>3, <1>7, EndType DEF End
  <2>3. Len(ch) = 2
    BY <1>3, <1>7, <2>1, <2>2 DEF Follows
  <2> QED BY <1>2, <1>5, <1>6, <2>2, <2>3
<1>8. CASE e # 0
  <2>1. 1 \in -1..e /\ 1 + 1 - (-1) = 3
    BY <1>8
  <2>2. 3 <= Len(ch) /\ ch[3] = Byte(f, k, 1)
    BY <1>4, <2>1
  <2>3. ch[3].frame = f /\ ch[3].pos = 1
    <3>1. Byte(f, k, 1).frame = f /\ Byte(f, k, 1).pos = 1
      BY DEF Byte
    <3> QED BY <2>2, <3>1
  <2>4. Len(ch) # 2
    BY <2>2
  <2> QED BY <1>2, <1>5, <1>6, <2>3, <2>4
<1> QED BY <1>7, <1>8

(* ... or a whole text, and behind it the next header.                     *)
LEMMA BodyOfStream ==
  ASSUME WireAssumption, NEW ch \in Seq(Bytes), NEW fs \in Seq(Written),
         NEW open \in BOOLEAN, Stream(ch, fs, open), ch # <<>>,
         ch[1].pos = 1, NEW f, f = ch[1].frame, NEW k, k = fs[f], NEW l, l = Length[k],
         Len(ch) >= l
  PROVE  /\ f \in 1..Len(fs) /\ k \in Written /\ l \in Nat \ {0}
         /\ SubSeq(ch, 1, l) = TextOf(f, k)
         /\ IF Len(ch) = l THEN f = Len(fs) /\ ~open
            ELSE ch[l + 1].frame = f + 1 /\ ch[l + 1].pos = -1
<1>1. 1 \in 1..Len(ch) /\ Follows(ch, fs, open, 1, f, 1)
  <2>1. 1 \in 1..Len(ch)
    OBVIOUS
  <2> QED BY <2>1 DEF Stream
<1>2. f \in 1..Len(fs)
  BY <1>1 DEF Follows
<1>3. k \in Written /\ l \in Nat \ {0}
  BY <1>2, EndType
<1>4. End(fs, open, f) = l /\ ~(f = Len(fs) /\ open)
  BY <1>1, <1>3 DEF Follows, End
<1>5. \A q \in 1..l : ch[q] = Byte(f, k, q)
  <2>1. \A q \in 1..l : 1 + q - 1 <= Len(ch) /\ ch[1 + q - 1] = Byte(f, k, q)
    BY <1>1, <1>4 DEF Follows
  <2>2. \A q \in 1..l : 1 + q - 1 = q
    BY <1>3
  <2> QED BY <2>1, <2>2
<1>6. SubSeq(ch, 1, l) = TextOf(f, k)
  <2>1. PICK t : t = TextOf(f, k)
    OBVIOUS
  <2>2. f \in Nat /\ k \in Kinds
    BY <1>2, <1>3 DEF Written
  <2>3. t \in Seq(Bytes) /\ Len(t) = l /\ \A q \in 1..l : t[q] = Byte(f, k, q)
    BY <2>1, <2>2, FrameBytes
  <2>4. PICK s : s = SubSeq(ch, 1, l)
    OBVIOUS
  <2>5. s \in Seq(Bytes) /\ Len(s) = l /\ \A q \in 1..l : s[q] = ch[q]
    BY <1>3, <2>4
  <2>6. \A q \in 1..l : q \in Nat /\ s[q] = t[q]
    BY <1>3, <1>5, <2>3, <2>5, SMTT(30)
  <2>7. s = t
    BY <2>3, <2>5, <2>6, SeqEqual
  <2> QED BY <2>1, <2>4, <2>7
<1>7. Follows(ch, fs, open, l, f, l)
  <2>1. l \in 1..Len(ch) /\ l \in 1..l
    BY <1>3
  <2>2. ch[l].frame = f /\ ch[l].pos = l
    <3>1. Byte(f, k, l).frame = f /\ Byte(f, k, l).pos = l
      BY DEF Byte
    <3> QED BY <1>5, <2>1, <3>1
  <2> QED BY <2>1, <2>2 DEF Stream
<1>8. IF f = Len(fs) THEN l = Len(ch)
      ELSE l < Len(ch) /\ ch[l + 1] = Byte(f + 1, fs[f + 1], -1)
  BY <1>4, <1>7 DEF Follows
<1>9. Byte(f + 1, fs[f + 1], -1).frame = f + 1 /\ Byte(f + 1, fs[f + 1], -1).pos = -1
  BY DEF Byte
<1>10. CASE f = Len(fs)
  BY <1>2, <1>3, <1>4, <1>6, <1>8, <1>10
<1>11. CASE f # Len(fs)
  BY <1>2, <1>3, <1>6, <1>8, <1>9, <1>11
<1> QED BY <1>10, <1>11

-----------------------------------------------------------------------------
LEMMA InitInv ==
  ASSUME Init
  PROVE  IInv
<1>1. TypeOK
  <2>1. <<>> \in Seq(Bytes) /\ <<>> \in Seq(Written) /\ <<>> \in Seq(Nat)
    OBVIOUS
  <2> QED BY <2>1 DEF Init, TypeOK, Between
<1>2. Ends /\ Ghosts /\ Whole /\ InOrder
  BY DEF Init, Ends, Ghosts, Whole, InOrder, Unbroken, Stream, Expected, NextFrame,
         Between, Waiting, Ended
<1> QED BY <1>1, <1>2 DEF IInv

(* Steps that neither read nor write frames.                               *)
LEMMA ConnectInv ==
  ASSUME IInv, Connect
  PROVE  IInv'
<1> USE DEF IInv, Connect
<1>1. TypeOK'
  BY DEF TypeOK
<1>2. Ends' /\ Ghosts'
  BY DEF TypeOK, Ends, Ghosts
<1>3. ASSUME ~cut' PROVE Unbroken' /\ Expected'
  <2>1. ~cut /\ ~writer.body
    BY <1>3
  <2>2. Unbroken'
    BY <2>1 DEF Whole, Unbroken
  <2>3. Expected'
    BY <2>1 DEF Whole, Expected
  <2> QED BY <2>2, <2>3
<1>4. InOrder'
  BY DEF InOrder, NextFrame
<1> QED BY <1>1, <1>2, <1>3, <1>4 DEF Whole

LEMMA WriterDiesInv ==
  ASSUME IInv, WriterDies
  PROVE  IInv'
<1> USE DEF IInv, WriterDies
<1>1. TypeOK'
  BY DEF TypeOK, Between
<1>2. Ends' /\ Ghosts'
  BY DEF TypeOK, Ends, Ghosts, Between
<1>3. ASSUME ~cut' PROVE Unbroken' /\ Expected'
  <2>1. ~cut /\ ~writer.body /\ ~writer'.body
    BY <1>3 DEF Between
  <2>2. writer'.body = writer.body
    BY <2>1 DEF TypeOK, Between
  <2>3. Unbroken'
    BY <2>1, <2>2 DEF Whole, Unbroken
  <2>4. Expected'
    BY <2>1 DEF Whole, Expected
  <2> QED BY <2>3, <2>4
<1>4. InOrder'
  BY DEF InOrder, NextFrame
<1> QED BY <1>1, <1>2, <1>3, <1>4 DEF Whole

LEMMA OpenType ==
  ASSUME TypeOK
  PROVE  \E open \in BOOLEAN : open = writer.body
<1>1. CASE writer = Between
  BY <1>1 DEF Between
<1>2. CASE writer # Between
  <2>1. writer.body = TRUE
    BY <1>2 DEF TypeOK
  <2> QED BY <2>1
<1> QED BY <1>1, <1>2

(* A channel that is emptied, by a reader that starts afresh.              *)
LEMMA EmptyWhole ==
  ASSUME channel' = <<>>, reader' = Waiting, ~(writer'.body /\ connected')
  PROVE  Unbroken' /\ Expected'
BY DEF Unbroken, Stream, Expected, Waiting

LEMMA ReadEofInv ==
  ASSUME IInv, ReadEof
  PROVE  IInv'
<1> USE DEF IInv, ReadEof
<1>1. TypeOK'
  <2>1. channel' \in Seq(Bytes) /\ lost' \in BOOLEAN
    OBVIOUS
  <2> QED BY <2>1 DEF TypeOK
<1>2. Ends' /\ Ghosts'
  BY DEF Ends, Ghosts, Waiting, Ended
<1>3. Whole'
  BY EmptyWhole DEF Ends, Whole
<1> QED BY <1>1, <1>2, <1>3 DEF InOrder

(* A handler that closes its connection between two bytes of a frame loses *)
(* them; otherwise nothing was written since it connected.                 *)
LEMMA CloseInv ==
  ASSUME IInv, Close, way = "up", refused' \in BOOLEAN, refused' => cut,
         UNCHANGED <<way, writer, eof, frames, delivered, cut>>
  PROVE  IInv'
<1> USE DEF IInv, Close
<1>1. TypeOK'
  <2>1. channel' \in Seq(Bytes)
    OBVIOUS
  <2>2. lost' \in BOOLEAN /\ connected' \in BOOLEAN
    BY DEF TypeOK
  <2> QED BY <2>1, <2>2 DEF TypeOK
<1>2. Ends'
  BY DEF Ends, Waiting, Ended
<1>3. Ghosts'
  <2>1. ASSUME writer.body, ~lost, channel = <<>>, reader = Waiting PROVE FALSE
    <3>1. connected /\ ~cut
      BY <2>1 DEF Ghosts
    <3>2. reader.pc = "header"
      BY <2>1 DEF Waiting
    <3> QED BY <2>1, <3>1, <3>2 DEF Whole, Expected
  <2>2. cut => lost'
    BY DEF Ghosts
  <2>3. writer.body => lost'
    BY <2>1
  <2> QED BY <2>2, <2>3 DEF Ghosts
<1>4. Whole'
  BY EmptyWhole DEF Whole
<1>5. InOrder'
  <2>1. ASSUME ~lost' PROVE ~lost /\ channel = <<>> /\ reader = Waiting
    BY <2>1 DEF TypeOK
  <2> QED BY <2>1 DEF InOrder, NextFrame
<1> QED BY <1>1, <1>2, <1>3, <1>4, <1>5

LEMMA ReadTimeoutInv ==
  ASSUME IInv, ReadTimeout
  PROVE  IInv'
BY CloseInv DEF ReadTimeout, IInv, TypeOK, Ghosts

-----------------------------------------------------------------------------
(* Writers.                                                                *)
LEMMA WriteHeaderInv ==
  ASSUME WireAssumption, IInv, NEW k \in Kinds, WriteHeader(k)
  PROVE  IInv'
<1> DEFINE n == Len(frames)
           h == HeaderOf(n + 1, k)
<1>1. k \in Written /\ ~writer.body /\ writer'.body /\ writer'.kind = k
  BY DEF WriteHeader, Written
<1>2. /\ n \in Nat /\ frames' = Append(frames, k) /\ frames' \in Seq(Written)
      /\ Len(frames') = n + 1 /\ frames'[n + 1] = k
      /\ \A f \in 1..n : frames'[f] = frames[f]
  BY <1>1 DEF IInv, TypeOK, WriteHeader
<1>3. /\ h \in Seq(Bytes) /\ Len(h) = 2 /\ h[1] = Byte(n + 1, k, -1)
  BY <1>2, FrameBytes
<1>4. /\ channel' = (IF connected THEN channel \o h ELSE channel)
      /\ lost' = (lost \/ ~connected)
      /\ UNCHANGED <<way, connected, eof, reader, delivered, cut, refused>>
  BY <1>2 DEF WriteHeader, Carried
<1> HIDE DEF h
<1>5. /\ connected => /\ Len(channel') = Len(channel) + 2 /\ channel'[Len(channel) + 1] = h[1]
                      /\ \A i \in 1..Len(channel) : channel'[i] = channel[i]
      /\ channel' \in Seq(Bytes)
  <2>1. channel \in Seq(Bytes)
    BY DEF IInv, TypeOK
  <2>2. h \in Seq(Bytes) /\ Len(h) = 2 /\ 1 \in 1..Len(h)
    BY <1>3
  <2>3. /\ channel \o h \in Seq(Bytes) /\ Len(channel \o h) = Len(channel) + Len(h)
        /\ \A i \in 1..Len(channel) : (channel \o h)[i] = channel[i]
        /\ \A i \in 1..Len(h) : (channel \o h)[Len(channel) + i] = h[i]
    BY <2>1, <2>2, Concat
  <2>4. CASE connected
    BY <1>4, <2>2, <2>3, <2>4
  <2>5. CASE ~connected
    BY <1>4, <2>1, <2>5
  <2> QED BY <2>4, <2>5
<1>6. TypeOK'
  <2>1. writer' \in [body : {TRUE}, kind : Written]
    BY <1>1 DEF WriteHeader
  <2>2. lost' \in BOOLEAN
    BY <1>4 DEF IInv, TypeOK
  <2>3. writer'.kind = frames'[Len(frames')] /\ frames' # <<>>
    BY <1>1, <1>2
  <2> QED BY <1>2, <1>4, <1>5, <2>1, <2>2, <2>3 DEF IInv, TypeOK
<1>7. Ends'
  BY <1>4 DEF IInv, Ends, WriteHeader
<1>8. Ghosts'
  BY <1>4 DEF IInv, Ghosts
<1>9. ~connected => channel = <<>> /\ reader = Waiting
  BY DEF IInv, TypeOK, Ends, WriteHeader
<1>10. ASSUME ~cut' PROVE Unbroken' /\ Expected'
  <2>1. ~cut /\ Unbroken /\ Expected
    BY <1>4, <1>10 DEF IInv, Whole
  <2>2. CASE ~connected
    BY <1>4, <1>9, <2>2 DEF Unbroken, Stream, Expected, Waiting
  <2>3. CASE connected
    <3>1. Unbroken'
      <4>1. Stream(channel, frames, FALSE) /\ writer'.body = TRUE
        <5>1. writer.body = FALSE
          BY <1>1 DEF IInv, TypeOK, Between
        <5>2. writer'.body = TRUE
          BY DEF WriteHeader
        <5> QED BY <2>1, <5>1, <5>2 DEF Unbroken
      <4>2. channel' = channel \o HeaderOf(n + 1, k)
        BY <1>4, <2>3 DEF h
      <4>3. channel \in Seq(Bytes) /\ frames \in Seq(Written)
        BY DEF IInv, TypeOK
      <4>4. Stream(channel', Append(frames, k), TRUE)
        BY <1>1, <4>1, <4>2, <4>3, HeaderOnStream
      <4> QED BY <1>2, <4>1, <4>4 DEF Unbroken
    <3>2. Expected'
      <4>1. CASE channel = <<>>
        <5>1. channel'[1] = h[1] /\ channel' # <<>>
          BY <1>5, <2>3, <4>1
        <5>2. reader.pc # "text"
          BY <1>1, <2>1, <4>1 DEF Expected
        <5>3. h[1].pos = -1
          BY <1>3 DEF Byte
        <5> QED BY <1>4, <5>1, <5>2, <5>3 DEF Expected
      <4>2. CASE channel # <<>>
        <5>1. 1 \in 1..Len(channel)
          BY <4>2 DEF IInv, TypeOK
        <5>2. channel'[1] = channel[1] /\ channel' # <<>>
          BY <1>5, <2>3, <5>1
        <5>3. channel[1].frame \in 1..n
          BY <2>1, <5>1 DEF Unbroken, Stream, Follows
        <5> QED BY <1>2, <1>4, <2>1, <4>2, <5>2, <5>3 DEF Expected
      <4> QED BY <4>1, <4>2
    <3> QED BY <3>1, <3>2
  <2> QED BY <2>2, <2>3
<1>11. ASSUME ~lost' PROVE NextFrame' /\ delivered' = [i \in 1..Len(delivered') |-> i]
  <2>1. ~lost /\ connected /\ NextFrame /\ delivered = [i \in 1..Len(delivered) |-> i]
    BY <1>4, <1>11 DEF IInv, InOrder
  <2>2. ~cut /\ Expected
    BY <2>1 DEF IInv, Ghosts, Whole
  <2>3. NextFrame'
    <3>1. CASE channel = <<>>
      <4>1. channel'[1] = h[1] /\ channel' # <<>>
        BY <1>5, <2>1, <3>1
      <4>2. reader.pc # "text"
        BY <1>1, <2>2, <3>1 DEF Expected
      <4>3. n = Len(delivered)
        BY <2>1, <3>1, <4>2 DEF NextFrame, IInv, TypeOK
      <4>4. h[1].frame = n + 1
        BY <1>3 DEF Byte
      <4> QED BY <1>4, <4>1, <4>3, <4>4 DEF NextFrame
    <3>2. CASE channel # <<>>
      <4>1. 1 \in 1..Len(channel)
        BY <3>2 DEF IInv, TypeOK
      <4>2. channel'[1] = channel[1] /\ channel' # <<>>
        BY <1>5, <2>1, <4>1
      <4> QED BY <1>4, <2>1, <3>2, <4>2 DEF NextFrame
    <3> QED BY <3>1, <3>2
  <2> QED BY <1>4, <2>1, <2>3
<1> QED BY <1>6, <1>7, <1>8, <1>10, <1>11 DEF IInv, Whole, InOrder

LEMMA WriteTextInv ==
  ASSUME WireAssumption, IInv, WriteText
  PROVE  IInv'
<1> DEFINE n == Len(frames)
           k == frames[n]
           t == TextOf(n, k)
<1>1. writer.body /\ ~writer'.body /\ writer'.body = FALSE /\ writer.kind = k
  BY DEF WriteText, Between, IInv, TypeOK
<1>2. n \in Nat \ {0} /\ k \in Kinds /\ n \in 1..n /\ Length[k] \in Nat \ {0}
  <2>1. n \in Nat \ {0} /\ n \in 1..n
    BY <1>1 DEF IInv, TypeOK
  <2>2. frames \in Seq(Written)
    BY DEF IInv, TypeOK
  <2> QED BY <2>1, <2>2, EndType DEF Written
<1>3. t \in Seq(Bytes) /\ Len(t) = Length[k] /\ t[1] = Byte(n, k, 1)
  BY <1>2, FrameBytes
<1>4. /\ channel' = (IF connected THEN channel \o t ELSE channel)
      /\ lost' = (lost \/ ~connected)
      /\ UNCHANGED <<way, connected, eof, reader, frames, delivered, cut, refused>>
  BY <1>1 DEF WriteText, Carried
<1> HIDE DEF t
<1>5. /\ connected => /\ Len(channel') = Len(channel) + Length[k]
                      /\ channel'[Len(channel) + 1] = t[1]
                      /\ \A i \in 1..Len(channel) : channel'[i] = channel[i]
      /\ channel' \in Seq(Bytes)
  <2>1. channel \in Seq(Bytes)
    BY DEF IInv, TypeOK
  <2>2. 1 \in 1..Len(t)
    BY <1>2, <1>3
  <2> QED BY <1>3, <1>4, <2>1, <2>2, Concat
<1>6. TypeOK'
  <2>1. lost' \in BOOLEAN
    BY <1>4 DEF IInv, TypeOK
  <2> QED BY <1>1, <1>4, <1>5, <2>1 DEF IInv, TypeOK, WriteText
<1>7. Ends' /\ Ghosts'
  BY <1>1, <1>4 DEF IInv, Ends, Ghosts
<1>8. ~connected => channel = <<>> /\ reader = Waiting
  BY <1>1 DEF IInv, TypeOK, Ends
<1>9. ASSUME ~cut' PROVE Unbroken' /\ Expected'
  <2>1. ~cut /\ Unbroken /\ Expected
    BY <1>4, <1>9 DEF IInv, Whole
  <2>2. CASE ~connected
    BY <1>1, <1>4, <1>8, <2>2 DEF Unbroken, Stream, Expected, Waiting
  <2>3. CASE connected
    <3>1. Unbroken'
      <4>1. Stream(channel, frames, TRUE)
        BY <1>1, <2>1 DEF Unbroken, IInv, TypeOK, Between
      <4>2. channel' = channel \o TextOf(n, k)
        BY <1>4, <2>3 DEF t
      <4>3. channel \in Seq(Bytes) /\ frames \in Seq(Written)
        BY DEF IInv, TypeOK
      <4>4. Stream(channel', frames, FALSE)
        BY <1>2, <4>1, <4>2, <4>3, TextOnStream
      <4> QED BY <1>1, <1>4, <4>4 DEF Unbroken
    <3>2. Expected'
      <4>1. CASE channel = <<>>
        <5>1. channel'[1] = t[1] /\ channel' # <<>>
          BY <1>2, <1>5, <2>3, <4>1
        <5>2. reader.pc # "header" /\ (reader.pc = "text" => reader.need = Length[k])
          BY <1>1, <2>1, <2>3, <4>1 DEF Expected
        <5>3. t[1].pos = 1 /\ t[1].frame = n
          BY <1>3 DEF Byte
        <5> QED BY <1>4, <5>1, <5>2, <5>3 DEF Expected
      <4>2. CASE channel # <<>>
        <5>1. 1 \in 1..Len(channel)
          BY <4>2 DEF IInv, TypeOK
        <5>2. channel'[1] = channel[1] /\ channel' # <<>>
          BY <1>2, <1>5, <2>3, <5>1
        <5> QED BY <1>4, <2>1, <4>2, <5>2 DEF Expected
      <4> QED BY <4>1, <4>2
    <3> QED BY <3>1, <3>2
  <2> QED BY <2>2, <2>3
<1>10. ASSUME ~lost' PROVE NextFrame' /\ delivered' = [i \in 1..Len(delivered') |-> i]
  <2>1. ~lost /\ connected /\ NextFrame /\ delivered = [i \in 1..Len(delivered) |-> i]
    BY <1>4, <1>10 DEF IInv, InOrder
  <2>2. ~cut /\ Expected
    BY <2>1 DEF IInv, Ghosts, Whole
  <2>3. NextFrame'
    <3>1. CASE channel = <<>>
      <4>1. channel'[1] = t[1] /\ channel' # <<>>
        BY <1>2, <1>5, <2>1, <3>1
      <4>2. reader.pc = "text"
        <5>1. reader.pc # "header" /\ reader # Ended
          BY <1>1, <2>1, <2>2, <3>1 DEF Expected, IInv, Ends, Ghosts
        <5> QED BY <5>1 DEF IInv, TypeOK, Waiting
      <4>3. n = Len(delivered) + 1
        BY <2>1, <3>1, <4>2 DEF NextFrame
      <4>4. t[1].frame = n
        BY <1>3 DEF Byte
      <4> QED BY <1>4, <4>1, <4>3, <4>4 DEF NextFrame
    <3>2. CASE channel # <<>>
      <4>1. 1 \in 1..Len(channel)
        BY <3>2 DEF IInv, TypeOK
      <4>2. channel'[1] = channel[1] /\ channel' # <<>>
        BY <1>2, <1>5, <2>1, <4>1
      <4> QED BY <1>4, <2>1, <3>2, <4>2 DEF NextFrame
    <3> QED BY <3>1, <3>2
  <2> QED BY <1>4, <2>1, <2>3
<1> QED BY <1>6, <1>7, <1>9, <1>10 DEF IInv, Whole, InOrder

-----------------------------------------------------------------------------
(* Readers.  A frame is refused only behind one that was cut.              *)
LEMMA RefuseInv ==
  ASSUME IInv, cut, Refuse, UNCHANGED <<way, writer, eof, frames, delivered, cut>>
  PROVE  IInv'
<1>1. CASE way = "up"
  BY <1>1, CloseInv DEF Refuse
<1>2. CASE way # "up"
  <2>1. refused' /\ reader' = Ended /\ UNCHANGED <<connected, channel, lost>>
    BY <1>2 DEF Refuse, Ended
  <2>2. TypeOK'
    BY <2>1 DEF IInv, TypeOK, Refuse
  <2>3. Ends'
    BY <1>2, <2>1 DEF IInv, Ends
  <2>4. Ghosts' /\ Whole' /\ InOrder'
    BY <2>1 DEF IInv, Ghosts, Whole, InOrder
  <2> QED BY <2>2, <2>3, <2>4 DEF IInv
<1> QED BY <1>1, <1>2

LEMMA ReadHeaderInv ==
  ASSUME WireAssumption, IInv, ReadHeader
  PROVE  IInv'
<1>1. PICK length : length = channel[1].digit + Base * channel[2].digit
  OBVIOUS
<1>2. /\ reader.pc = "header" /\ reader = Waiting /\ Len(channel) >= 2
      /\ channel \in Seq(Bytes) /\ frames \in Seq(Written)
      /\ UNCHANGED <<way, writer, eof, frames, delivered, cut>>
  BY DEF ReadHeader, IInv, TypeOK, Waiting, Ended
<1>3. channel # <<>> /\ channel[1] \in Bytes /\ channel[2] \in Bytes
  BY <1>2
<1>4. length \in Nat
  <2>1. channel[1].digit \in Nat /\ channel[2].digit \in Nat /\ Base \in Nat
    BY <1>3 DEF Bytes, WireAssumption
  <2>2. \A a, b, c \in Nat : a + b * c \in Nat
    OBVIOUS
  <2> QED BY <1>1, <2>1, <2>2
<1>5. CASE cut /\ Refuse
  BY <1>2, <1>5, RefuseInv
<1>6. ASSUME channel' = Rest(2), reader' = [pc |-> "text", need |-> length],
             UNCHANGED <<connected, lost, refused>>, Whole', InOrder'
      PROVE  IInv'
  <2>1. channel' \in Seq(Bytes)
    BY <1>2, <1>6 DEF Rest
  <2>2. TypeOK'
    BY <1>2, <1>4, <1>6, <2>1 DEF IInv, TypeOK
  <2>3. Ends'
    BY <1>2, <1>3, <1>6 DEF IInv, Ends, Ended
  <2>4. Ghosts'
    BY <1>2, <1>6 DEF IInv, Ghosts
  <2> QED BY <1>6, <2>2, <2>3, <2>4 DEF IInv
<1>7. CASE cut /\ ~Refuse
  <2>1. /\ channel' = Rest(2) /\ reader' = [pc |-> "text", need |-> length]
        /\ UNCHANGED <<connected, lost, refused>>
    BY <1>1, <1>7 DEF ReadHeader
  <2>2. Whole' /\ InOrder'
    BY <1>2, <1>7, <2>1 DEF IInv, Ghosts, Whole, InOrder
  <2> QED BY <1>6, <2>1, <2>2
<1>8. CASE ~cut
  <2>1. Unbroken /\ Expected /\ channel[1].pos = -1
    BY <1>2, <1>3, <1>8 DEF IInv, Whole, Expected
  <2>2. PICK open \in BOOLEAN : open = writer.body
    BY OpenType DEF IInv
  <2>3. Stream(channel, frames, open)
    BY <2>1, <2>2 DEF Unbroken
  <2>4. PICK f, k : f = channel[1].frame /\ k = frames[f]
    OBVIOUS
  <2>5. /\ f \in 1..Len(frames) /\ k \in Written
        /\ channel[1] = Byte(f, k, -1) /\ channel[2] = Byte(f, k, 0)
        /\ IF Len(channel) = 2 THEN f = Len(frames) /\ open
           ELSE channel[3].frame = f /\ channel[3].pos = 1
    BY <1>2, <2>1, <2>3, <2>4, HeadOfStream
  <2>6. length = Length[k] /\ length <= MAX_FRAME_SIZE
    <3>1. channel[1].digit = Header(k)[1] /\ channel[2].digit = Header(k)[2]
      BY <2>5 DEF Byte
    <3> QED BY <1>1, <2>5, <3>1, HeaderValue DEF Written
  <2>7. /\ channel' = Rest(2) /\ reader' = [pc |-> "text", need |-> length]
        /\ UNCHANGED <<connected, lost, refused>>
    <3>1. ~(length > MAX_FRAME_SIZE)
      BY <1>4, <2>6 DEF WireAssumption
    <3> QED BY <1>1, <3>1 DEF ReadHeader
  <2>8. /\ Len(channel') = Len(channel) - 2 /\ channel' \in Seq(Bytes)
        /\ \A i \in 1..Len(channel') : channel'[i] = channel[i + 2]
        /\ Stream(channel', frames, open)
    <3>1. PICK n : n = 2
      OBVIOUS
    <3>2. n \in 0..Len(channel) /\ WireAssumption
          /\ channel \in Seq(Bytes) /\ frames \in Seq(Written)
      BY <1>2, <3>1
    <3>3. PICK rest : /\ rest = SubSeq(channel, n + 1, Len(channel))
                      /\ rest \in Seq(Bytes) /\ Len(rest) = Len(channel) - n
                      /\ \A i \in 1..Len(rest) : rest[i] = channel[i + n]
                      /\ Stream(rest, frames, open)
      BY <2>3, <3>2, RestOfStream
    <3>4. channel' = rest
      BY <2>7, <3>1, <3>3 DEF Rest
    <3> QED BY <3>1, <3>3, <3>4
  <2>9. IF channel' = <<>> THEN f = Len(frames) /\ open
        ELSE channel'[1].frame = f /\ channel'[1].pos = 1
    <3>1. channel' = <<>> => Len(channel) = 2
      BY <1>2, <2>8
    <3>2. channel' # <<>> => Len(channel) # 2 /\ channel'[1] = channel[3]
      <4>1. channel' # <<>> => Len(channel') \in Nat /\ Len(channel') # 0
        BY <2>8
      <4>2. channel' # <<>> => 1 \in 1..Len(channel') /\ Len(channel) # 2
        BY <1>2, <2>8, <4>1
      <4>3. 1 + 2 = 3
        OBVIOUS
      <4> QED BY <2>8, <4>2, <4>3
    <3> QED BY <2>5, <3>1, <3>2
  <2>10. Whole'
    <3>1. Unbroken'
      BY <1>2, <2>2, <2>8 DEF Unbroken
    <3>2. Expected'
      <4>1. CASE channel' = <<>>
        <5>1. writer.body /\ connected /\ k = writer.kind
          BY <1>3, <2>2, <2>4, <2>9, <4>1 DEF IInv, TypeOK, Ends
        <5> QED BY <1>2, <2>6, <2>7, <4>1, <5>1 DEF Expected
      <4>2. CASE channel' # <<>>
        BY <1>2, <2>4, <2>6, <2>7, <2>9, <4>2 DEF Expected
      <4> QED BY <4>1, <4>2
    <3> QED BY <3>1, <3>2 DEF Whole
  <2>11. InOrder'
    <3>1. ~lost => /\ channel[1].frame = Len(delivered) + 1
                   /\ delivered = [i \in 1..Len(delivered) |-> i]
      BY <1>3 DEF IInv, InOrder, NextFrame
    <3> QED BY <1>2, <2>4, <2>7, <2>9, <3>1 DEF InOrder, NextFrame
  <2> QED BY <1>6, <2>7, <2>10, <2>11
<1> QED BY <1>5, <1>7, <1>8

LEMMA ReadTextInv ==
  ASSUME WireAssumption, IInv, ReadText
  PROVE  IInv'
<1>1. PICK l \in Nat : l = reader.need /\ reader = [pc |-> "text", need |-> l]
  BY DEF ReadText, IInv, TypeOK, Waiting, Ended
<1>2. PICK got : got = Accepted(SubSeq(channel, 1, l))
  OBVIOUS
<1>3. /\ Len(channel) >= l /\ l \in 0..Len(channel)
      /\ channel \in Seq(Bytes) /\ frames \in Seq(Written) /\ delivered \in Seq(Nat)
      /\ UNCHANGED <<way, writer, eof, frames, cut>>
  BY <1>1 DEF ReadText, IInv, TypeOK
<1>4. CASE cut /\ got = {}
  BY <1>1, <1>2, <1>3, <1>4, RefuseInv DEF ReadText
<1>5. ASSUME got # {}
      PROVE  /\ \E f \in got : delivered' = Append(delivered, f)
             /\ channel' = Rest(l) /\ reader' = Waiting
             /\ UNCHANGED <<connected, lost, refused>>
  BY <1>1, <1>2, <1>5 DEF ReadText
<1>6. ASSUME got # {}, Whole', InOrder' PROVE IInv'
  <2>1. channel' \in Seq(Bytes)
    <3>1. channel' = SubSeq(channel, l + 1, Len(channel))
      BY <1>5, <1>6 DEF Rest
    <3>2. SubSeq(channel, l + 1, Len(channel)) \in Seq(Bytes)
      BY <1>3
    <3> QED BY <3>1, <3>2
  <2>2. PICK f \in 1..Len(frames) : delivered' = Append(delivered, f)
    BY <1>2, <1>5, <1>6 DEF Accepted, Parse
  <2>3. delivered' \in Seq(Nat)
    BY <1>3, <2>2
  <2>4. TypeOK'
    BY <1>3, <1>5, <1>6, <2>1, <2>3 DEF IInv, TypeOK
  <2>5. Ends'
    BY <1>1, <1>3, <1>5, <1>6 DEF IInv, Ends, Waiting, Ended
  <2>6. Ghosts'
    BY <1>3, <1>5, <1>6 DEF IInv, Ghosts
  <2> QED BY <1>6, <2>4, <2>5, <2>6 DEF IInv
<1>7. CASE cut /\ got # {}
  <2>1. Whole' /\ InOrder'
    BY <1>3, <1>5, <1>7 DEF IInv, Ghosts, Whole, InOrder
  <2> QED BY <1>6, <1>7, <2>1
<1>8. CASE ~cut
  <2>1. Unbroken /\ Expected
    BY <1>8 DEF IInv, Whole
  <2>2. PICK open \in BOOLEAN : open = writer.body
    BY OpenType DEF IInv
  <2>3. Stream(channel, frames, open)
    BY <2>1, <2>2 DEF Unbroken
  <2>4. channel # <<>>
    <3>1. ASSUME channel = <<>> PROVE FALSE
      <4>1. writer.body /\ l = Length[writer.kind]
        BY <1>1, <2>1, <3>1 DEF Expected
      <4>2. writer.kind \in Kinds
        BY <4>1 DEF IInv, TypeOK, Between, Written
      <4>3. l \in Nat \ {0}
        BY <4>1, <4>2, HeaderValue
      <4> QED BY <1>3, <3>1, <4>3
    <3> QED BY <3>1
  <2>5. PICK f, k : f = channel[1].frame /\ k = frames[f]
    OBVIOUS
  <2>6. channel[1].pos = 1 /\ l = Length[k]
    BY <1>1, <2>1, <2>4, <2>5 DEF Expected
  <2>7. /\ f \in 1..Len(frames) /\ k \in Written /\ l \in Nat \ {0}
        /\ SubSeq(channel, 1, l) = TextOf(f, k)
        /\ IF Len(channel) = l THEN f = Len(frames) /\ ~open
           ELSE channel[l + 1].frame = f + 1 /\ channel[l + 1].pos = -1
    BY <1>3, <2>3, <2>4, <2>5, <2>6, BodyOfStream, SMTT(30)
  <2>8. got = {f}
    <3>1. f \in got
      BY <1>2, <2>5, <2>7 DEF Accepted, Parse, Written
    <3>2. ASSUME NEW g \in got PROVE g = f
      <4>1. g \in 1..Len(frames) /\ TextOf(f, k) = TextOf(g, frames[g])
        BY <1>2, <2>7 DEF Accepted, Parse
      <4>2. frames[g] \in Kinds /\ Length[frames[g]] \in Nat \ {0} /\ k \in Kinds
            /\ Length[k] \in Nat \ {0}
        BY <1>3, <2>7, <4>1, HeaderValue DEF Written
      <4>3. TextOf(f, k)[1].frame = f
        BY <4>2 DEF TextOf
      <4>4. TextOf(g, frames[g])[1].frame = g
        BY <4>2 DEF TextOf
      <4> QED BY <4>1, <4>3, <4>4
    <3> QED BY <3>1, <3>2
  <2>9. /\ delivered' = Append(delivered, f) /\ channel' = Rest(l) /\ reader' = Waiting
        /\ UNCHANGED <<connected, lost, refused>>
    BY <1>5, <2>8
  <2>10. /\ Len(channel') = Len(channel) - l /\ channel' \in Seq(Bytes)
         /\ \A i \in 1..Len(channel') : channel'[i] = channel[i + l]
         /\ Stream(channel', frames, open)
    <3>1. PICK rest : /\ rest = SubSeq(channel, l + 1, Len(channel))
                      /\ rest \in Seq(Bytes) /\ Len(rest) = Len(channel) - l
                      /\ \A i \in 1..Len(rest) : rest[i] = channel[i + l]
                      /\ Stream(rest, frames, open)
      BY <1>3, <2>3, RestOfStream
    <3>2. channel' = rest
      BY <2>9, <3>1 DEF Rest
    <3> QED BY <3>1, <3>2
  <2>11. IF channel' = <<>> THEN f = Len(frames) /\ ~open
         ELSE channel'[1].frame = f + 1 /\ channel'[1].pos = -1
    <3>1. channel' = <<>> => Len(channel) = l
      BY <1>3, <2>10
    <3>2. channel' # <<>> => Len(channel) # l /\ channel'[1] = channel[l + 1]
      BY <1>3, <2>10
    <3> QED BY <2>7, <3>1, <3>2
  <2>12. Whole'
    <3>1. Unbroken'
      BY <1>3, <2>2, <2>10 DEF Unbroken
    <3>2. Expected'
      BY <1>3, <2>2, <2>9, <2>11 DEF Expected, Waiting
    <3> QED BY <3>1, <3>2 DEF Whole
  <2>13. InOrder'
    <3>1. ASSUME ~lost'
          PROVE  /\ f = Len(delivered) + 1
                 /\ delivered = [i \in 1..Len(delivered) |-> i]
      BY <2>4, <2>5, <2>9, <3>1 DEF IInv, InOrder, NextFrame
    <3>2. ASSUME ~lost' PROVE NextFrame'
      <4>1. Len(delivered') = Len(delivered) + 1 /\ Len(delivered) \in Nat
        BY <1>3, <2>9
      <4> QED BY <1>3, <2>9, <2>11, <3>1, <3>2, <4>1 DEF NextFrame, Waiting
    <3>3. ASSUME ~lost' PROVE delivered' = [i \in 1..Len(delivered') |-> i]
      <4>1. PICK d \in Nat : d = Len(delivered)
        BY <1>3
      <4>2. delivered = [i \in 1..d |-> i] /\ delivered' = Append(delivered, d + 1)
        BY <2>9, <3>1, <3>3, <4>1
      <4>3. Append([i \in 1..d |-> i], d + 1) = [i \in 1..(d + 1) |-> i]
        OBVIOUS
      <4> QED BY <1>3, <4>1, <4>2, <4>3
    <3> QED BY <3>2, <3>3 DEF InOrder
  <2> QED BY <1>6, <2>8, <2>12, <2>13
<1> QED BY <1>4, <1>7, <1>8

-----------------------------------------------------------------------------
LEMMA StutterInv ==
  ASSUME IInv, UNCHANGED vars
  PROVE  IInv'
BY DEF IInv, vars, TypeOK, Ends, Ghosts, Whole, Unbroken, Expected, InOrder, NextFrame

LEMMA NextInv ==
  ASSUME WireAssumption, IInv, [Next]_vars
  PROVE  IInv'
<1>1. ASSUME NEW k \in Kinds, WriteHeader(k) PROVE IInv'
  BY <1>1, WriteHeaderInv
<1> QED BY <1>1, ConnectInv, WriteTextInv, WriterDiesInv, ReadHeaderInv, ReadTextInv,
           ReadEofInv, ReadTimeoutInv, StutterInv DEF Next

(* The invariant, for any kinds of messages and any number of frames.      *)
LEMMA Invariance ==
  ASSUME WireAssumption
  PROVE  Spec => []IInv
<1>1. Init => IInv
  BY InitInv
<1>2. IInv /\ [Next]_vars => IInv'
  BY NextInv
<1> QED BY <1>1, <1>2, PTL DEF Spec

(* Every frame reaches the reader once and in order, however the calls of  *)
(* write_frame and read_frame interleave, unless bytes were lost.          *)
THEOREM LosslessTheorem ==
  ASSUME WireAssumption
  PROVE  Spec => []Lossless
<1>1. IInv => Lossless
  BY DEF IInv, TypeOK, InOrder, NextFrame, Lossless, Waiting
<1> QED BY <1>1, Invariance, PTL

(* read_frame refuses a frame only if one was cut between the two writes   *)
(* of write_frame.                                                         *)
THEOREM RefusalTheorem ==
  ASSUME WireAssumption
  PROVE  Spec => []RefusedOnlyIfCut
<1>1. IInv => RefusedOnlyIfCut
  BY DEF IInv, Ghosts, RefusedOnlyIfCut
<1> QED BY <1>1, Invariance, PTL
=============================================================================
