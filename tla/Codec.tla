------------------------------- MODULE Codec -------------------------------
(***************************************************************************)
(* The message codec (unnamed/part_002): one Encoder writing whole frames  *)
(* to a connection, and one Decoder reading them back with its reused      *)
(* buffer.  Bytes are integers in 0..255, strings are sequences of bytes,  *)
(* and every length field keeps the code's uint16 width.                   *)
(***************************************************************************)
EXTENDS Integers, Sequences

CONSTANTS
    Tags,       \* tags of the messages sent
    Keys,       \* keys, as byte sequences
    Values,     \* values, as byte sequences
    Versions,   \* versions of PUT messages
    MaxMsgs     \* bound on the number of messages encoded

KindGet == 0
KindPut == 1
KindError == 2
KindAuth == 3

\* uint16 arithmetic: the lengths Decode computes wrap at 2^16.
LenMod == 2^16

ASSUME \A k \in Keys : Len(k) + 2 < LenMod
ASSUME \A v \in Values : Len(v) < LenMod

\* The messages NewGetMessage, NewPutMessage, NewErrorMessage and
\* NewAuthMessage build: only the fields of their kind are set.
Messages ==
    [kind : {KindGet}, tag : Tags, key : Keys]
    \cup [kind : {KindPut}, tag : Tags, key : Keys, value : Values, version : Versions]
    \cup [kind : {KindError, KindAuth}, tag : Tags, value : Values]

VARIABLES
    stream,     \* bytes written to the connection and not yet read
    sent,       \* messages encoded, in order
    got,        \* messages decoded, in order
    dbuf,       \* Decoder.buf
    doff,       \* Decoder.off
    panicked    \* the decoding goroutine panicked on a slice out of range

vars == <<stream, sent, got, dbuf, doff, panicked>>

\* k big-endian bytes of x (bits.Put16, bits.Put64).
RECURSIVE BigEndian(_, _)
BigEndian(x, k) == IF k = 0 THEN <<>> ELSE BigEndian(x \div 256, k - 1) \o <<x % 256>>

\* bits.Puts: a uint16 length, then the bytes.
Puts(s) == BigEndian(Len(s) % LenMod, 2) \o s

\* Encoder.Encode: the bytes of one frame, written by a single Write.
Frame(m) ==
    <<m.kind>> \o BigEndian(m.tag, 2) \o
        CASE m.kind = KindGet -> Puts(m.key)
          [] m.kind = KindPut -> Puts(m.key) \o Puts(m.value) \o BigEndian(m.version, 8)
          [] OTHER            -> Puts(m.value)

\* bits.Get16 at offset off of the buffer.
Get16(buf, off) == buf[off + 1] * 256 + buf[off + 2]

\* The bytes buf[lo:hi].
Slice(buf, lo, hi) == [i \in 1..(hi - lo) |-> buf[lo + i]]

\* io.ReadFull blocks until n bytes have arrived.
Avail(d, n) == Len(d.in) >= n

\* Decoder.read: grow the buffer to off + n when fewer than n bytes lie
\* beyond off, then read n bytes into buf[:n] and reset off.
Read(d, n) ==
    LET b == IF Len(d.buf) - d.off < n
             THEN d.buf \o [i \in 1..(d.off + n - Len(d.buf)) |-> 0]
             ELSE d.buf
    IN  [buf |-> [i \in DOMAIN b |-> IF i <= n THEN d.in[i] ELSE b[i]],
         off |-> 0,
         in  |-> SubSeq(d.in, n + 1, Len(d.in))]

Blocked == [blocked |-> TRUE, panic |-> FALSE]
Panic == [blocked |-> FALSE, panic |-> TRUE]
Done(msg, buf, off, in) ==
    [blocked |-> FALSE, panic |-> FALSE, msg |-> msg, buf |-> buf, off |-> off, in |-> in]

\* Decoder.Decode from decoder state d: read kind, tag and the first
\* length, then the body of the kind.  A PUT reads its key with the next
\* length (n+2 bytes) and its value with the version (n+8 bytes), both
\* computed in uint16.  gets(n) slices buf[0:n] and panics beyond len(buf).
\* bits.Get64 on fewer than 8 bytes is taken to yield no version bytes.
DecodeFrom(d0) ==
  IF ~Avail(d0, 5) THEN Blocked ELSE
  LET h == Read(d0, 5)
      kind == h.buf[1]
      tag == Get16(h.buf, 1)
      n == Get16(h.buf, 3)
      hd == [h EXCEPT !.off = 5]
  IN
  CASE kind \in {KindGet, KindError, KindAuth} ->
         IF ~Avail(hd, n) THEN Blocked ELSE
         LET r == Read(hd, n)
             s == Slice(r.buf, 0, n)
         IN  Done(IF kind = KindGet THEN [kind |-> kind, tag |-> tag, key |-> s]
                                    ELSE [kind |-> kind, tag |-> tag, value |-> s],
                  r.buf, n, r.in)
    [] kind = KindPut ->
         LET w1 == (n + 2) % LenMod IN
         IF ~Avail(hd, w1) THEN Blocked ELSE
         LET r1 == Read(hd, w1) IN
         IF n + 2 > Len(r1.buf) THEN Panic ELSE
         LET n2 == Get16(r1.buf, n)
             w2 == (n2 + 8) % LenMod
             d2 == [r1 EXCEPT !.off = n + 2]
         IN
         IF ~Avail(d2, w2) THEN Blocked ELSE
         LET r2 == Read(d2, w2) IN
         IF n2 > Len(r2.buf) THEN Panic ELSE
         Done([kind |-> kind, tag |-> tag, key |-> Slice(r1.buf, 0, n),
               value |-> Slice(r2.buf, 0, n2),
               version |-> IF n2 + 8 <= Len(r2.buf) THEN Slice(r2.buf, n2, n2 + 8) ELSE <<>>],
              r2.buf, n2 + 8, r2.in)
    [] OTHER -> Done([kind |-> kind, tag |-> tag], h.buf, 3, h.in)

\* What Decode yields for m when the codec is right: the version as the
\* eight bytes Get64 reads.
AsDecoded(m) == IF m.kind = KindPut THEN [m EXCEPT !.version = BigEndian(m.version, 8)] ELSE m

Init ==
    /\ stream = <<>>
    /\ sent = <<>>
    /\ got = <<>>
    /\ dbuf = <<>>
    /\ doff = 0
    /\ panicked = FALSE

\* Encoder.Encode of one message, written whole to the connection.
Encode(m) ==
    /\ Len(sent) < MaxMsgs
    /\ sent' = Append(sent, m)
    /\ stream' = stream \o Frame(m)
    /\ UNCHANGED <<got, dbuf, doff, panicked>>

\* Decoder.Decode called by the reading loop.
Decode ==
    LET r == DecodeFrom([buf |-> dbuf, off |-> doff, in |-> stream]) IN
    /\ ~panicked
    /\ ~r.blocked
    /\ \/ /\ r.panic
          /\ panicked' = TRUE
          /\ UNCHANGED <<stream, sent, got, dbuf, doff>>
       \/ /\ ~r.panic
          /\ got' = Append(got, r.msg)
          /\ dbuf' = r.buf
          /\ doff' = r.off
          /\ stream' = r.in
          /\ UNCHANGED <<sent, panicked>>

Next == (\E m \in Messages : Encode(m)) \/ Decode

Spec == Init /\ [][Next]_vars

TypeOK ==
    /\ sent \in Seq(Messages)
    /\ doff \in Nat
    /\ panicked \in BOOLEAN

\* Spec section 8, codec round-trip: every message the Decoder returns on a
\* connection is the message the Encoder wrote in that position, and
\* decoding never panics.  This is about Decode's uint16 length sums
\* (n+2, n+8) and its reuse of one buffer across calls.
DecodedAreSent ==
    /\ ~panicked
    /\ \A i \in 1..Len(got) : got[i] = AsDecoded(sent[i])
=============================================================================
