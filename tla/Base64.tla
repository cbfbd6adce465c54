-------------------------------- MODULE Base64 --------------------------------
(* fbase64.c, with which the WebSocket of FirebaseDatabase writes the key of  *)
(* its handshake. A character is the value of the letter, 0..63, or one of    *)
(* Pad, Space and Other.                                                      *)
EXTENDS Integers, SequencesExt

CONSTANTS
    DataBytes,     \* the bytes data is made of
    Characters,    \* the characters texts are made of
    MaxBytes, MaxCharacters \* bounds: length of data and texts

VARIABLES
    b64data,       \* bytes to be written
    b64text        \* characters to be read

b64vars == <<b64data, b64text>>

Pad == 64
Space == 65
Other == 66

\* -1, with no text or no bytes
Refused == [ok |-> FALSE]

-----------------------------------------------------------------------------
Sextets(b) ==
    <<b[1] \div 4, (b[1] % 4) * 16 + b[2] \div 16, (b[2] % 16) * 4 + b[3] \div 64, b[3] % 64>>

\* The characters behind the n there are, if the target's size allows
RECURSIVE Written(_, _, _)
Written(src, n, size) ==
    LET left == Len(src)
        group == Sextets(SubSeq(src \o <<0, 0>>, 1, 3))
        rest == Written(SubSeq(src, 4, left), n + 4, size)
    IN IF left = 0 THEN [ok |-> n < size, text |-> <<>>]
       ELSE IF n + 4 > size THEN Refused
       ELSE IF left > 2 THEN IF rest.ok THEN [rest EXCEPT !.text = group \o @] ELSE Refused
       ELSE [ok |-> n + 4 < size,
             text |-> SubSeq(group, 1, left + 1) \o IF left = 1 THEN <<Pad, Pad>> ELSE <<Pad>>]

ntop(src, size) == Written(src, 0, size)

\* (Mutant: what is left of the last sextet is not looked at.)
LeftoverIgnored(d) == FALSE

\* Bits of the last character that belong to no byte must be zero.
Leftover(d) == d.bytes[Len(d.bytes)] # 0

\* One character v: in state 0 it begins a byte, in state 1 and 2 it ends one and
\* begins another, in state 3 it ends one.
Taken(d, v, size) ==
    LET last == Len(d.bytes)
        ended(x) == [d.bytes EXCEPT ![last] = @ + x]
    IN CASE d.state = 0 -> [ok |-> last < size, state |-> 1, bytes |-> Append(d.bytes, v * 4)]
         [] d.state = 1 -> [ok |-> last < size, state |-> 2,
                            bytes |-> Append(ended(v \div 16), (v % 16) * 16)]
         [] d.state = 2 -> [ok |-> last < size, state |-> 3,
                            bytes |-> Append(ended(v \div 4), (v % 4) * 64)]
         [] d.state = 3 -> [ok |-> TRUE, state |-> 0, bytes |-> ended(v)]

NoSpace(text) == SelectSeq(text, LAMBDA c : c # Space)

\* What may follow the padding: with one byte in the last group a second pad,
\* spaces before it too; then spaces only.
PaddingEnds(d, rest) ==
    CASE d.state \in {0, 1} -> FALSE
      [] d.state = 2 -> NoSpace(rest) = <<Pad>> /\ ~Leftover(d)
      [] d.state = 3 -> NoSpace(rest) = <<>> /\ ~Leftover(d)

RECURSIVE Read(_, _, _)
Read(d, src, size) ==
    IF ~d.ok THEN Refused
    ELSE IF src = <<>> THEN [ok |-> d.state = 0, bytes |-> d.bytes]
    ELSE IF Head(src) = Space THEN Read(d, Tail(src), size)
    ELSE IF Head(src) = Pad
    THEN [ok |-> PaddingEnds(d, Tail(src)), bytes |-> d.bytes]
    ELSE IF Head(src) = Other THEN Refused
    ELSE Read(Taken(d, Head(src), size), Tail(src), size)

\* The bytes behind a pad are those of the whole groups and of the last one; the
\* byte that was begun is none.
pton(src, size) ==
    LET r == Read([ok |-> TRUE, state |-> 0, bytes |-> <<>>], src, size)
    IN IF ~r.ok THEN Refused
       ELSE IF Pad \in {src[i] : i \in DOMAIN src} THEN [r EXCEPT !.bytes = Front(@)] ELSE r

-----------------------------------------------------------------------------
\* The buffer the WebSocket takes for n bytes.
BufferSize(n) == (n * 3 + 2) \div 2
KeyBytes == 16
DigestBytes == 20

B64Init == b64data = <<>> /\ b64text = <<>>

B64Byte(b) ==
    /\ b64text = <<>> /\ Len(b64data) < MaxBytes
    /\ b64data' = Append(b64data, b)
    /\ UNCHANGED b64text

B64Character(c) ==
    /\ b64data = <<>> /\ Len(b64text) < MaxCharacters
    /\ b64text' = Append(b64text, c)
    /\ UNCHANGED b64data

B64Next == \/ \E b \in DataBytes : B64Byte(b)
           \/ \E c \in Characters : B64Character(c)

B64Spec == B64Init /\ [][B64Next]_b64vars

-----------------------------------------------------------------------------
\* What is written is read again, spaces in it or not; what is read is what would
\* be written for its bytes, so that no two texts say the same; the target must
\* have room for a closing zero; and the buffers of the WebSocket's handshake are
\* large enough for its key and for the digest of the answer.
Base64Means ==
    /\ \A size \in 0..10 :
         ntop(b64data, size).ok = (size > 4 * ((Len(b64data) + 2) \div 3))
    /\ LET text == ntop(b64data, 100).text
       IN \A i \in 0..Len(text) :
            pton(SubSeq(text, 1, i) \o <<Space>> \o SubSeq(text, i + 1, Len(text)),
                 Len(b64data) + 1) = [ok |-> TRUE, bytes |-> b64data]
    /\ LET read == pton(b64text, 100)
       IN read.ok => ntop(read.bytes, 100).text = NoSpace(b64text)
    /\ \A n \in {KeyBytes, DigestBytes} :
         ntop([i \in 1..n |-> 255], BufferSize(n)).ok
=============================================================================
