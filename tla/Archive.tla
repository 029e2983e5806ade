------------------------------- MODULE Archive -------------------------------
(***************************************************************************)
(* The archive streams of snapshots: unsigned numbers as digits of         *)
(* DigitBits bits with a flag for `more to follow', signed numbers in      *)
(* zigzag encoding, strings as their size and bytes.  The widths are       *)
(* parameters (64 and 7 in the code).  A stream may be cut short.          *)
(***************************************************************************)
EXTENDS Integers, Sequences

CONSTANTS Bits,        \* bits of zigzag::unsigned_t
          DigitBits,   \* bits per byte of the encoding
          Strings,     \* strings that are written: sequences of bytes
          MaxItems     \* bound on the items written

ASSUME ArchiveAssumption == Bits \in Nat \ {0} /\ DigitBits \in 1..Bits /\ MaxItems \in Nat

Unsigned == 0..(2^Bits - 1)
Signed == -(2^(Bits - 1))..(2^(Bits - 1) - 1)
Radix == 2^DigitBits

\* Mutant: the sign is lost.
ZigzagEncodeAbs(x) == (2 * (IF x < 0 THEN -x ELSE x)) % 2^Bits
\* zigzag::encode(): (x >> Bits-1) ^ (x << 1).
ZigzagEncode(x) == LET shifted == (2 * x) % 2^Bits
                   IN  IF x < 0 THEN 2^Bits - 1 - shifted ELSE shifted
\* zigzag::decode(): (x >> 1) ^ -(x & 1).
ZigzagDecode(x) == IF x % 2 = 1 THEN -(x \div 2) - 1 ELSE x \div 2

\* operator<<(unsigned_t): low digits first.
PutBytes[x \in Unsigned] ==
    LET high == x \div Radix
        byte == [low |-> x % Radix, more |-> high > 0]
    IN  IF high > 0 THEN <<byte>> \o PutBytes[high] ELSE <<byte>>

\* getUnsigned(): the value so far, and how many bytes were read.
GetFrom(s) ==
    LET Get[i \in Nat] ==   \* after i bytes
            IF i < Len(s) /\ i * DigitBits < Bits
            THEN LET rest == Get[i + 1]
                     value == (s[i + 1].low * 2^(i * DigitBits)) % 2^Bits
                 IN  IF s[i + 1].more THEN [value |-> value + rest.value, size |-> 1 + rest.size]
                     ELSE [value |-> value, size |-> 1]
            ELSE [value |-> 0, size |-> 0]
    IN  Get[0]

Drop(s, n) == SubSeq(s, n + 1, Len(s))

\* An item as its writer sees it: <<type, value>>.
ValuesOf == [unsigned |-> Unsigned, signed |-> Signed, string |-> Strings]
Items(type) == {type} \X ValuesOf[type]

\* operator<< for each type.
Encoding(item) ==
    CASE item[1] = "unsigned" -> PutBytes[item[2]]
      [] item[1] = "signed"   -> PutBytes[ZigzagEncode(item[2])]
      [] item[1] = "string"   -> PutBytes[Len(item[2])] \o item[2]

\* getUnsigned(), getSigned() and getString(): the item and what is left.
Decoding(type, s) ==
    LET number == GetFrom(s)
        rest == Drop(s, number.size)
        taken == IF number.value < Len(rest) THEN number.value ELSE Len(rest)
    IN  CASE type = "unsigned" -> [value |-> number.value, rest |-> rest]
          [] type = "signed"   -> [value |-> ZigzagDecode(number.value), rest |-> rest]
          [] type = "string"   -> [value |-> IF taken = number.value THEN SubSeq(rest, 1, taken) ELSE <<>>,
                                   rest |-> Drop(rest, taken)]

VARIABLES stream,     \* bytes not read yet
          written,    \* items written
          readBack,   \* items read, in order
          cut         \* the stream was cut short

arVars == <<stream, written, readBack, cut>>

ARInit == stream = <<>> /\ written = <<>> /\ readBack = <<>> /\ cut = FALSE

Write(item) ==
    /\ Len(written) < MaxItems /\ readBack = <<>> /\ ~cut
    /\ written' = Append(written, item)
    /\ stream' = stream \o Encoding(item)
    /\ UNCHANGED <<readBack, cut>>

\* The reader asks for the types in the order in which they were written.
Read ==
    /\ Len(readBack) < Len(written)
    /\ LET type == written[Len(readBack) + 1][1]
           result == Decoding(type, stream)
       IN  /\ readBack' = Append(readBack, <<type, result.value>>)
           /\ stream' = result.rest
    /\ UNCHANGED <<written, cut>>

Truncate ==
    /\ stream # <<>> /\ readBack = <<>> /\ ~cut
    /\ \E n \in 0..(Len(stream) - 1) : stream' = SubSeq(stream, 1, n)
    /\ cut' = TRUE
    /\ UNCHANGED <<written, readBack>>

ARNext == Read \/ Truncate \/ \E type \in DOMAIN ValuesOf : \E item \in Items(type) : Write(item)

-----------------------------------------------------------------------------
\* Every variable has its type: what is read has the type of what was written.
ARTypeOK ==
    /\ Len(readBack) <= Len(written) /\ Len(written) <= MaxItems
    /\ \A i \in DOMAIN readBack :
          CASE readBack[i][1] = "unsigned" -> readBack[i][2] \in Unsigned
            [] readBack[i][1] = "signed"   -> readBack[i][2] \in Signed
            [] readBack[i][1] = "string"   -> Len(readBack[i][2]) \in Unsigned
    /\ cut \in BOOLEAN

\* What is read is what was written, item by item, so that no item is misread
\* for the bytes of another and every number of the width survives.  A string of
\* a stream that was cut short is read whole or as the empty string, never in part.
ReadsWhatWasWritten ==
    /\ ~cut => /\ readBack = SubSeq(written, 1, Len(readBack))
               /\ readBack = written => stream = <<>>
    /\ \A i \in DOMAIN readBack :
          readBack[i][1] = "string" /\ (\A j \in 1..(i - 1) : readBack[j] = written[j])
              => readBack[i][2] \in {written[i][2], <<>>}
=============================================================================
