---------------------------- MODULE PlugProtocol ----------------------------
(***************************************************************************)
(* What a guest sends over a new vsock connection: a request line that     *)
(* ends in a NUL byte and names a device, read by the Connector, and then  *)
(* the device's own bytes, which for a qemud device are frames read by     *)
(* qemud::Parser.  The connection cuts the bytes into packets anywhere.    *)
(*                                                                         *)
(* A byte is a record: of the request line, the NUL, of the header of a    *)
(* frame (with its value), or of a frame's payload (with its position).    *)
(* The radices of the header are parameters, 16 and 256 in the code.       *)
(***************************************************************************)
EXTENDS Integers, Sequences, SequencesExt

CONSTANTS RequestSizes,   \* lengths of the request line
          Devices,        \* what it names: subset of {"qemud", "pipe", "unknown"}
          FrameSizes,     \* sizes of frames
          RefusedSizes,   \* sizes of requests that the device refuses
          MaxFrames,      \* bound on frames
          kSizeSize,      \* bytes of a frame's header
          HexRadix,       \* of the ASCII encoding of a size
          ByteRadix       \* of the binary encoding; its upper half flags it

ASSUME ProtocolAssumption ==
    /\ RequestSizes \subseteq Nat \ {0} /\ FrameSizes \cup RefusedSizes \subseteq Nat /\ MaxFrames \in Nat
    /\ kSizeSize \in Nat \ {0} /\ HexRadix \in 2..(ByteRadix \div 2) /\ ByteRadix % 2 = 0
    /\ \A size \in FrameSizes : 2 * size < ByteRadix^kSizeSize
    /\ Devices \subseteq {"qemud", "pipe", "unknown"}

RequestByte(device) == [kind |-> "request", of |-> device]
Nul == [kind |-> "nul", of |-> 0]
HeaderByte(value) == [kind |-> "header", of |-> value]
PayloadByte(i) == [kind |-> "payload", of |-> i]

\* Digit i of kSizeSize, the highest first.
Digit(n, radix, i) == (n \div radix^(kSizeSize - i)) % radix

\* encodeRequestSize(): hexadecimal digits if they are enough, else bytes of
\* which the first one has its highest bit set.
encodeRequestSize(size) ==
    [i \in 1..kSizeSize |->
        HeaderByte(IF size < HexRadix^kSizeSize THEN Digit(size, HexRadix, i)
                   ELSE Digit(size, ByteRadix, i) + (IF i = 1 THEN ByteRadix \div 2 ELSE 0))]

\* qemud::sendAsync(): the header, then the payload.
Payload(size) == [i \in 1..size |-> PayloadByte(i)]
Frame(size) == encodeRequestSize(size) \o Payload(size)
Line(device, size) == [i \in 1..size |-> RequestByte(device)]

VARIABLES sending,      \* what the guest sends: [device, line, frames]
          received,     \* bytes received
          plug,         \* "connector", "qemud", "pipe", "error"
          mConnectorBuffer, mParserBuffer,
          sunk,         \* requests, or bytes, that the device was given
          refused       \* onReceive() has returned false

ppVars == <<sending, received, plug, mConnectorBuffer, mParserBuffer, sunk, refused>>

Bytes == Line(sending.device, sending.line) \o <<Nul>> \o FlattenSeq([i \in DOMAIN sending.frames |-> Frame(sending.frames[i])])

Sendings == [device : Devices, line : RequestSizes, frames : UNION {[1..n -> FrameSizes] : n \in 0..MaxFrames}]

PPInit ==
    /\ sending \in Sendings
    /\ received = 0 /\ plug = "connector" /\ mConnectorBuffer = <<>> /\ mParserBuffer = <<>>
    /\ sunk = <<>> /\ refused = FALSE

Skip(s, n) == SubSeq(s, n + 1, Len(s))

\* Mutant: the size is taken for hexadecimal digits in any case.
decodeHexOnly(s) == FoldLeft(LAMBDA n, i : HexRadix * n + s[i].of, 0, [i \in 1..kSizeSize |-> i])

\* decodeRequestSize(): which encoding it is shows in the first byte.
decodeRequestSize(s) ==
    LET binary == s[1].of >= ByteRadix \div 2
        radix == IF binary THEN ByteRadix ELSE HexRadix
        value(i) == IF binary /\ i = 1 THEN s[i].of - ByteRadix \div 2 ELSE s[i].of
    IN  FoldLeft(LAMBDA n, i : radix * n + value(i), 0, [i \in 1..kSizeSize |-> i])

\* The frames at the front of a packet, when nothing is buffered: delivered
\* requests and the bytes left.
RECURSIVE WholeFrames(_)
WholeFrames(data) ==
    IF Len(data) >= kSizeSize /\ Len(data) >= kSizeSize + decodeRequestSize(data)
    THEN LET size == decodeRequestSize(data)
             rest == WholeFrames(Skip(data, kSizeSize + size))
         IN  [out |-> <<SubSeq(data, kSizeSize + 1, kSizeSize + size)>> \o rest.out, left |-> rest.left]
    ELSE [out |-> <<>>, left |-> data]

\* Parser::onReceive(): one iteration of its loop, then the rest of the packet,
\* also after a request that the sink refused.
RECURSIVE ParserReceive(_, _)
ParserReceive(buffer, data) ==
    LET n == Len(buffer)
        size == decodeRequestSize(buffer)
        Consume(wanted) == IF wanted < Len(data) THEN wanted ELSE Len(data)
        Buffered(k) == ParserReceive(buffer \o SubSeq(data, 1, k), Skip(data, k))
        Delivered(request, k) == LET rest == ParserReceive(<<>>, Skip(data, k))
                                 IN  [out |-> <<request>> \o rest.out, buffer |-> rest.buffer]
    IN  CASE data = <<>> -> [out |-> <<>>, buffer |-> buffer]
          [] data # <<>> /\ n = 0 -> LET whole == WholeFrames(data)
                                     IN  [out |-> whole.out, buffer |-> whole.left]
          [] data # <<>> /\ 0 < n /\ n < kSizeSize -> Buffered(Consume(kSizeSize - n))
          [] data # <<>> /\ n = kSizeSize ->
                IF Len(data) >= size THEN Delivered(SubSeq(data, 1, size), size) ELSE Buffered(Len(data))
          [] data # <<>> /\ n > kSizeSize ->
                LET k == Consume(kSizeSize + size - n)
                IN  IF n + k = kSizeSize + size
                    THEN Delivered(Skip(buffer, kSizeSize) \o SubSeq(data, 1, k), k)
                    ELSE Buffered(k)

\* The device's plug is given bytes; a pipe device takes them as they come.
DeviceReceives(device, buffer, data) ==
    IF device = "qemud"
    THEN LET parsed == ParserReceive(buffer, data)
         IN  mParserBuffer' = parsed.buffer /\ sunk' = sunk \o parsed.out
    ELSE sunk' = sunk \o data /\ UNCHANGED mParserBuffer

\* What its onReceive() returns: false if the sink refused a request.
Refuses(device, buffer, data) ==
    device = "qemud" /\ \E request \in Range(ParserReceive(buffer, data).out) : Len(request) \in RefusedSizes

\* The line is complete: processRequest() and switchTo() put the device's plug
\* in place and hand it what follows the NUL, or an ErrorPlug takes over.  What
\* the plug returns is dropped here.  The arguments of processRequest() are taken
\* from left to right: the address in mBuffer before mBuffer is moved.
ProcessRequest(line, unconsumed) ==
    LET device == line[1].of
    IN  IF device = "unknown"
        THEN plug' = "error" /\ refused' = TRUE /\ UNCHANGED <<mParserBuffer, sunk>>
        ELSE plug' = device /\ DeviceReceives(device, <<>>, unconsumed) /\ UNCHANGED refused

\* Connector::onReceive().
ConnectorReceive(data) ==
    IF Contains(data, Nul)
    THEN LET all == mConnectorBuffer \o data
             zero == SelectInSeq(all, LAMBDA b : b = Nul)
         IN  ProcessRequest(SubSeq(all, 1, zero - 1), Skip(all, zero)) /\ mConnectorBuffer' = <<>>
    ELSE mConnectorBuffer' = mConnectorBuffer \o data /\ UNCHANGED <<plug, mParserBuffer, sunk, refused>>

\* A packet of n bytes arrives at the connection's plug.
OnReceive(n) ==
    /\ ~refused /\ received + n <= Len(Bytes)
    /\ received' = received + n
    /\ LET data == SubSeq(Bytes, received + 1, received + n)
       IN  IF plug = "connector" THEN ConnectorReceive(data)
           ELSE /\ DeviceReceives(plug, mParserBuffer, data)
                /\ refused' = Refuses(plug, mParserBuffer, data)
                /\ UNCHANGED <<plug, mConnectorBuffer>>
    /\ UNCHANGED sending

PPNext == \E n \in 1..Len(Bytes) : OnReceive(n)

-----------------------------------------------------------------------------
\* Every variable has its type; the connector never keeps more than the request.
PPTypeOK ==
    /\ received \in 0..Len(Bytes) /\ refused \in BOOLEAN
    /\ plug \in {"connector", "qemud", "pipe", "error"}
    /\ Len(mConnectorBuffer) <= sending.line
    /\ \A i \in DOMAIN mParserBuffer : mParserBuffer[i].kind \in {"header", "payload"}

\* Where the device's bytes begin and where frame i ends.
FirstDeviceByte == sending.line + 1
FrameEnd(i) == FirstDeviceByte + FoldFunction(LAMBDA size, sum : sum + kSizeSize + size, 0, SubSeq(sending.frames, 1, i))
Complete == Cardinality({i \in DOMAIN sending.frames : FrameEnd(i) <= received})

\* "calls the Sink when a whole QEMUD packet is received" (qemud.h:33): the
\* device is given exactly the frames that have arrived whole, in order and
\* intact, however the connection cut the line and the frames; only a last
\* frame of size zero may wait for the next packet.
FramesAreExact ==
    plug = "qemud" =>
        LET expected == [i \in 1..Complete |-> Payload(sending.frames[i])]
        IN  \/ sunk = expected
            \/ /\ expected # <<>> /\ Last(expected) = <<>> /\ sunk = Front(expected)
               /\ mParserBuffer = Frame(0)

\* No byte is lost or seen twice when the plugs change: the bytes that the
\* plugs hold and the device was given are the bytes received.
EveryByteOnce ==
    plug \in {"qemud", "pipe"} =>
        LET given == IF plug = "pipe" THEN sunk
                     ELSE FlattenSeq([i \in DOMAIN sunk |-> Frame(Len(sunk[i]))])
        IN  given \o mParserBuffer = SubSeq(Bytes, FirstDeviceByte + 1, received)

\* The connection is refused as soon as the line is complete if it names no
\* device, and otherwise only if the device refused a request.
RefusedForAReason ==
    /\ (sending.device = "unknown" /\ received >= FirstDeviceByte) => refused
    /\ refused => \/ plug = "error"
                  \/ plug = "qemud" /\ \E request \in Range(sunk) : Len(request) \in RefusedSizes
    /\ plug = "error" => sending.device = "unknown" /\ sunk = <<>>

\* However the connection cuts the line and the frames into packets, the device
\* that the line names is given its requests, each byte once, and nobody else is.
BytesReachDevice == FramesAreExact /\ EveryByteOnce /\ RefusedForAReason
=============================================================================
