-------------------------------- MODULE Wire --------------------------------
(***************************************************************************)
(* The bytes a proxied TCP stream begins with: QUIC variable-length        *)
(* integers, the request and the response of Hysteria2, the CONNECT        *)
(* request and the addresses of ShadowQUIC and SunnyQUIC.                  *)
(*                                                                         *)
(* Readers get what has arrived so far: they answer "more" when they have  *)
(* to wait, "bad" when they give up, and otherwise "ok" with what they     *)
(* read and the bytes they leave unread.                                   *)
(***************************************************************************)
EXTENDS Naturals, Sequences

CONSTANTS
    Hosts,              \* numbers, from 1 to 255, that stand for host names
    Form,               \* of a host: "v4", "v6", "name", or "idn" (not ASCII)
    Length,             \* of a host: the bytes it takes as text
    Canonical,          \* of a host: the host printed when its text is parsed
    MaxAddress,         \* MAX_ADDRESS_LENGTH
    MaxPadding          \* MAX_PADDING_LENGTH

ASSUME WireAssumption ==
    /\ Hosts \subseteq 1..255
    /\ Form \in [Hosts -> {"v4", "v6", "name", "idn"}]
    /\ Length \in [Hosts -> Nat \ {0}]
    /\ Canonical \in [Hosts -> Hosts]
    /\ MaxAddress \in Nat \ {0} /\ MaxPadding \in Nat

More == [status |-> "more"]
Bad == [status |-> "bad"]
Ok(value, rest) == [status |-> "ok", value |-> value, rest |-> rest]

\* Reading goes on with what was read and what is left.
Then(r, Continue(_, _)) == IF r.status = "ok" THEN Continue(r.value, r.rest) ELSE r

\* read_exact
Take(s, n) == IF Len(s) < n THEN More ELSE Ok(SubSeq(s, 1, n), SubSeq(s, n + 1, Len(s)))

Copies(byte, n) == [i \in 1..n |-> byte]

-----------------------------------------------------------------------------
(***************************************************************************)
(* Variable-length integers: the two high bits of the first byte tell the  *)
(* length, 1, 2, 4 or 8 bytes, most significant first.                     *)
(***************************************************************************)
Quad(v) ==
    <<(v \div 16777216) % 256, (v \div 65536) % 256, (v \div 256) % 256, v % 256>>

\* The length in the high bits of the first byte.
Marked(mark, q) == <<mark + q[1], q[2], q[3], q[4]>>

\* encode refuses a number of more than 62 bits.
Encodable(v) == (v \div 1073741824) \div 1073741824 < 4

\* Slip: 64 is taken for a number of one byte.
EncodeVarintAt64(v) ==
    IF v <= 64 THEN <<v>> ELSE <<64 + v \div 256, v % 256>>

EncodeVarint(v) ==
    IF v < 64 THEN <<v>>
    ELSE IF v < 16384 THEN <<64 + v \div 256, v % 256>>
    ELSE IF v < 1073741824 THEN Marked(128, Quad(v))
    ELSE Marked(192, Quad((v \div 65536) \div 65536)) \o Quad(v)

VarintLength(first) == <<1, 2, 4, 8>>[1 + first \div 64]

\* The number of four bytes, the first one given apart.
Word(first, s, i) == ((first * 256 + s[i + 1]) * 256 + s[i + 2]) * 256 + s[i + 3]

VarintValue(s) ==
    LET high == s[1] % 64 IN
    CASE VarintLength(s[1]) = 1 -> high
      [] VarintLength(s[1]) = 2 -> high * 256 + s[2]
      [] VarintLength(s[1]) = 4 -> Word(high, s, 1)
      [] VarintLength(s[1]) = 8 -> Word(high, s, 1) * 65536 * 65536 + Word(s[5], s, 5)

DecodeVarint(s) ==
    IF s = <<>> \/ Len(s) < VarintLength(s[1]) THEN More
    ELSE Ok(VarintValue(s), SubSeq(s, VarintLength(s[1]) + 1, Len(s)))

-----------------------------------------------------------------------------
(***************************************************************************)
(* Hysteria2. The address travels as the text host:port; here, the host's  *)
(* number once for every byte of its text, then the port.                  *)
(***************************************************************************)
FrameType == 1025

Text(a) == Append(Copies(a.host, Length[a.host]), a.port)

\* A host in another spelling than the one its parser prints comes back as
\* the latter.
ParseText(t) ==
    [host |-> Canonical[t[1]], port |-> t[Len(t)]]

EncodeRequest(a, padding) ==
    EncodeVarint(FrameType)
      \o EncodeVarint(Len(Text(a))) \o Text(a)
      \o EncodeVarint(padding) \o Copies(120, padding)

\* A length and that many bytes, to be thrown away by the caller.
TakePadding(s) ==
    Then(DecodeVarint(s), LAMBDA n, s1 : IF n > MaxPadding THEN Bad ELSE Take(s1, n))

\* Slip: a reader that leaves the padding for the application.
ParseRequestOnly(s) ==
    Then(DecodeVarint(s), LAMBDA type, s1 :
        IF type # FrameType THEN Bad
        ELSE Then(DecodeVarint(s1), LAMBDA n, s2 :
            IF n = 0 \/ n > MaxAddress THEN Bad
            ELSE Then(Take(s2, n), LAMBDA text, s3 :
                Then(DecodeVarint(s3), LAMBDA padding, s4 : Ok(ParseText(text), s4)))))

ParseRequest(s) ==
    Then(DecodeVarint(s), LAMBDA type, s1 :
        IF type # FrameType THEN Bad
        ELSE Then(DecodeVarint(s1), LAMBDA n, s2 :
            IF n = 0 \/ n > MaxAddress THEN Bad
            ELSE Then(Take(s2, n), LAMBDA text, s3 :
                Then(TakePadding(s3), LAMBDA padding, s4 : Ok(ParseText(text), s4)))))

EncodeResponse(status, message, padding) ==
    <<status>> \o EncodeVarint(Len(message)) \o message
               \o EncodeVarint(padding) \o Copies(120, padding)

\* The message of an error is bounded like an address.
ParseResponse(s) ==
    Then(Take(s, 1), LAMBDA status, s1 :
        Then(DecodeVarint(s1), LAMBDA n, s2 :
            IF n > MaxAddress THEN Bad
            ELSE Then(Take(s2, n), LAMBDA message, s3 :
                Then(TakePadding(s3), LAMBDA padding, s4 : Ok(status[1], s4)))))

-----------------------------------------------------------------------------
(***************************************************************************)
(* ShadowQUIC and SunnyQUIC. The octets of an address are its host's       *)
(* number, over and over.                                                  *)
(***************************************************************************)
SqConnect == 1

AddressKind(h) == [v4 |-> 1, name |-> 3, v6 |-> 4][Form[h]]

AddressEncodes(a) ==
    Form[a.host] \in {"v4", "v6"} \/ (Form[a.host] = "name" /\ Length[a.host] <= 255)

EncodeAddress(a) ==
    <<AddressKind(a.host)>>
      \o (CASE Form[a.host] = "v4" -> Copies(a.host, 4)
            [] Form[a.host] = "v6" -> Copies(a.host, 16)
            [] OTHER -> <<Length[a.host]>> \o Copies(a.host, Length[a.host]))
      \o <<a.port \div 256, a.port % 256>>

\* The bytes of the host, by its kind.
TakeHost(kind, s) ==
    CASE kind = 1 -> Take(s, 4)
      [] kind = 4 -> Take(s, 16)
      [] kind = 3 -> Then(Take(s, 1), LAMBDA n, s1 : Take(s1, n[1]))
      [] OTHER -> Bad

\* Slip: the port is read low byte first.
DecodeAddressLowFirst(s) ==
    Then(Take(s, 1), LAMBDA kind, s1 :
        Then(TakeHost(kind[1], s1), LAMBDA octets, s2 :
            Then(Take(s2, 2), LAMBDA port, s3 :
                Ok([host |-> Canonical[octets[1]], port |-> port[2] * 256 + port[1]], s3))))

DecodeAddress(s) ==
    Then(Take(s, 1), LAMBDA kind, s1 :
        Then(TakeHost(kind[1], s1), LAMBDA octets, s2 :
            Then(Take(s2, 2), LAMBDA port, s3 :
                IF octets = <<>> THEN Bad
                ELSE Ok([host |-> Canonical[octets[1]], port |-> port[1] * 256 + port[2]], s3))))

EncodeConnect(a) == <<SqConnect>> \o EncodeAddress(a)

ParseConnect(s) ==
    Then(Take(s, 1), LAMBDA opcode, s1 : IF opcode # <<SqConnect>> THEN Bad ELSE DecodeAddress(s1))
=============================================================================
