-------------------------------- MODULE Wire --------------------------------
(***************************************************************************)
(* The two wire protocols, the typed values of RPC and the receive buffer, *)
(* over streams of bytes.  Header fields are numbers of few digits in a    *)
(* small base, where the code has bytes.  Protobuf is external: a message  *)
(* is as many bytes as its size, which only all together parse as it.      *)
(***************************************************************************)
EXTENDS Integers, Sequences, SequencesExt

CONSTANTS Base,          \* values of a byte in a header field
          LengthBytes,   \* bytes of a length, 4 in the code
          IdBytes,       \* bytes of a request identifier, 8 in the code
          MAX_KEY_SIZE, MAX_VALUE_SIZE,
          Envelope       \* bytes a CacheValue needs beyond its value, 64 allowed

ASSUME WireAssumption ==
  /\ Base \in Nat \ {0, 1} /\ {LengthBytes, IdBytes} \subseteq Nat \ {0}
  /\ {MAX_KEY_SIZE, MAX_VALUE_SIZE, Envelope} \subseteq Nat

\* A byte of a header, of a version marker, or of a message, key or value.
Digit(d) == <<"digit", d>>
Marker(m) == <<"marker", m>>
Part(message, i) == <<"part", message, i>>

\* Network byte order.
Digits(n, width) == [i \in 1 .. width |-> Digit((n \div Base ^ (width - i)) % Base)]
Number(bytes) ==
  LET n[i \in 0 .. Len(bytes)] == IF i = 0 THEN 0 ELSE n[i - 1] * Base + bytes[i][2]
  IN  n[Len(bytes)]

\* External: a message of the given size, and the messages some bytes parse as.
Serialize(message, size) == [i \in 1 .. size |-> Part(message, i)]
Parse(bytes) ==
  IF bytes # <<>> /\ bytes[1][1] = "part" /\ bytes = Serialize(bytes[1][2], Len(bytes))
  THEN {bytes[1][2]} ELSE {}
-----------------------------------------------------------------------------
(* rpc_protocol.h.  A size of 0 is that of a frame still to come, Bad that *)
(* of one that is refused.                                                 *)

Bad == -1
Version == Marker("KVR2")
RPC_HEADER == 1 + LengthBytes + IdBytes

RpcFrameSize(bytes) ==
  IF Len(bytes) < RPC_HEADER THEN 0
  ELSE IF bytes[1] # Version THEN Bad
  ELSE RPC_HEADER + Number(SubSeq(bytes, 2, 1 + LengthBytes))

RpcId(bytes) == Number(SubSeq(bytes, 2 + LengthBytes, RPC_HEADER))

RpcEncode(id, message, size) ==
  <<Version>> \o Digits(size, LengthBytes) \o Digits(id, IdBytes)
    \o Serialize(message, size)

RpcDecode(bytes) ==
  IF RpcFrameSize(bytes) = Len(bytes)
  THEN Parse(SubSeq(bytes, RPC_HEADER + 1, Len(bytes))) ELSE {}

\* A type: the kind of wire value it travels as, and its range.
Type(kind, min, max) == [kind |-> kind, min |-> min, max |-> max]

ToValue(type, n) == [kind |-> type.kind, n |-> n]

\* Mutant: the conversion keeps the low bits of a value out of range.
FromValueCast(type, value) ==
  IF value.kind = type.kind
  THEN {type.min + ((value.n - type.min) % (type.max - type.min + 1))} ELSE {}

\* The values of a type a wire value is converted to: none if it does not fit.
FromValue(type, value) ==
  IF value.kind = type.kind /\ value.n \in type.min .. type.max THEN {value.n} ELSE {}
-----------------------------------------------------------------------------
(* kv_protocol.h.                                                          *)

Magic == Marker("CAFE1")
HEADER_SIZE == 2 + 2 * LengthBytes
MAX_WIRE_VALUE_SIZE == MAX_VALUE_SIZE + Envelope
MAX_FRAME_SIZE == HEADER_SIZE + MAX_KEY_SIZE + MAX_WIRE_VALUE_SIZE

encode(command, key, value) ==
  <<Magic, Marker(command)>> \o Digits(Len(key), LengthBytes)
    \o Digits(Len(value), LengthBytes) \o key \o value

decodeHeader(bytes) ==
  [magic |-> bytes[1], command |-> bytes[2][2],
   key_len |-> Number(SubSeq(bytes, 3, 2 + LengthBytes)),
   value_len |-> Number(SubSeq(bytes, 3 + LengthBytes, HEADER_SIZE))]

validate(h) ==
  h.magic = Magic /\ h.key_len <= MAX_KEY_SIZE /\ h.value_len <= MAX_WIRE_VALUE_SIZE

Total(h) == HEADER_SIZE + h.key_len + h.value_len
KeyOf(h, bytes) == SubSeq(bytes, HEADER_SIZE + 1, HEADER_SIZE + h.key_len)
ValueOf(h, bytes) == SubSeq(bytes, HEADER_SIZE + h.key_len + 1, Total(h))

\* The frame sizer of the KV server and client.
KvFrameSize(bytes) ==
  IF Len(bytes) < HEADER_SIZE THEN 0
  ELSE IF validate(decodeHeader(bytes)) THEN Total(decodeHeader(bytes)) ELSE Bad
-----------------------------------------------------------------------------
(* buffer.h.                                                               *)

NoBytes == [bytes |-> <<>>, read |-> 0]

data(b) == SubSeq(b.bytes, b.read + 1, Len(b.bytes))

\* Mutant: the bytes already read are dropped, but still counted as read.
AppendKeepsRead(b, bytes) ==
  IF b.read > 0 /\ b.read >= Len(b.bytes) \div 2
  THEN [b EXCEPT !.bytes = data(b) \o bytes] ELSE [b EXCEPT !.bytes = @ \o bytes]

append(b, bytes) ==
  IF b.read > 0 /\ b.read >= Len(b.bytes) \div 2
  THEN [bytes |-> data(b) \o bytes, read |-> 0]
  ELSE [b EXCEPT !.bytes = @ \o bytes]

consume(b, n) ==
  IF b.read + n = Len(b.bytes) THEN NoBytes ELSE [b EXCEPT !.read = @ + n]
=============================================================================
