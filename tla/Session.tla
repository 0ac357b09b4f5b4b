------------------------------ MODULE Session -------------------------------
(***************************************************************************)
(* A client and a server of one protocol over one connection at a time,    *)
(* byte by byte: RpcClient and RpcServer, KVCacheClient and the KV server, *)
(* or the KV service behind a server without a frame sizer ("raw").        *)
(* Streams are cut anywhere; the connection may break and is then made     *)
(* anew.  Deadlines and more connections are modelled in AsyncTransport,   *)
(* threads and backpressure in TcpServer, the service in Storage.          *)
(***************************************************************************)
EXTENDS Wire, FiniteSets, FiniteSetsExt

CONSTANTS Protocols,      \* of "rpc", "kv", "raw"
          Limits,         \* by protocol: max_frame_bytes of the client, max_payload of the server
          Rpcs, Kvs,      \* the calls the application makes
          Methods,        \* the methods registered: types of arguments and result
          Returns(_, _),  \* external: what a method returns, none if it throws
          Stored,         \* external: the values of the keys in the cache
          Storable,       \* external: the size of value canStore() admits
          MaxInflight, Pipeline,
          MaxCalls,       \* bound, by protocol: calls
          MaxCuts         \* bound: connections that break

ASSUME SessionAssumption ==
  /\ Protocols \subseteq {"rpc", "kv", "raw"}
  /\ \A p \in Protocols : Limits[p] \subseteq [client : Nat, server : Nat]
  /\ "rpc" \in Protocols => \A l \in Limits["rpc"] : {l.client, l.server} \subseteq 0 .. Base ^ LengthBytes - 1
  /\ MAX_WIRE_VALUE_SIZE < Base ^ LengthBytes /\ ("rpc" \in Protocols => MaxCalls["rpc"] < Base ^ IdBytes)
  /\ {MaxInflight, Pipeline} \subseteq Nat \ {0}

VARIABLES
  proto, limit,    \* chosen once
  calls,           \* the calls by identifier: what, on which connection, outcome
  link,            \* the connection: "none", "open", or "closed" by the server
  epoch, broken,   \* the number of connections made, those that broke
  up, down,        \* the bytes under way on the connection
  input,           \* the client's receive buffer
  peer,            \* the server's end: buffer, incomplete, jobs with the workers
  written          \* auxiliary: the frames sent on it (peer.taken: those taken)

vars == <<proto, limit, calls, link, epoch, broken, up, down, input, peer, written>>

NoPeer == [input |-> NoBytes, incomplete |-> FALSE, jobs |-> {}, open |-> TRUE, taken |-> <<>>]

Init ==
  /\ proto \in Protocols /\ limit \in Limits[proto]
  /\ calls = <<>>
  /\ link = "none" /\ epoch = 0 /\ broken = {}
  /\ up = <<>> /\ down = <<>> /\ input = NoBytes
  /\ peer = NoPeer /\ written = <<>>
-----------------------------------------------------------------------------
(* Requests.                                                               *)

ValueSize(v) == IF v.kind = "string" THEN v.n ELSE 1
ValuesSize(vs) == MapThenSumSet(LAMBDA i : ValueSize(vs[i]), DOMAIN vs)

\* External: ByteSizeLong() of an envelope.
ByteSize(e) ==
  1 + ValuesSize(e.arguments) + ValuesSize(e.result) + (IF e.status = 0 THEN 0 ELSE 1)

RpcRequest(c) ==
  [type |-> "REQUEST", method |-> c.method, arguments |-> c.arguments, result |-> <<>>,
   status |-> 0]

\* The value of a KV request as it is sent.
KvValue(c) ==
  IF c.command = "SET_TTL"
  THEN Serialize([value |-> c.value, ttl |-> c.ttl, found |-> FALSE], Len(c.value) + Envelope)
  ELSE c.value

\* Whether the client takes the call on at all.
Admissible(c) ==
  IF proto = "rpc" THEN ByteSize(RpcRequest(c)) <= limit.client
  ELSE /\ Len(c.key) <= MAX_KEY_SIZE /\ Len(c.value) <= MAX_VALUE_SIZE
       /\ HEADER_SIZE + Len(c.key) + Len(KvValue(c)) <= limit.client

Frame(id, c) ==
  IF proto = "rpc" THEN RpcEncode(id, RpcRequest(c), ByteSize(RpcRequest(c)))
  ELSE encode(c.command, c.key, KvValue(c))

Sizer(bytes) == IF proto = "rpc" THEN RpcFrameSize(bytes) ELSE KvFrameSize(bytes)
-----------------------------------------------------------------------------
(* The server's handlers: the bytes of the reply, how much was consumed,   *)
(* and whether the connection is to be closed.                             *)

Closes == [bytes |-> <<>>, consumed |-> 0, close |-> TRUE]
Replies(bytes, n) == [bytes |-> bytes, consumed |-> n, close |-> FALSE]

Response(status, result) ==
  [type |-> "RESPONSE", method |-> "", arguments |-> <<>>, result |-> result, status |-> status]

Fits(types, values) ==
  /\ Len(types) = Len(values)
  /\ \A i \in DOMAIN types : FromValue(types[i], values[i]) # {}

Decoded(types, values) ==
  [i \in DOMAIN types |-> CHOOSE n \in FromValue(types[i], values[i]) : TRUE]

\* A method throws, or gives a value of its type; none if it is void.
Invoke(name, arguments) ==
  LET m == Methods[name]
      r == Returns(name, Decoded(m.arguments, arguments))
  IN  IF r = {} THEN Response(3, <<>>)
      ELSE Response(0, IF m.result = <<>> THEN <<>>
                       ELSE <<ToValue(m.result[1], CHOOSE n \in r : TRUE)>>)

Dispatch(e) ==
  IF e.method \notin DOMAIN Methods THEN Response(1, <<>>)
  ELSE IF ~Fits(Methods[e.method].arguments, e.arguments) THEN Response(2, <<>>)
  ELSE Invoke(e.method, e.arguments)

RpcHandle(bytes) ==
  LET decoded == RpcDecode(bytes)
      reply == Dispatch(CHOOSE e \in decoded : TRUE)
  IN  IF \/ decoded = {} \/ RpcId(bytes) = 0
         \/ \E e \in decoded : e.type # "REQUEST"
         \/ ByteSize(reply) > limit.server
      THEN Closes
      ELSE Replies(RpcEncode(RpcId(bytes), reply, ByteSize(reply)), Len(bytes))

\* The value to store of a SET or SET_TTL, if it is a valid one.
ToStore(h, bytes) ==
  LET value == ValueOf(h, bytes)
      given == IF h.command = "SET" THEN {value}
               ELSE {i.value : i \in {i \in Parse(value) : i.ttl = "valid"}}
  IN  {v \in given : Len(v) <= MAX_VALUE_SIZE /\ Len(v) <= Storable}

\* The value of the reply.  A CacheValue without a value is no bytes at all.
KvReply(h, key) ==
  LET found == key \in DOMAIN Stored
  IN  CASE h.command = "GET" /\ found -> Stored[key]
        [] h.command = "LOOKUP" /\ found ->
             Serialize([value |-> Stored[key], ttl |-> "", found |-> TRUE],
                       Len(Stored[key]) + Envelope)
        [] h.command = "STATS" -> <<Part("text", 1)>>
        [] OTHER -> <<>>

KvHandle(bytes) ==
  LET h == decodeHeader(bytes)
      stores == h.command \in {"SET", "SET_TTL"}
  IN  IF Len(bytes) < HEADER_SIZE THEN Replies(<<>>, 0)
      ELSE IF \/ ~validate(h) \/ (~stores /\ h.value_len > 0)
              \/ (h.command = "STATS" /\ h.key_len > 0)
      THEN Closes
      ELSE IF Len(bytes) < Total(h) THEN Replies(<<>>, 0)
      ELSE IF stores /\ ToStore(h, bytes) = {} THEN Closes
      ELSE Replies(encode(h.command, KeyOf(h, bytes), KvReply(h, KeyOf(h, bytes))), Total(h))

Handle(bytes) == IF proto = "rpc" THEN RpcHandle(bytes) ELSE KvHandle(bytes)
-----------------------------------------------------------------------------
(* The server's connection.                                                *)

Framed == proto # "raw"
MaxFrame == IF proto = "rpc" THEN limit.server + RPC_HEADER ELSE MAX_FRAME_SIZE

\* The KV server has a batch handler, which takes one frame of a connection at a time.
ServerLimit == IF proto = "rpc" THEN Pipeline ELSE 1

\* One round of the loop that hands frames to the workers.
TakeFrame(p) ==
  LET bytes == data(p.input)
      size == IF Framed THEN Sizer(bytes) ELSE Len(bytes)
      frame == SubSeq(bytes, 1, size)
  IN  IF ~p.open \/ bytes = <<>> \/ p.incomplete \/ Cardinality(p.jobs) >= ServerLimit THEN p
      ELSE IF size = Bad \/ size > MaxFrame THEN [p EXCEPT !.open = FALSE]
      ELSE IF size = 0 \/ size > Len(bytes) THEN p
      ELSE IF Framed
      THEN [p EXCEPT !.jobs = @ \union {frame}, !.input = consume(@, size),
                     !.taken = Append(@, frame)]
      ELSE [p EXCEPT !.jobs = {frame}]

\* Mutant: the buffer never holds a frame of the largest size.
ReceivableBelowLimit(p) ==
  IF Cardinality(p.jobs) >= ServerLimit THEN 0
  ELSE Min({Len(up), MaxFrame - 1 - Len(data(p.input))})

\* How much a recv may give: nothing while the pipeline is full.
Receivable(p) ==
  IF Cardinality(p.jobs) >= ServerLimit THEN 0
  ELSE Min({Len(up), MaxFrame - Len(data(p.input))})

\* Pump: receive n bytes, then take frames until there is no whole one or no
\* room.  The state it ends in, as a set of one.
Pumped(p, n) ==
  LET round[i \in 0 .. ServerLimit] ==
        IF i > 0 THEN {TakeFrame(q) : q \in round[i - 1]}
        ELSE IF n = 0 THEN {p}
        ELSE {[p EXCEPT !.input = append(@, SubSeq(up, 1, n)), !.incomplete = FALSE]}
  IN  round[ServerLimit]

\* The connection after a handler of the loop that received n bytes.
Server(p, n, sent) ==
  /\ up' = IF p.open THEN SubSeq(up, n + 1, Len(up)) ELSE <<>>
  /\ down' = down \o sent
  /\ link' = IF p.open THEN "open" ELSE "closed"
  /\ peer' = IF p.open THEN p ELSE NoPeer
  /\ UNCHANGED <<proto, limit, calls, epoch, broken, input, written>>

ServerReads ==
  /\ link = "open"
  /\ \E n \in 1 .. Receivable(peer) : \E p \in Pumped(peer, n) : Server(p, n, <<>>)

\* The completion of a job is refused.
Unacceptable(job, reply) ==
  \/ reply.close \/ reply.consumed > Len(job)
  \/ Framed /\ reply.consumed # Len(job)
  \/ Len(reply.bytes) > MaxFrame
  \/ reply.consumed = 0 /\ (reply.bytes # <<>> \/ Len(job) = MaxFrame)

\* Mutant: without a sizer the whole buffer counts as consumed.
CompletedAll(p, job, n) ==
  IF Framed THEN [p EXCEPT !.jobs = @ \ {job}]
  ELSE [p EXCEPT !.jobs = {}, !.input = consume(@, IF n = 0 THEN 0 ELSE Len(job)),
                 !.incomplete = n = 0,
                 !.taken = IF n = 0 THEN @ ELSE Append(@, SubSeq(job, 1, n))]

Completed(p, job, n) ==
  IF Framed THEN [p EXCEPT !.jobs = @ \ {job}]
  ELSE [p EXCEPT !.jobs = {}, !.input = consume(@, n), !.incomplete = n = 0,
                 !.taken = IF n = 0 THEN @ ELSE Append(@, SubSeq(job, 1, n))]

\* A worker runs the handler on a job and posts the reply, in any order.
WorkerReplies ==
  /\ link = "open"
  /\ \E job \in peer.jobs : \E reply \in {Handle(job)} :
       \/ /\ Unacceptable(job, reply)
          /\ Server([peer EXCEPT !.open = FALSE], 0, <<>>)
       \/ /\ ~Unacceptable(job, reply)
          /\ \E p \in {Completed(peer, job, reply.consumed)} :
               \E n \in 0 .. Receivable(p) : \E q \in Pumped(p, n) : Server(q, n, reply.bytes)
-----------------------------------------------------------------------------
(* The client.  Its state within a handler: calls, input, and whether the  *)
(* connection is open.                                                     *)

None == [st |-> "none", out |-> <<>>]
Outcome(st, out) == [st |-> st, out |-> out]
Waiting(cs) == {i \in DOMAIN cs : cs[i].conn = 0 /\ cs[i].outcome = None}
Inflight(cs) == {i \in DOMAIN cs : cs[i].conn > 0 /\ cs[i].outcome = None}

Disconnect(s, code) ==
  [calls |-> [i \in DOMAIN s.calls |-> IF i \in Inflight(s.calls)
                THEN [s.calls[i] EXCEPT !.outcome = Outcome(code, <<>>)] ELSE s.calls[i]],
   input |-> NoBytes, open |-> FALSE]

\* Mutant: a remote error counts as an invalid response.
RpcResultOrInvalid(c, bytes) ==
  LET decoded == RpcDecode(bytes)
  IN  IF \E e \in decoded : e.type = "RESPONSE" /\ e.status = 0 /\ Fits(c.result, e.result)
      THEN Outcome("value", Decoded(c.result, (CHOOSE e \in decoded : TRUE).result))
      ELSE Outcome("protocol", <<>>)

RpcResult(c, bytes) ==
  LET decoded == RpcDecode(bytes)
      e == CHOOSE e \in decoded : TRUE
  IN  IF decoded = {} \/ e.type # "RESPONSE" \/ e.status > 4 THEN Outcome("protocol", <<>>)
      ELSE IF e.status # 0 THEN Outcome("remote", <<e.status>>)
      ELSE IF Fits(c.result, e.result) THEN Outcome("value", Decoded(c.result, e.result))
      ELSE Outcome("protocol", <<>>)

KvResult(c, bytes) ==
  LET h == decodeHeader(bytes)
      value == ValueOf(h, bytes)
      item == IF value = <<>> THEN {[found |-> FALSE]} ELSE Parse(value)
  IN  IF \/ h.command # c.command \/ Len(bytes) > limit.client
         \/ c.command \in {"SET", "SET_TTL", "DEL"} /\ h.value_len > 0
         \/ KeyOf(h, bytes) # c.key
      THEN Outcome("protocol", <<>>)
      ELSE CASE c.command \in {"SET", "SET_TTL", "DEL"} -> Outcome("value", <<TRUE>>)
             [] c.command \in {"GET", "STATS"} -> Outcome("value", value)
             [] c.command = "LOOKUP" ->
                  IF item = {} THEN Outcome("protocol", <<>>)
                  ELSE LET i == CHOOSE i \in item : TRUE
                       IN  Outcome("value", IF i.found THEN <<i.value>> ELSE <<>>)

\* Finish: the call's completion decides whether the response was valid.
Finish(s, id, bytes) ==
  LET c == s.calls[id].what
      o == IF proto = "rpc" THEN RpcResult(c, bytes) ELSE KvResult(c, bytes)
      t == [s EXCEPT !.calls[id].outcome = o]
  IN  IF o.st = "protocol" THEN Disconnect(t, "protocol") ELSE t

\* One round of the loop that answers calls: by identifier, or in order.
TakeResponse(s) ==
  LET bytes == data(s.input)
      size == Sizer(bytes)
      most == limit.client + (IF proto = "rpc" THEN RPC_HEADER ELSE 0)
      response == SubSeq(bytes, 1, size)
      id == IF proto = "rpc" THEN RpcId(response) ELSE Min(Inflight(s.calls) \union {Len(s.calls)})
  IN  IF ~s.open \/ bytes = <<>> THEN s
      ELSE IF size = Bad \/ size > most THEN Disconnect(s, "protocol")
      ELSE IF size = 0 \/ size > Len(bytes) THEN s
      ELSE IF id \notin Inflight(s.calls) THEN Disconnect(s, "protocol")
      ELSE Finish([s EXCEPT !.input = consume(@, size)], id, response)

\* The requests Dispatch may send now: those that wait, in order, while there is room.
\* The KV client has one request under way; the client of a server without a sizer
\* is external and may send the next before it is answered.
Sendable(cs) ==
  LET room == (IF proto = "kv" THEN 1 ELSE MaxInflight) - Cardinality(Inflight(cs))
  IN  {i \in Waiting(cs) : Cardinality({j \in Waiting(cs) : j <= i}) <= room}

FramesOf(new, cs) ==
  LET ids == SetToSortSeq(new, <) IN [k \in DOMAIN ids |-> Frame(ids[k], cs[ids[k]].what)]

\* Dispatch ends every handler; it makes a connection if there is none.
Client(s, received) ==
  \E new \in {Sendable(s.calls)} : \E frames \in {FramesOf(new, s.calls)} :
    LET fresh == ~s.open /\ new # {}
    IN  /\ epoch' = IF fresh THEN epoch + 1 ELSE epoch
        /\ calls' = [i \in DOMAIN s.calls |->
                       IF i \in new THEN [s.calls[i] EXCEPT !.conn = epoch'] ELSE s.calls[i]]
        /\ link' = IF s.open THEN link ELSE IF fresh THEN "open" ELSE "none"
        /\ written' = IF link' = "open" THEN (IF fresh THEN <<>> ELSE written) \o frames ELSE <<>>
        /\ up' = IF link' = "open" THEN (IF fresh THEN <<>> ELSE up) \o FlattenSeq(frames) ELSE <<>>
        /\ down' = IF s.open THEN SubSeq(down, received + 1, Len(down)) ELSE <<>>
        /\ input' = s.input
        /\ peer' = IF s.open THEN peer ELSE NoPeer
        /\ UNCHANGED <<proto, limit>>

Now == [calls |-> calls, input |-> input, open |-> link # "none"]

Call ==
  /\ Len(calls) < MaxCalls[proto]
  /\ \E c \in IF proto = "rpc" THEN Rpcs ELSE Kvs :
       LET outcome == IF Admissible(c) THEN None ELSE Outcome("refused", <<>>)
       IN  Client([Now EXCEPT !.calls = Append(@, [what |-> c, conn |-> 0, outcome |-> outcome])], 0)
  /\ UNCHANGED broken

\* Every frame ends a call or the connection: no more rounds than calls and one.
ClientReads ==
  /\ link # "none"
  /\ \E n \in 1 .. Len(down) :
       LET round[i \in 0 .. Len(calls) + 1] ==
             IF i > 0 THEN {TakeResponse(s) : s \in round[i - 1]}
             ELSE {[Now EXCEPT !.input = append(@, SubSeq(down, 1, n))]}
       IN  \E s \in round[Len(calls) + 1] : Client(s, n)
  /\ UNCHANGED broken

\* The server closed: bytes not read yet may be lost with a reset.
ClientSeesClose == link = "closed" /\ Client(Disconnect(Now, "failed"), 0) /\ UNCHANGED broken

\* External: the connection breaks, with what was under way.
Cut ==
  /\ link # "none" /\ Cardinality(broken) < MaxCuts
  /\ broken' = broken \union {epoch}
  /\ Client(Disconnect(Now, "failed"), 0)

Next == Call \/ ServerReads \/ WorkerReplies \/ ClientReads \/ ClientSeesClose \/ Cut

Spec == Init /\ [][Next]_vars
-----------------------------------------------------------------------------
(* What a call means, without bytes.                                       *)

InRange(types, values) ==
  /\ Len(types) = Len(values)
  /\ \A i \in DOMAIN types : /\ values[i].kind = types[i].kind
                             /\ types[i].min <= values[i].n /\ values[i].n <= types[i].max

RpcMeaning(c) ==
  IF c.method \notin DOMAIN Methods THEN Outcome("remote", <<1>>)
  ELSE IF ~InRange(Methods[c.method].arguments, c.arguments) THEN Outcome("remote", <<2>>)
  ELSE LET r == Returns(c.method, [i \in DOMAIN c.arguments |-> c.arguments[i].n])
       IN  IF r = {} THEN Outcome("remote", <<3>>)
           ELSE Outcome("value", IF Methods[c.method].result = <<>> THEN <<>> ELSE SetToSeq(r))

KvMeaning(c) ==
  LET found == c.key \in DOMAIN Stored
  IN  Outcome("value", CASE c.command \in {"SET", "SET_TTL", "DEL"} -> <<TRUE>>
                         [] c.command = "GET" -> IF found THEN Stored[c.key] ELSE <<>>
                         [] c.command = "LOOKUP" -> IF found THEN <<Stored[c.key]>> ELSE <<>>
                         [] c.command = "STATS" -> <<Part("text", 1)>>)

Meaning(c) == IF proto = "rpc" THEN RpcMeaning(c) ELSE KvMeaning(c)

\* The calls that a connection does not survive: too large for the server, with
\* a reply too large for either end or of another type than the caller's; a
\* value the cache does not take.
RpcUnfit(c) ==
  LET m == RpcMeaning(c)
      result == IF m.st = "remote" \/ m.out = <<>> THEN <<>>
                ELSE <<ToValue(Methods[c.method].result[1], m.out[1])>>
      size == 1 + ValuesSize(result) + (IF m.st = "remote" THEN 1 ELSE 0)
  IN  \/ 1 + ValuesSize(c.arguments) > limit.server
      \/ size > limit.server \/ size > limit.client
      \/ m.st = "value" /\ ~InRange(c.result, result)

KvUnfit(c) ==
  LET found == IF c.key \in DOMAIN Stored THEN Len(Stored[c.key]) ELSE 0
      size == CASE c.command = "GET" -> found
                [] c.command = "LOOKUP" -> IF found = 0 THEN 0 ELSE found + Envelope
                [] c.command = "STATS" -> 1
                [] OTHER -> 0
  IN  \/ c.command \in {"SET", "SET_TTL"} /\ Len(c.value) > Storable
      \/ c.command = "SET_TTL" /\ c.ttl # "valid"
      \/ HEADER_SIZE + Len(c.key) + size > limit.client

Unfit(c) == IF proto = "rpc" THEN RpcUnfit(c) ELSE KvUnfit(c)
-----------------------------------------------------------------------------
\* While the connection is up no byte is lost, repeated or moved, wherever recv
\* cut the stream: the handlers got whole frames as they were sent, in order, and
\* the rest is in the buffer or under way (Buffer, the sizers, TcpServer's Pump,
\* which without a sizer keeps the input until the handler consumes it).
FramesIntact ==
  link = "open" =>
    /\ IsPrefix(peer.taken, written)
    /\ FlattenSeq(peer.taken) \o data(peer.input) \o up = FlattenSeq(written)

\* A call that returns, with a value or a remote error, returns what its own
\* request means: responses out of order do not mix, and no argument or result is
\* narrowed on the way ("Integer conversions check the destination range").
OwnResult ==
  \A i \in DOMAIN calls : calls[i].outcome.st \in {"value", "remote"} =>
    calls[i].outcome = Meaning(calls[i].what)

\* A call fails only for a reason: its connection broke, or carried a call that
\* exceeds a limit or does not match the method's type.  Frames of just the
\* largest size pass, and a remote error leaves the connection to the others.
FailsForAReason ==
  \A i \in DOMAIN calls : calls[i].outcome.st \in {"failed", "protocol"} =>
    \/ calls[i].conn \in broken
    \/ \E j \in DOMAIN calls : calls[j].conn = calls[i].conn /\ Unfit(calls[j].what)

\* No call is left to its deadline: while one has not ended, an end of the
\* connection has something to do, be it bytes it has room for, a job, or a close
\* to see.  A frame of any size within the limits, cut anywhere, does not wait in a
\* buffer for bytes that come only after it.
NoCallStranded ==
  (\E i \in DOMAIN calls : calls[i].outcome = None) =>
    \/ link = "closed" \/ down # <<>>
    \/ link = "open" /\ (Receivable(peer) > 0 \/ peer.jobs # {})
=============================================================================
