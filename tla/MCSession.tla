----------------------------- MODULE MCSession ------------------------------
(* RPC and KV sessions with limits where some calls just fit and some do not. *)
EXTENDS Session

Wide == Type("signed", -2, 1)
Narrow == Type("signed", -1, 0)
Text == Type("string", 0, 9)

SessionMethods ==
  [inc |-> [arguments |-> <<Narrow>>, result |-> <<Wide>>],
   rep |-> [arguments |-> <<Text>>, result |-> <<Text>>],
   fail |-> [arguments |-> <<>>, result |-> <<>>]]

SessionReturns(name, arguments) ==
  IF name = "fail" THEN {} ELSE {arguments[1] + 1}

RpcCall(method, types, values, result) ==
  [method |-> method, arguments |-> [i \in DOMAIN types |-> ToValue(types[i], values[i])],
   result |-> result]

SessionRpcs ==
  {RpcCall("inc", <<Wide>>, <<0>>, <<Wide>>),     \* a result out of the arguments' range
   RpcCall("inc", <<Wide>>, <<1>>, <<Wide>>),     \* an argument out of range
   RpcCall("inc", <<Narrow>>, <<0>>, <<Narrow>>), \* a result out of range
   RpcCall("rep", <<Text>>, <<1>>, <<Text>>),     \* a reply beyond the smaller limit
   RpcCall("gone", <<Text>>, <<2>>, <<>>),        \* a request beyond it
   RpcCall("fail", <<>>, <<>>, <<>>)}

Bytes(name, n) == Serialize(name, n)

KvCall(command, key, value, ttl) ==
  [command |-> command, key |-> key, value |-> value, ttl |-> ttl]

SessionStored == (Bytes("k", 1) :> Bytes("v", 2))

SessionKvs ==
  {KvCall("GET", Bytes("k", 1), <<>>, ""), KvCall("LOOKUP", Bytes("k", 1), <<>>, ""), KvCall("LOOKUP", Bytes("m", 1), <<>>, ""),
   KvCall("SET", Bytes("k", 1), Bytes("w", 1), ""),
   KvCall("SET", Bytes("k", 1), Bytes("w", 2), ""),     \* more than the cache takes
   KvCall("SET_TTL", Bytes("k", 1), Bytes("w", 1), "valid"),
   KvCall("SET_TTL", Bytes("k", 1), Bytes("w", 1), "excessive"),
   KvCall("DEL", Bytes("k", 1), <<>>, ""), KvCall("STATS", <<>>, <<>>, "")}

SessionLimits ==
  [rpc |-> {[client |-> 3, server |-> 2], [client |-> 2, server |-> 3]},
   kv |-> {[client |-> MAX_FRAME_SIZE, server |-> 0], [client |-> MAX_FRAME_SIZE - 1, server |-> 0]},
   raw |-> {[client |-> MAX_FRAME_SIZE, server |-> 0]}]

SessionCalls == [rpc |-> 3, kv |-> 2, raw |-> 2]
=============================================================================
