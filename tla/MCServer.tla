------------------------------ MODULE MCServer ------------------------------
(* Instances of TcpServer for TLC.                                         *)
EXTENDS TcpServer, TLC

\* A client's second frame is larger than its others.
MCFrameBytes == [n \in 1 .. MaxFrames |-> IF n = 2 THEN 2 ELSE 1]

Queue(capacity, bytes, output) ==
  [queue_capacity |-> capacity, queue_bytes |-> bytes, output_bytes |-> output]

\* Room for one job of any size; for two only if they are small, and for fewer replies.
RpcOptions == {Queue(1, 2, 2), Queue(2, 2, 1)}
KvOptions == {Queue(2, 2, 2)}

Symmetry == Permutations(Conns)
=============================================================================
