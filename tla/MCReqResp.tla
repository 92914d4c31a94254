----------------------------- MODULE MCReqResp -----------------------------
(* The requests of module ReqResp on a small instance.                     *)
EXTENDS ReqResp

\* A ping; a status whose length is too short, and one that can be read; metadata.
MCRequests ==
  { [m |-> "ping", len |-> 8, body |-> 1],
    [m |-> "status", len |-> 9, body |-> Garbled],
    [m |-> "status", len |-> 10, body |-> 1],
    [m |-> "metadata", len |-> 0, body |-> Garbled] }

\* Pings of the right length, and of a length between that and the size of its
\* encoding.
MCPings == [m : {"ping"}, len : {8, 40}, body : {1, Garbled}]
=============================================================================
