----------------------------- MODULE Discovery -----------------------------
(***************************************************************************)
(* Peer discovery over discv5:                                             *)
(*   src/pkg/discovery/dv5/dv5_service.go   (the iterator over the nodes)  *)
(*   src/pkg/discovery/discovery.go         (the handler of the peers)     *)
(*                                                                         *)
(* The iterator filters the records of the nodes that geth finds and hands *)
(* the peers over an unbuffered channel, nodeNotC; the handler stores each *)
(* peer and asks the IP locator for its address.  Stop tells the iterator  *)
(* to end through a flag, waits for it, closes the channel, and then tells *)
(* the handler to end.                                                     *)
(*                                                                         *)
(* A record is abstracted to the address it carries, or to the reason why  *)
(* it is skipped: it cannot be parsed, or is of another fork.              *)
(***************************************************************************)
EXTENDS IpLocator

CONSTANTS
  Handler,     \* the goroutine of Start, a client of the locator
  PrivateIPs,  \* addresses that IsIPPublic rejects
  MaxNodes     \* bound: peers that pass the filter

ASSUME DiscoveryAssumption ==
  /\ Handler \in Clients
  /\ PrivateIPs \cap IPs = {} /\ None \notin PrivateIPs
  /\ MaxNodes \in Nat

VARIABLES
  doneF,           \* the flag of Discovery5.Stop
  iterator,        \* [pc, ip] of nodeIterator
  nodeClosed,      \* is nodeNotC closed?
  handler,         \* pc of the handler
  found            \* peers that the iterator has offered

discoveryVars == <<doneF, iterator, nodeClosed, handler, found>>

DiscoveryInit ==
  /\ doneF = FALSE
  /\ iterator = [pc |-> "off", ip |-> None]
  /\ nodeClosed = FALSE
  /\ handler = "off"
  /\ found = 0

\* Start of both services, from the crawler.
DiscoveryStart ==
  /\ iterator' = [iterator EXCEPT !.pc = "check"]
  /\ handler' = "select"

-----------------------------------------------------------------------------
(* nodeIterator.                                                           *)

CheckDone ==
  /\ iterator.pc = "check"
  /\ iterator' = [iterator EXCEPT !.pc = IF doneF \/ ctxDone THEN "done" ELSE "next"]
  /\ UNCHANGED <<doneF, nodeClosed, handler, found, locatorVars, procVars>>

\* Iterator.Next blocks until geth finds a node; handleENR skips it or not.
NextNode ==
  /\ iterator.pc = "next"
  /\ \/ /\ iterator' = [iterator EXCEPT !.pc = "check"]
        /\ UNCHANGED found
     \/ /\ found < MaxNodes
        /\ \E ip \in IPs \cup PrivateIPs :
             iterator' = [pc |-> "send", ip |-> ip]
        /\ found' = found + 1
  /\ UNCHANGED <<doneF, nodeClosed, handler, locatorVars, procVars>>

-----------------------------------------------------------------------------
(* The handler: its select, and peerHandler.                               *)

\* PersistToDB, then LocateIP if the address is public.
PeerHandler(ip) ==
  IF persistClosed
  THEN /\ panic' = "persistC"
       /\ UNCHANGED <<handler, client>>
  ELSE /\ UNCHANGED panic
       /\ IF ip \in IPs THEN handler' = "locate" /\ LocateIP(Handler, ip)
                        ELSE UNCHANGED <<handler, client>>

\* The channel is not buffered: the iterator and the handler meet.
HandlePeer ==
  /\ iterator.pc = "send"
  /\ handler = "select" \/ nodeClosed
  /\ IF nodeClosed
     THEN /\ panic' = "nodeNotC"
          /\ UNCHANGED <<iterator, handler, client>>
     ELSE /\ iterator' = [pc |-> "check", ip |-> None]
          /\ PeerHandler(iterator.ip)
  /\ UNCHANGED <<doneF, nodeClosed, found, ipList, locationRequest, requestClosed,
                 reader, caller, tableVars, queued, served, ctxDone, persistClosed>>

\* The closed channel gives nil, and peerHandler reads its fields.
HandleNil ==
  /\ handler = "select"
  /\ nodeClosed
  /\ panic' = "nil_peer"
  /\ UNCHANGED <<discoveryVars, locatorVars, ctxDone, persistClosed>>

HandlerLocated ==
  /\ handler = "locate"
  /\ client[Handler].pc = "idle"
  /\ handler' = "select"
  /\ UNCHANGED <<doneF, iterator, nodeClosed, found, locatorVars, procVars>>

HandlerStep == HandlePeer \/ HandleNil \/ HandlerLocated

DiscoveryNext == CheckDone \/ NextNode \/ HandlerStep
=============================================================================
