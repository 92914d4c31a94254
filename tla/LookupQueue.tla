---------------------------- MODULE LookupQueue ----------------------------
(* What the way of an address from LocateIP to the IP-API promises: a      *)
(* bounded queue, served in the order of arrival.                          *)
EXTENDS Naturals, Sequences

CONSTANTS IPs, Capacity

VARIABLE line

LineInit == line = <<>>

Join == \E ip \in IPs : Len(line) < Capacity /\ line' = Append(line, ip)

Serve == line # <<>> /\ line' = Tail(line)

LineSpec == LineInit /\ [][Join \/ Serve]_line
=============================================================================
