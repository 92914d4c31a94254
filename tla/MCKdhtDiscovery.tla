-------------------------- MODULE MCKdhtDiscovery --------------------------
(* The Kademlia discovery with a few peers, one of them the bootnode.      *)
EXTENDS KdhtDiscovery, TLC

CONSTANTS b, x

MCBootnodes == <<b>>
=============================================================================
