------------------------------ MODULE MCGossip ------------------------------
(***************************************************************************)
(* Module Gossip for TLC: forks whose digest ends in a zero or not, given  *)
(* by digest, without prefix, by name or not at all; ten subnets, so that  *)
(* one has two digits of which the first is a subnet too; and lists with   *)
(* numbers out of range and with "all" behind a number.                    *)
(***************************************************************************)
EXTENDS Gossip

Capella == <<"0", "x", "b", "a">>
Altair  == <<"0", "x", "a", "0">>

MCForkDigests == <<"all">> :> <<"all">> @@ <<"capella">> :> Capella @@ <<"altair">> :> Altair

Flag(fork, topics, subnets, persist) ==
  [fork |-> fork, topics |-> topics, subnets |-> subnets, persist |-> persist]

MCFlags ==
  {Flag(None, <<"beacon_block", "voluntary_exit">>, <<10, 1>>, TRUE),
   Flag(Altair, <<"beacon_block">>, <<1>>, TRUE),
   Flag(<<"b", "a">>, <<"beacon_block">>, <<0>>, FALSE),
   Flag(<<"altair">>, <<"beacon_block", "beacon_block">>, <<>>, TRUE),
   Flag(<<"all">>, <<>>, <<1, All>>, TRUE),
   Flag(<<"x">>, <<>>, <<10, 11>>, TRUE),
   Flag(Capella, <<>>, <<11, 0, 1>>, TRUE)}

Msg(id, base, subnet, from, data, slot) ==
  [id |-> id, base |-> base, subnet |-> subnet, from |-> from, data |-> data, slot |-> slot]

MCMessages ==
  {Msg("m1", "beacon_attestation", 10, "p", "beacon_attestation", 5),
   Msg("m1", "beacon_attestation", 1, "q", "beacon_attestation", 5),
   Msg("m2", "beacon_attestation", 1, Self, "beacon_attestation", 6),
   Msg("m3", "beacon_attestation", 10, "p", "garbled", 5),
   Msg("m4", "beacon_block", None, "p", "beacon_block", 7),
   Msg("m5", "beacon_block", None, "q", "beacon_block", 0)}
=============================================================================
