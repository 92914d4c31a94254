------------------------- MODULE MCPruningStrategy -------------------------
(* PruningStrategy with small delays that keep the order of the real ones. *)
EXTENDS PruningStrategy, TLC

MCInitialDelayTime ==
  [d \in Delay |-> CASE d \in {"Positive", "NegativeWithHope"} -> 1
                     [] d \in {"NegativeWithNoHope", "Zero"}    -> 0
                     [] d = "Minus1"                            -> -10
                     [] d = "Timeout"                           -> 1]

Symmetry == Permutations(Peers) \cup Permutations(Workers)
=============================================================================
