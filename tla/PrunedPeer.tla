----------------------------- MODULE PrunedPeer -----------------------------
(***************************************************************************)
(* The value kept for one remote peer by the pruning strategy: the delay   *)
(* class its last connection attempt put it in, the time of that attempt   *)
(* and the time from which its deprecation is counted.                     *)
(*   src/pkg/peering/pruning_strategy.go          (type PrunedPeer)        *)
(*   src/pkg/peering/prunning_error_structs.go    (delay classes)          *)
(*                                                                         *)
(* Times are natural numbers of an arbitrary unit.  The addresses, the     *)
(* network and the text of the last error are carried along by the code    *)
(* and never tested; they are left out.                                    *)
(***************************************************************************)
EXTENDS Integers

CONSTANTS
  initialDelayTime,   \* the delay of each class (Timeout: of its first degree)
  MaxDelayTime,       \* no connection is put off for longer than this
  DeprecationTime,    \* time without a success after which a peer is dropped
  MaxDegree           \* bound: the degree saturates here (see IncreaseDegree)

Delay == {"Positive", "NegativeWithHope", "NegativeWithNoHope", "Zero",
          "Minus1", "Timeout"}

\* Past MaxDegree the delay of a Timeout peer is over MaxDelayTime, and the
\* delay of every other class does not depend on the degree.
ASSUME DelayAssumption ==
  /\ initialDelayTime \in [Delay -> Int]
  /\ MaxDelayTime \in Nat
  /\ DeprecationTime \in Nat \ {0}
  /\ MaxDegree \in Nat \ {0}
  /\ 2^(MaxDegree - 1) * initialDelayTime["Timeout"] > MaxDelayTime

NoConnError == "none"

\* time.Time{}: before every reading of the clock.
ZeroTime == -1

-----------------------------------------------------------------------------

ErrorToDelayType(err) ==
  CASE err = NoConnError -> "Positive"
    [] err \in {"no_route_to_host", "network_unreachable", "peer_id_mismatch",
                "dial to self attempted", "no_good_addresses"}
         -> "NegativeWithNoHope"
    [] err = "io_timeout" -> "Timeout"
    [] OTHER -> "NegativeWithHope"

PrunedPeers == [dtype : Delay, degree : 0..MaxDegree,
                baseConnection : Nat, baseDeprecation : Nat]

NewPrunedPeer(delay, t) ==
  [dtype |-> delay, degree |-> 0, baseConnection |-> t, baseDeprecation |-> t]

\* The code's counter has no bound: see DelayAssumption.
IncreaseDegree(pp) ==
  [pp EXCEPT !.degree = IF @ < MaxDegree THEN @ + 1 ELSE @]

CalculateDelay(pp) ==
  IF pp.dtype # "Timeout" THEN initialDelayTime[pp.dtype]
  ELSE IF pp.degree = 0 THEN 0
  ELSE 2^(pp.degree - 1) * initialDelayTime["Timeout"]

NextConnection(pp) ==
  IF pp.dtype = "Minus1" THEN ZeroTime
  ELSE IF CalculateDelay(pp) > MaxDelayTime
       THEN pp.baseConnection + MaxDelayTime
  ELSE pp.baseConnection + CalculateDelay(pp)

IsReadyForConnection(pp, t) == t >= NextConnection(pp)

\* Mutant: a peer is let live one instant longer.
DeprecableStrict(pp, t) == t - pp.baseDeprecation > DeprecationTime

Deprecable(pp, t) == t - pp.baseDeprecation >= DeprecationTime

\* UpdateDelay writes the three parts one after the other, without a lock.
StampConnection(pp, t) == [pp EXCEPT !.baseConnection = t]

RefreshDelay(pp, err, t) ==
  LET dtype == ErrorToDelayType(err)
  IN  [pp EXCEPT !.dtype = dtype,
                 !.degree = IF dtype = pp.dtype THEN @ ELSE 0,
                 !.baseDeprecation = IF dtype = "Positive" THEN t ELSE @]

=============================================================================
