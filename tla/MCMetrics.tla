----------------------------- MODULE MCMetrics -----------------------------
(***************************************************************************)
(* Module Metrics for TLC: two peers, one of which an earlier run has left *)
(* active in the tables, two addresses of different kinds, and user agents *)
(* of which one names no client.                                           *)
(***************************************************************************)
EXTENDS Metrics

CONSTANTS p1, p2, ip1, ip2

Field(v, r) == [base |-> v, rest |-> r]

Teku == [names |-> {"teku"}, fields |-> <<Field("teku", ""), Field("teku", ""), Field("v2", "g77")>>,
         oses |-> {"linux"}, archs |-> {"x86_64"}]
Other == [names |-> {}, fields |-> <<Field("storm", "")>>,
          oses |-> {"windows"}, archs |-> {}]

Discovered(p, ip, seq, time) ==
  [kind |-> "host", peer |-> p, ip |-> ip, agent |-> None, latency |-> 0,
   attributes |-> <<[kind |-> "enr", peer |-> p, time |-> time,
                     enr |-> [seq |-> seq, fork |-> "capella", attnets |-> seq]]>>]

Seen(p, ip, agent, ms) ==
  [kind |-> "host", peer |-> p, ip |-> ip, agent |-> agent, latency |-> ms,
   attributes |-> <<[kind |-> "status", peer |-> p, slot |-> ms],
                    [kind |-> "metadata", peer |-> p]>>]

Attempt(p, ok, dep, time) ==
  [kind |-> "attempt", peer |-> p, positive |-> ok, deprecable |-> dep, time |-> time]

Activity(p, time) == [kind |-> "activity", peer |-> p, time |-> time]

\* Only a test of the database sends the object of kind "peer".
MCObjects ==
  {Discovered(p1, ip1, 1, 1), Discovered(p1, ip1, 2, 2), Seen(p1, NoIP, Other, 1001),
   Attempt(p1, TRUE, FALSE, 2), Attempt(p2, FALSE, TRUE, 2),
   Activity(p2, 1), Activity(p2, 2), [kind |-> "ip", ip |-> ip2]}

ActiveRow ==
  [NewRow(ip2) EXCEPT !.cols = CHOOSE c \in ParseClientType(Teku) : TRUE,
                      !.latency = 0, !.attempted = TRUE, !.last_activity = 1]

MCRestored == {[EmptyTables EXCEPT !.peer_info[p2] = ActiveRow]}

MCCountry == [ip \in {ip1, ip2} |-> IF ip = ip1 THEN "ES" ELSE "DE"]
MCHosted == [k \in HostKinds |-> CASE k = "hosted_ips" -> {ip1}
                                 [] k = "mobile_ips" -> {ip2}
                                 [] OTHER -> {}]
MCExported == <<"client", "hosted">>
=============================================================================
