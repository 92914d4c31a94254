----------------------------- MODULE UserAgent -----------------------------
(***************************************************************************)
(* What the crawler reads out of the user agent of a peer:                 *)
(*   src/pkg/utils/useragent.go                                            *)
(*                                                                         *)
(* A user agent is the names of clients, operating systems and             *)
(* architectures that it contains, and its fields between slashes, each    *)
(* with a version before the first "+" or "-" and the rest after it.       *)
(***************************************************************************)
EXTENDS Naturals, Sequences

UnknownName == "unknown"

\* The parsers walk over a map, in any order, and take the first name they find.
NameParser(found) == IF found = {} THEN {UnknownName} ELSE found

GetVersionIfAny(fields, index) ==
  IF index > Len(fields) - 1 THEN [base |-> UnknownName, rest |-> ""]
  ELSE fields[index + 1]

CleanVersion(field) == field.base

\* The field of the version; Teku has its name twice.
VersionIndex(client) == IF client = "teku" THEN 2 ELSE 1

VersionOf(client, fields) ==
  IF client = UnknownName THEN UnknownName
  ELSE CleanVersion(GetVersionIfAny(fields, VersionIndex(client)))

\* The columns that may come out for a user agent.
ParseClientType(agent) ==
  {[name |-> c, version |-> VersionOf(c, agent.fields), os |-> o, arch |-> a] :
     c \in NameParser(agent.names), o \in NameParser(agent.oses),
     a \in NameParser(agent.archs)}
=============================================================================
