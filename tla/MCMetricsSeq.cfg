SPECIFICATION FairSpec

CONSTANTS
  p1 = p1
  p2 = p2
  ip1 = ip1
  ip2 = ip2
  NoIP = NoIP
  None = None
  Peers = {p1, p2}
  IPs = {ip1, ip2}
  Hosted <- MCHosted
  Country <- MCCountry
  Objects <- MCObjects
  Restored <- MCRestored
  Exported <- MCExported
  Persisters = {1, 2}
  MaxObjects = 2
  MaxTime = 1

PROPERTY
  SeqNeverFalls
