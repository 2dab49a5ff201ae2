SPECIFICATION FairSpec
CONSTANTS
  d1 = d1
  d2 = d2
  d3 = d3
  p1 = p1
  owns = owns
  s1 = s1
  device = device
  interface = interface
  composition = composition
  Entities = {d1, d2, d3, p1}
  Relations = {owns}
  KeyOf <- MCKeyOf
  SourceOf <- MCSourceOf
  TypeOf <- MCTypeOf
  EndsOf <- MCEndsOf
  Keys <- MCKeys
  Sources = {s1}
  Types = {device, interface, composition}
  Callers = {c1, c2}
  Times = {1, 2}
  BatchSize = 1
  None = None
INVARIANTS TypeOK UpsertFindsItsObject
PROPERTIES CleanupEnds CleanupSparesSeen RefreshedByOwner
