SPECIFICATION Spec
CONSTANTS
  anna = anna
  bob = bob
  bobs = bobs
  s1 = s1
  r1 = r1
  r2 = r2
  User = {anna, bob}
  Instance = {bobs}
  UserIn <- OfFriend
  Socket = {s1}
  RID = {r1, r2}
  UserOf <- OfPlayer
  MaxStays = 2
  MaxWire = 2
  MaxConnects = 2
  MaxUpdated = 2
  MaxRequests = 1
INVARIANTS
  TypeOK
  ListenersSeeFriends
  InstancesAgree
  RequestsGoOut
