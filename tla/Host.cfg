SPECIFICATION HSpec
CONSTANTS
  web = web
  rival = rival
  mail = mail
  drop = drop
  inst = inst
  show = show
  RouteCommands = {web, rival, mail, drop, inst, show}
  shop = shop
  blog = blog
  Domains = {shop, blog}
  Targets <- SomeTargets
  Op <- Ops
  DomainOf <- DomainsAsked
  TargetOf <- TargetsAsked
  NoTarget = NoTarget
  OldRouter = OldRouter
  NoRouter = NoRouter
  hardA = hardA
  hardB = hardB
  hardC = hardC
  Hardenings = {hardA, hardB, hardC}
  Jailing = {hardA, hardC}
  Refused = {hardB}
  NoDropIn = NoDropIn
  Piece = Piece
  Scrap = Scrap
  byApi = byApi
  byCli = byCli
  Updates = {byApi, byCli}
  FromCLI = {byCli}
  new = new
  old = old
  bad = bad
  Wanted <- VersionsAsked
  Versions = {new, old, bad}
  Sound = {new, old}
  Latest = Latest
  Factory = Factory
  p1 = p1
  p2 = p2
  p3 = p3
  Agents = {p1, p2, p3}
  Unattended = {p2, p3}
  Nobody = Nobody
  Worlds = {"rivals", "drops", "installs", "shows", "harden", "update", "lock"}
INVARIANTS
  HostTypeOK
  AppliedIsServed
  BookedIsKept
  HardeningHolds
  InstalledWasTested
PROPERTIES
  NewInstanceServes
  DomainNotStolen
CHECK_DEADLOCK FALSE
