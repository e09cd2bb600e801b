CONSTANTS
  o1 = o1  o2 = o2  r1 = r1  r2 = r2  r3 = r3  r4 = r4  r5 = r5  r6 = r6
  Orgs = {o1, o2}
  Requests = {r1, r2, r3, r4, r5, r6}
  Program <- TwoOrgs
  Separate <- JustLogin
  Serialised <- JustInvite
  Together <- Meetings
  AuditHash <- Hash
  GENESIS_HASH = genesis
  MaxFailures = 1
SPECIFICATION FairSpec
INVARIANTS ChainVerifies AppendsDoNotCollide LogTellsAll TamperingIsFound
PROPERTIES DeadlocksAreBroken
