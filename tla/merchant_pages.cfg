\* Two notices, two agents with two versions, two merchants and two slugs,
\* two tenants of an operator.
CONSTANTS
  Notices = {n1, n2}
  None = None
  Shown = 1
  OneProcess = FALSE
  MaxVersion = 2
  MaxJobs = 2
  Merchants = {m1, m2}
  Slugs = {s1, s2}
  Tenants = {1, 2}
  MaxOthers = 1
SPECIFICATION MerchantSpec
SYMMETRY Alike
INVARIANTS
  AllTypeOK
  ReadWasShown
  CachedIsInstalled
  
  ToldIsOwner
  
  
