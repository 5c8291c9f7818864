CONSTANTS
  Capability = {c1, c2}
  Coverage = {v1, v2}
  PatchedFiles = {helper, proposer}
  Bare = {helper}
  None = None
  MaxKills = 2
  Dirs = {release, config}
  Orgs = {org1, org2, org3}
  MaxRuns = 3
  MaxCuts = 1
  MaxErrors = 2
SPECIFICATION Spec
INVARIANT BuildInv
INVARIANT CoverageIsClean
INVARIANT CapabilityIsPatched
INVARIANT ReleaseInv
INVARIANT FourOrgRestored
PROPERTY EveryBuildEnds
\* The system stops when every process has ended, or after MaxRuns calls.
CHECK_DEADLOCK FALSE
