SPECIFICATION FairSpec
CONSTANTS
  Dev = Dev
  Runner = Runner
  app = app
  base = base
  bumped = bumped
  old = old
  fixed = fixed
  oldApp = oldApp
  fixedApp = fixedApp
  scratch = scratch
  libc = libc
  patched = patched
  flaw = flaw
  Names = {base, bumped}
  Digests = {old, fixed, oldApp, fixedApp, scratch}
  Built = Built
  Packages = {libc, patched}
  Subject = Subject
  Contents <- MCContents
  BuildOn <- MCBuildOn
  Advisories = {flaw}
  Affected <- MCAffected
  Composes <- MCPulled
  None = None
  Malformed = Malformed
  DevTargets = {"sbom", "scan-report"}
  Overlap = TRUE
  MaxEdits = 1
  MaxMishaps = 1
  MaxNews = 2
PROPERTIES NewsIsReported
