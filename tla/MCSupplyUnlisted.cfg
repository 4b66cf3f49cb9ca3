SPECIFICATION Spec
CONSTANTS
  Dev = Dev
  Runner = Runner
  app = app
  base = base
  bumped = bumped
  old = old
  fixed = fixed
  oldApp = oldApp
  fixedApp = fixedApp
  scratch = scratch
  libc = libc
  patched = patched
  flaw = flaw
  Names = {app, base, bumped}
  Digests = {old, fixed, oldApp, fixedApp, scratch}
  Built = Built
  Packages = {libc, patched}
  Subject = Subject
  Contents <- MCContents
  BuildOn <- MCBuildOn
  Advisories = {flaw}
  Affected <- MCAffected
  Composes <- MCComposes
  None = None
  Malformed = Malformed
  DevTargets = {}
  Overlap = FALSE
  MaxEdits = 2
  MaxMishaps = 0
  MaxNews = 0
INVARIANT EveryImageCatalogued
