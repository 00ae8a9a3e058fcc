SPECIFICATION Spec
CONSTANTS
  None = None
  u1 = u1 u2 = u2
  manifest = manifest code = code
  pty = pty addon = addon
  Updaters = {u1, u2}
  Commands = {u1}
  Parts = {manifest, code}
  Manifest = manifest
  Modules = {pty, addon}
  Direct = {pty}
  Needs <- NeedsAddon
  Releases <- TwoReleases
  MaxFaults = 1
  MaxDeaths = 1
CHECK_DEADLOCK FALSE
INVARIANTS ReleaseIsWhole ServicesComeBack
