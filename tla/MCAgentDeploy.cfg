SPECIFICATION Spec
CONSTANTS
  s1 = s1
  s2 = s2
  pane = pane
  ha = ha
  hb = hb
  NoHost = NoHost
  Tasks = {s1, s2, pane}
  AliasOf <- MCAliasOf
  Hosts = {ha, hb}
  Keys = {1, 2}
  SshConfig <- MCSshConfig
  Toml <- MCToml
  Resolve <- MCResolve
  Broken <- MCBroken
  Scenarios <- MCScenarios
  Procs = {1, 2}
  Binary <- MCBinary
  None = "none"
SYMMETRY MCSymmetry
INVARIANTS
  TrustIsKept
  DeployInv
  HealsOnNextDeploy
PROPERTIES
  KeyChangeIsAsked
CHECK_DEADLOCK FALSE
