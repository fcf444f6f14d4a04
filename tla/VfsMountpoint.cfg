SPECIFICATION Spec
CONSTANTS
  tmp = tmp
  dev = dev
  a = a
  b = b
  f1 = f1
  f2 = f2
  NoFs = NoFs
  None = None
  NumVnodes = 4
  Files = {f1, f2}
  Names = {a, b}
  Tmp = {tmp}
  Dev = {dev}
  MountOrder <- MCMountOrder
  UnlinkRefused = FALSE
  LoseMounts = TRUE
PROPERTY MountpointsKept
