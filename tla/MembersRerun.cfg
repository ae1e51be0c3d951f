SPECIFICATION Spec
CONSTANTS
  first = first
  again = again
  pairing = pairing
  unpair = unpair
  revoke = revoke
  tailnet = tailnet
  Local = Local
  Foreign = Foreign
  NoAccount = NoAccount
  NoFile = NoFile
  Down = Down
  NoToken = NoToken
  Commands = {first, again}
  KindOf <- MCKindOf
  Hosts = {tailnet}
  HostOf <- MCFirstLocal
  MaxRunning = 1
CHECK_DEADLOCK FALSE
PROPERTY CodeIsAccepted
