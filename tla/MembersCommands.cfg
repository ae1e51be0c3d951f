SPECIFICATION Spec
CONSTANTS
  first = first
  again = again
  pairing = pairing
  unpair = unpair
  revoke = revoke
  tailnet = tailnet
  Local = Local
  Foreign = Foreign
  NoAccount = NoAccount
  NoFile = NoFile
  Down = Down
  NoToken = NoToken
  Commands = {first, again, pairing, unpair, revoke}
  KindOf <- MCKindOf
  Hosts = {tailnet}
  HostOf <- MCFirstLocal
  MaxRunning = 2
VIEW Seen
CHECK_DEADLOCK FALSE
INVARIANTS TypeOK RollbackUndoesOwnRun NothingHalfMade RevokedStaysOut ForeignAccountUntouched
PROPERTIES FreshCodeIsAccepted ProviderKeysStay
