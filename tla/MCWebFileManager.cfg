SPECIFICATION ManagerSpec
CONSTANTS
  serverCert = serverCert
  otherCert = otherCert
  Certs <- MCCerts
  NoTls = NoTls
  NoPin = NoPin
  Garbled = Garbled
  NoCa = NoCa
  Answers <- MCAnswers
  MaxLate = 0
  Configs <- FewConfigs
  MaxLength = 3
  MaxBacklog = 3
  MaxStores = 1
  Forms <- MCForms
  BufferSize = 2
INVARIANTS
  WebTypeOK
  StaleFlagShowsInError
  SuccessKeepsSession
  CopyIsWhole
