SPECIFICATION FairSpec
CONSTANTS
  serverCert = serverCert
  otherCert = otherCert
  Certs <- MCCerts
  NoTls = NoTls
  NoPin = NoPin
  Garbled = Garbled
  NoCa = NoCa
  Answers <- MCAnswers
  MaxLate = 0
  Configs <- OneConfig
  MaxLength = 2
  MaxBacklog = 1
  MaxStores = 1
INVARIANTS
  TypeOK
  InStep
  SuccessIsOwn
  RetriableMeansUsable
  DownloadIsWhole
PROPERTIES
  CallsReturn
  CallsGetOn
