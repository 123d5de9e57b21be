SPECIFICATION LiveSpec
CONSTANTS
  serverCert = serverCert
  otherCert = otherCert
  Certs <- MCCerts
  NoTls = NoTls
  NoPin = NoPin
  Garbled = Garbled
  NoCa = NoCa
  Answers <- MCAnswers
  MaxLate = 1
  Configs <- SketchConfigs
  MaxLength = 4
  MaxBacklog = 3
  MaxStores = 1
INVARIANTS
  LiveTypeOK
  CallsFindSessionInStep
  EndsWithoutSession
PROPERTIES
  TestEnds
CHECK_DEADLOCK FALSE
