SPECIFICATION Spec
CONSTANTS
  serverCert = serverCert
  otherCert = otherCert
  Certs <- MCCerts
  NoTls = NoTls
  NoPin = NoPin
  Garbled = Garbled
  NoCa = NoCa
  Answers <- MCAnswers
  MaxLate = 0
  Configs <- OverlongConfig
  MaxLength = 0
  MaxBacklog = 1
  MaxStores = 1
INVARIANT
  ReconnectUsesCachedConfiguration
