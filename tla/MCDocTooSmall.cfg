SPECIFICATION Spec
CONSTANTS
  serverCert = serverCert
  otherCert = otherCert
  Certs <- MCCerts
  NoTls = NoTls
  NoPin = NoPin
  Garbled = Garbled
  NoCa = NoCa
  Answers <- MCAnswers
  MaxLate = 0
  Configs <- OneConfig
  MaxLength = 1
  MaxBacklog = 1
  MaxStores = 1
INVARIANT
  RefusedOnlyIfTooSmall
