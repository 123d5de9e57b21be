SPECIFICATION Spec
CONSTANTS
  serverCert = serverCert
  otherCert = otherCert
  Certs <- MCCerts
  NoTls = NoTls
  NoPin = NoPin
  Garbled = Garbled
  NoCa = NoCa
  Answers <- MCAnswers
  MaxLate = 1
  Configs <- MoreConfigs
  MaxLength = 0
  MaxBacklog = 1
  MaxStores = 1
INVARIANTS
  NoLeak
  FlagsAgree
  VerdictMatchesSession
  SessionOwnsItsSockets
  TrustedPeers
  NothingInClear
PROPERTIES
  ImplementsSession
