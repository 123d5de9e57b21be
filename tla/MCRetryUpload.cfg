SPECIFICATION FairRetrySpec
CONSTANTS
  serverCert = serverCert
  otherCert = otherCert
  Certs <- MCCerts
  NoTls = NoTls
  NoPin = NoPin
  Garbled = Garbled
  NoCa = NoCa
  Answers <- MCAnswers
  MaxLate = 1
  Configs <- OneConfig
  MaxLength = 2
  MaxBacklog = 3
  MaxStores = 2
  Uploads = 2
  MaxAttempts = 3
INVARIANTS
  RetryTypeOK
  AttemptsFindASession
  RetryRepeatsNothing
  GivesUpOnlyIfDead
PROPERTIES
  SetupReturns
  SetupGetsOn
CHECK_DEADLOCK FALSE
