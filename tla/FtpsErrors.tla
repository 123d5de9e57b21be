----------------------------- MODULE FtpsErrors -----------------------------
(***************************************************************************)
(* The error vocabulary of the library (FtpsErrors.h): the codes an        *)
(* operation leaves in FtpsClient::lastError(), the socket-layer codes it  *)
(* leaves in lastNsapiError(), and the two classifications an application  *)
(* builds its retry policy on.                                             *)
(***************************************************************************)
EXTENDS Integers

FtpsError ==
  {"None", "NetworkNotInitialized", "BannerReadFailed", "PbszRejected",
   "ProtPRejected", "TypeRejected", "PasvParseFailed", "DataConnectionFailed",
   "QuitFailed", "AuthTlsRejected", "ControlTlsHandshakeFailed",
   "CertValidationFailed", "DataTlsHandshakeFailed", "SessionReuseRequired",
   "LoginRejected", "TransferFailed", "FinalReplyFailed",
   "PassiveModeRejected", "ConnectionFailed", "DirectoryCreateFailed",
   "SizeQueryFailed", "ListFailed", "DeleteFailed", "RenameFailed",
   "DirectoryRemoveFailed"}

\* Socket-layer codes.  NoSocket is kFtpsNsapiNoSocket: the LWIP socket pool
\* is exhausted.  The header names -3008 as the code of a connect timeout.
NsapiOk           == 0
NoSocket          == -3005
ConnectionTimeout == -3008
NsapiError        == {NsapiOk, NoSocket, ConnectionTimeout}

\* TLS-layer codes: success, certificate refused, any other handshake failure.
TlsOk       == 0
AuthFailure == -3010
TlsBroken   == -3012
TlsError    == {TlsOk, AuthFailure, TlsBroken}

\* The control session is no longer usable; the batch should be abandoned.
ftpsIsSessionDead(err) ==
  err \in {"ConnectionFailed", "NetworkNotInitialized", "BannerReadFailed",
           "AuthTlsRejected", "ControlTlsHandshakeFailed",
           "CertValidationFailed", "LoginRejected", "PbszRejected",
           "ProtPRejected", "TypeRejected"}

\* The transfer may be retried on the session it failed on.
ftpsIsTransferRetriable(err, nsapiCode) ==
  \/ err = "DataConnectionFailed" /\ nsapiCode \in {NsapiOk, NoSocket}
  \/ err = "DataTlsHandshakeFailed"
=============================================================================
