-------------------------- MODULE MCWebFileManager --------------------------
(***************************************************************************)
(* WebFileManager with the server of MCFtpsClient, and three forms: one    *)
(* that is filled in, one whose fingerprint is not one, and an empty one.  *)
(***************************************************************************)
EXTENDS WebFileManager, MCFtpsClient

FormOf(complete, cfg, path, payload) ==
  [complete |-> complete, cfg |-> cfg, path |-> path, payload |-> payload]

MCForms ==
  {FormOf(TRUE, Cfg("Fingerprint", serverCert, "none"), TRUE, 1),
   FormOf(TRUE, Cfg("Fingerprint", Garbled, "malformed"), TRUE, 0),
   FormOf(FALSE, Cfg("Fingerprint", Garbled, "malformed"), FALSE, 0)}
=============================================================================
