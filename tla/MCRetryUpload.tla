---------------------------- MODULE MCRetryUpload ----------------------------
(***************************************************************************)
(* RetryUpload with the server and the configuration of MCFtpsClient, and  *)
(* the batch of two files and the three attempts of its source.            *)
(***************************************************************************)
EXTENDS RetryUpload, MCFtpsClient
=============================================================================
