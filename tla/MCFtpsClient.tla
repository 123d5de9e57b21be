---------------------------- MODULE MCFtpsClient ----------------------------
(***************************************************************************)
(* Instances of FtpsClient for TLC: the replies of a server with one       *)
(* success and the refusals the client tells apart for each command, and   *)
(* the configurations an application may pass to connect().                *)
(***************************************************************************)
EXTENDS FtpsClient

CONSTANTS serverCert, otherCert

MCCerts == {serverCert, otherCert}

Says(codes)       == [code : codes, good : {TRUE}]
Unreadable(codes) == [code : codes, good : {FALSE}]

answer(tag) ==
  CASE tag = "BANNER"   -> Says({220, 421})
    [] tag \in {"AUTH TLS", "AUTH SSL"} -> Says({234, 502})
    [] tag \in {"PBSZ", "PROT", "TYPE"} -> Says({200, 504})
    [] tag = "USER"     -> Says({331, 230, 530})
    [] tag = "PASS"     -> Says({230, 530})
    [] tag = "MKD"      -> Says({257, 550}) \cup Unreadable({550})
    [] tag = "SIZE"     -> Says({213}) \cup Unreadable({213, 550})
    [] tag \in {"DELE", "RMD", "RNTO"} -> Says({250, 550})
    [] tag = "RNFR"     -> Says({350, 550})
    [] tag = "NOOP"     -> Says({200, 500})
    [] tag = "QUIT"     -> Says({221, 500})
    [] tag = "PASV"     -> Says({227, 425}) \cup Unreadable({227})
    [] tag \in {"STOR", "RETR", "MLSD", "LIST"} -> Says({150, 550})
    [] tag = "FINAL"    -> Says({226, 451})
    [] tag = "ABORT"    -> Says({426})
    [] tag = "BYE"      -> Says({421})
    [] tag = "TORN"     -> Says({150, 200, 226, 234})

MCAnswers == [tag \in Tags |-> answer(tag)]

\* The server of the runs is one the theorems speak of.
ASSUME ServerAssumption == StandardAnswers /\ OrderlyAnswers

Cfg(mode, trust, fault) == [mode |-> mode, trust |-> trust, fault |-> fault]

\* Accepted configurations, and more with those that are refused on the way.
GoodConfigs == {Cfg("Fingerprint", serverCert, "none"), Cfg("ImportedCert", serverCert, "none")}
FewConfigs  ==
  GoodConfigs \cup {Cfg("Fingerprint", Garbled, "malformed"),
                   Cfg("Fingerprint", otherCert, "long server name")}
MoreConfigs ==
  FewConfigs \cup {Cfg("Fingerprint", serverCert, "long host"),
                  Cfg("Fingerprint", serverCert, "long user")}
\* What a sketch may be compiled with: secrets filled in, in part, or not.
SketchConfigs ==
  {Cfg("Fingerprint", serverCert, "none"), Cfg("Fingerprint", serverCert, "host"),
   Cfg("Fingerprint", serverCert, "user"), Cfg("Fingerprint", NoPin, "malformed"),
   Cfg("Fingerprint", Garbled, "malformed")}
\* A fingerprint with a digit too many, whose first 64 are another's.
OverlongConfig == GoodConfigs \cup {Cfg("Fingerprint", otherCert, "malformed")}
OneConfig  == {Cfg("Fingerprint", serverCert, "none")}
=============================================================================
