----------------------------- MODULE FtpsSession -----------------------------
(***************************************************************************)
(* What an FTPS client promises about its session, whatever calls it is    *)
(* made and however the network and the server behave: the control         *)
(* connection goes from plain to protected to logged in and never back, it *)
(* is protected only with the peer the application trusts, and data flows  *)
(* only within a logged-in session, on channels protected with that same   *)
(* peer.                                                                   *)
(***************************************************************************)
CONSTANTS Peer, Nobody

VARIABLES
  session,   \* state of the control connection
  trusted,   \* the peer the application trusts
  proven,    \* the peer that protects the control connection
  data,      \* state of the data channel
  dataPeer   \* the peer that protects the data channel

sessionState == <<session, trusted, proven, data, dataPeer>>

SessionTypeOK ==
  /\ session \in {"closed", "plain", "protected", "open"}
  /\ data \in {"none", "plain", "protected"}
  /\ {proven, dataPeer} \subseteq Peer \cup {Nobody}

NoData == data' = "none" /\ dataPeer' = Nobody

Init ==
  /\ session = "closed" /\ proven = Nobody
  /\ data = "none" /\ dataPeer = Nobody

\* Both connections are closed, at any time; the trust may change only then.
Close ==
  /\ session' = "closed" /\ proven' = Nobody
  /\ NoData

Open ==
  /\ session = "closed" /\ session' = "plain"
  /\ UNCHANGED <<trusted, proven, data, dataPeer>>

Protect ==
  /\ session = "plain" /\ session' = "protected"
  /\ trusted \in Peer /\ proven' = trusted
  /\ UNCHANGED <<trusted, data, dataPeer>>

LogIn ==
  /\ session = "protected" /\ session' = "open"
  /\ UNCHANGED <<trusted, proven, data, dataPeer>>

DataOpen ==
  /\ session = "open" /\ data = "none" /\ data' = "plain"
  /\ UNCHANGED <<session, trusted, proven, dataPeer>>

DataProtect ==
  /\ data = "plain" /\ data' = "protected"
  /\ dataPeer' = trusted
  /\ UNCHANGED <<session, trusted, proven>>

DataClose ==
  /\ data # "none" /\ NoData
  /\ UNCHANGED <<session, trusted, proven>>

Next == Close \/ Open \/ Protect \/ LogIn \/ DataOpen \/ DataProtect \/ DataClose

Spec == Init /\ [][Next]_sessionState

\* Data flows only in a logged-in session, and whoever protects a channel is
\* the peer the application trusts.
Confined ==
  /\ data # "none" => session = "open"
  /\ session \in {"protected", "open"} => proven = trusted
  /\ data = "protected" => dataPeer = proven
=============================================================================
