----------------------------- MODULE FtpsControl -----------------------------
(***************************************************************************)
(* The control connection: ftpSendCommand, ftpReadResponse and             *)
(* drainFinalTransferReply against a server that answers every command in  *)
(* order, and that may be slow, hang up, or announce its departure.        *)
(*                                                                         *)
(* Replies carry no tag on the wire.  A reply that is on its way is known  *)
(* here by the command that caused it, and its code is chosen when it is   *)
(* read.  FINAL is the reply that ends a transfer, ABORT the one that ends *)
(* a transfer the server gave up, BYE the unsolicited reply before the     *)
(* server closes the connection, TORN the end of a reply that a reader     *)
(* left in the middle, when the next reader takes it for a reply.          *)
(***************************************************************************)
EXTENDS FtpsTransport, Sequences

CONSTANTS
  Answers,  \* the replies the server may give, by tag
  MaxLate   \* bound: drains that left a reply behind on one control connection

VARIABLES
  owed,  \* tags of the replies not yet read, in order
  peer,  \* "up" while the server serves the connection
  late   \* drains on the last control connection that left a reply behind

replyVars == <<owed, peer, late>>

Verbs == {"AUTH TLS", "AUTH SSL", "PBSZ", "PROT", "USER", "PASS", "TYPE",
          "MKD", "SIZE", "DELE", "RMD", "RNFR", "RNTO", "NOOP", "QUIT",
          "PASV", "STOR", "RETR", "MLSD", "LIST"}
TransferVerbs == {"STOR", "RETR", "MLSD", "LIST"}
Tags == Verbs \cup {"BANNER", "FINAL", "ABORT", "BYE", "TORN"}

\* code is the three-digit code; good says whether the text is what its
\* reader looks for: a parsable endpoint, a parsable size, an existing path.
Reply == [code : 100..599, good : BOOLEAN]
Lost  == [code |-> -1, good |-> FALSE]   \* the -1 of ftpReadResponse

Preliminary(reply) == reply.code < 200
Complete(reply)    == reply.code \in {226, 250}

\* Only a transfer command is answered in two steps, and a transfer the
\* server broke off, like a departure, is not reported as a success.  What a
\* torn reply leaves may look like any reply.
ASSUME AnswersAssumption ==
  /\ Answers \in [Tags -> SUBSET Reply]
  /\ \A tag \in Tags \ (TransferVerbs \cup {"TORN"}) : \A r \in Answers[tag] : ~Preliminary(r)
  /\ \A r \in Answers["ABORT"] : ~Complete(r)
  /\ \A r \in Answers["BYE"] : r.code >= 400

(***************************************************************************)
(* What a server may be expected to keep to besides.  The model does not   *)
(* rest on it; theorems that do name it as their hypothesis.               *)
(***************************************************************************)

\* A transfer command is accepted with 125 or 150, the codes that the client
\* takes for an acceptance.
StandardAnswers ==
  \A verb \in TransferVerbs : \A r \in Answers[verb] : Preliminary(r) => r.code \in {125, 150}

\* A server that leaves unasked says so with 421, as in RFC 959.
OrderlyAnswers == \A r \in Answers["BYE"] : r.code = 421

ASSUME MaxLateAssumption == MaxLate \in Nat

ControlTypeOK ==
  /\ owed \in Seq(Tags)
  /\ peer \in {"up", "down"}
  /\ late \in Nat

ControlInit == owed = <<>> /\ peer = "down" /\ late = 0

\* What the closing of the control socket does to the conversation, and what
\* a new connection starts with.
Disconnected == owed' = <<>> /\ peer' = "down" /\ UNCHANGED late
Greeted      == owed' = <<"BANNER">> /\ peer' = "up" /\ late' = 0

-----------------------------------------------------------------------------
\* What is unread once the reply at the head of queue is.  The preliminary
\* reply to a transfer command promises another one.
Rest(queue, reply) ==
  IF Preliminary(reply) /\ Head(queue) \in TransferVerbs
  THEN <<"FINAL">> \o Tail(queue) ELSE Tail(queue)

\* ftpReadResponse when queue is what the server still has to say: the reply
\* at its head, or nothing of it within the timeout, or a part.  The rest of
\* a part is skipped by the next reader or taken for a reply (FtpsReplies
\* tells which).  What a departed server had sent is lost once a read fails.
ReadResponse(queue) ==
  LET replies == IF queue = <<>> THEN {} ELSE Answers[Head(queue)]
      parted  == {Rest(queue, r) : r \in replies}
      missed  == {queue} \cup parted \cup {<<"TORN">> \o rest : rest \in parted}
  IN  {[reply |-> r, rest |-> Rest(queue, r)] : r \in replies} \cup
      {[reply |-> Lost, rest |-> rest] : rest \in IF peer = "up" THEN missed ELSE {<<>>}}

\* ftpSendCommand and ftpSendCommandWithArg: a command that is too long for
\* its buffer or fails to be written is lost; otherwise one reply is read.
SendCommand(verb) ==
  {[reply |-> Lost, rest |-> owed]} \cup
  ReadResponse(IF peer = "up" THEN Append(owed, verb) ELSE owed)

\* Mutant: nothing is read.
drainNothing == UNCHANGED replyVars

\* drainFinalTransferReply: one reply is read under the short timeout and
\* whatever comes of it is ignored.
drainFinalTransferReply ==
  \E got \in ReadResponse(owed) :
    /\ owed' = got.rest
    /\ late' = IF got.reply = Lost /\ got.rest # <<>> THEN late + 1 ELSE late
    /\ late' <= MaxLate
    /\ UNCHANGED peer

-----------------------------------------------------------------------------
(***************************************************************************)
(* The server's own steps                                                  *)
(***************************************************************************)

\* It stops serving: crash, idle timeout or shutdown.  Replies it had not
\* sent yet are dropped, and it may say goodbye.
ServerLeaves ==
  /\ controlSocket /\ peer = "up"
  /\ peer' = "down"
  /\ owed' \in {owed, <<>>, Append(owed, "BYE"), <<"BYE">>}
  /\ UNCHANGED late

\* It breaks off the transfer it was asked for and reports that.
ServerAborts == owed = <<"FINAL">> /\ owed' = <<"ABORT">> /\ UNCHANGED <<peer, late>>
=============================================================================
