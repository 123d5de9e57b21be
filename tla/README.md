# A formal model of the Arduino Opta FTPS client

This directory holds TLA+ modules that model the FTPS client library of this
repository (`src/`, in particular `src/FtpsClient.cpp` and
`src/transport/MbedSecureSocketFtpsTransport.cpp`) and the programs under
`examples/` that use it, the TLC configurations that check them on small
instances, and theorems about them whose proofs TLAPS checks for every value of
the constants.

Paths below are relative to the repository's root, so `src/FtpsClient.cpp` is
the library's main file.

## 1. Inventory

| Component | Where | State it keeps | Operations | Interacts with |
|---|---|---|---|---|
| FtpsClient | `src/FtpsClient.{h,cpp}` | transport pointer, connected flag, last error, cached configuration and pin, upload counter, reconnect opt-in | begin, connect, reconnect, quit, mkd, size, dele, rmd, rename, store, retrieve, list, isControlAlive, setReconnectBetweenStores | calls the transport; called by one application thread |
| Control channel | `ftpSendCommand`, `ftpReadResponse`, `drainFinalTransferReply` in `src/FtpsClient.cpp` | none of its own: the replies the server has not had read yet | send a command and read one reply; read and ignore one reply | the server, through ctrlRead and ctrlWrite |
| Transport | `src/transport/` | control and data socket, TLS wrapper of each, connected flags, last socket and TLS error, cached TLS session | connectControl, upgradeControlToTls, openDataChannel, upgradeDataToTls, openProtectedDataChannel, closeData, closeAll, reads and writes | Mbed sockets, LWIP's socket pool, mbedTLS |
| Trust material | `src/FtpsTrust.{h,cpp}` | none | normalize and compare fingerprints, validate a PEM | connect(), the pin check of the transport |
| Error vocabulary | `src/FtpsErrors.h` | none | ftpsIsSessionDead, ftpsIsTransferRetriable | the application's retry policy |
| Reply parsers | `parsePasv`, `parseSizeReplyBytes`, `ftpReplyLooksLikeExistingPath` | none | text to endpoint, size, flag | store, retrieve, list, size, mkd |
| RetryUpload | `examples/RetryUpload` | place in setup(), attempts, files counted | storeWithRetry over a batch | FtpsClient, by lastError() |
| Straight-line programs | `examples/*LiveTest` of three servers, `BasicUpload`, `BasicDownload` | place in setup() | one call after another, to the first that fails | FtpsClient |
| Web servers | `examples/WebHarnessLiveTest`, `examples/WebFileManagerLiveTest` | busy flag, connected flag of their own, configuration, unlock token | HTTP handlers: unlock, status, set, action, file operations, report | FtpsClient below, pages above |
| Web page | the script of `kWebPage` in the same files | token, pending flag, button states, fetches in flight | unlock, operations, export, a refresh every 1.8 seconds | the web server, over HTTP |

What is hard about this code:

- **The control channel has no tags.** A reply belongs to the oldest command
  that has none. Every path that leaves a transfer early has to consume the
  reply that ends it, and a reply that arrives after a timeout is read by
  whoever comes next.
- **Failure paths outnumber successes.** connect() alone has over twenty exits.
  Each has to leave sockets, TLS wrappers, flags, connected and the error
  code in agreement, on a board with a handful of sockets.
- **Trust is established in two ways.** With a pin the handshake accepts
  anybody and the certificate is compared afterwards; with a root certificate
  the handshake itself decides. The pin is a buffer of the client that a
  refused connect() overwrites while the session goes on.
- **Cached state is used later.** reconnect() and store()'s automatic reconnect
  use a configuration and a counter that other calls change in between.
- **The server may do anything at any time**: leave with or without a goodbye,
  abort a transfer while the data channel ends cleanly, answer late.

- **A front end keeps a second truth.** The web servers decide by a flag of their
  own whether there is a session, and their pages by a token whether they may
  ask. Several pages share one configuration, which one request sets and
  another uses.

There is no concurrency inside the library: one thread, blocking calls, no
callbacks that change its state. Interleaving is between the client's steps and
the FTP server, and between the pages of several browsers and the web server,
which handles one request at a time but not one page at a time; a page itself
interleaves what its user has started with its timer's refreshes.

What makes each component correct:

- transport: nothing leaks, flags match pointers, only a trusted certificate;
- control channel: every phase finds unread exactly the replies it will read;
- client: sockets held match the connected flag, nothing confidential in clear,
  errors tell whether the session lives, success means the command's own
  success, downloads are whole, uploads on retriable errors can be retried on a
  session in step, every call returns;
- reply reader and parsers: a reply is read to its end and no further, numbers
  are those written or refused;
- programs: nothing is uploaded twice by a retry, a test makes no call on a
  session out of step and leaves none behind;
- web server: a request that succeeds leaves a session its flag knows of, a flag
  that lies shows in the last error, a copy reported as done is whole;
- page: an operation runs with its own configuration, nothing is started twice,
  no page waits for ever or stays locked.

## 2. Plan

Order, most important behaviour first. Done in this version: all.

1. `FtpsErrors`, `FtpsTransport`: vocabulary and sockets; checked beneath the client, and
   proved under any caller.
2. `FtpsControl`: replies, timeouts, the drain, the server.
3. `FtpsClient`: all calls, composed with both (it extends them).
4. `FtpsSession`: the abstract promise, and `FtpsClient` as its refinement.
5. Proofs: the transport's invariants, the client's types, sockets, trust and
   conversation, and the refinement (section 5).
6. `RetryUpload`: setup() and storeWithRetry composed with `FtpsClient`; a retry
   repeats no data, a dead session is not tried again, attempts are bounded.
7. `WebHarness` and `WebFileManager`: the HTTP handlers over the client, with the
   second connected flag (`gStatus.connected`).
8. `FtpsReplies`: the reply reader character by character, replies torn by the
   drain included, and the parsers of PASV and SIZE against reference
   definitions.
9. `WebPage`: several browser pages on one web server, with proofs.
10. `LiveTests`: the straight-line example programs over the client.
11. `FtpsOutcomeProofs`: what the outcome of a call says of the session, of its data
    and of the replies it rests on.
12. `ExampleProofs` and `WebServerProofs`: the programs, by the theorems about the
    client they drive. `FtpsRepliesProofs`: the reply reader and the parsers, for
    every length.
13. That no call and no retry goes round in a circle, as action properties.

## 3. The modules and the code

| Module | Models |
|---|---|
| `FtpsErrors` | `src/FtpsErrors.h` |
| `FtpsTransport` | `MbedSecureSocketFtpsTransport`; one operator per operation and one per failure path that leaves a different state. `held` counts what `new` returned and `delete` has not taken back |
| `FtpsControl` | sending, reading and draining, and the server's own steps |
| `FtpsClient` | every public call of `FtpsClient` |
| `FtpsSession` | the abstract specification |
| `RetryUpload` | setup() and storeWithRetry of `examples/RetryUpload`, the one caller of the `FtpsClient` it extends |
| `LiveTests` | setup() of `FileZillaLiveTest`, `PyftpdlibLiveTest`, `WDMyCloudLiveTest`, `BasicUpload` and `BasicDownload`, each as the list of calls it makes |
| `WebHarness` | the server of `examples/WebHarnessLiveTest`: the configuration and the four actions, over `FtpsClient` |
| `WebFileManager` | the server of `examples/WebFileManagerLiveTest`, which adds the file requests to `WebHarness` |
| `WebPage` | the script of the page, for several browsers, and what the server is to them |
| `FtpsReplies` | ftpReadResponse, parsePasv, parseSizeReplyBytes, and the drain that gives up |
| `MC...` | instances for TLC: two certificates, a reply set per command, configurations good and refused (`MCFtpsClient`); the batch and the attempts of the program's source (`MCRetryUpload`); three forms (`MCWebFileManager`); an alphabet (`MCFtpsReplies`) |
| `...Proofs` | section 5 |

**State.** The transport's pointers are Booleans (`controlSocket`,
`dataSocket`), and a TLS pointer is the certificate presented in its handshake.
In `FtpsControl`, `owed` is the sequence of replies not read, by the command
that caused each. The code of a reply is chosen when it is read, which is the
same as choosing it when it is sent and keeps the state small. `peer` says
whether the server still serves the connection. In `FtpsClient`, `pc` is the
phase of the call in progress (the names are those of `tracePhase`), `op` the
call, `ok` and `lastError` its outcome, `total`, `room`, `moved` the sizes of a
transfer. `agreed`, `uploads`, `stale`, `late` and `cutShort` are history: the certificate
connect() was last told to trust, uploads on this connection, whether a call
read the reply to an earlier command, drains on the last control connection that
left a reply or a part of one behind, and whether a download took for the end of
the data a read that the server knows nothing of.

**Actions.** A call is a `call...` action (its checks, and whatever it does before
the first use of the network) followed by steps, one per exchange: one command
and its reply, one socket connect, one handshake, one read or write of data.
What follows the exchange up to the next one, the failure path with its
closeData, drain or failAndDisconnect included, is in the same step, with two
exceptions that have a step of their own: the drain itself, which waits for
the server, and the closing of a control connection whose handshake failed.
The checks of arguments that do not depend on the session are one Boolean,
`argOk`; the checks of a configuration are its `fault`, in the order in which
connect() finds them.

**Data left out.** Message texts, paths, file contents (a length), buffers of
commands and replies (a command too long for its buffer is a lost command),
host and credentials (present or not), ports. The text of a reply is one flag,
`good`: the endpoint or the size parses, the path exists.

**The retry program.** `app` is the place setup() is at; a place makes one call of
the client and the next looks at its outcome when `pc` is idle again. The
outcome of an attempt is one of three actions: `uploaded`, `backOff`, `givenUp`.
The server may leave during any of them, the wait before a retry included. The
network setup before begin() and the destruction of the client at the end of
setup() are left out.

**The environment.** Every network operation may fail in each way the code
distinguishes. The server answers commands in order, one reply each, a
transfer command two; it may leave at any moment, saying goodbye or not, lose
what it had not sent, or abort a transfer. A transfer that the server itself
broke off is not confirmed by 226 or 250, and a goodbye has a code of 400 or more
(`AnswersAssumption`). A read of the data channel that returns 0 is the end of the
data for the client, and three things for the model (`endOfData`): the end after
the last byte; the server's abort; or a 0 before the last byte of which the server
knows nothing, a connection that ends in between or a TLS stack that has
nothing yet, as a comment of the code says of the control channel. After the
third the server confirms the transfer, the client reports a success with a part
of the file, and `cutShort` is set. A reply torn by a timeout counts as consumed,
as not begun, or as one that leaves a rest which the next read takes for a reply
with any code (the tag `"TORN"`).

**Replies.** In `FtpsReplies` each character that arrives is a step of
ftpReadResponse, with `buf` what it has put together. `part` and `line` are the
server's side. The lines inside a reply may be anything but what the reader
cannot tell from its last line: its own code with a blank, or another code with
a hyphen. RFC 959 has the server pad a line inside a reply that begins with a
number, and the model assumes as much of it as this (`Misleading`). A reader may
give up after any character without ending the connection: the drain does, and so
does the reader of the answer to AUTH TLS, since connect() goes on with AUTH SSL.
The rest stays to be read by the next command (`torn`), with text of any form. A
rest that begins with three digits, of a byte count in the text of a 226 say, is
taken for a reply, and so is a line with another code inside a reply whose first
line went to the drain. Then `torn` is `"misread"` and the client out of step;
`FtpsReplies` follows it no further, and `FtpsControl` has the rest of the session
with its tag `"TORN"`, except that the lines of a reply of several that is
misread count as one.

**Web server.** `at` is the place a handler has reached, "loop" between two
requests, and `status` is 0 while a request is handled; every call of the client
is made inside a handler, and the steps of the client and of the FTP server go
on beneath it. runConnectAction is used in
two ways, by the action of that name and by a file request that finds no
session; `ConnectEnds` says what follows in each. `gConnected` is set where the
code sets it: by a connect and a quit, and by nothing else. Of a copy, `source` is
the length of the file, which may change between the SIZE that measures it and
the RETR that fetches it; the sketch compares the two with nothing.

**Web page.** A page has two slots: what it waits for because of its user
(`fore`), and a refresh. A coroutine of the script is the sequence of actions
from one await to the next. `pending`, `blocked` and `authToken` are the page's
variables of these names and the state of its buttons. The server is its
token and its configuration, with `saved` and `mixed` as history. A /set that is
refused half-way leaves a mixture (`Mixture`), and the page goes on to its
operation all the same, as the script does. Bounding the code, a page has one
refresh outstanding, and a fetch that failed is not handled afterwards; a token
that is generated is one not seen before. Filling in the form from a status is
the same as the user's editing it.

**Straight-line programs.** `script` is what is still to do. `at` moves as setup()
does: a call that fails leads to quit() or to the end, as in each source, and
the client object is destroyed at the end.

## 4. Runs

| Run | Shows |
|---|---|
| `client_prompt_server` | server whose final replies arrive within the drain (`MaxLate = 0`), files up to two bytes, all splits, all buffer sizes: `TypeOK`, `InStep`, `SuccessIsOwn`, `RetriableMeansUsable`, `DownloadIsWhole`, `CallsGetOn` (no step of a call leads back), and `CallsReturn` under fairness |
| `client_slow_server` | final replies may come too late (`MaxLate = 1`), configurations refused before and after the session is closed: `NoLeak`, `FlagsAgree`, `VerdictMatchesSession`, `SessionOwnsItsSockets`, `TrustedPeers`, `NothingInClear`, `ImplementsSession` |
| `retry_program` | two files, three attempts each, a server that may lose final replies: `RetryTypeOK` (the budget), `AttemptsFindASession`, `RetryRepeatsNothing`, `GivesUpOnlyIfDead`, `SetupGetsOn` (no round in a circle), `SetupReturns` |
| `live_tests` | every script of the straight-line programs against a slow server: `LiveTypeOK`, `CallsFindSessionInStep`, `EndsWithoutSession`, `TestEnds` |
| `web_requests` | any sequence of requests to the web server over the whole client: `WebTypeOK` (busy is given back), `StaleFlagShowsInError`, `SuccessKeepsSession`, `CopyIsWhole` |
| `web_page` | two pages with lost fetches: `PagesTypeOK`, `OperationRunsOwnConfig`, `OperationBlocksButtons`, `PendingEnds`, `ButtonsComeBack` |
| `replies` | every reply of one or several lines over seven characters, longer than the buffer or torn anywhere by the drain included: `RepliesTypeOK`, `ReadsWholeReply`, `SizeIsAsWritten`, `PortIsAsWritten` |
| `doc_*` | one statement of a document each, which the code does not keep: see section 6 |

**Bounds.** `MaxLength`: bytes of a file; the code compares `moved` with `total`
and `room` only, and two bytes give an exact, a short and a long buffer, each
filled in one read or in two. `MaxStores`: uploads on a connection; the code
compares the counter with zero only. `MaxBacklog`: unread replies when a command
is called; one unread reply is enough to be out of step, and a longer queue
only delays the misattribution. `MaxLate`: final replies given up; zero is the
server in time, one the first loss of step. Each bounds a guard; none is in
the code. In the retry run `MaxBacklog` and
`MaxStores` are too large to bind, or `SetupReturns` would fail, and likewise in
`live_tests`, where `MaxLength = 4` lets a listing or file be of several reads.
Two certificates suffice for a trusted and another peer. `client_prompt_server` has one
configuration, since the configuration decides who is trusted and whether connect()
begins, and not how a conversation goes on; `client_slow_server` has the files empty,
both modes, and refusals that leave the cached fingerprint or an erased configuration
behind (`MoreConfigs`); refusals that leave everything as it was are in `live_tests`,
whose sketches may be compiled with secrets that are missing (`SketchConfigs`). `openProtectedDataChannel` of the transport, which the
client never calls, is in the theorems of the transport only.

In `web_requests` the server is in time (`MaxLate = 0`; what a late reply does is
the client's affair and shown there), the buffer takes two bytes and files have
up to three, so that a file too large, one of exactly the buffer, and smaller ones
occur; there are three forms, a good one and two that are refused at
different places. Two pages, two configurations, two unlocks and one failed
fetch in `web_page`: each page may have the token taken by the other, and a
failure may hit each fetch; further unlocks and pages repeat what two do, and
the theorems of `WebPageProofs` hold for any number. In `replies` the widths are
reduced with the lengths: a size_t of 20 is overflown by two digits, a PASV reply
has two bytes of at most 20, the buffer nine characters, where texts have ten;
replies of a transfer, which the drain may tear, have three characters after
their code, which is enough for three digits to begin anywhere in them.

**Fairness.** `FairSpec` assumes weak fairness of `Step`: a call that has begun
goes on. Every loop of the library that waits has a deadline (`FTPS_REPLY_TIMEOUT_MS`,
`FTPS_DATA_IO_TIMEOUT_MS`, `FTPS_FINAL_REPLY_DRAIN_TIMEOUT_MS`, and the socket
timeouts of the transport), so that an exchange ends even if the server never
answers. What a step does after its exchange may close sockets, and closing has no
deadline: `ftpsReleaseSocketPair` asks for an abortive close (`SO_LINGER` 0), makes the
socket non-blocking, sends close_notify past the wrapper and deletes both objects,
and is assumed to return, as its comment expects
(`src/transport/MbedSecureSocketFtpsTransport.cpp:24-72`). The same comment tells
of forms of it that blocked for a minute and leaves a hang to the board's watchdog.
`CallsReturn`, `SetupReturns`, `TestEnds` and the handlers of the web server rest on
this. Nothing is assumed of the server or of the application.
`FairRetrySpec` adds weak fairness of the program's own steps: setup() is one
thread that waits only for the calls and for a delay of fixed length. `LiveSpec`
assumes the same of the straight-line programs. `FairPagesSpec` assumes that the
web server handles a request that has arrived (loop() takes one after another,
and every handler ends because the client's calls do), that a script looks at a
response that has arrived or at the failure of its fetch, and that the timer
ticks. Users need do nothing, and a fetch may fail, though not for ever.

## 5. Proofs

TLAPS checks the theorems below for every value of the constants. The
assumptions are those of the modules, which TLC evaluates on every run:
`TransportAssumption` (null pointers, empty and garbled fingerprints and the
absence of a root certificate are not certificates), `AnswersAssumption` (the
server of section 3), `ConfigsAssumption` (a configuration is well-formed),
`BoundsAssumption` and `MaxLateAssumption`, `BatchAssumption` (bounds and the batch's numbers),
`FormsAssumption` (what a form leaves in the server's configuration is a
pinned one, since the sketch has no root certificate), `PagesAssumption` and
`RepliesAssumption`. Some theorems need a hypothesis more, stated in them:

- `HonestConfigs`: the buffer that a malformed fingerprint leaves behind is not
  the fingerprint of a certificate. Without it `TrustedPeers` is false: the run
  `doc_reconnect` shows the behaviour.
- `StandardAnswers`: a preliminary reply to a transfer command is 125 or 150, the
  codes the client takes for an acceptance. After another one, say 120, the
  client gives up and leaves the final reply unread.
- `OrderlyAnswers`: a server that leaves unasked says so with 421. Without it
  `SuccessIsOwn` is false: mkd() takes a 521, or a 550 whose text names an existing
  path, for a success, and would take a goodbye with such a code for one.

The last two are what RFC 959 says of these codes; the server of the runs keeps
to them, which `ServerAssumption` of `MCFtpsClient` has TLC confirm.

| Module | Theorem | States |
|---|---|---|
| `FtpsClientProofs` | `TransportTyped`, `TransportLeaksNothing`, `TransportFlagsAgree` | types, `NoLeak` and `FlagsAgree` of the transport under any caller |
| | `ClientStaged` | the sockets of every phase of every call |
| | `ClientOwnsItsSockets`, `ClientSaysNothingInClear` | `SessionOwnsItsSockets`, `NothingInClear` |
| `FtpsRefinementProofs` | `ClientDrivesTransport`, `ClientLeaksNothing` | seen at the transport the client is a legal caller, hence leaks nothing in any phase |
| | `ClientTyped` | `TypeOK` |
| | `ClientTrustsItsPeer` | `TrustedPeers`, under `HonestConfigs` |
| | `SessionConfined` | the abstract session lets data flow only when logged in, with one trusted peer |
| | `ClientImplementsSession`, `ClientIsConfined` | `ImplementsSession`, and what the session promises, of the client; under `HonestConfigs` |
| `FtpsConversationProofs` | `ClientStaysInStep` | `InStep`, under `StandardAnswers` |
| `FtpsOutcomeProofs` | `ClientJudgesItsSession` | `VerdictMatchesSession` |
| | `ClientRetriesOnUsableSession` | `RetriableMeansUsable`, under `StandardAnswers` |
| | `ClientDownloadsWhole` | `DownloadIsWhole`: whole unless a read ended early that the server knows nothing of |
| | `ClientSucceedsOnItsOwn` | `SuccessIsOwn`, under `StandardAnswers` and `OrderlyAnswers` |
| | `ClientGetsOn` | `CallsGetOn`: a call waits at most 17 times and once for each byte |
| `ExampleProofs` | `RetryDrivesClient`, `TestsDriveClient` | every behaviour of these programs is one of the client: the theorems above hold beneath them |
| | `RetryTyped` | `RetryTypeOK`: the retry budget and the count of files |
| | `RetryFindsASession`, `RetryGivesUpOnlyIfDead`, `RetryIsSafe` | `AttemptsFindASession`, `GivesUpOnlyIfDead`, `RetryRepeatsNothing` |
| | `RetryGetsOn` | `SetupGetsOn`: each step counts a file or an attempt, or passes a place |
| | `LiveTyped` | `LiveTypeOK`: no call of a script left out or made twice |
| | `TestsFindSessionInStep` | `CallsFindSessionInStep`, under `StandardAnswers` |
| | `TestsEndWithoutSession` | `EndsWithoutSession` |
| `WebServerProofs` | `ServerDrivesClient` | every behaviour of the web server is one of the client |
| | `ServerTyped` | `WebTypeOK`: the busy flag is given back on every path |
| | `ServerCouldTell`, `ServerSuccessKeepsSession` | `StaleFlagShowsInError`, `SuccessKeepsSession` |
| | `ServerCopiesWhole` | `CopyIsWhole`, of the file as it was fetched and with the same exception as `DownloadIsWhole`; under `StandardAnswers` and `OrderlyAnswers` |
| `WebPageProofs` | `PagesInvariant` | no two pages hold the same token, and what a page with the valid token is about to use is what it saved |
| | `PagesTyped` | `PagesTypeOK` |
| | `PagesRunOwnConfig` | `OperationRunsOwnConfig`, for any number of pages |
| | `PagesBlockButtons` | `OperationBlocksButtons` |
| `FtpsRepliesProofs` | `RepliesTyped` | `RepliesTypeOK`: the buffer never overflows |
| | `RepliesReadWhole` | `ReadsWholeReply`, for lines of any length, any number of them, and any tear whose rest is not misread |
| | `RepliesGiveTheSize`, `RepliesGiveThePort` | `SizeIsAsWritten`, `PortIsAsWritten`: what the parsers return is what the reply says, for texts of any length and numbers of any width |

The arguments:

- **Transport.** `NoLeak` alone is not inductive: closing a pair subtracts what the
  pointers reach, which is right only if no TLS wrapper outlives its socket. The
  invariant is `Owned`, the conjunction of `NoLeak` and `FlagsAgree`, with one lemma
  for each operation of the transport.
- **Sockets of the client.** `SessionOwnsItsSockets` speaks of the client between
  two calls. `Staged` says for each phase which sockets exist, how the control
  connection is protected and whether the client is connected, so that a step's
  effect follows from the phase it starts in. The lemmas are about the moves the
  steps share (a command answered, everything closed, the data channel closed)
  and then about each action.
- **Types.** Only four actions touch the configuration; every action is one legal
  call of the transport or none (`ClientDrivesTransport`), so that the transport's
  theorems hold of the client; the rest is one lemma for each group of variables.
- **Trust.** `Trusting` adds to `Staged` that the pin and the root certificate that the
  next handshake will use are those of the certificate last agreed to, or
  nobody's. `AcceptedIsAgreed` shows that then handshake and pin check together let
  only that certificate through. `Simulates` carries the refinement along: each
  action keeps `Trusting` and is a step of `FtpsSession`, or none.
- **Conversation.** `Conversation` is `InStep` with the type of `late`. Each exchange is
  reduced to what a reply leaves unread when nothing, or one reply to AUTH, was
  unread before. The phases between the acceptance of a transfer and its final
  reply are where a reply is owed, and `LastReply` shows that reading it settles
  the account.
- **Verdicts.** `VerdictMatchesSession` is an equivalence that holds of commands and not
  of connect() or reconnect(), which a store() may begin with. `Called` ties each
  phase to the calls that have it, and keeps errors that end a session out of
  the failures that wait for a drain; with it every step that ends a call does so
  in one of a few ways (`StepEnds`). `Verdicts` is the equivalence in its two
  directions, of which the second needs the pinned mode: with a root certificate
  the reconnect inside store() is refused while the session goes on.
- **Downloads.** The end of the data says nothing. `Delivering` keeps, through all
  splits into reads, that a download that has seen it is complete or that the
  server's ABORT is the reply it is about to read, in whatever of its words
  arrive before it leaves (`Holds`), or that `cutShort` is set. With that set nothing
  is claimed: no check of the client could tell, and `doc_truncated` shows it.
- **Own replies.** `InStep` speaks of a server that is up. `Departed` says what is left
  unread when it has gone, and `StaleFails` that a call that has read the reply to an earlier command is on its way to
  failure. A call that meets only a goodbye is no success, by `OrderlyAnswers`.
- **Retry program.** `Budget` adds to the bounds that an attempt begins only while
  one is left and only for a file not yet counted. `Driven` says which call each
  place of setup() waits for, and that the opt-in is off; `Decided`, that the client's
  verdict is right in every mode, since this program's store() never reconnects.
  `Untouched`, of the client, says that errors of a data channel that never opened
  mean that nothing was sent; so a retry repeats nothing.
- **Straight-line programs.** `Underway` says which call each place waits for, that the
  client is connected at "next" and not at the ends, and that no reply was given
  up while every call has succeeded: only a drain gives one up, and its call
  fails (`StepKeepsLate`).
- **Web server.** `Linked` says that the flag is set only over a client that begun(),
  `Routed` which requests reach which places, `Placed` which calls the handlers
  wait for. `Shown` is `StaleFlagShowsInError` at every place between two calls,
  from the client's verdict on the last. `Copied` follows the length of the file, as
  it was when fetched, through the calls of a copy.
- **Pages.** `OperationRunsOwnConfig` says nothing of tokens, yet rests on them
  alone: nothing else keeps another page from its /set between the /set and the
  /action of this one. `Tokened` says that tokens are handed out in order and
  each is held, by a page or by a request or response of it, in one place.
  `Ledger` says that a page whose next accepted request is an operation finds its
  own configuration in the server. Every step of a page is a `Move`, which
  gains no token and no such commitment (`MoveKeeps`), so that only the server's
  four kinds of answer need an argument of their own. `PagesAssumption` is all
  that is assumed: some configuration exists, and a mixture is none of them.
- **Reply reader.** `Sent` says that the first and the last line of a reply begin with its
  code, `Read` that the buffer holds as much of the line as fits and that
  `multiCode` is the reply's code or not known yet, `Left` what a reader that has
  returned leaves unread. `LineTaken` then tells what the end of each kind of line
  does, with `NumbersOfCodes`: different digits are different numbers. `Left` also
  says that the buffer still holds the code and as much of the last line as fits,
  which is what the parsers are given. `Read` and `Left` claim nothing once a rest was
  misread; `LineIsMistaken` and `LineIsTaken` are the two kinds of line. Run `replies` was used to check the
  invariant before it was proved.
- **Parsers.** `sizeScan` and `pasvScan` are recursive functions of the place in the
  text. `Recursion` proves that such a function exists and has values at every
  place up to any bound, and `Climb` carries a fact from one place to the next;
  both rest on the least place at which it would not hold (`LeastElement`), since
  the library's induction theorems cannot be instantiated. `Seen` and `SeenPort`
  say what a scan knows of the text up to a place: the number written so far, the
  fields that have ended. The hard half are the refusals. A scan that has
  failed must have met something no continuation repairs: `StaysHopeless` for a size,
  `NoField` and `NoByte` for a port. `PortParsed` covers replies that the buffer cut off.
- **Termination.** `Onward` lists, for each phase, the phases a step may lead to, and
  `StepGoesOnward` shows that every step but `moveData` goes to one of them, and
  `OnwardIsAhead` that each of them is nearer to the end;
  `moveData` stays and moves at least one byte of those that are left.
  For the retry program the order is lexicographic: files counted, attempts at
  this file, places of setup() still to pass. The bounds of the first two are `Budget`.

What is only model-checked, on the instances of section 4, is liveness under
fairness, which needs ENABLED and is out of the prover's reach: `CallsReturn`,
`SetupReturns`, `TestEnds`, `PendingEnds` and `ButtonsComeBack`. What a safety
property can say of the first two is proved: by `CallsGetOn` and `SetupGetsOn` a
call or a program that does not end is one that takes no further step of its own. That it
does take them is the deadlines of the code, the fairness of section 4.

Every other property of a passing run is a theorem.

## 6. Where the documents and the code differ

Five differences have a run that ends in a counterexample.

| Run | The document | The code |
|---|---|---|
| `doc_desync` | `CODE REVIEW/FINAL_PASS_04152026.md:23`: the desynchronization of the control channel is fixed by the drain | the drain waits five seconds; a later final reply is read as the answer to the next command |
| `doc_torn_line` | the same line | the drain may give up in the middle of a line; three digits at the beginning of its rest are taken for the code of the next command's reply |
| `doc_truncated` | `CODE REVIEW/CODE_REVIEW_04152026.md:136`, fixed according to `FINAL_PASS_04152026.md:18`: retrieve() does not return true with a partial download; `src/FtpsClient.cpp:267`: a TLS stack may return 0 for a while | a 0 from dataRead() is the end of the data, and the bytes read are compared with nothing: confirmed by 226, a part of a file is a success |
| `doc_reconnect` | `src/FtpsClient.h:88`: reconnect() uses the cached configuration | a refused connect() has overwritten the cached fingerprint |
| `doc_too_small` | `src/FtpsClient.cpp:1676`: the buffer was too small for the file | a buffer of exactly the file's size is refused too |

Others are plain from the code and have no run:

- `src/FtpsErrors.h:39`: after a session-dead code the session is not usable.
  connect() and reconnect() return such codes for arguments they refuse, while
  the session goes on.
- `src/FtpsClient.h:95`: with the opt-in store() reconnects before each upload
  after the first. A refused connect() resets the count of uploads.
- `src/FtpsClient.h:97`: the opt-in is reset by connect(). It is kept.
- `src/FtpsClient.h:82`: isControlAlive() is false if the connection is dead. It is
  also false when NOOP is answered with anything but 200.
- `CODE REVIEW/FINAL_PASS_04152026.md:89`: a web server's connected flag stays true
  until the next transfer fails. A failed transfer does not clear it either;
  only a connect or a quit sets it.

What the models showed of the code beside its documents:

- A file that grows or shrinks between the SIZE and the RETR of a copy is copied as
  it is then; one that was read in part, as in `doc_truncated`, is stored in part
  and reported as copied. The comparison with SIZE that would show the second is
  not made.
- A file of exactly `kDownloadBufferSize` passes the check of a copy and then
  always fails in retrieve(), for the reason of `doc_too_small`.
- A file request connects by itself before it looks at its arguments or its
  operation. While the flag is stale it does not, until a connect or a quit.
  A refused connect action clears the flag while the client's session goes on,
  and the next file request connects anew.
- quit() on a client without a session leaves lastError() as an earlier call
  left it, and the web server reports that.
- The page does not look at the outcome of /set other than 401: after a refused
  one, which may leave a mixture, the operation follows.
- A late 401 to a request that carried an earlier token locks a page that has
  been unlocked again; its user unlocks it once more.
- Every configuration of a page is safe from other pages only because an unlock
  elsewhere takes its token.

## 7. Not modelled

- The text of replies other than numbers: the word search of
  ftpReplyLooksLikeExistingPath is the flag of `FtpsClient` that says whether a
  reply is what its reader looks for.
- The normalization of fingerprints, a filter of characters applied at once. What
  the models need of it is what a refused one leaves behind: its first 64 digits.
  ftpsTrustValidatePem: the search for the markers keeps no state, and the parser
  is mbedTLS. Its verdict is part of a configuration's fault.
- lastNsapiError() and the last TLS error after a failure that has no code of
  its own keep an earlier one (`FtpsTransport` has both variables); nothing
  but a message is decided by the second.
- Of the web servers: HTTP parsing and URL decoding, HTML and JSON, the log ring,
  the previews and the outcomes that are only displayed, the boot self-test that
  a constant disables, the setup of the network.
- Trace and progress hooks: they only report.
- mbedTLS, the Mbed sockets and LWIP: external. A handshake accepts what its
  settings say, an operation may fail in each way the code distinguishes, and
  the TLS session cache is a flag without influence on the outcome.
- `FtpsSpikeTest` (a sketch older than the library, which it does not use), the
  Python test server and the build workflows: not part of the library.
- Calls from two threads at a time: the library has no locks and its documents
  promise nothing about them.
