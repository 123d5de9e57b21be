---------------------------- MODULE WebPageProofs ----------------------------
(***************************************************************************)
(* For any number of pages, tokens and lost fetches: the types of WebPage, *)
(* and that an operation runs with the configuration of its own page.      *)
(*                                                                         *)
(* The second rests on tokens.  No two pages hold the same one, so that    *)
(* while a page holds the token the server accepts, no other page can set  *)
(* the configuration (Ledger).                                             *)
(***************************************************************************)
EXTENDS WebPage, TLAPS

\* The state of one page, as Continue sets it: typed, pending exactly with a
\* fetch in the foreground, and refreshing nothing but the status.
Sound(s, slots) ==
  /\ s \in PageState
  /\ slots \in [Slots -> Fetch \cup {NoFetch}]
  /\ s.pending = (slots["fore"] # NoFetch)
  /\ slots["refresh"] # NoFetch => slots["refresh"].route = "/status"

\* A page in this state may present the token t, now or later.
Holds(s, slots, t) ==
  \/ t = s.authToken
  \/ \E k \in Slots : slots[k] # NoFetch /\ t = slots[k].token

\* Its next request, if it is accepted, is an operation.
Committed(s, f) ==
  /\ gAuthToken # 0
  /\ \/ f.route = "/action" /\ f.code = 0 /\ f.token = gAuthToken
     \/ f.route = "/set" /\ f.code \in {200, 400} /\ s.authToken = gAuthToken

Typed ==
  /\ gAuthToken \in Tokens
  /\ gConfig \in Settings \cup {Mixture}
  /\ losses \in 0..MaxLosses
  /\ page \in [Pages -> PageState]
  /\ fetch \in [Pages -> [Slots -> Fetch \cup {NoFetch}]]
  /\ \A p \in Pages : Sound(page[p], fetch[p])

\* Tokens are handed out in order, and each to one page.
Tokened ==
  /\ \A p \in Pages, t \in Tokens : Holds(page[p], fetch[p], t) => t <= gAuthToken
  /\ \A p, q \in Pages, t \in Tokens :
       p # q /\ Holds(page[p], fetch[p], t) /\ Holds(page[q], fetch[q], t) => t = 0

Ledger ==
  /\ saved \in [Pages -> Settings \cup {Mixture, Refused}]
  /\ \A p \in Pages :
       Committed(page[p], fetch[p]["fore"]) => saved[p] \in {gConfig, Refused}
  /\ mixed = FALSE

PagesInv == Typed /\ Tokened /\ Ledger

-----------------------------------------------------------------------------
\* Constants.
LEMMA Settled == Unset \in Settings /\ 0 \in Tokens /\ NoFetch \notin Fetch
<1>1. Unset \in Settings
  BY PagesAssumption DEF Unset
<1>2. 0 \in Tokens
  BY PagesAssumption DEF Tokens
<1>3. NoFetch \notin Fetch
  BY DEF NoFetch, Fetch, Routes
<1> QED
  BY <1>1, <1>2, <1>3

-----------------------------------------------------------------------------
(***************************************************************************)
(* The page                                                                *)
(***************************************************************************)

\* What a page may become: nothing it had no token for, nothing committed
\* that was not.
Move(p, s, slots) ==
  /\ Sound(s, slots)
  /\ \A t \in Tokens : Holds(s, slots, t) => t = 0 \/ Holds(page[p], fetch[p], t)
  /\ Committed(s, slots["fore"]) => Committed(page[p], fetch[p]["fore"])

\* A move of a page keeps the invariant.
LEMMA MoveKeeps ==
  ASSUME PagesInv, losses' \in 0..MaxLosses,
         NEW p \in Pages, NEW s, NEW slots, Move(p, s, slots), Continue(p, s, slots)
  PROVE  PagesInv'
<1>1. \A q \in Pages : page'[q] = (IF q = p THEN s ELSE page[q])
                    /\ fetch'[q] = (IF q = p THEN slots ELSE fetch[q])
  BY DEF Continue, PagesInv, Typed
<1>2. UNCHANGED <<gAuthToken, gConfig, saved, mixed>>
  BY DEF Continue, serverVars
<1>3. Typed'
  <2>1. page' \in [Pages -> PageState] /\ fetch' \in [Pages -> [Slots -> Fetch \cup {NoFetch}]]
    BY DEF Continue, PagesInv, Typed, Move, Sound
  <2>2. \A q \in Pages : Sound(page'[q], fetch'[q])
    BY <1>1 DEF PagesInv, Typed, Move
  <2> QED
    BY <1>2, <2>1, <2>2 DEF PagesInv, Typed, Sound
<1>4. Tokened'
  <2>1. \A q \in Pages, t \in Tokens :
          Holds(page'[q], fetch'[q], t) => t = 0 \/ Holds(page[q], fetch[q], t)
    BY <1>1 DEF Move
  <2>2. gAuthToken \in Nat
    BY DEF PagesInv, Typed, Tokens
  <2>3. \A q \in Pages, t \in Tokens : Holds(page'[q], fetch'[q], t) => t <= gAuthToken'
    BY <2>1, <2>2, <1>2 DEF PagesInv, Tokened
  <2>4. \A q, r \in Pages, t \in Tokens :
          q # r /\ Holds(page'[q], fetch'[q], t) /\ Holds(page'[r], fetch'[r], t) => t = 0
    BY <2>1 DEF PagesInv, Tokened
  <2> QED
    BY <2>3, <2>4 DEF Tokened, Holds
<1>5. Ledger'
  <2>1. ASSUME NEW q \in Pages, Committed(page'[q], fetch'[q]["fore"])
        PROVE  saved[q] \in {gConfig, Refused}
    BY <1>1, <2>1 DEF Move, PagesInv, Ledger
  <2>2. \A q \in Pages : Committed(page[q], fetch[q]["fore"])' => Committed(page'[q], fetch'[q]["fore"])
    BY <1>2 DEF Committed
  <2> QED
    BY <1>2, <2>1, <2>2 DEF Ledger, PagesInv
<1> QED
  BY <1>3, <1>4, <1>5 DEF PagesInv

\* What the buttons are set to changes nothing else of a page.
LEMMA Buttons ==
  ASSUME NEW s \in PageState
  PROVE  /\ \A b \in BOOLEAN :
              /\ setActionButtonsDisabled(s, b) \in PageState
              /\ setActionButtonsDisabled(s, b).authToken = s.authToken
              /\ setActionButtonsDisabled(s, b).pending = s.pending
         /\ renderStatus(s) \in PageState
         /\ renderStatus(s).authToken = s.authToken
         /\ renderStatus(s).pending = s.pending
         /\ applyUnauthorized(s) \in PageState
         /\ applyUnauthorized(s).authToken = 0
         /\ applyUnauthorized(s).pending = s.pending
<1>1. ASSUME NEW r \in PageState, NEW b \in BOOLEAN
      PROVE  /\ setActionButtonsDisabled(r, b) \in PageState
             /\ setActionButtonsDisabled(r, b).authToken = r.authToken
             /\ setActionButtonsDisabled(r, b).pending = r.pending
  BY <1>1 DEF setActionButtonsDisabled, PageState, Unauthorized
<1>2. /\ [s EXCEPT !.authToken = 0] \in PageState
      /\ [s EXCEPT !.authToken = 0].authToken = 0
      /\ [s EXCEPT !.authToken = 0].pending = s.pending
  BY Settled DEF PageState
<1>3. /\ applyUnauthorized(s) \in PageState
      /\ applyUnauthorized(s).authToken = 0
      /\ applyUnauthorized(s).pending = s.pending
  BY <1>1, <1>2 DEF applyUnauthorized
<1>4. /\ renderStatus(s) \in PageState
      /\ renderStatus(s).authToken = s.authToken
      /\ renderStatus(s).pending = s.pending
  BY <1>1 DEF renderStatus
<1> QED
  BY <1>1, <1>3, <1>4

\* A request that a page sends.
LEMMA Sent ==
  ASSUME NEW s \in PageState, NEW route \in Routes, NEW cfg \in Settings
  PROVE  /\ Send(s, route, cfg) \in Fetch
         /\ Send(s, route, cfg).route = route
         /\ Send(s, route, cfg).token = s.authToken
         /\ Send(s, route, cfg).code = 0
BY DEF Send, Fetch, PageState

\* A page that changes its state only, and may lose its token.
LEMMA MoveState ==
  ASSUME PagesInv, NEW p \in Pages, NEW s, NEW slots, Move(p, s, slots),
         NEW t \in PageState, t.authToken \in {0, s.authToken}, t.pending = s.pending
  PROVE  Move(p, t, slots)
<1>1. Sound(t, slots)
  BY DEF Move, Sound
<1>2. \A u \in Tokens : Holds(t, slots, u) => u = 0 \/ Holds(s, slots, u)
  BY DEF Holds
<1>3. Committed(t, slots["fore"]) => Committed(s, slots["fore"])
  BY DEF Committed
<1> QED
  BY <1>1, <1>2, <1>3 DEF Move

\* A page that changes what it waits for in the foreground.
LEMMA MoveFore ==
  ASSUME PagesInv, NEW p \in Pages, NEW s \in PageState, NEW f \in Fetch \cup {NoFetch},
         s.pending = (f # NoFetch),
         \A t \in Tokens : \/ t = s.authToken
                           \/ f # NoFetch /\ t = f.token
                           => t = 0 \/ Holds(page[p], fetch[p], t),
         Committed(s, f) => Committed(page[p], fetch[p]["fore"])
  PROVE  Move(p, s, [fetch[p] EXCEPT !["fore"] = f])
<1> DEFINE slots == [fetch[p] EXCEPT !["fore"] = f]
<1>1. /\ fetch[p] \in [Slots -> Fetch \cup {NoFetch}]
      /\ Sound(page[p], fetch[p])
  BY DEF PagesInv, Typed
<1>2. /\ slots \in [Slots -> Fetch \cup {NoFetch}]
      /\ slots["fore"] = f /\ slots["refresh"] = fetch[p]["refresh"]
  BY <1>1 DEF Slots
<1>3. Sound(s, slots)
  BY <1>1, <1>2 DEF Sound
<1>4. \A t \in Tokens : Holds(s, slots, t) => t = 0 \/ Holds(page[p], fetch[p], t)
  BY <1>2 DEF Holds, Slots
<1> QED
  BY <1>2, <1>3, <1>4 DEF Move

\* A page that refreshes.
LEMMA RefreshKeeps ==
  ASSUME PagesInv, losses' \in 0..MaxLosses,
         NEW p \in Pages, NEW s, NEW slots, Move(p, s, slots), refreshStatus(p, s, slots)
  PROVE  PagesInv'
<1>1. s \in PageState /\ slots \in [Slots -> Fetch \cup {NoFetch}]
  BY DEF Move, Sound
<1>2. CASE Unauthorized(s)
  <2>1. Move(p, setActionButtonsDisabled(s, FALSE), slots)
    BY <1>1, Buttons, MoveState
  <2> QED
    BY <1>2, <2>1, MoveKeeps DEF refreshStatus
<1>3. CASE ~Unauthorized(s)
  <2> DEFINE f    == Ask(s, "/status")
             more == [slots EXCEPT !["refresh"] = f]
  <2>1. f \in Fetch /\ f.route = "/status" /\ f.token = s.authToken
    BY <1>1, Sent, Settled DEF Ask, Routes
  <2>2. /\ more \in [Slots -> Fetch \cup {NoFetch}]
        /\ more["fore"] = slots["fore"] /\ more["refresh"] = f
    <3> HIDE DEF f
    <3> QED
      BY <1>1, <2>1 DEF Slots
  <2>3. Sound(s, more)
    BY <2>1, <2>2 DEF Move, Sound
  <2>4. \A t \in Tokens : Holds(s, more, t) => Holds(s, slots, t)
    BY <2>1, <2>2 DEF Holds, Slots
  <2>5. Move(p, s, more)
    BY <2>2, <2>3, <2>4 DEF Move
  <2> QED
    BY <1>3, <2>5, MoveKeeps DEF refreshStatus
<1> QED
  BY <1>2, <1>3

\* The end of what the user has started.
LEMMA Ended ==
  ASSUME PagesInv, NEW p \in Pages, NEW s \in PageState, s.authToken \in {0, page[p].authToken}
  PROVE  Move(p, [s EXCEPT !.pending = FALSE], [fetch[p] EXCEPT !["fore"] = NoFetch])
<1> DEFINE t == [s EXCEPT !.pending = FALSE]
<1>1. t \in PageState /\ t.pending = (NoFetch # NoFetch) /\ t.authToken = s.authToken
  BY DEF PageState
<1>2. \A u \in Tokens : u = t.authToken => u = 0 \/ Holds(page[p], fetch[p], u)
  BY <1>1 DEF Holds
<1>3. ~Committed(t, NoFetch)
  BY DEF Committed, NoFetch
<1> HIDE DEF t
<1>4. Move(p, t, [fetch[p] EXCEPT !["fore"] = NoFetch])
  BY <1>1, <1>2, <1>3, MoveFore
<1> QED
  BY <1>4 DEF t

\* A fetch that is looked at, and how it came out.
LEMMA Came ==
  ASSUME PagesInv, NEW p \in Pages, NEW k \in Slots, NEW code, Outcome(p, k, code)
  PROVE  /\ losses' \in 0..MaxLosses
         /\ fetch[p][k] \in Fetch
         /\ code = 0 \/ fetch[p][k].code = code
         /\ page[p] \in PageState
         /\ Sound(page[p], fetch[p])
<1>1. losses \in 0..MaxLosses /\ MaxLosses \in Nat
  BY PagesAssumption DEF PagesInv, Typed
<1>2. losses' \in 0..MaxLosses
  BY <1>1 DEF Outcome
<1>3. fetch[p] \in [Slots -> Fetch \cup {NoFetch}] /\ fetch[p][k] # NoFetch
  BY DEF PagesInv, Typed, Outcome
<1> QED
  BY <1>2, <1>3 DEF Outcome, PagesInv, Typed

LEMMA FinishKeeps ==
  ASSUME PagesInv, losses' \in 0..MaxLosses, NEW p \in Pages,
         NEW s \in PageState, s.authToken \in {0, page[p].authToken}, Finish(p, s)
  PROVE  PagesInv'
BY Ended, RefreshKeeps DEF Finish

LEMMA UnlockedKeeps ==
  ASSUME PagesInv, losses' \in 0..MaxLosses, NEW p \in Pages,
         NEW s \in PageState, s.authToken \in {0, page[p].authToken}, Unlocked(p, s)
  PROVE  PagesInv'
BY Ended, MoveKeeps DEF Unlocked

\* What the user starts.
LEMMA StartKeeps ==
  ASSUME PagesInv, UNCHANGED losses, NEW p \in Pages,
         NEW s \in PageState, s.pending = TRUE, s.authToken = page[p].authToken,
         NEW route \in Routes \ {"/action"}, NEW cfg \in Settings,
         Continue(p, s, [fetch[p] EXCEPT !["fore"] = Send(page[p], route, cfg)])
  PROVE  PagesInv'
<1> DEFINE f == Send(page[p], route, cfg)
<1>1. page[p] \in PageState /\ losses' \in 0..MaxLosses
  BY DEF PagesInv, Typed
<1>2. f \in Fetch /\ f.token = s.authToken /\ f.code = 0 /\ f.route # "/action"
  BY <1>1, Sent
<1> HIDE DEF f
<1>3. s.pending = (f # NoFetch)
  BY <1>2, Settled
<1>4. \A t \in Tokens : (t = s.authToken \/ (f # NoFetch /\ t = f.token))
                           => t = 0 \/ Holds(page[p], fetch[p], t)
  BY <1>2 DEF Holds
<1>5. ~Committed(s, f)
  BY <1>2 DEF Committed
<1>6. Move(p, s, [fetch[p] EXCEPT !["fore"] = f])
  BY <1>2, <1>3, <1>4, <1>5, MoveFore
<1> QED
  BY <1>1, <1>6, MoveKeeps DEF f

\* What follows a response in the foreground.
LEMMA FollowKeeps ==
  ASSUME PagesInv, losses' \in 0..MaxLosses, NEW p \in Pages,
         NEW s \in PageState, s.pending = TRUE,
         s.authToken = 0 \/ Holds(page[p], fetch[p], s.authToken),
         NEW f \in Fetch, f.token = s.authToken,
         Committed(s, f) => Committed(page[p], fetch[p]["fore"]),
         Continue(p, s, [fetch[p] EXCEPT !["fore"] = f])
  PROVE  PagesInv'
<1>1. s.pending = (f # NoFetch)
  BY Settled
<1>2. \A t \in Tokens : (t = s.authToken \/ (f # NoFetch /\ t = f.token))
                           => t = 0 \/ Holds(page[p], fetch[p], t)
  OBVIOUS
<1>3. Move(p, s, [fetch[p] EXCEPT !["fore"] = f])
  BY <1>1, <1>2, MoveFore
<1> QED
  BY <1>3, MoveKeeps

-----------------------------------------------------------------------------
(***************************************************************************)
(* The actions of a page                                                   *)
(***************************************************************************)
LEMMA UserKeeps ==
  ASSUME PagesInv, NEW p \in Pages, unlockHarness(p) \/ doAction(p) \/ exportReport(p)
  PROVE  PagesInv'
<1>1. page[p] \in PageState
  BY DEF PagesInv, Typed
<1>2. CASE unlockHarness(p)
  <2> DEFINE s == [page[p] EXCEPT !.pending = TRUE]
  <2>1. s \in PageState /\ s.pending = TRUE /\ s.authToken = page[p].authToken
    BY <1>1 DEF PageState
  <2>2. "/auth" \in Routes \ {"/action"}
    BY DEF Routes
  <2> QED
    BY <1>2, <2>1, <2>2, Settled, StartKeeps DEF unlockHarness, Ask
<1>3. ASSUME doAction(p) \/ exportReport(p)
      PROVE  PagesInv'
  <2> DEFINE s == [page[p] EXCEPT !.pending = TRUE, !.blocked = TRUE]
  <2>1. s \in PageState /\ s.pending = TRUE /\ s.authToken = page[p].authToken
    BY <1>1 DEF PageState
  <2>2. {"/set", "/report"} \subseteq Routes \ {"/action"}
    BY DEF Routes
  <2>3. UNCHANGED losses
    BY <1>3 DEF doAction, exportReport
  <2>4. PICK route \in {"/set", "/report"}, cfg \in Settings :
          Continue(p, s, [fetch[p] EXCEPT !["fore"] = Send(page[p], route, cfg)])
    BY <1>3, Settled DEF doAction, exportReport, Ask
  <2> HIDE DEF s
  <2> QED
    BY <2>1, <2>2, <2>3, <2>4, StartKeeps
<1> QED
  BY <1>2, <1>3

LEMMA TimerKeeps ==
  ASSUME PagesInv, NEW p \in Pages, timerTick(p)
  PROVE  PagesInv'
<1>1. Sound(page[p], fetch[p]) /\ losses' \in 0..MaxLosses
  BY DEF timerTick, PagesInv, Typed
<1>2. Move(p, page[p], fetch[p])
  BY <1>1 DEF Move
<1> QED
  BY <1>1, <1>2, RefreshKeeps DEF timerTick

LEMMA SetReturnedKeeps ==
  ASSUME PagesInv, NEW p \in Pages, setReturned(p)
  PROVE  PagesInv'
<1>1. PICK code \in {0, 200, 400, 401} :
        /\ Outcome(p, "fore", code)
        /\ CASE code = 0   -> Finish(p, page[p])
             [] code = 401 -> Finish(p, applyUnauthorized(page[p]))
             [] OTHER      -> Continue(p, renderStatus(page[p]),
                                [fetch[p] EXCEPT !["fore"] = Ask(page[p], "/action")])
  BY DEF setReturned
<1>2. /\ losses' \in 0..MaxLosses /\ page[p] \in PageState
      /\ Sound(page[p], fetch[p]) /\ fetch[p]["fore"] # NoFetch
      /\ code = 0 \/ fetch[p]["fore"].code = code
  BY <1>1, Came DEF Slots, Outcome
<1>3. CASE code = 0
  BY <1>1, <1>2, <1>3, FinishKeeps
<1>4. CASE code = 401
  BY <1>1, <1>2, <1>4, Buttons, FinishKeeps
<1>5. CASE code \in {200, 400}
  <2> DEFINE s == renderStatus(page[p])
  <2>1. s \in PageState /\ s.pending = TRUE /\ s.authToken = page[p].authToken
    BY <1>2, Buttons DEF Sound
  <2> DEFINE f == Ask(page[p], "/action")
  <2>2. Continue(p, s, [fetch[p] EXCEPT !["fore"] = f])
    BY <1>1, <1>5
  <2>3. f \in Fetch /\ f.token = s.authToken
    BY <1>2, <2>1, Sent, Settled DEF Ask, Routes
  <2>4. fetch[p]["fore"].route = "/set" /\ fetch[p]["fore"].code \in {200, 400}
    BY <1>2, <1>5 DEF setReturned
  <2> HIDE DEF s, f
  <2>5. Committed(s, f) => Committed(page[p], fetch[p]["fore"])
    BY <2>1, <2>3, <2>4 DEF Committed
  <2>6. Holds(page[p], fetch[p], s.authToken)
    BY <2>1 DEF Holds
  <2> QED
    BY <1>2, <2>1, <2>2, <2>3, <2>5, <2>6, FollowKeeps
<1> QED
  BY <1>1, <1>3, <1>4, <1>5

LEMMA OperationReturnedKeeps ==
  ASSUME PagesInv, NEW p \in Pages, operationReturned(p)
  PROVE  PagesInv'
<1>1. PICK code \in {0, 200, 401} :
        /\ Outcome(p, "fore", code)
        /\ Finish(p, IF code = 401 THEN applyUnauthorized(page[p]) ELSE page[p])
  BY DEF operationReturned
<1>2. losses' \in 0..MaxLosses /\ page[p] \in PageState
  BY <1>1, Came DEF Slots
<1>3. CASE code = 401
  BY <1>1, <1>2, <1>3, Buttons, FinishKeeps
<1>4. CASE code # 401
  BY <1>1, <1>2, <1>4, FinishKeeps
<1> QED
  BY <1>3, <1>4

LEMMA UnlockReturnedKeeps ==
  ASSUME PagesInv, NEW p \in Pages, unlockReturned(p)
  PROVE  PagesInv'
<1> DEFINE s == [page[p] EXCEPT !.authToken = fetch[p]["fore"].token]
<1>1. PICK code \in {0, 200, 401} :
        /\ Outcome(p, "fore", code)
        /\ IF code = 200
           THEN Continue(p, s, [fetch[p] EXCEPT !["fore"] = Ask(s, "/status")])
           ELSE Unlocked(p, applyUnauthorized(page[p]))
  BY DEF unlockReturned
<1>2. /\ losses' \in 0..MaxLosses /\ page[p] \in PageState
      /\ fetch[p]["fore"] \in Fetch /\ fetch[p]["fore"] # NoFetch
      /\ Sound(page[p], fetch[p])
  BY <1>1, Came DEF Slots, Outcome
<1>3. CASE code = 200
  <2>1. s \in PageState /\ s.pending = TRUE /\ s.authToken = fetch[p]["fore"].token
    BY <1>2 DEF PageState, Fetch, Sound
  <2>2. Holds(page[p], fetch[p], s.authToken)
    BY <1>2, <2>1 DEF Holds, Slots
  <2> DEFINE f == Ask(s, "/status")
  <2>3. Continue(p, s, [fetch[p] EXCEPT !["fore"] = f])
    BY <1>1, <1>3
  <2> HIDE DEF s
  <2>4. f \in Fetch /\ f.token = s.authToken /\ f.route = "/status"
    BY <2>1, Sent, Settled DEF Ask, Routes
  <2> HIDE DEF f
  <2>5. Committed(s, f) => Committed(page[p], fetch[p]["fore"])
    BY <2>4 DEF Committed
  <2>6. losses' \in 0..MaxLosses
    BY <1>2
  <2> QED
    BY <2>1, <2>2, <2>3, <2>4, <2>5, <2>6, FollowKeeps
<1>4. CASE code # 200
  BY <1>1, <1>2, <1>4, Buttons, UnlockedKeeps
<1> QED
  BY <1>3, <1>4

\* What a refresh has found.
LEMMA Refreshed ==
  ASSUME NEW s \in PageState, NEW code \in {0, 200, 401}
  PROVE  /\ refreshed(s, code) \in PageState
         /\ refreshed(s, code).authToken \in {0, s.authToken}
         /\ refreshed(s, code).pending = s.pending
BY Buttons DEF refreshed

LEMMA RefreshesKeep ==
  ASSUME PagesInv, NEW p \in Pages, unlockRefreshed(p) \/ refreshReturned(p)
  PROVE  PagesInv'
<1>1. CASE unlockRefreshed(p)
  <2>1. PICK code \in {0, 200, 401} :
          Outcome(p, "fore", code) /\ Unlocked(p, refreshed(page[p], code))
    BY <1>1 DEF unlockRefreshed
  <2>2. losses' \in 0..MaxLosses /\ page[p] \in PageState
    BY <2>1, Came DEF Slots
  <2> QED
    BY <2>1, <2>2, Refreshed, UnlockedKeeps
<1>2. CASE refreshReturned(p)
  <2> DEFINE slots == [fetch[p] EXCEPT !["refresh"] = NoFetch]
  <2>1. PICK code \in {0, 200, 401} :
          Outcome(p, "refresh", code) /\ Continue(p, refreshed(page[p], code), slots)
    BY <1>2 DEF refreshReturned
  <2>2. losses' \in 0..MaxLosses /\ page[p] \in PageState /\ Sound(page[p], fetch[p])
    BY <2>1, Came DEF Slots
  <2>3. /\ slots \in [Slots -> Fetch \cup {NoFetch}]
        /\ slots["fore"] = fetch[p]["fore"] /\ slots["refresh"] = NoFetch
    BY <2>2 DEF Sound, Slots
  <2>4. Sound(page[p], slots)
    BY <2>2, <2>3 DEF Sound
  <2>5. \A t \in Tokens : Holds(page[p], slots, t) => Holds(page[p], fetch[p], t)
    BY <2>3 DEF Holds, Slots
  <2>6. Move(p, page[p], slots)
    BY <2>3, <2>4, <2>5 DEF Move
  <2> HIDE DEF slots
  <2>7. Move(p, refreshed(page[p], code), slots)
    BY <2>2, <2>6, Refreshed, MoveState
  <2> QED
    BY <2>1, <2>2, <2>7, MoveKeeps
<1> QED
  BY <1>1, <1>2

-----------------------------------------------------------------------------
(***************************************************************************)
(* The server                                                              *)
(***************************************************************************)

\* A fetch that is answered.
LEMMA Stamped ==
  ASSUME NEW f \in Fetch, NEW code \in {200, 400, 401}, NEW token \in Tokens
  PROVE  /\ Answer(f, code, token) \in Fetch
         /\ Answer(f, code, token).route = f.route
         /\ Answer(f, code, token).code = code
         /\ Answer(f, code, token).token = token
<1>1. Unset \in Settings
  BY Settled
<1>2. [f EXCEPT !.code = code] \in Fetch
  BY DEF Fetch
<1>3. [f EXCEPT !.code = code, !.token = token] \in Fetch
  BY <1>2 DEF Fetch
<1>4. Answer(f, code, token) \in Fetch
  BY <1>1, <1>3 DEF Fetch, Answer
<1> QED
  BY <1>4 DEF Fetch, Answer

\* A response changes its own fetch, of which the route stays.
LEMMA Answered ==
  ASSUME PagesInv, NEW p \in Pages, NEW k \in Slots, fetch[p][k] # NoFetch,
         NEW code \in {200, 400, 401}, NEW token \in Tokens,
         Reply(p, k, code, token), UNCHANGED page
  PROVE  /\ fetch' \in [Pages -> [Slots -> Fetch \cup {NoFetch}]]
         /\ \A q \in Pages : Sound(page'[q], fetch'[q])
         /\ \A q \in Pages, j \in Slots :
              IF q = p /\ j = k
              THEN /\ fetch'[q][j] # NoFetch
                   /\ fetch'[q][j].route = fetch[p][k].route
                   /\ fetch'[q][j].code = code /\ fetch'[q][j].token = token
              ELSE fetch'[q][j] = fetch[q][j]
<1>1. /\ fetch \in [Pages -> [Slots -> Fetch \cup {NoFetch}]]
      /\ \A q \in Pages : Sound(page[q], fetch[q])
  BY DEF PagesInv, Typed
<1> DEFINE f == Answer(fetch[p][k], code, token)
<1>2. fetch[p][k] \in Fetch
  BY <1>1
<1>3. f \in Fetch /\ f.route = fetch[p][k].route /\ f.code = code /\ f.token = token
  BY <1>2, Stamped
<1>4. fetch' = [fetch EXCEPT ![p][k] = f]
  BY DEF Reply
<1> HIDE DEF f
<1>5. fetch' \in [Pages -> [Slots -> Fetch \cup {NoFetch}]]
  BY <1>1, <1>3, <1>4
<1>6. \A q \in Pages, j \in Slots :
        fetch'[q][j] = IF q = p /\ j = k THEN f ELSE fetch[q][j]
  BY <1>1, <1>4
<1>7. f # NoFetch
  BY <1>3, Settled
<1>8. ASSUME NEW q \in Pages
      PROVE  Sound(page'[q], fetch'[q])
  <2>1. /\ (fetch'[q]["fore"] # NoFetch) = (fetch[q]["fore"] # NoFetch)
        /\ fetch'[q]["refresh"] # NoFetch => fetch'[q]["refresh"].route = "/status"
    BY <1>1, <1>3, <1>6, <1>7 DEF Sound, Slots
  <2>2. fetch'[q] \in [Slots -> Fetch \cup {NoFetch}]
    BY <1>5
  <2> QED
    BY <1>1, <2>1, <2>2 DEF Sound
<1> QED
  BY <1>3, <1>5, <1>6, <1>7, <1>8

\* A response that grants nothing leaves the tokens where they are.
LEMMA AnsweredTokens ==
  ASSUME PagesInv, NEW p \in Pages, NEW k \in Slots, fetch[p][k] # NoFetch,
         NEW code \in {200, 400, 401}, Reply(p, k, code, 0), UNCHANGED <<page, gAuthToken>>
  PROVE  Tokened'
<1>1. \A q \in Pages, j \in Slots :
        IF q = p /\ j = k THEN fetch'[q][j].token = 0 ELSE fetch'[q][j] = fetch[q][j]
  BY Settled, Answered
<1>2. \A q \in Pages, t \in Tokens :
        Holds(page'[q], fetch'[q], t) => t = 0 \/ Holds(page[q], fetch[q], t)
  BY <1>1 DEF Holds
<1>3. gAuthToken \in Nat
  BY DEF PagesInv, Typed, Tokens
<1>4. \A q \in Pages, t \in Tokens : Holds(page'[q], fetch'[q], t) => t <= gAuthToken'
  BY <1>2, <1>3 DEF PagesInv, Tokened
<1>5. \A q, r \in Pages, t \in Tokens :
        q # r /\ Holds(page'[q], fetch'[q], t) /\ Holds(page'[r], fetch'[r], t) => t = 0
  BY <1>2 DEF PagesInv, Tokened
<1> QED
  BY <1>4, <1>5 DEF Tokened, Holds

\* A response that commits no page, and changes no configuration.
LEMMA AnsweredLedger ==
  ASSUME PagesInv, NEW p \in Pages, NEW k \in Slots, fetch[p][k] # NoFetch,
         NEW code \in {200, 400, 401}, Reply(p, k, code, 0),
         UNCHANGED <<page, gAuthToken, gConfig, saved, mixed>>,
         code = 401 \/ fetch[p][k].route # "/set"
  PROVE  Ledger'
<1>1. \A q \in Pages, j \in Slots :
        IF q = p /\ j = k
        THEN fetch'[q][j].route = fetch[p][k].route /\ fetch'[q][j].code = code
        ELSE fetch'[q][j] = fetch[q][j]
  BY Settled, Answered
<1>2. ASSUME NEW q \in Pages, Committed(page[q], fetch[q]["fore"])'
      PROVE  Committed(page[q], fetch[q]["fore"])
  BY <1>1, <1>2 DEF Committed, Slots
<1> QED
  BY <1>2 DEF PagesInv, Ledger

LEMMA AnsweredKeeps ==
  ASSUME PagesInv, NEW p \in Pages, NEW k \in Slots, fetch[p][k] # NoFetch,
         NEW code \in {200, 400, 401}, Reply(p, k, code, 0),
         UNCHANGED <<page, gAuthToken, gConfig, losses, saved, mixed>>,
         code = 401 \/ fetch[p][k].route # "/set"
  PROVE  PagesInv'
<1>1. Tokened' /\ Ledger'
  BY AnsweredTokens, AnsweredLedger
<1>2. Typed'
  BY Settled, Answered DEF PagesInv, Typed
<1> QED
  BY <1>1, <1>2 DEF PagesInv

\* An unlock: nobody has held the token that is granted, and nobody who was
\* committed still is.
LEMMA GrantKeeps ==
  ASSUME PagesInv, NEW p \in Pages, NEW k \in Slots, fetch[p][k] # NoFetch,
         fetch[p][k].route = "/auth", gAuthToken < MaxTokens,
         gAuthToken' = gAuthToken + 1, Reply(p, k, 200, gAuthToken + 1),
         UNCHANGED <<page, gConfig, losses, saved, mixed>>
  PROVE  PagesInv'
<1>1. gAuthToken \in Nat /\ gAuthToken + 1 \in Tokens
  BY PagesAssumption DEF PagesInv, Typed, Tokens
<1>2. /\ fetch' \in [Pages -> [Slots -> Fetch \cup {NoFetch}]]
      /\ \A q \in Pages : Sound(page'[q], fetch'[q])
      /\ \A q \in Pages, j \in Slots :
           IF q = p /\ j = k
           THEN fetch'[q][j].route = "/auth" /\ fetch'[q][j].token = gAuthToken + 1
           ELSE fetch'[q][j] = fetch[q][j]
  BY <1>1, Answered
<1>3. Typed'
  BY <1>1, <1>2 DEF PagesInv, Typed
<1>4. \A q \in Pages, t \in Tokens :
        Holds(page'[q], fetch'[q], t) =>
          \/ Holds(page[q], fetch[q], t)
          \/ q = p /\ t = gAuthToken + 1
  BY <1>2 DEF Holds
<1>5. \A q \in Pages, t \in Tokens : Holds(page[q], fetch[q], t) => t < gAuthToken + 1
  BY <1>1 DEF PagesInv, Tokened, Tokens
<1>6. Tokened'
  <2>1. \A q \in Pages, t \in Tokens : Holds(page'[q], fetch'[q], t) => t <= gAuthToken'
    BY <1>1, <1>4, <1>5 DEF Tokens
  <2>2. \A q, r \in Pages, t \in Tokens :
          q # r /\ Holds(page'[q], fetch'[q], t) /\ Holds(page'[r], fetch'[r], t) => t = 0
    BY <1>1, <1>4, <1>5 DEF PagesInv, Tokened, Tokens
  <2> QED
    BY <2>1, <2>2 DEF Tokened, Holds
<1>7. ASSUME NEW q \in Pages
      PROVE  ~Committed(page[q], fetch[q]["fore"])'
  <2>1. page[q].authToken \in Tokens /\ page[q].authToken < gAuthToken + 1
    BY <1>5 DEF PagesInv, Typed, PageState, Holds
  <2>2. CASE q = p /\ k = "fore"
    BY <1>2, <2>1, <2>2 DEF Committed, Slots
  <2>3. CASE ~(q = p /\ k = "fore")
    <3>1. fetch'[q]["fore"] = fetch[q]["fore"]
      BY <1>2, <2>3 DEF Slots
    <3>2. fetch[q]["fore"] = NoFetch \/ fetch[q]["fore"].token < gAuthToken + 1
      BY <1>5 DEF PagesInv, Typed, Fetch, Holds, Slots
    <3> QED
      BY <1>1, <2>1, <3>1, <3>2 DEF Committed, NoFetch
  <2> QED
    BY <2>2, <2>3
<1>8. Ledger'
  BY <1>7 DEF PagesInv, Ledger
<1> QED
  BY <1>3, <1>6, <1>8 DEF PagesInv

\* While a page holds the token that the server accepts, no other is committed.
LEMMA OnlyHolder ==
  ASSUME PagesInv, NEW p \in Pages, NEW k \in Slots,
         fetch[p][k] # NoFetch, authTokenMatches(fetch[p][k].token)
  PROVE  \A q \in Pages : Committed(page[q], fetch[q]["fore"]) => q = p
<1>1. gAuthToken \in Tokens /\ gAuthToken # 0 /\ Holds(page[p], fetch[p], gAuthToken)
  BY DEF authTokenMatches, Holds, PagesInv, Typed
<1>2. ASSUME NEW q \in Pages, Committed(page[q], fetch[q]["fore"])
      PROVE  Holds(page[q], fetch[q], gAuthToken)
  BY <1>2 DEF Committed, Holds, Slots, NoFetch
<1> QED
  BY <1>1, <1>2 DEF PagesInv, Tokened

\* An accepted or refused configuration is the server's until another page
\* holds the token.
LEMMA SetKeeps ==
  ASSUME PagesInv, NEW p \in Pages, NEW k \in Slots,
         fetch[p][k] # NoFetch, authTokenMatches(fetch[p][k].token),
         applyConfigFromQuery(p, k), UNCHANGED <<page, losses>>
  PROVE  PagesInv'
<1>1. fetch[p][k].cfg \in Settings
  BY DEF PagesInv, Typed, Fetch
<1>2. PICK code \in {200, 400} : Reply(p, k, code, 0)
  BY DEF applyConfigFromQuery
<1>3. UNCHANGED <<gAuthToken, mixed>>
  BY DEF applyConfigFromQuery
<1>4. /\ gConfig' \in Settings \cup {Mixture}
      /\ saved' \in [Pages -> Settings \cup {Mixture, Refused}]
      /\ saved'[p] \in {gConfig', Refused}
  BY <1>1 DEF applyConfigFromQuery, PagesInv, Typed, Ledger
<1>5. Typed'
  BY <1>2, <1>3, <1>4, Settled, Answered DEF PagesInv, Typed
<1>6. Tokened'
  BY <1>2, <1>3, AnsweredTokens
<1>7. ASSUME NEW q \in Pages, q # p
      PROVE  ~Committed(page[q], fetch[q]["fore"])'
  <2>1. fetch'[q]["fore"] = fetch[q]["fore"]
    BY <1>2, <1>7, Settled, Answered DEF Slots
  <2>2. ~Committed(page[q], fetch[q]["fore"])
    BY <1>7, OnlyHolder
  <2> QED
    BY <1>3, <2>1, <2>2 DEF Committed
<1>8. Ledger'
  BY <1>3, <1>4, <1>7 DEF PagesInv, Ledger
<1> QED
  BY <1>5, <1>6, <1>8 DEF PagesInv

\* The operation of a committed page finds the configuration of that page.
LEMMA OperationKeeps ==
  ASSUME PagesInv, NEW p \in Pages, NEW k \in Slots,
         fetch[p][k] # NoFetch, fetch[p][k].code = 0, fetch[p][k].route = "/action",
         authTokenMatches(fetch[p][k].token),
         runOperation(p, k), UNCHANGED <<page, losses>>
  PROVE  PagesInv'
<1>1. k = "fore"
  BY DEF PagesInv, Typed, Sound, Slots
<1>2. Committed(page[p], fetch[p]["fore"])
  BY <1>1 DEF Committed, authTokenMatches
<1>3. UNCHANGED <<gAuthToken, gConfig>> /\ Reply(p, k, 200, 0)
  BY DEF runOperation, serverVars
<1>4. mixed' = FALSE
  BY <1>2 DEF runOperation, PagesInv, Ledger
<1>5. saved' = [saved EXCEPT ![p] = Refused]
  BY DEF runOperation
<1>6. Typed'
  BY <1>3, Settled, Answered DEF PagesInv, Typed
<1>7. Tokened'
  BY <1>3, AnsweredTokens
<1>8. ASSUME NEW q \in Pages, Committed(page[q], fetch[q]["fore"])'
      PROVE  saved'[q] \in {gConfig', Refused}
  <2>1. CASE q = p
    BY <1>5, <2>1 DEF PagesInv, Ledger
  <2>2. CASE q # p
    <3>1. fetch'[q]["fore"] = fetch[q]["fore"]
      BY <1>3, <2>2, Settled, Answered DEF Slots
    <3>2. Committed(page[q], fetch[q]["fore"])
      BY <1>3, <1>8, <3>1 DEF Committed
    <3> QED
      BY <1>3, <1>5, <2>2, <3>2 DEF PagesInv, Ledger
  <2> QED
    BY <2>1, <2>2
<1>9. Ledger'
  BY <1>4, <1>5, <1>8 DEF PagesInv, Ledger
<1> QED
  BY <1>6, <1>7, <1>9 DEF PagesInv

LEMMA ServerKeeps ==
  ASSUME PagesInv, NEW p \in Pages, NEW k \in Slots, handleClient(p, k)
  PROVE  PagesInv'
<1>1. fetch[p][k] # NoFetch /\ fetch[p][k].code = 0 /\ UNCHANGED <<page, losses>>
  BY DEF handleClient
<1>2. CASE fetch[p][k].route = "/auth"
  <2>1. handleAuthRequest(p, k)
    BY <1>2 DEF handleClient
  <2>2. CASE Reply(p, k, 401, 0) /\ UNCHANGED gAuthToken
    BY <1>1, <2>1, <2>2, AnsweredKeeps DEF handleAuthRequest
  <2>3. CASE ~(Reply(p, k, 401, 0) /\ UNCHANGED gAuthToken)
    BY <1>1, <1>2, <2>1, <2>3, GrantKeeps DEF handleAuthRequest
  <2> QED
    BY <2>2, <2>3
<1>3. CASE fetch[p][k].route # "/auth" /\ ~authTokenMatches(fetch[p][k].token)
  BY <1>1, <1>3, AnsweredKeeps DEF handleClient, serverVars
<1>4. CASE fetch[p][k].route # "/auth" /\ authTokenMatches(fetch[p][k].token)
  <2>1. CASE fetch[p][k].route = "/set"
    BY <1>1, <1>4, <2>1, SetKeeps DEF handleClient
  <2>2. CASE fetch[p][k].route = "/action"
    BY <1>1, <1>4, <2>2, OperationKeeps DEF handleClient
  <2>3. CASE fetch[p][k].route \notin {"/set", "/action"}
    BY <1>1, <1>4, <2>3, AnsweredKeeps DEF handleClient, serverVars
  <2> QED
    BY <2>1, <2>2, <2>3
<1> QED
  BY <1>2, <1>3, <1>4

-----------------------------------------------------------------------------
LEMMA PagesInvInit ==
  ASSUME PagesInit
  PROVE  PagesInv
<1>1. \A p \in Pages :
        /\ page[p].authToken = 0 /\ page[p].pending = FALSE
        /\ \A k \in Slots : fetch[p][k] = NoFetch
  BY DEF PagesInit
<1>2. \A p \in Pages : page[p] \in PageState /\ fetch[p] \in [Slots -> Fetch \cup {NoFetch}]
  BY Settled DEF PagesInit, PageState
<1>3. \A p \in Pages : Sound(page[p], fetch[p])
  BY <1>1, <1>2 DEF Sound, Slots
<1>4. Typed
  BY <1>2, <1>3, Settled, PagesAssumption DEF PagesInit, Typed
<1>5. Tokened
  BY <1>1 DEF PagesInit, Tokened, Holds
<1>6. Ledger
  BY DEF PagesInit, Ledger, Committed
<1> QED
  BY <1>4, <1>5, <1>6 DEF PagesInv

LEMMA PagesInvNext ==
  ASSUME PagesInv, [PagesNext]_pagesVars
  PROVE  PagesInv'
<1>1. CASE UNCHANGED pagesVars
  BY <1>1 DEF PagesInv, Typed, Tokened, Ledger, Sound, Holds, Committed,
              pagesVars, pageVars, serverVars
<1>2. CASE PagesNext
  <2>1. PICK p \in Pages : PageNext(p)
    BY <1>2 DEF PagesNext
  <2>2. CASE unlockHarness(p) \/ doAction(p) \/ exportReport(p)
    BY <2>2, UserKeeps
  <2>3. CASE timerTick(p)
    BY <2>3, TimerKeeps
  <2>4. CASE foreReturned(p)
    BY <2>4, SetReturnedKeeps, OperationReturnedKeeps, UnlockReturnedKeeps, RefreshesKeep
       DEF foreReturned
  <2>5. CASE refreshReturned(p)
    BY <2>5, RefreshesKeep
  <2>6. CASE \E k \in Slots : handleClient(p, k)
    BY <2>6, ServerKeeps
  <2> QED
    BY <2>1, <2>2, <2>3, <2>4, <2>5, <2>6 DEF PageNext
<1> QED
  BY <1>1, <1>2

\* PagesInv holds in every state of every behaviour, for any number of pages,
\* of unlocks and of lost fetches: no two pages hold the same token, and a page
\* about to operate with the token the server accepts finds there what it saved.
THEOREM PagesInvariant == PagesSpec => []PagesInv
<1>1. PagesInit => PagesInv
  BY PagesInvInit
<1>2. PagesInv /\ [PagesNext]_pagesVars => PagesInv'
  BY PagesInvNext
<1> QED
  BY <1>1, <1>2, PTL DEF PagesSpec

\* The types of the pages and of the server; and a page is pending exactly
\* while something it has started is not over.
THEOREM PagesTyped == PagesSpec => []PagesTypeOK
<1>1. PagesInv => PagesTypeOK
  BY DEF PagesInv, Typed, Sound, PagesTypeOK
<1> QED
  BY <1>1, PagesInvariant, PTL

\* doAction saves the configuration and then runs the operation, in two
\* requests: whatever other pages do in between, the operation that the server
\* accepts runs with the configuration of its own page.
THEOREM PagesRunOwnConfig == PagesSpec => []OperationRunsOwnConfig
<1>1. PagesInv => OperationRunsOwnConfig
  BY DEF PagesInv, Ledger, OperationRunsOwnConfig
<1> QED
  BY <1>1, PagesInvariant, PTL

-----------------------------------------------------------------------------
(***************************************************************************)
(* The buttons                                                             *)
(***************************************************************************)
Blocks(s, f) == f.route \in {"/set", "/action", "/report"} => s.blocked

LEMMA BlocksContinue ==
  ASSUME PagesInv, OperationBlocksButtons, NEW p \in Pages, NEW s, NEW slots,
         Continue(p, s, slots), Blocks(s, slots["fore"])
  PROVE  OperationBlocksButtons'
<1>1. \A q \in Pages : page'[q] = (IF q = p THEN s ELSE page[q])
                    /\ fetch'[q] = (IF q = p THEN slots ELSE fetch[q])
  BY DEF Continue, PagesInv, Typed
<1> QED
  BY <1>1 DEF OperationBlocksButtons, Blocks

\* A page that is not pending waits for no operation.
LEMMA BlocksIdle == \A s : Blocks(s, NoFetch)
BY DEF Blocks, NoFetch

LEMMA BlocksRefresh ==
  ASSUME PagesInv, OperationBlocksButtons, NEW p \in Pages, NEW s \in PageState,
         NEW slots \in [Slots -> Fetch \cup {NoFetch}],
         refreshStatus(p, s, slots), Blocks(s, slots["fore"])
  PROVE  OperationBlocksButtons'
<1>1. CASE Unauthorized(s)
  <2>1. setActionButtonsDisabled(s, FALSE).blocked
    BY <1>1 DEF setActionButtonsDisabled, PageState
  <2>2. Blocks(setActionButtonsDisabled(s, FALSE), slots["fore"])
    BY <2>1 DEF Blocks
  <2> QED
    BY <1>1, <2>2, BlocksContinue DEF refreshStatus
<1>2. CASE ~Unauthorized(s)
  <2>1. [slots EXCEPT !["refresh"] = Ask(s, "/status")]["fore"] = slots["fore"]
    BY DEF Slots
  <2> QED
    BY <1>2, <2>1, BlocksContinue DEF refreshStatus
<1> QED
  BY <1>1, <1>2

\* What the user has started ends.
LEMMA BlocksEnded ==
  ASSUME PagesInv, OperationBlocksButtons, NEW p \in Pages, NEW s \in PageState,
         Finish(p, s) \/ Unlocked(p, s)
  PROVE  OperationBlocksButtons'
<1> DEFINE t     == [s EXCEPT !.pending = FALSE]
           slots == [fetch[p] EXCEPT !["fore"] = NoFetch]
<1>1. fetch[p] \in [Slots -> Fetch \cup {NoFetch}] /\ t \in PageState
  BY DEF PagesInv, Typed, PageState
<1>2. slots \in [Slots -> Fetch \cup {NoFetch}] /\ slots["fore"] = NoFetch
  BY <1>1 DEF Slots
<1>3. Blocks(t, slots["fore"])
  BY <1>2, BlocksIdle
<1>4. refreshStatus(p, t, slots) \/ Continue(p, t, slots)
  BY DEF Finish, Unlocked
<1> HIDE DEF t, slots
<1> QED
  BY <1>1, <1>2, <1>3, <1>4, BlocksRefresh, BlocksContinue

LEMMA BlocksFore ==
  ASSUME PagesInv, OperationBlocksButtons, NEW p \in Pages, NEW s, NEW f,
         Continue(p, s, [fetch[p] EXCEPT !["fore"] = f]), Blocks(s, f)
  PROVE  OperationBlocksButtons'
<1>1. [fetch[p] EXCEPT !["fore"] = f]["fore"] = f
  BY DEF PagesInv, Typed, Slots
<1> QED
  BY <1>1, BlocksContinue

\* What a page is locked by, or a status, leaves the buttons of a pending page
\* disabled.
LEMMA BlocksStatus ==
  ASSUME NEW s \in PageState, NEW f, s.pending = (f # NoFetch), Blocks(s, f)
  PROVE  Blocks(renderStatus(s), f) /\ Blocks(applyUnauthorized(s), f)
<1>1. Blocks(renderStatus(s), f)
  BY BlocksIdle DEF renderStatus
<1>2. [s EXCEPT !.authToken = 0] \in PageState /\ [s EXCEPT !.authToken = 0].authToken = 0
  BY Settled DEF PageState
<1>3. applyUnauthorized(s).blocked
  BY <1>2 DEF applyUnauthorized, setActionButtonsDisabled, PageState, Unauthorized
<1> QED
  BY <1>1, <1>3 DEF Blocks

LEMMA BlocksUser ==
  ASSUME PagesInv, OperationBlocksButtons, NEW p \in Pages,
         unlockHarness(p) \/ doAction(p) \/ exportReport(p) \/ timerTick(p)
  PROVE  OperationBlocksButtons'
<1>1. /\ page[p] \in PageState /\ fetch[p] \in [Slots -> Fetch \cup {NoFetch}]
      /\ Blocks(page[p], fetch[p]["fore"])
  BY DEF PagesInv, Typed, OperationBlocksButtons, Blocks
<1>2. CASE unlockHarness(p)
  <2> DEFINE s == [page[p] EXCEPT !.pending = TRUE]
             f == Ask(page[p], "/auth")
  <2>1. Continue(p, s, [fetch[p] EXCEPT !["fore"] = f])
    BY <1>2 DEF unlockHarness
  <2>2. Blocks(s, f)
    BY DEF Blocks, Ask, Send
  <2> HIDE DEF s, f
  <2> QED
    BY <2>1, <2>2, BlocksFore
<1>3. ASSUME doAction(p) \/ exportReport(p)
      PROVE  OperationBlocksButtons'
  <2> DEFINE s == [page[p] EXCEPT !.pending = TRUE, !.blocked = TRUE]
  <2>1. PICK f : Continue(p, s, [fetch[p] EXCEPT !["fore"] = f])
    BY <1>3 DEF doAction, exportReport
  <2>2. Blocks(s, f)
    BY <1>1 DEF Blocks, PageState
  <2> HIDE DEF s
  <2> QED
    BY <2>1, <2>2, BlocksFore
<1>4. CASE timerTick(p)
  BY <1>1, <1>4, BlocksRefresh DEF timerTick
<1> QED
  BY <1>2, <1>3, <1>4

LEMMA BlocksReturned ==
  ASSUME PagesInv, OperationBlocksButtons, NEW p \in Pages, foreReturned(p)
  PROVE  OperationBlocksButtons'
<1>1. page[p] \in PageState /\ Blocks(page[p], fetch[p]["fore"])
  BY DEF PagesInv, Typed, OperationBlocksButtons, Blocks
<1>2. applyUnauthorized(page[p]) \in PageState
  BY <1>1, Buttons
<1>3. CASE setReturned(p)
  <2>1. CASE \E s \in {page[p], applyUnauthorized(page[p])} : Finish(p, s)
    BY <1>1, <1>2, <2>1, BlocksEnded
  <2>2. CASE Continue(p, renderStatus(page[p]),
                      [fetch[p] EXCEPT !["fore"] = Ask(page[p], "/action")])
    <3>1. page[p].blocked /\ fetch[p]["fore"] # NoFetch
      BY <1>1, <1>3 DEF Blocks, setReturned, NoFetch
    <3>2. page[p].pending = (fetch[p]["fore"] # NoFetch)
      BY DEF PagesInv, Typed, Sound
    <3>3. Blocks(renderStatus(page[p]), Ask(page[p], "/action"))
      BY <3>1, <3>2 DEF renderStatus, Blocks
    <3> QED
      BY <2>2, <3>3, BlocksFore
  <2> QED
    BY <1>3, <2>1, <2>2 DEF setReturned
<1>4. CASE operationReturned(p)
  <2>1. \E s \in {page[p], applyUnauthorized(page[p])} : Finish(p, s)
    BY <1>4 DEF operationReturned
  <2> QED
    BY <1>1, <1>2, <2>1, BlocksEnded
<1>5. CASE unlockReturned(p)
  <2> DEFINE s == [page[p] EXCEPT !.authToken = fetch[p]["fore"].token]
             f == Ask(s, "/status")
  <2>1. CASE Unlocked(p, applyUnauthorized(page[p]))
    BY <1>2, <2>1, BlocksEnded
  <2>2. CASE Continue(p, s, [fetch[p] EXCEPT !["fore"] = f])
    <3>1. Blocks(s, f)
      BY DEF Blocks, Ask, Send
    <3> HIDE DEF s, f
    <3> QED
      BY <2>2, <3>1, BlocksFore
  <2> QED
    BY <1>5, <2>1, <2>2 DEF unlockReturned
<1>6. CASE unlockRefreshed(p)
  <2>1. PICK code \in {0, 200, 401} : Unlocked(p, refreshed(page[p], code))
    BY <1>6 DEF unlockRefreshed
  <2> QED
    BY <1>1, <2>1, Refreshed, BlocksEnded
<1> QED
  BY <1>3, <1>4, <1>5, <1>6 DEF foreReturned

LEMMA BlocksRefreshed ==
  ASSUME PagesInv, OperationBlocksButtons, NEW p \in Pages, refreshReturned(p)
  PROVE  OperationBlocksButtons'
<1> DEFINE slots == [fetch[p] EXCEPT !["refresh"] = NoFetch]
<1>1. page[p] \in PageState /\ Blocks(page[p], fetch[p]["fore"])
  BY DEF PagesInv, Typed, OperationBlocksButtons, Blocks
<1>2. page[p].pending = (fetch[p]["fore"] # NoFetch)
  BY DEF PagesInv, Typed, Sound
<1>3. PICK code \in {0, 200, 401} : Continue(p, refreshed(page[p], code), slots)
  BY DEF refreshReturned
<1>4. slots["fore"] = fetch[p]["fore"]
  BY DEF PagesInv, Typed, Slots
<1>5. Blocks(refreshed(page[p], code), fetch[p]["fore"])
  BY <1>1, <1>2, BlocksStatus DEF refreshed
<1> HIDE DEF slots
<1> QED
  BY <1>3, <1>4, <1>5, BlocksContinue

\* An answer says nothing to the page yet.
LEMMA BlocksServer ==
  ASSUME PagesInv, OperationBlocksButtons, NEW p \in Pages, NEW k \in Slots, handleClient(p, k)
  PROVE  OperationBlocksButtons'
<1>1. gAuthToken < MaxTokens => gAuthToken + 1 \in Tokens
  BY PagesAssumption DEF PagesInv, Typed, Tokens
<1>2. PICK code \in {200, 400, 401}, token \in Tokens : Reply(p, k, code, token)
  BY <1>1, Settled DEF handleClient, handleAuthRequest, applyConfigFromQuery, runOperation
<1>3. fetch[p][k] # NoFetch /\ UNCHANGED page
  BY DEF handleClient
<1>4. \A q \in Pages : fetch'[q]["fore"].route = fetch[q]["fore"].route
  BY <1>2, <1>3, Answered DEF Slots
<1> QED
  BY <1>3, <1>4 DEF OperationBlocksButtons

\* From the moment a page starts to save its configuration until its operation
\* is over, its buttons are disabled, whatever the timer's refreshes find: the
\* user cannot start two operations of one page.
THEOREM PagesBlockButtons == PagesSpec => []OperationBlocksButtons
<1>1. PagesInit => OperationBlocksButtons
  BY DEF PagesInit, OperationBlocksButtons
<1>2. PagesInv /\ OperationBlocksButtons /\ [PagesNext]_pagesVars => OperationBlocksButtons'
  <2> SUFFICES ASSUME PagesInv, OperationBlocksButtons, [PagesNext]_pagesVars
               PROVE  OperationBlocksButtons'
    OBVIOUS
  <2>1. CASE UNCHANGED pagesVars
    BY <2>1 DEF pagesVars, pageVars, OperationBlocksButtons
  <2>2. CASE PagesNext
    BY <2>2, BlocksUser, BlocksReturned, BlocksRefreshed, BlocksServer DEF PagesNext, PageNext
  <2> QED
    BY <2>1, <2>2
<1> QED
  BY <1>1, <1>2, PagesInvariant, PTL DEF PagesSpec
=============================================================================
