--------------------------- MODULE MobileSession ---------------------------
(***************************************************************************)
(* The session of the mobile app: store/auth.store.ts with its copy of the  *)
(* token in the secure store, the interceptors of lib/api.client.ts (the    *)
(* bootstrap lock, the shared refresh, the retry), lib/session.ts, the      *)
(* login and logout screens and the effect of app/_layout.tsx that fetches  *)
(* the profile of every new token.                                          *)
(*                                                                         *)
(* Tokens are numbers, 0 none; the server (external, see AuthSession)       *)
(* accepts those above floor.  A profile fetch is a call like a request of  *)
(* a screen, but for the lock and, its URL being one of /v1/auth/, the       *)
(* refresh.  Everything between two awaits is one step.                     *)
(***************************************************************************)
EXTENDS Integers, FiniteSets

CONSTANTS
  Screens,       \* requests of the screens under way at once
  Runs,          \* runs of the effect under way at once
  MaxTokens,     \* bound: tokens the server issues
  MaxTrouble     \* bound: network failures, 403s, failed sign-outs, restarts

NoRun == 0
MobileCalls == Screens \cup Runs
Phases == {"bootstrapping", "authenticated", "unverified", "unauthenticated"}

ASSUME MobileSessionConstants ==
  /\ Runs \subseteq Nat \ {NoRun} /\ Screens \cap Runs = {}
  /\ MaxTokens \in Nat /\ MaxTrouble \in Nat

VARIABLES
  mtoken,    \* the store's token
  kept,      \* the secure store's token
  hasUser,   \* the store has a user (persisted)
  phase,     \* the store's phase
  gate,      \* the store's bootstrapPromise: the run whose promise it is
  shown,     \* the token the effect last ran for
  synced,    \* syncedTokenRef
  current,   \* the run that is not cancelled
  retryDue,  \* the effect's retry timer is set
  runToken,  \* run -> the token it runs for, 0 when the run is over
  stranded,  \* ghost: the last run was refused and joined a clearing whose
             \* reset of the store was past
  mobileCall, \* call -> its place, its token, whether it is a retry, its gate
  refresh,   \* refreshPromise: none, asking, posting, persist, set
  renewed,   \* the token a refresh got, until it is stored
  clear,     \* sessionResetPromise: none, signout, delete, reset, caches
  signIn,    \* the login screen: none, posting, persist, set, signout
  gained,    \* the token a login got, until it is stored
  phoneAuth, \* Firebase has a signed-in user
  issued,    \* the last token the server issued
  floor,     \* the last token it revoked
  clash,     \* ghost: the last token stored met a clear or another one, or the
             \* last deletion from the secure store failed
  trouble    \* bounded counter

storeVars == <<mtoken, kept, hasUser, phase, gate>>
effectVars == <<shown, synced, current, retryDue, runToken, stranded>>
serverVars == <<issued, floor>>
refreshVars == <<refresh, renewed>>
loginVars == <<signIn, gained>>
mobileVars == <<storeVars, effectVars, mobileCall, refreshVars, clear, loginVars,
                phoneAuth, serverVars, clash, trouble>>

NoCallYet == [pc |-> "idle", token |-> 0, retried |-> FALSE, gate |-> NoRun]

MobileTypeOK ==
  /\ mtoken \in 0..MaxTokens /\ kept \in 0..MaxTokens
  /\ renewed \in 0..MaxTokens /\ gained \in 0..MaxTokens
  /\ hasUser \in BOOLEAN /\ phase \in Phases
  /\ gate \in Runs \cup {NoRun} /\ current \in Runs \cup {NoRun}
  /\ shown \in 0..MaxTokens /\ synced \in 0..MaxTokens /\ retryDue \in BOOLEAN
  /\ runToken \in [Runs -> 0..MaxTokens]
  /\ mobileCall \in [MobileCalls ->
       [pc : {"idle", "locked", "sent", "refreshing", "clearing", "done", "failed", "refused"},
        token : 0..MaxTokens, retried : BOOLEAN, gate : Runs \cup {NoRun}]]
  /\ refresh \in {"none", "asking", "posting", "persist", "set"}
  /\ clear \in {"none", "signout", "delete", "reset", "caches"}
  /\ signIn \in {"none", "posting", "persist", "set", "signout"}
  /\ phoneAuth \in BOOLEAN /\ clash \in BOOLEAN /\ stranded \in BOOLEAN
  /\ issued \in 0..MaxTokens /\ floor \in 0..issued
  /\ trouble \in 0..MaxTrouble
  /\ phase = "authenticated" => hasUser /\ mtoken # 0

MobileInit ==
  /\ mtoken = 0 /\ kept = 0 /\ hasUser = FALSE
  /\ phase = "unauthenticated" /\ gate = NoRun
  /\ shown = 0 /\ synced = 0 /\ current = NoRun /\ retryDue = FALSE
  /\ runToken = [k \in Runs |-> 0]
  /\ mobileCall = [c \in MobileCalls |-> NoCallYet]
  /\ refresh = "none" /\ renewed = 0 /\ clear = "none" /\ signIn = "none" /\ gained = 0
  /\ phoneAuth = FALSE /\ issued = 0 /\ floor = 0 /\ clash = FALSE
  /\ stranded = FALSE /\ trouble = 0

Trouble == trouble < MaxTrouble /\ trouble' = trouble + 1
Storing == refresh \in {"persist", "set"} \/ signIn \in {"persist", "set"}

(* What the clearing has still to take from the stores.                     *)
Clearing == clear \in {"signout", "delete", "reset"}

(* clearMobileSession: callers share the promise of the one under way, also  *)
(* when its reset of the store is past.                                     *)
StartClear ==
  /\ clear' = IF clear = "none" THEN "signout" ELSE clear
  /\ clash' = IF clear = "none" THEN Storing ELSE clash

-----------------------------------------------------------------------------
(* The request interceptor: a screen's request waits for the promise it saw; *)
(* the token it took is the one from before the wait.                       *)
(* Mutant: the profile fetch waits too.                                     *)
LockedAlways(c, ph, g) == ph = "bootstrapping" /\ g # NoRun

Locked(c, ph, g) == c \notin Runs /\ ph = "bootstrapping" /\ g # NoRun

Sent(c, ph, g, token, retried) ==
  IF Locked(c, ph, g)
  THEN [pc |-> "locked", token |-> token, retried |-> retried, gate |-> g]
  ELSE [pc |-> "sent", token |-> token, retried |-> retried, gate |-> NoRun]

(* The promise of a run resolves when the run is over, cancelled or not.     *)
MobileUnlock(c) ==
  /\ mobileCall[c].pc = "locked" /\ runToken[mobileCall[c].gate] = 0
  /\ mobileCall' = [mobileCall EXCEPT ![c].pc = "sent", ![c].gate = NoRun]
  /\ UNCHANGED <<storeVars, effectVars, refreshVars, clear, loginVars, phoneAuth,
                 serverVars, clash, trouble>>

(* A screen makes a request, its last one being over.                       *)
ScreenRequests(c) ==
  /\ c \in Screens /\ mobileCall[c].pc = "idle"
  /\ mtoken # 0
  /\ mobileCall' = [mobileCall EXCEPT ![c] = Sent(c, phase, gate, mtoken, FALSE)]
  /\ UNCHANGED <<storeVars, effectVars, refreshVars, clear, loginVars, phoneAuth,
                 serverVars, clash, trouble>>

-----------------------------------------------------------------------------
(* The response interceptor.  What becomes of a screen's request once it is  *)
(* over is the screen's.                                                    *)
Over(c, pc) == IF c \in Runs THEN [NoCallYet EXCEPT !.pc = pc] ELSE NoCallYet

Waiting(pc) == [NoCallYet EXCEPT !.pc = pc]

Answered(c, record) ==
  /\ mobileCall' = [mobileCall EXCEPT ![c] = record]
  /\ UNCHANGED <<storeVars, effectVars, renewed, loginVars, phoneAuth, serverVars>>

AnswerGood(c) ==
  /\ mobileCall[c].pc = "sent" /\ mobileCall[c].token > floor
  /\ Answered(c, Over(c, "done")) /\ UNCHANGED <<refresh, clear, clash, trouble>>

(* A screen's first 401 joins or starts the refresh, its second clears the   *)
(* session.                                                                 *)
AnswerUnauthorized(c) ==
  /\ c \in Screens /\ mobileCall[c].pc = "sent" /\ mobileCall[c].token <= floor
  /\ IF mobileCall[c].retried
     THEN Answered(c, Waiting("clearing")) /\ StartClear /\ UNCHANGED refresh
     ELSE /\ Answered(c, Waiting("refreshing"))
          /\ refresh' = IF refresh = "none" THEN "asking" ELSE refresh
          /\ UNCHANGED <<clear, clash>>
  /\ UNCHANGED trouble

ProfileUnauthorized(c) ==
  /\ c \in Runs /\ mobileCall[c].pc = "sent" /\ mobileCall[c].token <= floor
  /\ Answered(c, Over(c, "refused")) /\ UNCHANGED <<refresh, clear, clash, trouble>>

AnswerForbidden(c) ==
  /\ mobileCall[c].pc = "sent" /\ Trouble
  /\ Answered(c, Waiting("clearing")) /\ StartClear /\ UNCHANGED refresh

(* No answer, or a 5xx.                                                     *)
AnswerFails(c) ==
  /\ mobileCall[c].pc = "sent" /\ Trouble
  /\ Answered(c, Over(c, "failed")) /\ UNCHANGED <<refresh, clear, clash>>

(* Those that waited for a promise go on.                                   *)
Resumed(from, next) ==
  mobileCall' = [c \in MobileCalls |->
    IF mobileCall[c].pc = from THEN next[c] ELSE mobileCall[c]]

(* refreshToken fails, for want of a Firebase user or by the server's or the *)
(* network's answer: each of its callers clears the session.                *)
RefreshFails ==
  /\ \/ refresh = "asking" /\ ~phoneAuth /\ UNCHANGED trouble
     \/ refresh = "posting" /\ UNCHANGED trouble
  /\ refresh' = "none" /\ Resumed("refreshing", [c \in MobileCalls |-> Waiting("clearing")]) /\ StartClear
  /\ UNCHANGED <<storeVars, effectVars, renewed, loginVars, phoneAuth, serverVars>>

Issue == issued < MaxTokens /\ issued' = issued + 1 /\ UNCHANGED floor

RefreshAsk ==
  /\ refresh = "asking" /\ phoneAuth /\ refresh' = "posting"
  /\ UNCHANGED <<storeVars, effectVars, mobileCall, renewed, clear, loginVars, phoneAuth,
                 serverVars, clash, trouble>>

RefreshGranted ==
  /\ refresh = "posting" /\ Issue /\ refresh' = "persist" /\ renewed' = issued'
  /\ clash' = (Clearing \/ signIn \in {"persist", "set"})
  /\ UNCHANGED <<storeVars, effectVars, mobileCall, clear, loginVars, phoneAuth, trouble>>

(* setToken: the secure store first, then the store; the callers go again    *)
(* through the request interceptor.                                         *)
RefreshPersist ==
  /\ refresh = "persist" /\ refresh' = "set" /\ kept' = renewed
  /\ UNCHANGED <<mtoken, hasUser, phase, gate, effectVars, mobileCall, renewed, clear,
                 loginVars, phoneAuth, serverVars, clash, trouble>>

RefreshSet ==
  /\ refresh = "set" /\ refresh' = "none" /\ renewed' = 0
  /\ mtoken' = renewed /\ phase' = IF hasUser THEN "authenticated" ELSE "bootstrapping"
  /\ Resumed("refreshing", [c \in MobileCalls |-> Sent(c, phase', gate, mtoken', TRUE)])
  /\ UNCHANGED <<kept, hasUser, gate, effectVars, clear, loginVars, phoneAuth,
                 serverVars, clash, trouble>>

-----------------------------------------------------------------------------
(* clearMobileSession: Firebase's sign-out (a failure is swallowed), the     *)
(* secure store (a failure is swallowed), the store, the persisted caches;   *)
(* the calls that waited for it reject at its end.                          *)
ClearSignOut ==
  /\ clear = "signout" /\ clear' = "delete"
  /\ \/ phoneAuth' = FALSE /\ UNCHANGED trouble
     \/ Trouble /\ UNCHANGED phoneAuth
  /\ UNCHANGED <<storeVars, effectVars, mobileCall, refreshVars, loginVars, serverVars, clash>>

(* Mutant: the token stays in the secure store.                             *)
ClearDeleteNothing ==
  /\ clear = "delete" /\ clear' = "reset"
  /\ UNCHANGED <<storeVars, effectVars, mobileCall, refreshVars, loginVars, phoneAuth,
                 serverVars, clash, trouble>>

ClearDelete ==
  /\ clear = "delete" /\ clear' = "reset"
  /\ \/ kept' = 0 /\ UNCHANGED <<clash, trouble>>
     \/ Trouble /\ clash' = TRUE /\ UNCHANGED kept
  /\ UNCHANGED <<mtoken, hasUser, phase, gate, effectVars, mobileCall, refreshVars,
                 loginVars, phoneAuth, serverVars>>

ClearReset ==
  /\ clear = "reset" /\ clear' = "caches"
  /\ mtoken' = 0 /\ hasUser' = FALSE /\ phase' = "unauthenticated" /\ gate' = NoRun
  /\ UNCHANGED <<kept, effectVars, mobileCall, refreshVars, loginVars, phoneAuth, serverVars,
                 clash, trouble>>

ClearCaches ==
  /\ clear = "caches" /\ clear' = "none"
  /\ Resumed("clearing", [c \in MobileCalls |-> Over(c, "refused")])
  /\ UNCHANGED <<storeVars, effectVars, refreshVars, loginVars, phoneAuth, serverVars,
                 clash, trouble>>

-----------------------------------------------------------------------------
(* verify-otp.tsx: Firebase signs in, the server gives a token, the session  *)
(* is stored, and Firebase is signed out again (a failure is swallowed).     *)
(* The screen is there without a user or a token, unless a profile is asked  *)
(* for, whatever the phase.                                                 *)
Fetching == current # NoRun /\ runToken[current] # 0

LoginVerify ==
  /\ signIn = "none" /\ (mtoken = 0 \/ ~hasUser) /\ ~Fetching /\ issued < MaxTokens
  /\ signIn' = "posting" /\ phoneAuth' = TRUE
  /\ UNCHANGED <<gained, storeVars, effectVars, mobileCall, refreshVars, clear, serverVars,
                 clash, trouble>>

LoginGranted ==
  /\ signIn = "posting" /\ Issue /\ signIn' = "persist" /\ gained' = issued'
  /\ clash' = (Clearing \/ refresh \in {"persist", "set"})
  /\ UNCHANGED <<storeVars, effectVars, mobileCall, refreshVars, clear, phoneAuth, trouble>>

(* The login fails; a 403 clears the session.                               *)
LoginFails ==
  /\ signIn = "posting" /\ signIn' = "none"
  /\ \/ Trouble /\ StartClear
     \/ UNCHANGED <<clear, clash, trouble>>
  /\ UNCHANGED <<gained, storeVars, effectVars, mobileCall, refreshVars, phoneAuth, serverVars>>

LoginPersist ==
  /\ signIn = "persist" /\ signIn' = "set" /\ kept' = gained
  /\ UNCHANGED <<mtoken, hasUser, phase, gate, effectVars, mobileCall, refreshVars,
                 clear, gained, phoneAuth, serverVars, clash, trouble>>

LoginSet ==
  /\ signIn = "set" /\ signIn' = "signout" /\ gained' = 0
  /\ mtoken' = gained /\ hasUser' = TRUE /\ phase' = "authenticated"
  /\ UNCHANGED <<kept, gate, effectVars, mobileCall, refreshVars, clear, phoneAuth,
                 serverVars, clash, trouble>>

LoginSignOut ==
  /\ signIn = "signout" /\ signIn' = "none"
  /\ \/ phoneAuth' = FALSE /\ UNCHANGED trouble
     \/ Trouble /\ UNCHANGED phoneAuth
  /\ UNCHANGED <<gained, storeVars, effectVars, mobileCall, refreshVars, clear, serverVars, clash>>

(* performLogout: the server revokes, or the call is lost; then the clear.   *)
MobileLogout ==
  /\ mtoken # 0
  /\ \/ floor' = issued /\ UNCHANGED trouble
     \/ Trouble /\ UNCHANGED floor
  /\ StartClear
  /\ UNCHANGED <<storeVars, effectVars, mobileCall, refreshVars, loginVars, phoneAuth, issued>>

(* The server revokes the tokens, or they expire.                           *)
ServerRevokes ==
  /\ floor < issued /\ floor' = issued
  /\ UNCHANGED <<storeVars, effectVars, mobileCall, refreshVars, clear, loginVars,
                 phoneAuth, issued, clash, trouble>>

-----------------------------------------------------------------------------
(* The effect of AuthGate runs for a new token or when its retry is due, and *)
(* cancels the run before.  (Bound: it waits for a free run.)               *)
EffectSignedOut ==
  /\ shown # mtoken /\ mtoken = 0
  /\ shown' = 0 /\ synced' = 0 /\ current' = NoRun /\ retryDue' = FALSE
  /\ phase' = "unauthenticated" /\ gate' = NoRun /\ stranded' = FALSE
  /\ UNCHANGED <<mtoken, kept, hasUser, runToken, mobileCall, refreshVars, clear,
                 loginVars, phoneAuth, serverVars, clash, trouble>>

EffectFetches ==
  /\ shown # mtoken \/ retryDue
  /\ mtoken # 0 /\ synced # mtoken
  /\ \E k \in Runs :
       /\ runToken[k] = 0 /\ \A c \in Screens : mobileCall[c].pc = "locked" => mobileCall[c].gate # k
       /\ runToken' = [runToken EXCEPT ![k] = mtoken]
       /\ current' = k /\ gate' = k
       /\ mobileCall' = [mobileCall EXCEPT ![k] = Sent(k, "bootstrapping", k, mtoken, FALSE)]
  /\ shown' = mtoken /\ retryDue' = FALSE /\ phase' = "bootstrapping" /\ stranded' = FALSE
  /\ UNCHANGED <<mtoken, kept, hasUser, synced, refreshVars, clear, loginVars,
                 phoneAuth, serverVars, clash, trouble>>

(* The end of a run, cancelled or not: its promise resolves, and the store's *)
(* is reset, whosever it is.                                                *)
RunEnds(k, pc) ==
  /\ runToken[k] # 0 /\ mobileCall[k].pc = pc
  /\ runToken' = [runToken EXCEPT ![k] = 0] /\ gate' = NoRun
  /\ mobileCall' = [mobileCall EXCEPT ![k] = NoCallYet]

RunSucceeds(k) ==
  /\ RunEnds(k, "done")
  /\ IF k = current
     THEN /\ hasUser' = TRUE /\ synced' = runToken[k]
          /\ phase' = IF mtoken # 0 THEN "authenticated" ELSE phase
     ELSE UNCHANGED <<hasUser, synced, phase>>
  /\ UNCHANGED <<mtoken, kept, shown, current, retryDue, stranded, refreshVars,
                 clear, loginVars, phoneAuth, serverVars, clash, trouble>>

(* Refused, the session is cleared (once more) - or, when a clearing is at   *)
(* the caches, it stays and nothing else is coming; failed, it is tried again. *)
RunRefused(k) ==
  /\ RunEnds(k, "refused")
  /\ IF k = current
     THEN synced' = 0 /\ StartClear /\ stranded' = (clear = "caches")
     ELSE UNCHANGED <<synced, clear, clash, stranded>>
  /\ UNCHANGED <<mtoken, kept, hasUser, phase, shown, current, retryDue,
                 refreshVars, loginVars, phoneAuth, serverVars, trouble>>

(* Mutant: the phone goes to its screens or waits, and no retry is set.     *)
FailsForGood(k) ==
  /\ RunEnds(k, "failed")
  /\ phase' = IF k = current /\ hasUser THEN "unverified" ELSE phase
  /\ UNCHANGED <<mtoken, kept, hasUser, shown, synced, current, retryDue, stranded, refreshVars,
                 clear, loginVars, phoneAuth, serverVars, clash, trouble>>

RunFails(k) ==
  /\ RunEnds(k, "failed")
  /\ IF k = current
     THEN retryDue' = TRUE /\ phase' = IF hasUser THEN "unverified" ELSE "bootstrapping"
     ELSE UNCHANGED <<retryDue, phase>>
  /\ UNCHANGED <<mtoken, kept, hasUser, shown, synced, current, stranded, refreshVars,
                 clear, loginVars, phoneAuth, serverVars, clash, trouble>>

(* The app starts anew: the user and the secure store survive.              *)
AppStarts ==
  /\ Trouble
  /\ mtoken' = kept /\ phase' = IF kept # 0 THEN "bootstrapping" ELSE "unauthenticated"
  /\ gate' = NoRun /\ shown' = 0 /\ synced' = 0 /\ current' = NoRun /\ retryDue' = FALSE
  /\ stranded' = FALSE
  /\ runToken' = [k \in Runs |-> 0] /\ mobileCall' = [c \in MobileCalls |-> NoCallYet]
  /\ refresh' = "none" /\ clear' = "none" /\ signIn' = "none"
  /\ renewed' = 0 /\ gained' = 0 /\ clash' = FALSE
  /\ UNCHANGED <<kept, hasUser, phoneAuth, serverVars>>

-----------------------------------------------------------------------------
CallSteps(c) ==
  \/ MobileUnlock(c)
  \/ AnswerGood(c) \/ AnswerUnauthorized(c) \/ ProfileUnauthorized(c) \/ AnswerForbidden(c) \/ AnswerFails(c)
RefreshSteps == RefreshFails \/ RefreshAsk \/ RefreshGranted \/ RefreshPersist \/ RefreshSet
ClearSteps == ClearSignOut \/ ClearDelete \/ ClearReset \/ ClearCaches
LoginSteps == LoginGranted \/ LoginFails \/ LoginPersist \/ LoginSet \/ LoginSignOut
EffectSteps == EffectSignedOut \/ EffectFetches
RunSteps(k) == RunSucceeds(k) \/ RunRefused(k) \/ RunFails(k)

MobileNext ==
  \/ \E c \in MobileCalls : CallSteps(c)
  \/ \E c \in Screens : ScreenRequests(c)
  \/ RefreshSteps \/ ClearSteps \/ LoginVerify \/ LoginSteps \/ MobileLogout
  \/ ServerRevokes \/ EffectSteps \/ AppStarts
  \/ \E k \in Runs : RunSteps(k)

MobileSpec == MobileInit /\ [][MobileNext]_mobileVars

(* Calls are answered or time out (api.client.ts:68; the refresh's own post   *)
(* has no timeout but the network's), promises that can go on do, React runs *)
(* the effect of what it has rendered and the timer fires.                  *)
MobileFairness ==
  /\ \A c \in MobileCalls : WF_mobileVars(CallSteps(c))
  /\ WF_mobileVars(RefreshSteps) /\ WF_mobileVars(ClearSteps)
  /\ WF_mobileVars(LoginSteps) /\ WF_mobileVars(EffectSteps)
  /\ \A k \in Runs : WF_mobileVars(RunSteps(k))

-----------------------------------------------------------------------------
Pending(c) == mobileCall[c].pc \in {"locked", "sent", "refreshing", "clearing"}

(* Nobody waits on everybody: a request behind the bootstrap, the refresh or *)
(* the clearing of the session is over in the end, and a phone that is       *)
(* bootstrapping gets to its screens or to the login, though the profile     *)
(* fetch the bootstrap waits for may clear the session, and though the run   *)
(* may be cancelled.  But where a refused run joined a clearing that had     *)
(* already reset the store, only a new login, a refresh or a start moves it  *)
(* (api.client.ts:74-170, _layout.tsx:61-139, session.ts:9-25).             *)
AppSettles ==
  /\ \A c \in Screens : []<>~Pending(c)
  /\ []<>(phase # "bootstrapping" \/ stranded)

(* What that rests on, in every state: who waits for a promise waits for one *)
(* that is under way or resolved, along a chain without a circle - requests  *)
(* wait for a run or the refresh, these for the clearing - and a phone that  *)
(* is bootstrapping has its next step coming: the effect for a new token, a  *)
(* run, the retry timer or a clearing that has still to reset the store -     *)
(* unless its last run was refused while a clearing was past that.           *)
EffectDue == shown # mtoken /\ (mtoken # 0 => synced # mtoken)
RetryComes == retryDue /\ mtoken # 0 /\ synced # mtoken
PromisesKept ==
  /\ \A c \in MobileCalls :
       /\ mobileCall[c].pc = "locked" => c \notin Runs /\ mobileCall[c].gate \in Runs
       /\ mobileCall[c].pc = "refreshing" => c \notin Runs /\ refresh # "none"
       /\ mobileCall[c].pc = "clearing" => clear # "none"
  /\ \A k \in Runs : runToken[k] # 0 <=> mobileCall[k].pc # "idle"
NobodyWaitsInVain ==
  /\ PromisesKept
  /\ phase = "bootstrapping" => EffectDue \/ RetryComes \/ Fetching \/ Clearing \/ stranded

(* Once nothing is being stored or cleared, the token the app uses is the    *)
(* one its next start will find, unless the last storing of a token met the  *)
(* clearing of the session or another storing, or the secure store failed to *)
(* delete: and then the next login, logout or start mends it                *)
(* (auth.store.ts:81-124, session.ts:9-25, session-storage.ts:73-86).        *)
StoresAgree == Storing \/ Clearing \/ clash \/ kept = mtoken
=============================================================================
