--------------------------- MODULE LoginDebounce ---------------------------
(***************************************************************************)
(* The timing of maybeLogin() in src/index.js: when a caller without a     *)
(* token logs in at once, how long it waits for the debounce period, and   *)
(* how the period is doubled and reset.  Tokens are reduced to whether     *)
(* there is one and the token file to a read that finds none; both are in  *)
(* module TokenSession.                                                    *)
(*                                                                         *)
(* Time is kept as ages, the time passed since an event, instead of clock  *)
(* readings.  An age stops at Old, which is beyond every limit the code    *)
(* compares it with, so the model is finite and time has no end.           *)
(***************************************************************************)
EXTENDS Naturals

CONSTANTS
  Callers,      \* concurrent calls of maybeLogin()
  Base,         \* initial debounce period (1 s in the code)
  Poll,         \* sleep of waitForDebounceClearance() (2 s)
  Cap,          \* longest debounce period (5 min)
  ResetAfter,   \* age at which the period is reset (12 h)
  MaxDetached   \* bound: unawaited logins in flight

ASSUME DebounceAssumption ==
  /\ Base \in Nat \ {0} /\ Poll \in Nat \ {0}
  /\ Cap \in Nat /\ Base <= Cap
  /\ ResetAfter \in Nat /\ Cap <= ResetAfter
  /\ MaxDetached \in Nat

VARIABLES
  token,      \* this.access_token is not empty
  age,        \* Date.now() - this.lastLoginAttempt
  debounce,   \* this.loginAttemptDebounceMilliseconds
  pc,         \* where each caller is in maybeLogin()
  elapsed,    \* time since a waiting caller read Date.now()
  waited,     \* its waitTime
  nap,        \* what is left of its sleep; at 0 the timer may fire
  detached,   \* logins of updateDebounceAndLogin() in flight
  realAge     \* history: time since a login was last started

clock == <<age, elapsed, nap, realAge>>
vars  == <<token, age, debounce, pc, elapsed, waited, nap, detached, realAge>>

Old == ResetAfter + 1
Older(a) == IF a < Old THEN a + 1 ELSE a
\* Mutant: the period is not capped.
Smaller_Uncapped(a, b) == a
Smaller(a, b) == IF a < b THEN a ELSE b

Init ==
  /\ token = FALSE
  /\ age = Old /\ realAge = Old           \* lastLoginAttempt = 0
  /\ debounce = Base
  /\ pc = [c \in Callers |-> "idle"]
  /\ elapsed = [c \in Callers |-> 0]
  /\ waited = [c \in Callers |-> 0]
  /\ nap = [c \in Callers |-> 0]
  /\ detached = 0

\* maybeLogin() up to the read of the token file.
MaybeLogin(c) ==
  /\ pc[c] = "idle" /\ ~token
  /\ pc' = [pc EXCEPT ![c] = "loading"]
  /\ UNCHANGED <<token, clock, debounce, waited, detached>>

\* Another call obtained a token during the read.
TokenAppeared(c) ==
  /\ pc[c] = "loading" /\ token
  /\ pc' = [pc EXCEPT ![c] = "idle"]
  /\ UNCHANGED <<token, clock, debounce, waited, detached>>

IsDebounceCleared == debounce < age

\* resetDebounceIfNeeded() and tryLogin()
TryLogin(c) ==
  /\ pc[c] = "loading" /\ ~token
  /\ IsDebounceCleared
  /\ debounce' = IF age > ResetAfter THEN Base ELSE debounce
  /\ age' = 0 /\ realAge' = 0
  /\ pc' = [pc EXCEPT ![c] = "login"]
  /\ UNCHANGED <<token, elapsed, waited, nap, detached>>

\* Mutant: the first sleep lasts one unit.
StartWaiting_ShortSleep(c) ==
  /\ pc[c] = "loading" /\ ~token
  /\ ~IsDebounceCleared
  /\ pc' = [pc EXCEPT ![c] = "waiting"]
  /\ elapsed' = [elapsed EXCEPT ![c] = 0]
  /\ waited' = [waited EXCEPT ![c] = 0]
  /\ nap' = [nap EXCEPT ![c] = 1]
  /\ UNCHANGED <<token, age, debounce, detached, realAge>>

\* waitForDebounceClearance() up to its first sleep.
StartWaiting(c) ==
  /\ pc[c] = "loading" /\ ~token
  /\ ~IsDebounceCleared
  /\ pc' = [pc EXCEPT ![c] = "waiting"]
  /\ elapsed' = [elapsed EXCEPT ![c] = 0]
  /\ waited' = [waited EXCEPT ![c] = 0]
  /\ nap' = [nap EXCEPT ![c] = Poll]
  /\ UNCHANGED <<token, age, debounce, detached, realAge>>

\* The caller leaves the loop; its waiting time is of no use any more.
LeaveLoop(c) ==
  /\ pc' = [pc EXCEPT ![c] = "idle"]
  /\ elapsed' = [elapsed EXCEPT ![c] = 0]
  /\ waited' = [waited EXCEPT ![c] = 0]
  /\ nap' = [nap EXCEPT ![c] = 0]

\* Mutant: the last sleep is not counted.
WaitOver_Uncounted(c) == waited[c] >= debounce

\* The condition of the loop after the sleep that just ended.
WaitOver(c) == waited[c] + Poll >= debounce

\* Mutant: waitTime is not advanced.
SleepAgain_Uncounted(c) ==
  /\ ~token /\ ~WaitOver(c)
  /\ nap' = [nap EXCEPT ![c] = Poll]
  /\ UNCHANGED <<age, debounce, pc, elapsed, waited, detached, realAge>>

SleepAgain(c) ==
  /\ ~token /\ ~WaitOver(c)
  /\ waited' = [waited EXCEPT ![c] = @ + Poll]
  /\ nap' = [nap EXCEPT ![c] = Poll]
  /\ UNCHANGED <<age, debounce, pc, elapsed, detached, realAge>>

\* With the time read before the wait; the login is not awaited.
UpdateDebounceAndLogin(c) ==
  /\ ~token /\ WaitOver(c)
  /\ detached < MaxDetached
  /\ LeaveLoop(c)
  /\ age' = elapsed[c] /\ realAge' = 0
  /\ debounce' = Smaller(2 * debounce, Cap)
  /\ detached' = detached + 1

\* A sleep ends: return with a token, sleep again, or log in.
Wake(c) ==
  /\ pc[c] = "waiting" /\ nap[c] = 0
  /\ \/ /\ token
        /\ LeaveLoop(c)
        /\ UNCHANGED <<age, debounce, detached, realAge>>
     \/ SleepAgain(c)
     \/ UpdateDebounceAndLogin(c)
  /\ UNCHANGED token

\* login() ends: a token, an error, or wrong credentials, which clear a token
\* that another call obtained.
LoginEnds(c) ==
  /\ pc[c] = "login"
  /\ pc' = [pc EXCEPT ![c] = "idle"]
  /\ token' \in {TRUE, token, FALSE}
  /\ UNCHANGED <<clock, debounce, waited, detached>>

DetachedLoginEnds ==
  /\ detached > 0
  /\ detached' = detached - 1
  /\ token' \in {TRUE, token, FALSE}
  /\ UNCHANGED <<clock, debounce, pc, waited>>

\* The service refuses the token and a call clears it.
TokenCleared ==
  /\ token
  /\ token' = FALSE
  /\ UNCHANGED <<clock, debounce, pc, waited, detached>>

\* Timers may fire late, so time also passes while a sleep is over.
Tick ==
  /\ age' = Older(age) /\ realAge' = Older(realAge)
  /\ elapsed' = [c \in Callers |-> IF pc[c] = "waiting" THEN Older(elapsed[c])
                                                        ELSE elapsed[c]]
  /\ nap' = [c \in Callers |-> IF nap[c] > 0 THEN nap[c] - 1 ELSE 0]
  /\ UNCHANGED <<token, debounce, pc, waited, detached>>

Proceed(c) == TokenAppeared(c) \/ TryLogin(c) \/ StartWaiting(c) \/ Wake(c)
                \/ LoginEnds(c)

Next ==
  \/ \E c \in Callers : MaybeLogin(c) \/ Proceed(c)
  \/ DetachedLoginEnds \/ TokenCleared \/ Tick

Spec == Init /\ [][Next]_vars

\* Time passes, timers fire, files are read and login requests are answered.
\* A caller that needs a free slot for its unawaited login finds one again and
\* again, hence strong fairness; the code has no such limit.
FairSpec == /\ Spec
            /\ WF_vars(Tick) /\ WF_vars(DetachedLoginEnds)
            /\ \A c \in Callers : SF_vars(Proceed(c))

-----------------------------------------------------------------------------
TypeOK ==
  /\ token \in BOOLEAN
  /\ age \in 0..Old /\ realAge \in 0..Old
  /\ debounce \in Base..Cap
  /\ pc \in [Callers -> {"idle", "loading", "waiting", "login"}]
  /\ elapsed \in [Callers -> 0..Old]
  /\ waited \in [Callers -> Nat]
  /\ nap \in [Callers -> 0..Poll]
  /\ detached \in 0..MaxDetached

\* The loop of waitForDebounceClearance() reads the period anew in every
\* round, and other callers double or reset it meanwhile.  However they do, no
\* caller sleeps again once it has waited for the longest period.
WaitBounded == \A c \in Callers : pc[c] = "waiting" => waited[c] < Cap

\* An unawaited login is only started by a caller that really has waited for
\* the whole period in force when it starts, timers and late wake-ups
\* included.
LoginAfterFullWait ==
  [][\A c \in Callers :
       pc[c] = "waiting" /\ detached' = detached + 1 /\ pc'[c] # "waiting"
         => elapsed[c] >= debounce]_vars

\* maybeLogin() always returns to its caller.
MaybeLoginReturns == \A c \in Callers : pc[c] # "idle" ~> pc[c] = "idle"

\* What the comment on maybeLogin() says: "considering debounce settings to
\* avoid multiple login attempts".  No login starts within the debounce
\* period after another one.
LoginStarts == \/ \E c \in Callers : pc[c] # "login" /\ pc'[c] = "login"
               \/ detached' > detached

LoginsSpaced == [][LoginStarts => realAge > debounce]_vars
=============================================================================
