------------------------ MODULE LoginDebounceProofs ------------------------
(***************************************************************************)
(* Proofs about LoginDebounce, for any number of callers and any periods.  *)
(***************************************************************************)
EXTENDS LoginDebounce, TLAPS

\* A waiting caller has really slept what its waitTime says: the time since it
\* began to wait, with what is left of the current sleep, covers waitTime and
\* that sleep, unless the time is beyond all limits anyway.
SleptEnough ==
  \A c \in Callers : pc[c] = "waiting" =>
    elapsed[c] = Old \/ elapsed[c] + nap[c] >= waited[c] + Poll

\* The inductive invariant.
IInv == TypeOK /\ WaitBounded /\ SleptEnough

LEMMA InitInv == Init => IInv
<1> SUFFICES ASSUME Init PROVE IInv
  OBVIOUS
<1> USE DebounceAssumption DEF Init
<1>1. TypeOK
  <2>1. token \in BOOLEAN
    BY Zenon
  <2>2. /\ age \in 0..Old /\ realAge \in 0..Old /\ debounce \in Base..Cap
        /\ detached \in 0..MaxDetached
    BY DEF Old
  <2>3. /\ elapsed \in [Callers -> 0..Old] /\ waited \in [Callers -> Nat]
        /\ nap \in [Callers -> 0..Poll]
    BY DEF Old
  <2>4. pc \in [Callers -> {"idle", "loading", "waiting", "login"}]
    OBVIOUS
  <2> QED BY <2>1, <2>2, <2>3, <2>4 DEF TypeOK
<1>2. WaitBounded /\ SleptEnough
  BY DEF WaitBounded, SleptEnough
<1> QED BY <1>1, <1>2 DEF IInv

LEMMA StepInv == IInv /\ [Next]_vars => IInv'
<1> SUFFICES ASSUME IInv, [Next]_vars PROVE IInv'
  OBVIOUS
<1> USE DebounceAssumption DEF IInv, TypeOK, WaitBounded, SleptEnough, Old
<1>1. ASSUME NEW c \in Callers, MaybeLogin(c) PROVE IInv'
  BY <1>1 DEF MaybeLogin, clock
<1>2. ASSUME NEW c \in Callers, TokenAppeared(c) PROVE IInv'
  BY <1>2 DEF TokenAppeared, clock
<1>3. ASSUME NEW c \in Callers, TryLogin(c) PROVE IInv'
  BY <1>3 DEF TryLogin
<1>4. ASSUME NEW c \in Callers, StartWaiting(c) PROVE IInv'
  BY <1>4 DEF StartWaiting
<1>5. ASSUME NEW c \in Callers, Wake(c) PROVE IInv'
  <2>1. CASE token
    BY <1>5, <2>1 DEF Wake, SleepAgain, UpdateDebounceAndLogin, WaitOver, LeaveLoop
  <2>2. CASE ~token /\ waited[c] + Poll < debounce
    BY <1>5, <2>2 DEF Wake, SleepAgain, UpdateDebounceAndLogin, WaitOver
  <2>3. CASE ~token /\ waited[c] + Poll >= debounce
    BY <1>5, <2>3
    DEF Wake, SleepAgain, UpdateDebounceAndLogin, WaitOver, LeaveLoop, Smaller
  <2> QED BY <2>1, <2>2, <2>3
<1>6. ASSUME NEW c \in Callers, LoginEnds(c) PROVE IInv'
  BY <1>6, Zenon DEF LoginEnds, clock
<1>7. CASE DetachedLoginEnds
  <2>1. token' \in BOOLEAN
    BY <1>7, Zenon DEF DetachedLoginEnds
  <2>2. detached' \in 0..MaxDetached
    BY <1>7 DEF DetachedLoginEnds
  <2>3. UNCHANGED <<clock, debounce, pc, waited>>
    BY <1>7 DEF DetachedLoginEnds
  <2> QED BY <2>1, <2>2, <2>3 DEF clock
<1>8. CASE TokenCleared
  BY <1>8, Zenon DEF TokenCleared, clock
<1>9. CASE Tick
  BY <1>9, SMTT(30) DEF Tick, Older
<1>10. CASE UNCHANGED vars
  BY <1>10 DEF vars
<1> QED
  BY <1>1, <1>2, <1>3, <1>4, <1>5, <1>6, <1>7, <1>8, <1>9, <1>10
  DEF Next, Proceed

\* The variables of maybeLogin()'s timing keep their types, for any number of
\* concurrent callers.
THEOREM TypeCorrect == Spec => []TypeOK
  BY InitInv, StepInv, PTL DEF Spec, IInv

\* No caller of maybeLogin() sleeps again once it has waited for the longest
\* debounce period, whatever other callers do to the period.
THEOREM WaitIsBounded == Spec => []WaitBounded
  BY InitInv, StepInv, PTL DEF Spec, IInv

\* updateDebounceAndLogin() is only reached after a wait that covered the whole
\* period in force.
THEOREM FullWait == Spec => LoginAfterFullWait
<1>1. IInv /\ [Next]_vars =>
        [\A c \in Callers :
           pc[c] = "waiting" /\ detached' = detached + 1 /\ pc'[c] # "waiting"
             => elapsed[c] >= debounce]_vars
  <2> SUFFICES ASSUME IInv, Next, NEW c \in Callers,
                      pc[c] = "waiting", detached' = detached + 1,
                      pc'[c] # "waiting"
               PROVE  elapsed[c] >= debounce
    OBVIOUS
  <2> USE DebounceAssumption DEF IInv, TypeOK, SleptEnough, Old
  <2>0. detached' # detached /\ detached' # detached - 1
    OBVIOUS
  <2>1. \E d \in Callers : Wake(d)
    BY <2>0, Zenon
    DEF Next, Proceed, MaybeLogin, TokenAppeared, TryLogin, StartWaiting,
        LoginEnds, DetachedLoginEnds, TokenCleared, Tick
  <2>2. PICK d \in Callers : Wake(d) /\ waited[d] + Poll >= debounce
    BY <2>0, <2>1 DEF Wake, SleepAgain, UpdateDebounceAndLogin, WaitOver
  <2>3. d = c
    BY <2>2 DEF Wake, SleepAgain, UpdateDebounceAndLogin, WaitOver, LeaveLoop
  <2> QED BY <2>2, <2>3 DEF Wake, SleepAgain, UpdateDebounceAndLogin, WaitOver
<1> QED BY <1>1, InitInv, StepInv, PTL DEF Spec, LoginAfterFullWait
=============================================================================
