--------------------------- MODULE RequestContract ---------------------------
(***************************************************************************)
(* What the library promises to the callers of one API operation, without  *)
(* tokens, logins, refreshes or files: a call sends a bounded number of    *)
(* API requests, returns only after one of them, and settles.  The process *)
(* may stop at any time and takes its unsettled calls with it.             *)
(***************************************************************************)
EXTENDS Naturals

CONSTANTS Calls, MaxSends

VARIABLES
  active,   \* calls that have not settled yet
  sends,    \* API requests each active call has sent
  outcome   \* how the last call of each caller settled

vars == <<active, sends, outcome>>

Outcomes == {"none", "returned", "failed"}

Init ==
  /\ active = {}
  /\ sends = [c \in Calls |-> 0]
  /\ outcome = [c \in Calls |-> "none"]

\* A call begins; with a token at hand its request goes out at once.
Begin(c) ==
  /\ c \notin active
  /\ active' = active \cup {c}
  /\ \E n \in {0, 1} : sends' = [sends EXCEPT ![c] = n]
  /\ outcome' = [outcome EXCEPT ![c] = "none"]

Send(c) ==
  /\ c \in active
  /\ sends[c] < MaxSends
  /\ sends' = [sends EXCEPT ![c] = @ + 1]
  /\ UNCHANGED <<active, outcome>>

Settle(c) ==
  /\ c \in active
  /\ \E o \in {"failed"} \cup {x \in {"returned"} : sends[c] > 0} :
       outcome' = [outcome EXCEPT ![c] = o]
  /\ active' = active \ {c}
  /\ sends' = [sends EXCEPT ![c] = 0]

Stop ==
  /\ active' = {}
  /\ sends' = [c \in Calls |-> 0]
  /\ outcome' = [c \in Calls |-> "none"]

Next == Stop \/ \E c \in Calls : Begin(c) \/ Send(c) \/ Settle(c)

Safety == Init /\ [][Next]_vars

Spec == Safety /\ \A c \in Calls : WF_vars(Settle(c))
=============================================================================
