-------------------------- MODULE CaptureContract --------------------------
(***************************************************************************)
(* What captureStreamFrame() promises to its callers, without signaling,   *)
(* ffmpeg, ports or timers: a capture acquires resources while it is busy, *)
(* settles once, and holds nothing afterwards.                             *)
(***************************************************************************)
CONSTANTS Captures, Resources

VARIABLES
  phase,   \* "idle", "busy", "returned" or "failed"
  held     \* the resources each capture has to release

vars == <<phase, held>>

Init ==
  /\ phase = [c \in Captures |-> "idle"]
  /\ held = [c \in Captures |-> {}]

Begin(c) ==
  /\ phase[c] # "busy"
  /\ phase' = [phase EXCEPT ![c] = "busy"]
  /\ held' = [held EXCEPT ![c] = {}]

\* Resources are acquired, or end by themselves.
Work(c) ==
  /\ phase[c] = "busy"
  /\ \E set \in SUBSET Resources : held' = [held EXCEPT ![c] = set]
  /\ UNCHANGED phase

\* A capture that fails before it holds anything may leave the SDP file that
\* could not be written completely.
Settle(c) ==
  /\ phase[c] = "busy"
  /\ \/ /\ \E o \in {"returned", "failed"} : phase' = [phase EXCEPT ![c] = o]
        /\ held' = [held EXCEPT ![c] = {}]
     \/ /\ held[c] = {}
        /\ phase' = [phase EXCEPT ![c] = "failed"]
        /\ held' = [held EXCEPT ![c] = {"sdp"}]

Next == \E c \in Captures : Begin(c) \/ Work(c) \/ Settle(c)

Safety == Init /\ [][Next]_vars

Spec == Safety /\ \A c \in Captures : WF_vars(Settle(c))
=============================================================================
