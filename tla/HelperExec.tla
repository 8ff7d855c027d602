----------------------------- MODULE HelperExec -----------------------------
(***************************************************************************)
(* What the launcher of helper programs promises to the process that asks  *)
(* for one: the call behaves like execve.  Either it fails, and then no    *)
(* helper runs for it, or it succeeds, and then the helper was really      *)
(* executed; the caller's process ends with the helper's own status only   *)
(* after the helper and its children are gone.                             *)
(***************************************************************************)
CONSTANT Calls

VARIABLES
  call,    \* "idle", "asked", "failed", "running", "ended", "lost" or "killed"
  helper   \* "none", "alive", "ended" (by itself), "collected" or "gone" (killed)

vars == <<call, helper>>

Init == call = [c \in Calls |-> "idle"] /\ helper = [c \in Calls |-> "none"]

Ask(c) ==
  /\ call[c] = "idle"
  /\ call' = [call EXCEPT ![c] = "asked"]
  /\ UNCHANGED helper

\* Also for a caller that was killed: its helper is killed in turn.
Execute(c) ==
  /\ call[c] \in {"asked", "killed"}
  /\ helper[c] = "none"
  /\ helper' = [helper EXCEPT ![c] = "alive"]
  /\ UNCHANGED call

\* The helper returns; processes it left in its group may still run.
Finish(c) ==
  /\ helper[c] = "alive"
  /\ helper' = [helper EXCEPT ![c] = "ended"]
  /\ UNCHANGED call

\* Its status is collected, and nothing in its group survives it.
Collect(c) ==
  /\ helper[c] = "ended"
  /\ helper' = [helper EXCEPT ![c] = "collected"]
  /\ UNCHANGED call

\* The helper is killed with its group, or will never be executed.
Discard(c) ==
  /\ call[c] # "idle"
  /\ helper[c] \in {"none", "alive", "ended"}
  /\ helper' = [helper EXCEPT ![c] = "gone"]
  /\ UNCHANGED call

\* After a failure nothing is executed for the call any more.
Fail(c) ==
  /\ call[c] = "asked"
  /\ helper[c] \in {"none", "gone"}
  /\ call' = [call EXCEPT ![c] = "failed"]
  /\ helper' = [helper EXCEPT ![c] = "gone"]

Acknowledge(c) ==
  /\ call[c] = "asked"
  /\ helper[c] # "none"
  /\ call' = [call EXCEPT ![c] = "running"]
  /\ UNCHANGED helper

\* The helper's own status, or none when it was killed.
Return(c) ==
  /\ call[c] = "running"
  /\ \/ helper[c] = "collected" /\ call' = [call EXCEPT ![c] = "ended"]
     \/ helper[c] = "gone" /\ call' = [call EXCEPT ![c] = "lost"]
  /\ UNCHANGED helper

Kill(c) ==
  /\ call[c] \in {"asked", "running"}
  /\ call' = [call EXCEPT ![c] = "killed"]
  /\ UNCHANGED helper

Next ==
  \E c \in Calls :
    \/ Ask(c) \/ Execute(c) \/ Finish(c) \/ Collect(c) \/ Discard(c)
    \/ Fail(c) \/ Acknowledge(c) \/ Return(c) \/ Kill(c)

Spec == Init /\ [][Next]_vars
=============================================================================
