---------------------------- MODULE CallPromise ----------------------------
(***************************************************************************)
(* What a tool-call transport promises: a call that was asked gets one     *)
(* answer and keeps it, the tool behind it starts once at most, and an     *)
(* answer that carries the tool's result comes after the tool has run to   *)
(* its end.  An error may be answered whatever has become of the tool.     *)
(***************************************************************************)
CONSTANTS Calls,    \* call ids
          Results,  \* answers that carry what the tool returned
          Errors    \* answers that say the result is not known

VARIABLES status,   \* status[c]: "idle", "asked", or the answer
          effect    \* effect[c]: "none", "running", "done", "killed"

vars == <<status, effect>>

Init ==
  /\ status = [c \in Calls |-> "idle"]
  /\ effect = [c \in Calls |-> "none"]

Ask(c) ==
  /\ status[c] = "idle"
  /\ status' = [status EXCEPT ![c] = "asked"]
  /\ UNCHANGED effect

Answer(c) ==
  /\ status[c] = "asked"
  /\ \/ \E r \in Errors : status' = [status EXCEPT ![c] = r]
     \/ /\ effect[c] = "done"
        /\ \E r \in Results : status' = [status EXCEPT ![c] = r]
  /\ UNCHANGED effect

Start(c) ==
  /\ status[c] # "idle" /\ effect[c] = "none"
  /\ effect' = [effect EXCEPT ![c] = "running"]
  /\ UNCHANGED status

(* Tools end by themselves or are killed, several at once with a process.  *)
End ==
  /\ \E ended \in SUBSET {c \in Calls : effect[c] = "running"} :
       \E how \in [ended -> {"done", "killed"}] :
         effect' = [c \in Calls |-> IF c \in ended THEN how[c] ELSE effect[c]]
  /\ UNCHANGED status

Next == (\E c \in Calls : Ask(c) \/ Answer(c) \/ Start(c)) \/ End

Spec == Init /\ [][Next]_vars

(* Every call that was asked is answered.                                  *)
FairSpec == Spec /\ \A c \in Calls : WF_vars(Answer(c))
=============================================================================
