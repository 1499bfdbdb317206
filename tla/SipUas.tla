------------------------------- MODULE SipUas -------------------------------
(***************************************************************************)
(* What esip promises to the SIP callers, without its event loop, its       *)
(* wake-ups and its queues: the requests it accepts are served one at a     *)
(* time, each INVITE, REGISTER and BYE is answered exactly once, and the    *)
(* answer to an INVITE confirms a dialog.  A request here is one received   *)
(* copy: esip takes a retransmission for another request.  When allocations *)
(* may fail, what is left of this is that no request is answered twice,     *)
(* nothing else is answered, and a dialog comes only with the answer to its *)
(* INVITE.                                                                  *)
(***************************************************************************)
EXTENDS Naturals

CONSTANTS
  Tid,            \* the requests that can be accepted
  MemoryMayFail   \* may an allocation fail?

VARIABLES
  kind,      \* the method of each accepted request, "none" for the others
  answers,   \* how often each request was answered
  dialogs    \* the INVITEs whose answer confirmed a dialog

uasVars == <<kind, answers, dialogs>>

Method == {"INVITE", "REGISTER", "BYE", "OTHER"}
Answered == {"INVITE", "REGISTER", "BYE"}

Init ==
  /\ kind = [t \in Tid |-> "none"]
  /\ answers = [t \in Tid |-> 0]
  /\ dialogs = {}

(* A request that waits for its answer. *)
Waiting(t) == kind[t] \in Answered /\ answers[t] = 0

(* The next request is accepted when none waits.  One whose wake-up or      *)
(* answer found no memory may wait for ever.                                *)
Accept(t) ==
  /\ kind[t] = "none"
  /\ MemoryMayFail \/ \A u \in Tid : ~Waiting(u)
  /\ \E k \in Method : kind' = [kind EXCEPT ![t] = k]
  /\ UNCHANGED <<answers, dialogs>>

(* An INVITE is answered and its dialog, if there is memory for it,         *)
(* confirmed in one step.                                                   *)
Answer(t) ==
  /\ Waiting(t)
  /\ answers' = [answers EXCEPT ![t] = 1]
  /\ \/ dialogs' = IF kind[t] = "INVITE" THEN dialogs \cup {t} ELSE dialogs
     \/ MemoryMayFail /\ UNCHANGED dialogs
  /\ UNCHANGED kind

Next == \E t \in Tid : Accept(t) \/ Answer(t)

Spec == Init /\ [][Next]_uasVars

(* While memory lasts the answer does not wait for further traffic. *)
FairSpec == Spec /\ WF_uasVars(\E t \in Tid : Answer(t))
=============================================================================
