------------------------------ MODULE MCEsOsip ------------------------------
(* Instances of EsOsip for TLC. *)
EXTENDS EsOsip, TLC

CONSTANT MaxFifo   \* bound: the events one transaction may have queued

Symmetry == Permutations(Tid) \cup Permutations(Ev) \cup Permutations(Call)

(* When allocations fail, responses whose wake-up failed can pile up without *)
(* limit in the FIFO of an INVITE transaction: this bounds how many come.    *)
(* The healthy runs need no bound.                                           *)
BoundedResponse == RecvResponse /\ \A t \in Tid : Len(fifo'[t]) <= MaxFifo

BoundedRun ==
  \/ RecvRefused \/ BoundedResponse \/ RecvResponseFails
  \/ RecvAck \/ RecvInvite \/ RecvRequest
  \/ RunWakeup \/ ProcessDone
  \/ LoopPop \/ LoopReturn \/ IstDone \/ NistDone \/ FinishIteration
  \/ \E t \in Tid : ExecuteIst(t) \/ ExecuteNist(t) \/ ExecuteFails(t)

BoundedNext == Poll \/ BoundedRun

BoundedSpec == Init /\ [][BoundedNext]_vars /\ WF_vars(BoundedRun)
=============================================================================
