------------------------------- MODULE MCEsNet -------------------------------
(* Instances of EsNet for TLC. *)
EXTENDS EsNet

CONSTANTS t1, t2, t3, t4, e1, e2

Tids == <<t1, t2, t3, t4>>
Evs == <<e1, e2>>

(* Memory has no names: a new transaction or event takes the first that is  *)
(* free, which leaves out only states that differ by a permutation.         *)
FirstFree ==
  /\ \A i, j \in DOMAIN Tids :
       tstate[Tids[j]] = "none" /\ tstate'[Tids[j]] # "none" /\ i < j =>
         tstate[Tids[i]] # "none"
  /\ \A i, j \in DOMAIN Evs :
       Evs[j] \in live' \ live /\ i < j => Evs[i] \in live

(* The callers and the network share only the wire and the queue with the   *)
(* thread, which adds to the one and takes from the other: what they do     *)
(* while it works could as well be done before or after, at the poll.       *)
Outside ==
  /\ pc \in {"poll", "crashed"}
  /\ \/ \E b \in Branch : Ask(b) \/ Retransmit(b)
     \/ \E d \in BagToSet(wire) : ReceiveAnswer(d) \/ Lose(d) \/ Arrive(d)

MCNext == Outside \/ (Core /\ FirstFree)

MCSpec == NetInit /\ [][MCNext]_netVars /\ Fairness
==============================================================================
