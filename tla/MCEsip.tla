------------------------------- MODULE MCEsip -------------------------------
(* An instance of Esip for TLC. *)
EXTENDS Esip

CONSTANTS t1, t2, e1, e2

Tids == <<t1, t2>>
Evs == <<e1, e2>>

(* Memory has no names: a new transaction or event takes the first that is  *)
(* free, which leaves out only states that differ by a permutation.         *)
FirstFree ==
  /\ \A i, j \in DOMAIN Tids :
       tstate[Tids[j]] = "none" /\ tstate'[Tids[j]] # "none" /\ i < j =>
         tstate[Tids[i]] # "none"
  /\ \A i, j \in DOMAIN Evs :
       Evs[j] \in live' \ live /\ i < j => Evs[i] \in live

(* The sessions share nothing with the loop, and a signal or connection     *)
(* that comes while a callback runs is seen by the next poll: the one may   *)
(* as well come at the poll before, and what the sessions do may as well be *)
(* done when the loop has ended, before main stops the listener.  Once it   *)
(* has ended signals and connections do nothing.                            *)
Outside ==
  /\ pc = "poll"
  /\ IF at \in Up \cup {"loop"}
     THEN \/ Sigint
          \/ Connect /\ \E c \in Conn : thread[c] = "none"
     ELSE SessionStep

MCNext == ~crashed /\ (Outside \/ (MainNext /\ FirstFree))

MCSpec == EsipInit /\ [][MCNext]_esipVars /\ MainFairness
==============================================================================
