------------------------------ MODULE EsOsipLoop ------------------------------
(***************************************************************************)
(* The measure behind ReturnsToPoll: every step of a pass leaves less to    *)
(* do, for every finite memory and whichever allocations fail.              *)
(***************************************************************************)
EXTENDS EsOsipProofs, FiniteSetTheorems

(* The parts of Work. *)
Readable == Cardinality(active \cap {Udp})
Requests == Cardinality(Unserved)
Wakeups == Cardinality(active \ {Udp})
Events == Cardinality(Backlog)

(* Less compares them in their order, *)
LEMMA LessWork ==
  ASSUME \/ Readable' < Readable
         \/ /\ Readable' = Readable
            /\ \/ Requests' < Requests
               \/ /\ Requests' = Requests
                  /\ \/ Len(pendingEv') < Len(pendingEv)
                     \/ /\ Len(pendingEv') = Len(pendingEv)
                        /\ \/ Wakeups' < Wakeups
                           \/ /\ Wakeups' = Wakeups
                              /\ \/ Place(pc') < Place(pc)
                                 \/ /\ Place(pc') = Place(pc)
                                    /\ Events' < Events
  PROVE  Less(Work', Work)
  <1> DEFINE v == Work'
             w == Work
  <1>1. /\ v[1] = Readable' /\ v[2] = Requests' /\ v[3] = Len(pendingEv')
        /\ v[4] = Wakeups' /\ v[5] = Place(pc') /\ v[6] = Events'
    BY DEF Work, Readable, Requests, Wakeups, Events
  <1>2. /\ w[1] = Readable /\ w[2] = Requests /\ w[3] = Len(pendingEv)
        /\ w[4] = Wakeups /\ w[5] = Place(pc) /\ w[6] = Events
    BY DEF Work, Readable, Requests, Wakeups, Events
  <1> HIDE DEF v, w
  <1>3. \/ v[1] < w[1]
        \/ v[1] = w[1] /\ v[2] < w[2]
        \/ v[1] = w[1] /\ v[2] = w[2] /\ v[3] < w[3]
        \/ v[1] = w[1] /\ v[2] = w[2] /\ v[3] = w[3] /\ v[4] < w[4]
        \/ v[1] = w[1] /\ v[2] = w[2] /\ v[3] = w[3] /\ v[4] = w[4] /\ v[5] < w[5]
        \/ v[1] = w[1] /\ v[2] = w[2] /\ v[3] = w[3] /\ v[4] = w[4] /\ v[5] = w[5] /\ v[6] < w[6]
    BY <1>1, <1>2
  <1>4. Less(v, w)
    <2>1. \A k \in 1 .. 6 : v[k] < w[k] /\ (\A j \in 1 .. k - 1 : v[j] = w[j]) => Less(v, w)
      BY DEF Less
    <2>2. CASE v[1] < w[1]
      BY <2>1, <2>2
    <2>3. CASE v[1] = w[1] /\ v[2] < w[2]
      BY <2>1, <2>3
    <2>4. CASE v[1] = w[1] /\ v[2] = w[2] /\ v[3] < w[3]
      <3>1. \A j \in 1 .. 2 : v[j] = w[j]
        BY <2>4
      <3> QED BY <2>1, <2>4, <3>1
    <2>5. CASE v[1] = w[1] /\ v[2] = w[2] /\ v[3] = w[3] /\ v[4] < w[4]
      <3>1. \A j \in 1 .. 3 : v[j] = w[j]
        BY <2>5
      <3> QED BY <2>1, <2>5, <3>1
    <2>6. CASE v[1] = w[1] /\ v[2] = w[2] /\ v[3] = w[3] /\ v[4] = w[4] /\ v[5] < w[5]
      <3>1. \A j \in 1 .. 4 : v[j] = w[j]
        BY <2>6
      <3> QED BY <2>1, <2>6, <3>1
    <2>7. CASE v[1] = w[1] /\ v[2] = w[2] /\ v[3] = w[3] /\ v[4] = w[4] /\ v[5] = w[5] /\ v[6] < w[6]
      <3>1. \A j \in 1 .. 5 : v[j] = w[j]
        BY <2>7
      <3> QED BY <2>1, <2>7, <3>1
    <2> QED BY <1>3, <2>2, <2>3, <2>4, <2>5, <2>6, <2>7
  <1> QED BY <1>4 DEF v, w

(* and they are numbers when memory is finite. *)
LEMMA WorkTypes ==
  ASSUME TypeOK, IsFiniteSet(Tid), IsFiniteSet(Ev)
  PROVE  /\ IsFiniteSet(active \cap {Udp}) /\ IsFiniteSet(Unserved)
         /\ IsFiniteSet(active \ {Udp}) /\ IsFiniteSet(Backlog)
         /\ Readable \in Nat /\ Requests \in Nat /\ Wakeups \in Nat /\ Events \in Nat
         /\ Len(pendingEv) \in Nat
  <1>1. active \ {Udp} \in SUBSET Ev /\ Unserved \in SUBSET Tid
    BY DEF TypeOK, Unserved
  <1>2. IsFiniteSet(active \ {Udp}) /\ IsFiniteSet(Unserved)
    BY <1>1, FS_Subset
  <1>3. IsFiniteSet(active \cap {Udp})
    BY FS_Singleton, FS_Subset, active \cap {Udp} \in SUBSET {Udp}
  <1>4. IsFiniteSet(Backlog)
    <2>1. \A t \in Tid : IsFiniteSet({t} \X DOMAIN fifo[t])
      <3> TAKE t \in Tid
      <3>1. Len(fifo[t]) \in Nat /\ DOMAIN fifo[t] = 1 .. Len(fifo[t])
        BY LenProperties DEF TypeOK
      <3>2. IsFiniteSet(1 .. Len(fifo[t]))
        BY <3>1, FS_Interval
      <3>3. IsFiniteSet({t})
        BY FS_Singleton
      <3> QED BY <3>1, <3>2, <3>3, FS_Product
    <2>2. IsFiniteSet({{t} \X DOMAIN fifo[t] : t \in Tid})
      <3> DEFINE f == [t \in Tid |-> {t} \X DOMAIN fifo[t]]
                 S == {{t} \X DOMAIN fifo[t] : t \in Tid}
      <3>1. f \in Surjection(Tid, S)
        BY DEF Surjection
      <3> HIDE DEF f, S
      <3>2. IsFiniteSet(S)
        BY <3>1, FS_Surjection DEF ExistsSurjection
      <3> QED BY <3>2 DEF S
    <2> QED BY <2>1, <2>2, FS_UNION DEF Backlog
  <1> QED BY <1>2, <1>3, <1>4, FS_CardinalityType, LenProperties
          DEF TypeOK, Readable, Requests, Wakeups, Events
-----------------------------------------------------------------------------
(* The steps *)

(* A finite set without one of its elements is smaller. *)
LEMMA SmallerSet ==
  ASSUME NEW S, IsFiniteSet(S), NEW x \in S
  PROVE  Cardinality(S \ {x}) < Cardinality(S)
  <1>1. Cardinality(S) \in Nat
    BY FS_CardinalityType
  <1>2. Cardinality(S \ {x}) = Cardinality(S) - 1
    BY FS_RemoveElement
  <1> QED BY <1>1, <1>2

(* Taking the oldest event of a transaction leaves one event less. *)
LEMMA TakeShrinks ==
  ASSUME TypeOK, IsFiniteSet(Backlog), NEW t \in Tid, fifo[t] # <<>>,
         fifo' = [fifo EXCEPT ![t] = Tail(@)]
  PROVE  Events' < Events
  <1>1. fifo[t] \in Seq(FifoEvent) /\ fifo \in [Tid -> Seq(FifoEvent)]
    BY DEF TypeOK
  <1>2. Tail(fifo[t]) \in Seq(FifoEvent) /\ Len(Tail(fifo[t])) = Len(fifo[t]) - 1
    BY <1>1, HeadTailProperties
  <1>3. /\ Len(fifo[t]) \in Nat \ {0} /\ DOMAIN fifo[t] = 1 .. Len(fifo[t])
        /\ DOMAIN fifo'[t] = 1 .. Len(fifo[t]) - 1
    BY <1>1, <1>2, EmptySeq, LenProperties
  <1> DEFINE last == <<t, Len(fifo[t])>>
  <1>4. \A u \in Tid \ {t} : fifo'[u] = fifo[u]
    BY <1>1
  <1>5. Backlog' = Backlog \ {last}
    <2>1. \A x : x \in Backlog <=> \E u \in Tid : \E i \in DOMAIN fifo[u] : x = <<u, i>>
      BY DEF Backlog
    <2>2. \A x : x \in Backlog' <=> \E u \in Tid : \E i \in DOMAIN fifo'[u] : x = <<u, i>>
      BY DEF Backlog
    <2>3. \A u \in Tid : \A i : i \in DOMAIN fifo'[u] <=> i \in DOMAIN fifo[u] /\ <<u, i>> # last
      BY <1>3, <1>4
    <2> HIDE DEF last
    <2> QED BY <2>1, <2>2, <2>3
  <1>6. last \in Backlog
    BY <1>3 DEF Backlog
  <1> HIDE DEF last
  <1> QED BY <1>5, <1>6, SmallerSet DEF Events

(* A request that its state machine has taken is one request less. *)
LEMMA ServeShrinks ==
  ASSUME TypeOK, IsFiniteSet(Unserved), NEW t \in Unserved, NEW state,
         state \notin {"IST_PRE_PROCEEDING", "NIST_PRE_TRYING"},
         tstate' = [tstate EXCEPT ![t] = state]
  PROVE  Requests' < Requests
  <1>1. Unserved' = Unserved \ {t}
    BY DEF Unserved, TypeOK
  <1>2. Cardinality(Unserved') < Cardinality(Unserved)
    BY <1>1, SmallerSet
  <1> QED BY <1>2 DEF Requests

(* No other step of a transaction changes the requests. *)
LEMMA ServedStays ==
  ASSUME TypeOK, NEW t \in Tid \ Unserved, NEW state,
         state \notin {"IST_PRE_PROCEEDING", "NIST_PRE_TRYING"},
         tstate' = [tstate EXCEPT ![t] = state]
  PROVE  Requests' = Requests
  <1>1. Unserved' = Unserved
    BY DEF Unserved, TypeOK
  <1> QED BY <1>1 DEF Requests

(* A wake-up never is the read event of the socket. *)
LEMMA WakeupReads ==
  ASSUME NEW act, Wakeup(act) \/ WakeupFails(act) \/ WakeupUnlisted(act)
  PROVE  active' \cap {Udp} = act \cap {Udp}
  BY EvAssumption DEF Wakeup, WakeupFails, WakeupUnlisted, EvAssumption

(* A datagram that was read is no more to be read. *)
LEMMA ReceiveShrinks ==
  ASSUME Receive
  PROVE  Readable' < Readable
  <1>1. Udp \in active
    BY DEF Receive, Reading, RecvRefused, RecvResponse, RecvResponseFails, RecvAck,
           RecvInvite, RecvRequest, Open
  <1>2. active' \cap {Udp} = {}
    <2>1. CASE RecvRefused \/ RecvResponseFails \/ RecvAck
      BY <2>1 DEF RecvRefused, RecvResponseFails, RecvAck
    <2>2. CASE RecvResponse \/ RecvInvite \/ RecvRequest
      <3>1. PICK t, rest, ev : AddEvent(t, rest, ev, active \ {Udp})
        BY <2>2 DEF RecvResponse, RecvInvite, RecvRequest, Open
      <3> QED BY <3>1, WakeupReads DEF AddEvent
    <2> QED BY <2>1, <2>2 DEF Receive
  <1>3. active \cap {Udp} = {Udp}
    BY <1>1
  <1>4. Cardinality({Udp}) = 1 /\ Cardinality({}) = 0
    BY FS_Singleton, FS_EmptySet
  <1> QED BY <1>2, <1>3, <1>4 DEF Readable

(* A request that is answered, or need not be, makes wake-ups at most. *)
LEMMA RequestShrinks ==
  ASSUME TypeOK, IsFiniteSet(Unserved), NEW t \in Tid, IstRcvInvite(t) \/ NistRcvRequest(t)
  PROVE  Readable' = Readable /\ Requests' < Requests
  <1>1. t \in Unserved
    BY DEF IstRcvInvite, NistRcvRequest, Unserved
  <1>2. Requests' < Requests
    BY <1>1, ServeShrinks DEF IstRcvInvite, NistRcvRequest
  <1>3. active' \cap {Udp} = active \cap {Udp}
    <2>1. CASE Respond(t)
      BY <2>1, WakeupReads DEF Respond, AddEvent, libevVars
    <2>2. CASE UNCHANGED libevVars
      BY <2>2 DEF libevVars
    <2> QED BY <2>1, <2>2 DEF IstRcvInvite, NistRcvRequest
  <1> QED BY <1>2, <1>3 DEF Readable

(* Any other event that a transaction takes makes none. *)
LEMMA EventShrinks ==
  ASSUME TypeOK, IsFiniteSet(Backlog), NEW t \in Tid,
         \/ IstSnd2xx(t) \/ IstIgnore(t) \/ NistSnd2xx(t) \/ NistTimeoutJ(t)
         \/ SendFails(t)
         \/ (ExecuteFreed(t) /\ pc' = pc)
  PROVE  UNCHANGED <<active, pendingEv, pc>> /\ Requests' = Requests /\ Events' < Events
  <1>1. UNCHANGED <<active, pendingEv, pc>>
    BY DEF IstSnd2xx, IstIgnore, NistSnd2xx, NistTimeoutJ, ExecuteFreed, SendFails, libevVars
  <1>2. fifo[t] # <<>> /\ fifo' = [fifo EXCEPT ![t] = Tail(@)]
    BY DEF IstSnd2xx, IstIgnore, NistSnd2xx, NistTimeoutJ, ExecuteFreed, SendFails, Executes
  <1>3. Requests' = Requests
    <2>1. CASE UNCHANGED tstate
      BY <2>1 DEF Requests, Unserved
    <2>2. CASE IstSnd2xx(t) \/ NistSnd2xx(t) \/ NistTimeoutJ(t) \/ SendFails(t)
      <3>1. t \notin Unserved
        BY <2>2 DEF IstSnd2xx, NistSnd2xx, NistTimeoutJ, SendFails, Unserved
      <3> QED BY <2>2, <3>1, ServedStays DEF IstSnd2xx, NistSnd2xx, NistTimeoutJ, SendFails
    <2> QED BY <2>1, <2>2 DEF IstIgnore, ExecuteFreed
  <1> QED BY <1>1, <1>2, <1>3, TakeShrinks

(* The way of the thread through the callbacks. *)
LEMMA ThreadShrinks ==
  ASSUME TypeOK, IsFiniteSet(active \ {Udp}),
         \/ RunWakeup \/ ProcessDone \/ LoopPop \/ LoopReturn
         \/ IstDone \/ NistDone \/ FinishIteration
  PROVE  /\ Readable' = Readable /\ Requests' = Requests
         /\ \/ Len(pendingEv') < Len(pendingEv)
            \/ /\ pendingEv' = pendingEv
               /\ \/ Wakeups' < Wakeups
                  \/ /\ Wakeups' = Wakeups
                     /\ Place(pc') < Place(pc)
  <1>1. UNCHANGED tstate
    BY DEF RunWakeup, ProcessDone, LoopPop, LoopReturn, IstDone, NistDone, FinishIteration,
           sipVars
  <1>2. Requests' = Requests
    BY <1>1 DEF Requests, Unserved
  <1>3. CASE LoopPop
    <2>1. UNCHANGED active
      BY <1>3 DEF LoopPop
    <2>2. pendingEv # <<>> /\ pendingEv' = Tail(pendingEv) /\ pendingEv \in Seq(Ev)
      BY <1>3 DEF LoopPop, TypeOK
    <2>3. Len(pendingEv') = Len(pendingEv) - 1 /\ Len(pendingEv) \in Nat
      BY <2>2, HeadTailProperties, LenProperties
    <2> QED BY <1>2, <2>1, <2>3 DEF Readable
  <1>4. CASE ProcessDone \/ LoopReturn \/ IstDone \/ NistDone
    <2>1. UNCHANGED <<active, pendingEv>> /\ Place(pc') < Place(pc)
      BY <1>4 DEF ProcessDone, LoopReturn, IstDone, NistDone, libevVars, Place
    <2> QED BY <1>2, <2>1 DEF Readable, Wakeups
  <1>5. CASE RunWakeup
    <2>1. PICK e \in active \cap Ev : active' = active \ {e}
      BY <1>5 DEF RunWakeup
    <2>2. e # Udp /\ e \in active \ {Udp}
      BY <2>1, EvAssumption DEF EvAssumption
    <2>3. active' \ {Udp} = (active \ {Udp}) \ {e} /\ active' \cap {Udp} = active \cap {Udp}
      BY <2>1, <2>2
    <2>4. Wakeups' < Wakeups
      <3>1. Cardinality((active \ {Udp}) \ {e}) < Cardinality(active \ {Udp})
        BY <2>2, SmallerSet
      <3> QED BY <2>3, <3>1 DEF Wakeups
    <2>5. pendingEv' = pendingEv
      BY <1>5 DEF RunWakeup
    <2> QED BY <1>2, <2>3, <2>4, <2>5 DEF Readable
  <1>6. CASE FinishIteration
    <2>1. active' = active \ {cur} /\ pendingEv' = pendingEv /\ Place(pc') < Place(pc)
      BY <1>6 DEF FinishIteration, Place
    <2>2. cur # Udp
      BY EvAssumption DEF TypeOK, EvAssumption
    <2>3. active' \ {Udp} = (active \ {Udp}) \ {cur} /\ active' \cap {Udp} = active \cap {Udp}
      BY <2>1, <2>2
    <2>4. Wakeups' < Wakeups \/ Wakeups' = Wakeups
      <3>1. CASE cur \in active \ {Udp}
        <4>1. Cardinality((active \ {Udp}) \ {cur}) < Cardinality(active \ {Udp})
          BY <3>1, SmallerSet
        <4> QED BY <2>3, <4>1 DEF Wakeups
      <3>2. CASE cur \notin active \ {Udp}
        <4>1. active' \ {Udp} = active \ {Udp}
          BY <2>3, <3>2
        <4> QED BY <4>1 DEF Wakeups
      <3> QED BY <3>1, <3>2
    <2> QED BY <1>2, <2>1, <2>3, <2>4 DEF Readable
  <1> QED BY <1>3, <1>4, <1>5, <1>6

(* Each step leaves less to do. *)
LEMMA RunShrinks ==
  ASSUME TypeOK, IsFiniteSet(Tid), IsFiniteSet(Ev), Run
  PROVE  Less(Work', Work)
  <1>1. /\ IsFiniteSet(Unserved) /\ IsFiniteSet(active \ {Udp}) /\ IsFiniteSet(Backlog)
    BY WorkTypes
  <1>2. CASE Receive
    BY <1>2, ReceiveShrinks, LessWork
  <1>3. CASE \/ RunWakeup \/ ProcessDone \/ LoopPop \/ LoopReturn
             \/ IstDone \/ NistDone \/ FinishIteration
    BY <1>1, <1>3, ThreadShrinks, LessWork
  <1>4. ASSUME NEW t \in Tid, ExecuteIst(t) \/ ExecuteNist(t) \/ ExecuteFails(t)
        PROVE  Less(Work', Work)
    <2>1. CASE IstRcvInvite(t) \/ NistRcvRequest(t)
      BY <1>1, <2>1, RequestShrinks, LessWork
    <2>2. CASE \/ IstSnd2xx(t) \/ IstIgnore(t) \/ NistSnd2xx(t) \/ NistTimeoutJ(t)
               \/ SendFails(t)
         \/ (ExecuteFreed(t) /\ pc' = pc)
      <3>1. UNCHANGED <<active, pendingEv, pc>> /\ Requests' = Requests /\ Events' < Events
        BY <1>1, <2>2, EventShrinks
      <3>2. Readable' = Readable /\ Wakeups' = Wakeups
        BY <3>1 DEF Readable, Wakeups
      <3> QED BY <3>1, <3>2, LessWork
    <2>3. CASE ToCloneFails(t) \/ (ExecuteFreed(t) /\ pc' # pc)
      <3>1. pc \in {"ist", "nist"} /\ pc' = "crashed" /\ UNCHANGED <<active, pendingEv, tstate>>
        BY <2>3 DEF ToCloneFails, ExecuteFreed, Answering, libevVars, sipVars
      <3>2. /\ Readable' = Readable /\ Wakeups' = Wakeups /\ Requests' = Requests
            /\ Place(pc') < Place(pc)
        BY <3>1 DEF Readable, Wakeups, Requests, Unserved, Place
      <3> QED BY <3>1, <3>2, LessWork
    <2> QED BY <1>4, <2>1, <2>2, <2>3 DEF ExecuteIst, ExecuteNist, ExecuteFails
  <1> QED BY <1>2, <1>3, <1>4 DEF Run

(* esosip.c 416-482 inside a pass of libevent: the work that is left has a  *)
(* least value and every step lowers it, whichever allocations fail; so no  *)
(* traffic and no failure can keep the thread in its callbacks for ever.    *)
THEOREM WorkShrinksHolds ==
  ASSUME IsFiniteSet(Tid), IsFiniteSet(Ev)
  PROVE  Spec => WorkShrinks
  <1>1. TypeOK /\ [Next]_vars => [Run => Less(Work', Work)]_vars
    BY RunShrinks
  <1> QED BY <1>1, TypeCorrect, PTL DEF Spec, WorkShrinks
==============================================================================
