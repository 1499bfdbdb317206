---------------------------- MODULE EsOsipProofs ----------------------------
(***************************************************************************)
(* Proofs about EsOsip, for every number of transactions, struct events,    *)
(* calls and tags.                                                          *)
(***************************************************************************)
EXTENDS EsOsip, SequenceTheorems, TLAPS

-----------------------------------------------------------------------------
(* Sequences with one element *)

(* Adding at the head keeps the type and adds one element to the set. *)
LEMMA ConsSeq ==
  ASSUME NEW S, NEW e \in S, NEW s \in Seq(S)
  PROVE  /\ <<e>> \o s \in Seq(S)
         /\ ToSet(<<e>> \o s) = {e} \cup ToSet(s)
  <1>1. <<e>> \in Seq(S) /\ Len(<<e>>) = 1 /\ <<e>>[1] = e
    OBVIOUS
  <1>2. /\ <<e>> \o s \in Seq(S)
        /\ Len(<<e>> \o s) = 1 + Len(s)
        /\ \A i \in 1 .. 1 + Len(s) :
             (<<e>> \o s)[i] = IF i <= 1 THEN <<e>>[i] ELSE s[i - 1]
    BY <1>1, ConcatProperties
  <1>3. Len(s) \in Nat /\ DOMAIN s = 1 .. Len(s)
        /\ DOMAIN (<<e>> \o s) = 1 .. 1 + Len(s)
    BY <1>2, LenProperties
  <1>4. \A i \in 1 .. 1 + Len(s) : (<<e>> \o s)[i] \in {e} \cup ToSet(s)
    BY <1>1, <1>2, <1>3 DEF ToSet
  <1>5. e \in ToSet(<<e>> \o s)
    BY <1>1, <1>2, <1>3 DEF ToSet
  <1>6. ASSUME NEW i \in 1 .. Len(s) PROVE s[i] \in ToSet(<<e>> \o s)
    <2>1. i + 1 \in 1 .. 1 + Len(s) /\ (<<e>> \o s)[i + 1] = s[i]
      BY <1>2, <1>3
    <2> QED BY <2>1, <1>3 DEF ToSet
  <1> QED BY <1>2, <1>3, <1>4, <1>5, <1>6 DEF ToSet

(* A sequence of one element, as pendingEv is when it is not empty. *)
LEMMA OneSeq ==
  ASSUME NEW S, NEW e \in S
  PROVE  /\ <<e>> \o <<>> = <<e>>
         /\ <<e>> # <<>> /\ Head(<<e>>) = e /\ Tail(<<e>>) = <<>>
         /\ Append(<<>>, e) = <<e>>
         /\ ToSet(<<e>>) = {e} /\ ToSet(<<>>) = {}
  <1>1. <<e>> \in Seq(S) /\ <<e>> \o <<>> = <<e>>
    BY ConcatEmptySeq
  <1>2. ToSet(<<e>>) = {e} /\ ToSet(<<>>) = {}
    BY DEF ToSet
  <1> QED BY <1>1, <1>2

-----------------------------------------------------------------------------
(* Types *)

(* _es_osip_wakeup keeps the types of what it changes when it returns OK, *)
LEMMA WakeupType ==
  ASSUME TypeOK, NEW act \in SUBSET (Ev \cup {Udp}), Wakeup(act)
  PROVE  pendingEv' \in Seq(Ev) /\ active' \subseteq Ev \cup {Udp} /\ live' \subseteq Ev
  <1>1. PICK e \in Ev \ live : /\ live' = live \cup {e}
                             /\ pendingEv' = <<e>> \o pendingEv
                             /\ active' = act \cup {e}
    BY DEF Wakeup
  <1> QED BY <1>1, ConsSeq DEF TypeOK

(* and when an allocation in it fails. *)
LEMMA WakeupFailsType ==
  ASSUME TypeOK, NEW act \in SUBSET (Ev \cup {Udp}),
         WakeupFails(act) \/ WakeupUnlisted(act)
  PROVE  pendingEv' = pendingEv /\ active' \subseteq Ev \cup {Udp} /\ live' \subseteq Ev
  BY DEF WakeupFails, WakeupUnlisted, TypeOK

(* What an event and its wake-up leave keeps its type. *)
LEMMA AddEventType ==
  ASSUME TypeOK, NEW t \in Tid, NEW rest \in Seq(FifoEvent),
         NEW ev \in FifoEvent, NEW act \in SUBSET (Ev \cup {Udp}),
         AddEvent(t, rest, ev, act)
  PROVE  /\ fifo' \in [Tid -> Seq(FifoEvent)]
         /\ pendingEv' \in Seq(Ev)
         /\ active' \subseteq Ev \cup {Udp}
         /\ live' \subseteq Ev
  <1>1. fifo' \in [Tid -> Seq(FifoEvent)]
    <2>1. Append(rest, ev) \in Seq(FifoEvent)
      OBVIOUS
    <2>2. "FREED" \in FifoEvent
      BY DEF FifoEvent
    <2>3. Append(rest, "FREED") \in Seq(FifoEvent)
      BY <2>2
    <2> QED BY <2>1, <2>3 DEF TypeOK, AddEvent
  <1>2. CASE Wakeup(act)
    BY <1>1, <1>2, WakeupType
  <1>3. CASE WakeupFails(act) \/ WakeupUnlisted(act)
    BY <1>1, <1>3, WakeupFailsType DEF TypeOK
  <1> QED BY <1>2, <1>3 DEF AddEvent

(* So does what the message callback leaves. *)
LEMMA RespondType ==
  ASSUME TypeOK, NEW t \in Tid, fifo[t] # <<>>, Respond(t)
  PROVE  /\ fifo' \in [Tid -> Seq(FifoEvent)]
         /\ pendingEv' \in Seq(Ev)
         /\ active' \subseteq Ev \cup {Udp}
         /\ live' \subseteq Ev
  <1>1. Tail(fifo[t]) \in Seq(FifoEvent)
    BY HeadTailProperties DEF TypeOK
  <1>2. "SND_STATUS_2XX" \in FifoEvent /\ active \in SUBSET (Ev \cup {Udp})
    BY DEF FifoEvent, TypeOK
  <1>3. CASE AddEvent(t, Tail(fifo[t]), "SND_STATUS_2XX", active)
    BY <1>1, <1>2, <1>3, AddEventType
  <1>4. CASE fifo' = [fifo EXCEPT ![t] = Tail(@)]
    <2>1. fifo' \in [Tid -> Seq(FifoEvent)]
      BY <1>1, <1>4 DEF TypeOK
    <2>2. CASE UNCHANGED libevVars
      BY <2>1, <2>2 DEF TypeOK, libevVars
    <2>3. CASE Wakeup(active)
      BY <1>2, <2>1, <2>3, WakeupType
    <2>4. CASE WakeupUnlisted(active) \/ WakeupFails(active)
      BY <1>2, <2>1, <2>4, WakeupFailsType DEF TypeOK
    <2>5. CASE AddEvent(t, Tail(fifo[t]), "SND_STATUS_2XX", active)
      BY <1>3, <2>5
    <2> QED BY <1>4, <2>2, <2>3, <2>4, <2>5 DEF Respond
  <1> QED BY <1>3, <1>4 DEF Respond

(* The tags a caller can know are tags. *)
LEMMA KnownIsTag == TypeOK => Known \subseteq Tag
  <1> SUFFICES ASSUME TypeOK PROVE Known \subseteq Tag
    OBVIOUS
  <1>1. ASSUME NEW t \in Tid, sent[t] > 0 PROVE ToTag(t) \in Tag
    <2>1. req[t] \in Request
      BY <1>1 DEF TypeOK, KindOK
    <2> QED BY <2>1 DEF ToTag, Tag, Request
  <1> QED BY <1>1 DEF Known, Tag

(* The types hold when the program starts. *)
LEMMA TypeInit == Init => TypeOK
  <1> SUFFICES ASSUME Init PROVE TypeOK
    OBVIOUS
  <1>1. <<>> \in Seq(Ev) /\ <<>> \in Seq(FifoEvent) /\ <<>> \in Seq(Tid)
    BY EmptySeq
  <1>2. KindOK
    BY DEF Init, KindOK, Ist, Nist, IstState, NistState
  <1> QED BY <1>1, <1>2 DEF Init, TypeOK

(* The kinds stay as they are while the transactions do. *)
LEMMA KindKept == ASSUME KindOK, UNCHANGED <<tstate, req, sent>> PROVE KindOK'
  BY DEF KindOK, Ist, Nist

(* A transaction that exists moves on among the states of its kind, or is   *)
(* freed, and may send.                                                     *)
LEMMA KindMoves ==
  ASSUME TypeOK, UNCHANGED req, NEW t \in Tid, NEW s,
         tstate' = [tstate EXCEPT ![t] = s], tstate[t] # "none", s # "none",
         s \in IstState => tstate[t] \in IstState,
         s \in NistState => tstate[t] \in NistState,
         \A u \in Tid \ {t} : sent'[u] = sent[u]
  PROVE  KindOK'
  <1>1. \A u \in Tid \ {t} : tstate'[u] = tstate[u]
    BY DEF TypeOK
  <1>2. tstate'[t] = s
    BY DEF TypeOK
  <1>3. ASSUME NEW u \in Tid \ {t}
        PROVE  /\ tstate'[u] = "none" <=> req'[u] = NoReq
               /\ tstate'[u] = "none" => sent'[u] = 0
               /\ tstate'[u] \in IstState => req'[u].type = "INVITE"
               /\ tstate'[u] \in NistState => req'[u].type # "INVITE"
    BY <1>1 DEF TypeOK, KindOK, Ist, Nist
  <1>4. /\ tstate'[t] # "none" /\ req'[t] # NoReq
        /\ tstate'[t] \in IstState => req'[t].type = "INVITE"
        /\ tstate'[t] \in NistState => req'[t].type # "INVITE"
    BY <1>2 DEF TypeOK, KindOK, Ist, Nist
  <1> QED BY <1>3, <1>4 DEF KindOK, Ist, Nist

(* A new transaction is given the kind of its request. *)
LEMMA KindOpens ==
  ASSUME TypeOK, UNCHANGED sent, NEW t \in Tid, NEW r \in Request,
         NEW s \in IstState \cup NistState,
         tstate' = [tstate EXCEPT ![t] = s], req' = [req EXCEPT ![t] = r],
         r.type = "INVITE" <=> s \in IstState
  PROVE  KindOK'
  <1>1. \A u \in Tid \ {t} : tstate'[u] = tstate[u] /\ req'[u] = req[u]
    BY DEF TypeOK
  <1>2. tstate'[t] = s /\ req'[t] = r
    BY DEF TypeOK
  <1>3. s # "none" /\ r # NoReq /\ IstState \cap NistState = {}
    BY RequestAssumption DEF IstState, NistState
  <1>4. ASSUME NEW u \in Tid \ {t}
        PROVE  /\ tstate'[u] = "none" <=> req'[u] = NoReq
               /\ tstate'[u] = "none" => sent'[u] = 0
               /\ tstate'[u] \in IstState => req'[u].type = "INVITE"
               /\ tstate'[u] \in NistState => req'[u].type # "INVITE"
    BY <1>1 DEF TypeOK, KindOK, Ist, Nist
  <1>5. /\ tstate'[t] # "none" /\ req'[t] # NoReq
        /\ tstate'[t] \in IstState => req'[t].type = "INVITE"
        /\ tstate'[t] \in NistState => req'[t].type # "INVITE"
    BY <1>2, <1>3
  <1> QED BY <1>4, <1>5 DEF KindOK, Ist, Nist

(* The steps of libevent and of the loop that leave the transactions alone *)
LEMMA TypeQuiet ==
  ASSUME TypeOK, UNCHANGED sipVars,
         pc' \in {"poll", "process", "loop", "ist", "nist", "timers", "crashed"},
         cur' \in Ev \cup {NoEv}, pendingEv' \in Seq(Ev),
         active' \subseteq Ev \cup {Udp}, live' \subseteq Ev,
         stopArg' \in Tid \cup {NoDialog, "never"}
  PROVE  TypeOK'
  <1>1. KindOK'
    BY KindKept DEF TypeOK, sipVars
  <1> QED BY <1>1 DEF TypeOK, sipVars

(* The steps that open, move or serve transactions *)
LEMMA TypeSip ==
  ASSUME TypeOK, KindOK', UNCHANGED <<cur, stopArg>>, pc' \in {pc, "crashed"},
         tstate' \in [Tid -> IstState \cup NistState \cup {"none", "freed"}],
         req' \in [Tid -> Request \cup {NoReq}],
         fifo' \in [Tid -> Seq(FifoEvent)], pendingEv' \in Seq(Ev),
         active' \subseteq Ev \cup {Udp}, live' \subseteq Ev,
         sent' \in [Tid -> Nat], osipDialog' \in Seq(Tid)
  PROVE  TypeOK'
  BY DEF TypeOK

(* Taking the oldest event of a FIFO *)
LEMMA TakeType ==
  ASSUME TypeOK, NEW t \in Tid, fifo[t] # <<>>, fifo' = [fifo EXCEPT ![t] = Tail(@)]
  PROVE  fifo' \in [Tid -> Seq(FifoEvent)]
  <1>1. Tail(fifo[t]) \in Seq(FifoEvent)
    BY HeadTailProperties DEF TypeOK
  <1> QED BY <1>1 DEF TypeOK

(* Opening a transaction keeps the types. *)
LEMMA TypeOpen ==
  ASSUME TypeOK, NEW types \in SUBSET {"INVITE", "REGISTER", "BYE", "OTHER"},
         NEW state \in IstState \cup NistState, NEW ev \in FifoEvent,
         \A ty \in types : ty = "INVITE" <=> state \in IstState,
         Open(types, state, ev)
  PROVE  TypeOK'
  <1>1. PICK t \in Tid, r \in [type : types, call : Call, tag : Known] :
          /\ tstate' = [tstate EXCEPT ![t] = state]
          /\ req' = [req EXCEPT ![t] = r]
          /\ AddEvent(t, fifo[t], ev, active \ {Udp})
    BY DEF Open
  <1>2. UNCHANGED <<pc, cur, sent, osipDialog, stopArg>>
    BY DEF Open
  <1>3. Known \subseteq Tag
    BY KnownIsTag
  <1>4. r \in Request
    BY <1>3 DEF Request
  <1>5. r.type \in types
    OBVIOUS
  <1>6. KindOK'
    BY <1>1, <1>2, <1>4, <1>5, KindOpens
  <1>7. fifo[t] \in Seq(FifoEvent) /\ active \ {Udp} \in SUBSET (Ev \cup {Udp})
    BY DEF TypeOK
  <1>8. /\ fifo' \in [Tid -> Seq(FifoEvent)]
        /\ pendingEv' \in Seq(Ev)
        /\ active' \subseteq Ev \cup {Udp}
        /\ live' \subseteq Ev
    BY <1>1, <1>7, AddEventType
  <1>9. tstate' \in [Tid -> IstState \cup NistState \cup {"none", "freed"}]
    BY <1>1 DEF TypeOK
  <1>10. req' \in [Tid -> Request \cup {NoReq}]
    BY <1>1, <1>4 DEF TypeOK
  <1>11. sent' \in [Tid -> Nat] /\ osipDialog' \in Seq(Tid)
    BY <1>2 DEF TypeOK
  <1> QED BY <1>2, <1>6, <1>8, <1>9, <1>10, <1>11, TypeSip

(* Every step of the thread keeps the types. *)
LEMMA TypeNext == TypeOK /\ [Next]_vars => TypeOK'
  <1> SUFFICES ASSUME TypeOK, [Next]_vars PROVE TypeOK'
    OBVIOUS
  <1>1. CASE UNCHANGED vars
    BY <1>1, TypeQuiet DEF vars, sipVars, TypeOK
  <1>2. CASE Poll
    BY <1>2, TypeQuiet DEF Poll, TypeOK
  <1>3. CASE RecvRefused
    BY <1>3, TypeQuiet DEF RecvRefused, Reading, TypeOK
  <1>4. CASE RecvResponse
    <2>1. PICK t \in Ist : AddEvent(t, fifo[t], "RCV_STATUS", active \ {Udp})
      BY <1>4 DEF RecvResponse
    <2>2. t \in Tid /\ "RCV_STATUS" \in FifoEvent
      BY DEF Ist, FifoEvent
    <2>3. fifo[t] \in Seq(FifoEvent) /\ active \ {Udp} \in SUBSET (Ev \cup {Udp})
      BY <2>2 DEF TypeOK
    <2>4. /\ fifo' \in [Tid -> Seq(FifoEvent)]
          /\ pendingEv' \in Seq(Ev)
          /\ active' \subseteq Ev \cup {Udp}
          /\ live' \subseteq Ev
      BY <2>1, <2>2, <2>3, AddEventType
    <2>5. UNCHANGED <<pc, cur, tstate, req, sent, osipDialog, stopArg>>
      BY <1>4 DEF RecvResponse
    <2>6. KindOK'
      BY <2>5, KindKept DEF TypeOK
    <2>7. /\ tstate' \in [Tid -> IstState \cup NistState \cup {"none", "freed"}]
          /\ req' \in [Tid -> Request \cup {NoReq}]
          /\ sent' \in [Tid -> Nat] /\ osipDialog' \in Seq(Tid)
      BY <2>5 DEF TypeOK
    <2> QED BY <2>4, <2>5, <2>6, <2>7, TypeSip
  <1>5. CASE RecvAck
    BY <1>5, TypeQuiet DEF RecvAck, Reading, TypeOK
  <1>6. CASE RecvResponseFails
    <2>1. PICK t \in Ist : /\ tstate' = [tstate EXCEPT ![t] = "freed"]
                          /\ fifo' = [fifo EXCEPT ![t] = <<>>]
      BY <1>6 DEF RecvResponseFails
    <2>2. /\ UNCHANGED <<pc, cur, pendingEv, live, req, sent, osipDialog, stopArg>>
          /\ active' = active \ {Udp}
      BY <1>6 DEF RecvResponseFails
    <2>3. t \in Tid /\ tstate[t] # "none" /\ "freed" \notin IstState \cup NistState
      BY DEF Ist, IstState, NistState
    <2>4. KindOK'
      BY <2>1, <2>2, <2>3, KindMoves
    <2>5. fifo' \in [Tid -> Seq(FifoEvent)]
      BY <2>1, EmptySeq DEF TypeOK
    <2>6. tstate' \in [Tid -> IstState \cup NistState \cup {"none", "freed"}]
      BY <2>1 DEF TypeOK
    <2>7. /\ req' \in [Tid -> Request \cup {NoReq}] /\ pendingEv' \in Seq(Ev)
          /\ active' \subseteq Ev \cup {Udp} /\ live' \subseteq Ev
          /\ sent' \in [Tid -> Nat] /\ osipDialog' \in Seq(Tid)
      BY <2>2 DEF TypeOK
    <2> QED BY <2>2, <2>4, <2>5, <2>6, <2>7, TypeSip
  <1>7. CASE RecvInvite
    <2>1. "RCV_REQINVITE" \in FifoEvent /\ "IST_PRE_PROCEEDING" \in IstState
      BY DEF FifoEvent, IstState
    <2>2. Open({"INVITE"}, "IST_PRE_PROCEEDING", "RCV_REQINVITE")
      BY <1>7 DEF RecvInvite
    <2> QED BY <2>1, <2>2, TypeOpen
  <1>8. CASE RecvRequest
    <2>1. "RCV_REQUEST" \in FifoEvent /\ "NIST_PRE_TRYING" \in NistState
          /\ "NIST_PRE_TRYING" \notin IstState
      BY DEF FifoEvent, NistState, IstState
    <2>2. Open({"REGISTER", "BYE", "OTHER"}, "NIST_PRE_TRYING", "RCV_REQUEST")
      BY <1>8 DEF RecvRequest
    <2> QED BY <2>1, <2>2, TypeOpen
  <1>9. CASE ProcessDone
    BY <1>9, TypeQuiet DEF ProcessDone, libevVars, TypeOK
  <1>10. CASE RunWakeup
    BY <1>10, TypeQuiet DEF RunWakeup, TypeOK
  <1>11. CASE LoopPop
    <2>1. Head(pendingEv) \in Ev /\ Tail(pendingEv) \in Seq(Ev)
      BY <1>11, HeadTailProperties DEF LoopPop, TypeOK
    <2> QED BY <1>11, <2>1, TypeQuiet DEF LoopPop, TypeOK
  <1>12. CASE LoopReturn
    BY <1>12, TypeQuiet DEF LoopReturn, libevVars, TypeOK
  <1>13. CASE IstDone
    BY <1>13, TypeQuiet DEF IstDone, libevVars, TypeOK
  <1>14. CASE NistDone
    BY <1>14, TypeQuiet DEF NistDone, libevVars, TypeOK
  <1>15. CASE FinishIteration
    <2>1. "TIMEOUT_J" \in FifoEvent
      BY DEF FifoEvent
    <2>2. \A t \in Tid : fifo[t] \in Seq(FifoEvent) /\ Append(fifo[t], "TIMEOUT_J") \in Seq(FifoEvent)
      BY <2>1 DEF TypeOK
    <2>3. fifo' \in [Tid -> Seq(FifoEvent)]
      BY <1>15, <2>2 DEF FinishIteration
    <2>4. /\ UNCHANGED <<pendingEv, tstate, req, sent, osipDialog, stopArg>>
          /\ pc' = "loop" /\ cur' = NoEv
          /\ live' \subseteq live /\ active' \subseteq active
      BY <1>15 DEF FinishIteration
    <2>5. KindOK'
      BY <2>4, KindKept DEF TypeOK
    <2> QED BY <2>3, <2>4, <2>5 DEF TypeOK
  <1>16. ASSUME NEW t \in Tid, IstRcvInvite(t) \/ NistRcvRequest(t) PROVE TypeOK'
    <2>1. fifo[t] # <<>> /\ UNCHANGED <<pc, cur, req, sent, osipDialog, stopArg>>
      BY <1>16 DEF IstRcvInvite, NistRcvRequest, Executes
    <2>2. Respond(t) \/ (fifo' = [fifo EXCEPT ![t] = Tail(@)] /\ UNCHANGED libevVars)
      <3>1. CASE IstRcvInvite(t)
        BY <3>1 DEF IstRcvInvite
      <3>2. CASE NistRcvRequest(t)
        BY <3>2 DEF NistRcvRequest
      <3> QED BY <1>16, <3>1, <3>2
    <2>3. /\ fifo' \in [Tid -> Seq(FifoEvent)] /\ pendingEv' \in Seq(Ev)
          /\ active' \subseteq Ev \cup {Udp} /\ live' \subseteq Ev
      <3>1. CASE Respond(t)
        BY <2>1, <3>1, RespondType
      <3>2. CASE fifo' = [fifo EXCEPT ![t] = Tail(@)] /\ UNCHANGED libevVars
        BY <2>1, <3>2, TakeType DEF libevVars, TypeOK
      <3> QED BY <2>2, <3>1, <3>2
    <2>4. PICK s \in {"IST_PROCEEDING", "NIST_TRYING"} :
            /\ tstate' = [tstate EXCEPT ![t] = s]
            /\ tstate[t] \in IstState <=> s \in IstState
            /\ tstate[t] \in NistState <=> s \in NistState
      BY <1>16 DEF IstRcvInvite, NistRcvRequest, IstState, NistState
    <2>5. s \in IstState \cup NistState /\ s # "none"
      BY DEF IstState, NistState
    <2>6. tstate[t] # "none"
      BY <1>16 DEF IstRcvInvite, NistRcvRequest
    <2>7. KindOK'
      BY <2>1, <2>4, <2>5, <2>6, KindMoves
    <2>8. tstate' \in [Tid -> IstState \cup NistState \cup {"none", "freed"}]
      BY <2>4, <2>5 DEF TypeOK
    <2>9. /\ req' \in [Tid -> Request \cup {NoReq}]
          /\ sent' \in [Tid -> Nat] /\ osipDialog' \in Seq(Tid)
      BY <2>1 DEF TypeOK
    <2> QED BY <2>1, <2>3, <2>7, <2>8, <2>9, TypeSip
  <1>17. ASSUME NEW t \in Tid,
                IstSnd2xx(t) \/ NistSnd2xx(t) \/ NistTimeoutJ(t) \/ SendFails(t)
         PROVE  TypeOK'
    <2>1. /\ fifo[t] # <<>> /\ fifo' = [fifo EXCEPT ![t] = Tail(@)]
          /\ UNCHANGED <<pc, cur, req, stopArg>> /\ UNCHANGED libevVars
      BY <1>17 DEF IstSnd2xx, NistSnd2xx, NistTimeoutJ, SendFails, Executes
    <2>2. fifo' \in [Tid -> Seq(FifoEvent)]
      BY <2>1, TakeType
    <2>3. sent' = [sent EXCEPT ![t] = @ + 1] \/ sent' = sent
      BY <1>17 DEF IstSnd2xx, NistSnd2xx, NistTimeoutJ, SendFails
    <2>4. sent' \in [Tid -> Nat] /\ \A u \in Tid \ {t} : sent'[u] = sent[u]
      <3>1. sent \in [Tid -> Nat]
        BY DEF TypeOK
      <3>2. CASE sent' = sent
        BY <3>1, <3>2
      <3>3. CASE sent' = [sent EXCEPT ![t] = @ + 1]
        <4>1. sent[t] + 1 \in Nat
          BY <3>1
        <4> QED BY <3>1, <3>3, <4>1
      <3> QED BY <2>3, <3>2, <3>3
    <2>5. osipDialog' = <<t>> \o osipDialog \/ osipDialog' = osipDialog
      BY <1>17 DEF IstSnd2xx, NistSnd2xx, NistTimeoutJ, SendFails
    <2>6. osipDialog' \in Seq(Tid)
      <3>1. osipDialog \in Seq(Tid)
        BY DEF TypeOK
      <3>2. <<t>> \o osipDialog \in Seq(Tid)
        BY <3>1, ConsSeq
      <3> QED BY <2>5, <3>1, <3>2
    <2>7. PICK s \in {"IST_TERMINATED", "NIST_COMPLETED", "NIST_TERMINATED"} :
            /\ tstate' = [tstate EXCEPT ![t] = s]
            /\ tstate[t] \in IstState <=> s \in IstState
            /\ tstate[t] \in NistState <=> s \in NistState
      BY <1>17 DEF IstSnd2xx, NistSnd2xx, NistTimeoutJ, SendFails, IstState, NistState
    <2>8. s \in IstState \cup NistState /\ s # "none"
      BY DEF IstState, NistState
    <2>9. tstate[t] # "none"
      BY <1>17 DEF IstSnd2xx, NistSnd2xx, NistTimeoutJ, SendFails
    <2>10. KindOK'
      BY <2>1, <2>4, <2>7, <2>8, <2>9, KindMoves
    <2>11. tstate' \in [Tid -> IstState \cup NistState \cup {"none", "freed"}]
      BY <2>7, <2>8 DEF TypeOK
    <2>12. /\ req' \in [Tid -> Request \cup {NoReq}] /\ pendingEv' \in Seq(Ev)
           /\ active' \subseteq Ev \cup {Udp} /\ live' \subseteq Ev
      BY <2>1 DEF TypeOK, libevVars
    <2> QED BY <2>1, <2>2, <2>4, <2>6, <2>10, <2>11, <2>12, TypeSip
  <1>18. ASSUME NEW t \in Tid, IstIgnore(t) \/ ExecuteFreed(t) PROVE TypeOK'
    <2>1. /\ fifo[t] # <<>> /\ fifo' = [fifo EXCEPT ![t] = Tail(@)]
          /\ pc' \in {pc, "crashed"} /\ UNCHANGED libevVars
          /\ UNCHANGED <<cur, tstate, req, sent, osipDialog, stopArg>>
      BY <1>18 DEF IstIgnore, ExecuteFreed, Executes
    <2>2. fifo' \in [Tid -> Seq(FifoEvent)]
      BY <2>1, TakeType
    <2>3. KindOK'
      BY <2>1, KindKept DEF TypeOK
    <2> QED BY <2>1, <2>2, <2>3, TypeSip DEF TypeOK, libevVars
  <1>19. ASSUME NEW t \in Tid, ToCloneFails(t) PROVE TypeOK'
    BY <1>19, TypeQuiet DEF ToCloneFails, libevVars, TypeOK
  <1> QED
    BY <1>1, <1>2, <1>3, <1>4, <1>5, <1>6, <1>7, <1>8, <1>9, <1>10, <1>11,
       <1>12, <1>13, <1>14, <1>15, <1>16, <1>17, <1>18, <1>19
    DEF Next, Run, Receive, ExecuteIst, ExecuteNist, ExecuteFails

(* Every variable keeps its type, and a transaction is an INVITE server     *)
(* transaction exactly when its request is an INVITE.                       *)
THEOREM TypeCorrect == Spec => []TypeOK
  BY TypeInit, TypeNext, PTL DEF Spec
-----------------------------------------------------------------------------
(* Released events, whichever allocations fail.  NoDanglingEvent is          *)
(* inductive with the types.                                                 *)

(* Adding a new element at the head keeps the elements distinct. *)
LEMMA ConsInjective ==
  ASSUME NEW S, NEW s \in Seq(S), NEW e \in S, e \notin ToSet(s),
         \A i, j \in DOMAIN s : s[i] = s[j] => i = j
  PROVE  \A i, j \in DOMAIN (<<e>> \o s) : (<<e>> \o s)[i] = (<<e>> \o s)[j] => i = j
  <1>1. <<e>> \in Seq(S) /\ Len(<<e>>) = 1 /\ <<e>>[1] = e
    OBVIOUS
  <1>2. /\ <<e>> \o s \in Seq(S)
        /\ Len(<<e>> \o s) = 1 + Len(s)
        /\ \A i \in 1 .. 1 + Len(s) :
             (<<e>> \o s)[i] = IF i <= 1 THEN <<e>>[i] ELSE s[i - 1]
    BY <1>1, ConcatProperties
  <1>3. Len(s) \in Nat /\ DOMAIN s = 1 .. Len(s)
        /\ DOMAIN (<<e>> \o s) = 1 .. 1 + Len(s)
    BY <1>2, LenProperties
  <1>4. \A i \in DOMAIN s : s[i] # e
    BY DEF ToSet
  <1>5. ASSUME NEW i \in 1 .. 1 + Len(s)
        PROVE  \/ i = 1 /\ (<<e>> \o s)[i] = e
               \/ i - 1 \in DOMAIN s /\ (<<e>> \o s)[i] = s[i - 1]
    BY <1>1, <1>2, <1>3
  <1> QED BY <1>3, <1>4, <1>5

(* Taking the head of distinct elements leaves the others, still distinct. *)
LEMMA TailInjective ==
  ASSUME NEW S, NEW s \in Seq(S), s # <<>>,
         \A i, j \in DOMAIN s : s[i] = s[j] => i = j
  PROVE  /\ Head(s) \in ToSet(s) /\ Head(s) \notin ToSet(Tail(s))
         /\ ToSet(Tail(s)) \subseteq ToSet(s)
         /\ \A i, j \in DOMAIN Tail(s) : Tail(s)[i] = Tail(s)[j] => i = j
  <1>1. /\ Tail(s) \in Seq(S) /\ Len(Tail(s)) = Len(s) - 1
        /\ \A i \in 1 .. Len(Tail(s)) : Tail(s)[i] = s[i + 1]
    BY HeadTailProperties
  <1>2. /\ Len(s) \in Nat \ {0} /\ DOMAIN s = 1 .. Len(s) /\ Head(s) = s[1]
        /\ DOMAIN Tail(s) = 1 .. Len(Tail(s))
    BY <1>1, EmptySeq, LenProperties
  <1>3. \A i \in DOMAIN Tail(s) : i + 1 \in DOMAIN s /\ Tail(s)[i] = s[i + 1] /\ i + 1 # 1
    BY <1>1, <1>2
  <1>4. Head(s) \in ToSet(s) /\ Head(s) \notin ToSet(Tail(s))
    BY <1>2, <1>3 DEF ToSet
  <1>5. ToSet(Tail(s)) \subseteq ToSet(s)
    BY <1>3 DEF ToSet
  <1>6. \A i, j \in DOMAIN Tail(s) : Tail(s)[i] = Tail(s)[j] => i = j
    BY <1>1, <1>2, <1>3
  <1> QED BY <1>4, <1>5, <1>6

(* A step that takes no event from the list, adds none and frees none *)
LEMMA QuietDangling ==
  ASSUME TypeOK, NoDanglingEvent, UNCHANGED <<cur, pendingEv>>,
         live \subseteq live', active' \ {Udp} \subseteq (active \ {Udp}) \cup (live' \ live)
  PROVE  NoDanglingEvent'
  BY DEF NoDanglingEvent

(* A wake-up made while act is active *)
LEMMA WakeupDangling ==
  ASSUME TypeOK, NoDanglingEvent, UNCHANGED cur, NEW act \in SUBSET active, Wakeup(act)
  PROVE  NoDanglingEvent'
  <1>1. PICK e \in Ev \ live : /\ live' = live \cup {e}
                             /\ pendingEv' = <<e>> \o pendingEv
                             /\ active' = act \cup {e}
    BY DEF Wakeup
  <1>2. e \notin ToSet(pendingEv) /\ e # NoEv
    BY EvAssumption DEF NoDanglingEvent
  <1>3. ToSet(pendingEv') = {e} \cup ToSet(pendingEv)
    BY <1>1, ConsSeq DEF TypeOK
  <1>4. \A i, j \in DOMAIN pendingEv' : pendingEv'[i] = pendingEv'[j] => i = j
    <2>1. pendingEv \in Seq(Ev) /\ e \in Ev
          /\ \A i, j \in DOMAIN pendingEv : pendingEv[i] = pendingEv[j] => i = j
      BY DEF TypeOK, NoDanglingEvent
    <2>2. \A i, j \in DOMAIN (<<e>> \o pendingEv) :
            (<<e>> \o pendingEv)[i] = (<<e>> \o pendingEv)[j] => i = j
      BY <1>2, <2>1, ConsInjective
    <2> QED BY <1>1, <2>2
  <1>5. ToSet(pendingEv') \cup (active' \ {Udp}) \subseteq live'
    BY <1>1, <1>3 DEF NoDanglingEvent
  <1>6. cur' # NoEv => cur' \in live' /\ cur' \notin ToSet(pendingEv')
    BY <1>1, <1>3 DEF NoDanglingEvent
  <1> QED BY <1>4, <1>5, <1>6 DEF NoDanglingEvent

(* Queueing an event for a transaction, or failing to *)
LEMMA AddEventDangling ==
  ASSUME TypeOK, NoDanglingEvent, UNCHANGED cur, NEW act \in SUBSET active,
         Wakeup(act) \/ WakeupUnlisted(act) \/ WakeupFails(act)
  PROVE  NoDanglingEvent'
  <1>1. CASE WakeupUnlisted(act) \/ WakeupFails(act)
    BY <1>1, QuietDangling DEF WakeupUnlisted, WakeupFails
  <1> QED BY <1>1, WakeupDangling

(* Every step keeps NoDanglingEvent. *)
LEMMA DanglingNext == TypeOK /\ NoDanglingEvent /\ [Next]_vars => NoDanglingEvent'
  <1> SUFFICES ASSUME TypeOK, NoDanglingEvent, [Next]_vars PROVE NoDanglingEvent'
    OBVIOUS
  <1>1. CASE UNCHANGED vars \/ Poll
    BY <1>1, QuietDangling DEF vars, Poll
  <1>2. CASE RecvRefused \/ RecvAck \/ RecvResponseFails
    BY <1>2, QuietDangling DEF RecvRefused, RecvAck, RecvResponseFails
  <1>3. CASE RecvResponse \/ RecvInvite \/ RecvRequest
    <2>1. UNCHANGED cur /\ \E t, rest, ev : AddEvent(t, rest, ev, active \ {Udp})
      BY <1>3 DEF RecvResponse, RecvInvite, RecvRequest, Open
    <2> QED BY <2>1, AddEventDangling DEF AddEvent
  <1>4. CASE ProcessDone \/ LoopReturn \/ IstDone \/ NistDone
    BY <1>4, QuietDangling DEF ProcessDone, LoopReturn, IstDone, NistDone, libevVars
  <1>5. CASE RunWakeup
    BY <1>5, QuietDangling DEF RunWakeup
  <1>6. CASE LoopPop
    <2>1. /\ cur' = Head(pendingEv) /\ pendingEv' = Tail(pendingEv)
          /\ pendingEv # <<>> /\ UNCHANGED <<active, live>>
      BY <1>6 DEF LoopPop
    <2>2. /\ cur' \in ToSet(pendingEv) /\ cur' \notin ToSet(pendingEv')
          /\ ToSet(pendingEv') \subseteq ToSet(pendingEv)
          /\ \A i, j \in DOMAIN pendingEv' : pendingEv'[i] = pendingEv'[j] => i = j
      BY <2>1, TailInjective DEF TypeOK, NoDanglingEvent
    <2> QED BY <2>1, <2>2 DEF NoDanglingEvent
  <1>7. CASE FinishIteration
    <2>1. /\ live' = live \ {cur} /\ active' = active \ {cur}
          /\ cur' = NoEv /\ UNCHANGED pendingEv
      BY <1>7 DEF FinishIteration
    <2>2. cur \notin ToSet(pendingEv)
      <3>1. ToSet(pendingEv) \subseteq Ev
        BY DEF ToSet, TypeOK
      <3> QED BY <3>1, EvAssumption DEF NoDanglingEvent
    <2> QED BY <2>1, <2>2 DEF NoDanglingEvent
  <1>8. ASSUME NEW t \in Tid, IstRcvInvite(t) \/ NistRcvRequest(t) PROVE NoDanglingEvent'
    <2>1. UNCHANGED cur /\ (Respond(t) \/ UNCHANGED libevVars)
      BY <1>8 DEF IstRcvInvite, NistRcvRequest
    <2>2. \/ UNCHANGED libevVars
          \/ Wakeup(active) \/ WakeupUnlisted(active) \/ WakeupFails(active)
      BY <2>1 DEF Respond, AddEvent
    <2> QED BY <2>1, <2>2, AddEventDangling, QuietDangling DEF libevVars
  <1>9. ASSUME NEW t \in Tid,
               \/ IstSnd2xx(t) \/ IstIgnore(t) \/ NistSnd2xx(t)
               \/ NistTimeoutJ(t) \/ ExecuteFails(t)
        PROVE  NoDanglingEvent'
    <2>1. UNCHANGED cur /\ UNCHANGED libevVars
      BY <1>9 DEF IstSnd2xx, IstIgnore, NistSnd2xx, NistTimeoutJ, ExecuteFails,
                  ExecuteFreed, ToCloneFails, SendFails
    <2> QED BY <2>1, QuietDangling DEF libevVars
  <1> QED
    BY <1>1, <1>2, <1>3, <1>4, <1>5, <1>6, <1>7, <1>8, <1>9
    DEF Next, Run, Receive, ExecuteIst, ExecuteNist

(* esosip.c 480: _es_osip_loop releases an event that is in no list or      *)
(* queue any more, and no list or queue has one that was released,          *)
(* whichever allocations fail.                                              *)
THEOREM NoDanglingEventHolds == Spec => []NoDanglingEvent
  <1>1. Init => NoDanglingEvent
    <2>1. ToSet(<<>>) = {} /\ DOMAIN <<>> = {}
      BY DEF ToSet
    <2> QED BY <2>1 DEF Init, NoDanglingEvent
  <1> QED BY <1>1, TypeCorrect, DanglingNext, PTL DEF Spec
-----------------------------------------------------------------------------
(* Events while memory lasts.  The strengthening of AtMostOnePending: what   *)
(* the wake-ups look like at each place of the thread, and that a request    *)
(* not yet shown to its transaction is what the only wake-up is for.         *)

EventInv ==
  /\ pendingEv = <<>> \/ \E e \in live : pendingEv = <<e>>
  /\ cur # NoEv => cur \in live /\ cur \notin ToSet(pendingEv)
  /\ pc \in {"poll", "process", "loop"} => cur = NoEv
  /\ active \ {Udp} \subseteq ToSet(pendingEv) \cup {cur}
  /\ Udp \in active => pc = "process" /\ pendingEv = <<>>
  /\ pc = "poll" => pendingEv = <<>>
  /\ pc = "process" /\ pendingEv # <<>> => active # {}

Rcv == {"RCV_REQINVITE", "RCV_REQUEST"}
Clean(s) == \A i \in DOMAIN s : s[i] \notin Rcv
Fresh(s) == s = <<"RCV_REQINVITE">> \/ s = <<"RCV_REQUEST">>

RequestInv ==
  /\ \A t \in Tid : Clean(fifo[t]) \/ Fresh(fifo[t])
  /\ \A t \in Tid : tstate[t] = "none" => fifo[t] = <<>>
  /\ \A t \in Tid : fifo[t] = <<"RCV_REQINVITE">> => t \in Ist
  /\ \A t \in Tid : fifo[t] = <<"RCV_REQUEST">> => t \in Nist
  /\ \A t, u \in Tid : Fresh(fifo[t]) /\ Fresh(fifo[u]) => t = u
  /\ \A t \in Tid : Fresh(fifo[t]) =>
       /\ pc \in {"process", "loop", "ist", "nist", "crashed"}
       /\ pc \in {"process", "loop"} => pendingEv # <<>>
       /\ pc \in {"ist", "nist"} => pendingEv = <<>>
       /\ pc = "nist" => t \in Nist

(* An empty FIFO holds nothing that is new. *)
LEMMA EmptyClean == Clean(<<>>) /\ ~Fresh(<<>>)
  BY DEF Clean, Fresh

(* A new FIFO holds one event, and it is at its head. *)
LEMMA FreshSeq ==
  ASSUME NEW s \in Seq(FifoEvent), Fresh(s)
  PROVE  s # <<>> /\ Head(s) \in Rcv /\ Tail(s) = <<>> /\ ~Clean(s)
  <1>1. PICK ev \in Rcv : s = <<ev>>
    BY DEF Fresh, Rcv
  <1>2. s # <<>> /\ Head(s) = ev /\ Tail(s) = <<>>
    BY <1>1, OneSeq
  <1>3. 1 \in DOMAIN s /\ s[1] = ev
    BY <1>1
  <1> QED BY <1>2, <1>3 DEF Clean

(* Taking the first event leaves no second new one. *)
LEMMA CleanTail ==
  ASSUME NEW s \in Seq(FifoEvent), s # <<>>, Clean(s) \/ Fresh(s)
  PROVE  Clean(Tail(s)) /\ ~Fresh(Tail(s))
  <1>1. CASE Fresh(s)
    BY <1>1, FreshSeq, EmptyClean
  <1>2. CASE Clean(s)
    <2>1. Tail(s) \in Seq(FifoEvent) /\ Len(Tail(s)) = Len(s) - 1
          /\ \A i \in 1 .. Len(Tail(s)) : Tail(s)[i] = s[i + 1]
      BY HeadTailProperties
    <2>2. Len(s) \in Nat /\ DOMAIN s = 1 .. Len(s)
          /\ DOMAIN Tail(s) = 1 .. Len(Tail(s))
      BY <2>1, LenProperties
    <2>3. Clean(Tail(s))
      BY <1>2, <2>1, <2>2 DEF Clean
    <2> QED BY <2>1, <2>3, FreshSeq
  <1> QED BY <1>1, <1>2

(* A FIFO without new events does not start with one. *)
LEMMA CleanHead ==
  ASSUME NEW s \in Seq(FifoEvent), s # <<>>, Clean(s) \/ Fresh(s), Head(s) \in Rcv
  PROVE  Fresh(s) /\ s = <<Head(s)>>
  <1>1. Len(s) \in Nat \ {0} /\ DOMAIN s = 1 .. Len(s) /\ Head(s) = s[1]
    BY EmptySeq, LenProperties
  <1>2. ~Clean(s)
    BY <1>1 DEF Clean
  <1> QED BY <1>2 DEF Fresh

(* Queueing any other event adds no new one. *)
LEMMA CleanAppend ==
  ASSUME NEW s \in Seq(FifoEvent), Clean(s), NEW ev \in FifoEvent \ Rcv
  PROVE  Clean(Append(s, ev)) /\ ~Fresh(Append(s, ev))
  <1>1. /\ Append(s, ev) \in Seq(FifoEvent) /\ Len(Append(s, ev)) = Len(s) + 1
        /\ \A i \in 1 .. Len(s) + 1 :
             Append(s, ev)[i] = IF i = Len(s) + 1 THEN ev ELSE s[i]
    OBVIOUS
  <1>2. Len(s) \in Nat /\ DOMAIN s = 1 .. Len(s)
        /\ DOMAIN Append(s, ev) = 1 .. Len(Append(s, ev))
    BY <1>1, LenProperties
  <1>3. Clean(Append(s, ev))
    BY <1>1, <1>2 DEF Clean
  <1> QED BY <1>1, <1>3, FreshSeq

(* _es_osip_wakeup called when nothing is pending *)
LEMMA WakeupEffect ==
  ASSUME TypeOK, pendingEv = <<>>, NEW act, Wakeup(act)
  PROVE  \E e \in Ev \ live : /\ live' = live \cup {e}
                             /\ pendingEv' = <<e>>
                             /\ active' = act \cup {e}
  BY OneSeq DEF Wakeup

(* A wake-up made when nothing was pending keeps EventInv. *)
LEMMA WakeupEventInv ==
  ASSUME TypeOK, EventInv, pendingEv = <<>>, Wakeup(active \ {Udp}),
         UNCHANGED <<pc, cur>>, pc # "poll"
  PROVE  EventInv'
  <1>1. PICK e \in Ev \ live : /\ live' = live \cup {e}
                             /\ pendingEv' = <<e>>
                             /\ active' = (active \ {Udp}) \cup {e}
    BY WakeupEffect
  <1>2. ToSet(pendingEv') = {e} /\ ToSet(pendingEv) = {}
    BY <1>1, OneSeq
  <1>3. e # Udp /\ e # cur
    BY <1>1, EvAssumption DEF EventInv
  <1> QED BY <1>1, <1>2, <1>3 DEF EventInv

(* A step that neither makes nor takes a wake-up keeps EventInv. *)
LEMMA QuietEventInv ==
  ASSUME TypeOK, EventInv, UNCHANGED <<pc, cur, pendingEv>>,
         active' = active \ {Udp}, live \subseteq live', live' \subseteq Ev,
         pendingEv = <<>> \/ Udp \notin active
  PROVE  EventInv'
  BY DEF EventInv

(* Queueing an event for a transaction keeps EventInv. *)
LEMMA AddEventInv ==
  ASSUME ~MemoryMayFail, TypeOK, EventInv, pendingEv = <<>>, NEW t, NEW rest, NEW ev,
         AddEvent(t, rest, ev, active \ {Udp}), UNCHANGED <<pc, cur>>, pc # "poll"
  PROVE  EventInv'
  <1>1. CASE Wakeup(active \ {Udp})
    BY <1>1, WakeupEventInv
  <1>2. CASE WakeupFails(active \ {Udp})
    <2>1. live \subseteq live' /\ live' \subseteq Ev
      BY <1>2 DEF WakeupFails, TypeOK
    <2> QED BY <1>2, <2>1, QuietEventInv DEF WakeupFails
  <1> QED BY <1>1, <1>2 DEF AddEvent, WakeupUnlisted

(* Answering a request keeps EventInv. *)
LEMMA RespondEventInv ==
  ASSUME ~MemoryMayFail, TypeOK, EventInv, pendingEv = <<>>, NEW t \in Tid, Respond(t),
         UNCHANGED <<pc, cur>>, pc \in {"ist", "nist"}
  PROVE  EventInv'
  <1>1. active \ {Udp} = active
    BY DEF EventInv
  <1>2. CASE UNCHANGED libevVars
    BY <1>2 DEF EventInv, libevVars
  <1> QED BY <1>1, <1>2, AddEventInv DEF Respond

(* Every step but one at the poll keeps EventInv. *)
LEMMA EventNext ==
  ASSUME ~MemoryMayFail
  PROVE  TypeOK /\ EventInv /\ RequestInv /\ [Next]_vars => EventInv'
  <1> SUFFICES ASSUME TypeOK, EventInv, RequestInv, [Next]_vars PROVE EventInv'
    OBVIOUS
  <1>1. CASE UNCHANGED vars
    BY <1>1 DEF vars, EventInv
  <1>2. CASE Poll
    BY <1>2 DEF Poll, sipVars, EventInv
  <1>3. CASE RecvRefused \/ RecvAck
    BY <1>3, QuietEventInv DEF RecvRefused, RecvAck, Reading, TypeOK, EventInv
  <1>4. CASE RecvResponse
    BY <1>4, AddEventInv DEF RecvResponse, Reading, EventInv
  <1>5. CASE RecvInvite \/ RecvRequest
    BY <1>5, AddEventInv DEF RecvInvite, RecvRequest, Open, Reading, EventInv
  <1>6. CASE ProcessDone
    BY <1>6 DEF ProcessDone, libevVars, EventInv
  <1>7. CASE RunWakeup
    <2>1. PICK e \in active \cap Ev : active' = active \ {e}
      BY <1>7 DEF RunWakeup
    <2>2. e # Udp /\ e # NoEv /\ ToSet(<<>>) = {}
      BY EvAssumption, OneSeq
    <2>3. Udp \notin active
      BY <1>7, <2>2 DEF RunWakeup, EventInv
    <2> QED BY <1>7, <2>1, <2>3 DEF RunWakeup, EventInv
  <1>8. CASE LoopPop
    <2>1. PICK e \in live : pendingEv = <<e>>
      BY <1>8 DEF LoopPop, EventInv
    <2>2. cur' = e /\ pendingEv' = <<>> /\ ToSet(pendingEv) = {e} /\ ToSet(pendingEv') = {}
      BY <1>8, <2>1, OneSeq DEF LoopPop
    <2> QED BY <1>8, <2>1, <2>2, EvAssumption DEF LoopPop, EventInv, TypeOK
  <1>9. CASE LoopReturn
    BY <1>9 DEF LoopReturn, libevVars, EventInv
  <1>10. CASE IstDone \/ NistDone
    BY <1>10 DEF IstDone, NistDone, libevVars, EventInv
  <1>11. CASE FinishIteration
    <2>1. ASSUME NEW e \in live, pendingEv = <<e>> PROVE e \in live \ {cur}
      <3>1. e \in Ev /\ e # NoEv /\ ToSet(pendingEv) = {e}
        BY <2>1, OneSeq, EvAssumption DEF TypeOK
      <3> QED BY <3>1 DEF EventInv
    <2> QED BY <1>11, <2>1 DEF FinishIteration, EventInv
  <1>12. ASSUME NEW t \in Tid, IstRcvInvite(t) \/ NistRcvRequest(t) PROVE EventInv'
    <2>1. Fresh(fifo[t])
      BY <1>12, CleanHead DEF IstRcvInvite, NistRcvRequest, Executes, RequestInv, TypeOK, Rcv
    <2>2. pendingEv = <<>> /\ pc \in {"ist", "nist"}
      BY <1>12, <2>1 DEF IstRcvInvite, NistRcvRequest, RequestInv
    <2>3. CASE Respond(t)
      BY <1>12, <2>2, <2>3, RespondEventInv DEF IstRcvInvite, NistRcvRequest
    <2>4. CASE UNCHANGED libevVars
      BY <1>12, <2>4 DEF IstRcvInvite, NistRcvRequest, libevVars, EventInv
    <2> QED BY <1>12, <2>3, <2>4 DEF IstRcvInvite, NistRcvRequest
  <1>13. ASSUME NEW t \in Tid,
                IstSnd2xx(t) \/ IstIgnore(t) \/ NistSnd2xx(t) \/ NistTimeoutJ(t)
         PROVE  EventInv'
    BY <1>13 DEF IstSnd2xx, IstIgnore, NistSnd2xx, NistTimeoutJ, libevVars, EventInv
  <1>14. ASSUME NEW t \in Tid, ExecuteFreed(t) PROVE EventInv'
    BY <1>14 DEF ExecuteFreed, libevVars, EventInv
  <1>15. ~RecvResponseFails /\ \A t \in Tid : ~ToCloneFails(t) /\ ~SendFails(t)
    BY DEF RecvResponseFails, ToCloneFails, SendFails
  <1> QED
    BY <1>1, <1>2, <1>3, <1>4, <1>5, <1>6, <1>7, <1>8, <1>9, <1>10, <1>11,
       <1>12, <1>13, <1>14, <1>15
    DEF Next, Run, Receive, ExecuteIst, ExecuteNist, ExecuteFails

(* The steps that leave every FIFO alone *)
LEMMA SameFifo ==
  ASSUME TypeOK, RequestInv, UNCHANGED <<tstate, fifo>>,
         \A t \in Tid : Fresh(fifo[t]) =>
            /\ pc' \in {"process", "loop", "ist", "nist", "crashed"}
            /\ pc' \in {"process", "loop"} => pendingEv' # <<>>
            /\ pc' \in {"ist", "nist"} => pendingEv' = <<>>
            /\ pc' = "nist" => t \in Nist
  PROVE  RequestInv'
  BY DEF RequestInv, Ist, Nist

(* The steps that change the FIFO of one transaction, without a request in  *)
(* it afterwards, and leave its kind alone                                  *)
LEMMA OneFifo ==
  ASSUME TypeOK, RequestInv, NEW t \in Tid, NEW s \in Seq(FifoEvent),
         fifo' = [fifo EXCEPT ![t] = s], Clean(s), tstate[t] # "none",
         NEW st \in IstState \cup NistState, tstate' = [tstate EXCEPT ![t] = st],
         tstate[t] \in IstState <=> st \in IstState,
         \A u \in Tid \ {t} : Fresh(fifo[u]) =>
            /\ pc' \in {"process", "loop", "ist", "nist", "crashed"}
            /\ pc' \in {"process", "loop"} => pendingEv' # <<>>
            /\ pc' \in {"ist", "nist"} => pendingEv' = <<>>
            /\ pc' = "nist" => u \in Nist
  PROVE  RequestInv'
  <1>1. ~Fresh(fifo'[t]) /\ fifo'[t] = s
    BY FreshSeq DEF TypeOK
  <1>2. \A u \in Tid \ {t} : fifo'[u] = fifo[u] /\ tstate'[u] = tstate[u]
    BY DEF TypeOK
  <1>3. tstate'[t] = st /\ st # "none"
    BY DEF TypeOK, IstState, NistState
  <1>4. \A u \in Tid : Clean(fifo'[u]) \/ Fresh(fifo'[u])
    BY <1>1, <1>2 DEF RequestInv
  <1>5. \A u \in Tid : fifo'[u] = <<"RCV_REQINVITE">> => tstate'[u] \in IstState
    BY <1>1, <1>2 DEF RequestInv, Ist, Fresh
  <1>6. \A u \in Tid : fifo'[u] = <<"RCV_REQUEST">> => tstate'[u] \in NistState
    BY <1>1, <1>2 DEF RequestInv, Nist, Fresh
  <1> QED BY <1>1, <1>2, <1>3, <1>4, <1>5, <1>6 DEF RequestInv, Ist, Nist

(* Opening a transaction keeps RequestInv. *)
LEMMA OpenRequestInv ==
  ASSUME ~MemoryMayFail, TypeOK, EventInv, RequestInv,
         NEW types, NEW state \in IstState \cup NistState, NEW ev \in Rcv,
         Open(types, state, ev),
         ev = "RCV_REQINVITE" <=> state \in IstState
  PROVE  RequestInv'
  <1>1. PICK t \in Tid : /\ tstate[t] = "none"
                        /\ tstate' = [tstate EXCEPT ![t] = state]
                        /\ AddEvent(t, fifo[t], ev, active \ {Udp})
    BY DEF Open
  <1>2. pc = "process" /\ pc' = "process" /\ pendingEv = <<>>
    BY DEF Open, Reading, EventInv
  <1>3. \A u \in Tid : ~Fresh(fifo[u]) /\ Clean(fifo[u])
    BY <1>2 DEF RequestInv
  <1>4. fifo[t] = <<>>
    BY <1>1 DEF RequestInv
  <1>5. CASE Wakeup(active \ {Udp}) /\ fifo' = [fifo EXCEPT ![t] = Append(fifo[t], ev)]
    <2>1. PICK e \in Ev : pendingEv' = <<e>>
      BY <1>2, <1>5, WakeupEffect
    <2>2. pendingEv' # <<>>
      BY <2>1, OneSeq
    <2>3. fifo'[t] = <<ev>>
      BY <1>4, <1>5, OneSeq DEF TypeOK
    <2>4. \A u \in Tid \ {t} : fifo'[u] = fifo[u] /\ tstate'[u] = tstate[u]
      BY <1>1, <1>5 DEF TypeOK
    <2>5. tstate'[t] = state /\ state # "none"
      BY <1>1 DEF TypeOK, IstState, NistState
    <2>6. Fresh(fifo'[t])
      BY <2>3 DEF Fresh, Rcv
    <2>7. \A u \in Tid : Clean(fifo'[u]) \/ Fresh(fifo'[u])
      BY <1>3, <2>4, <2>6
    <2>8. \A u \in Tid : tstate'[u] = "none" => fifo'[u] = <<>>
      BY <2>4, <2>5 DEF RequestInv
    <2>9. \A u \in Tid : Fresh(fifo'[u]) => u = t
      BY <1>3, <2>4
    <2>10. fifo'[t] = <<"RCV_REQINVITE">> => state \in IstState
      BY <2>3, OneSeq
    <2>11. fifo'[t] = <<"RCV_REQUEST">> => state \in NistState
      BY <2>3, OneSeq
    <2>12. \A u \in Tid : fifo'[u] = <<"RCV_REQINVITE">> => tstate'[u] \in IstState
      BY <2>5, <2>9, <2>10 DEF Fresh
    <2>13. \A u \in Tid : fifo'[u] = <<"RCV_REQUEST">> => tstate'[u] \in NistState
      BY <2>5, <2>9, <2>11 DEF Fresh
    <2> QED BY <1>2, <2>2, <2>7, <2>8, <2>9, <2>12, <2>13 DEF RequestInv, Ist, Nist
  <1>6. CASE fifo' = [fifo EXCEPT ![t] = Append(fifo[t], "FREED")]
    <2>1. "FREED" \in FifoEvent \ Rcv
      BY DEF FifoEvent, Rcv
    <2>2. Clean(fifo'[t]) /\ ~Fresh(fifo'[t])
      BY <1>3, <1>6, <2>1, CleanAppend DEF TypeOK
    <2>3. \A u \in Tid \ {t} : fifo'[u] = fifo[u] /\ tstate'[u] = tstate[u]
      BY <1>1, <1>6 DEF TypeOK
    <2>4. tstate'[t] = state /\ state # "none"
      BY <1>1 DEF TypeOK, IstState, NistState
    <2>5. \A u \in Tid : Clean(fifo'[u]) /\ ~Fresh(fifo'[u])
      BY <1>3, <2>2, <2>3
    <2>6. \A u \in Tid : tstate'[u] = "none" => fifo'[u] = <<>>
      BY <2>3, <2>4 DEF RequestInv
    <2> QED BY <2>5, <2>6 DEF RequestInv, Fresh
  <1> QED BY <1>1, <1>5, <1>6 DEF AddEvent, WakeupUnlisted

(* Every step keeps RequestInv. *)
LEMMA RequestNext ==
  ASSUME ~MemoryMayFail
  PROVE  TypeOK /\ EventInv /\ RequestInv /\ [Next]_vars => RequestInv'
  <1> SUFFICES ASSUME TypeOK, EventInv, RequestInv, [Next]_vars PROVE RequestInv'
    OBVIOUS
  <1>1. CASE UNCHANGED vars
    BY <1>1 DEF vars, RequestInv, Ist, Nist
  <1>2. CASE Poll
    BY <1>2, SameFifo DEF Poll, sipVars, RequestInv
  <1>3. CASE RecvRefused \/ RecvAck
    BY <1>3, SameFifo DEF RecvRefused, RecvAck, sipVars, RequestInv
  <1>4. CASE RecvResponse
    <2>1. PICK t \in Ist : AddEvent(t, fifo[t], "RCV_STATUS", active \ {Udp})
      BY <1>4 DEF RecvResponse
    <2>2. \A u \in Tid : ~Fresh(fifo[u]) /\ Clean(fifo[u])
      BY <1>4 DEF RecvResponse, Reading, EventInv, RequestInv
    <2>3. PICK ev \in {"RCV_STATUS", "FREED"} : fifo' = [fifo EXCEPT ![t] = Append(fifo[t], ev)]
      BY <2>1 DEF AddEvent
    <2>4. ev \in FifoEvent \ Rcv /\ t \in Tid /\ tstate[t] \in IstState
      BY DEF FifoEvent, Rcv, Ist
    <2>5. Append(fifo[t], ev) \in Seq(FifoEvent) /\ Clean(Append(fifo[t], ev))
      BY <2>2, <2>4, CleanAppend DEF TypeOK
    <2>6. tstate' = [tstate EXCEPT ![t] = tstate[t]] /\ tstate[t] # "none"
      BY <1>4, <2>4 DEF RecvResponse, TypeOK, IstState
    <2> QED BY <2>2, <2>3, <2>4, <2>5, <2>6, OneFifo
  <1>5. CASE RecvInvite
    <2>1. "RCV_REQINVITE" \in Rcv /\ "IST_PRE_PROCEEDING" \in IstState
      BY DEF Rcv, IstState
    <2> QED BY <1>5, <2>1, OpenRequestInv DEF RecvInvite
  <1>6. CASE RecvRequest
    <2>1. "RCV_REQUEST" \in Rcv /\ "NIST_PRE_TRYING" \in NistState \ IstState
      BY DEF Rcv, NistState, IstState
    <2> QED BY <1>6, <2>1, OpenRequestInv DEF RecvRequest
  <1>7. CASE ProcessDone
    BY <1>7, SameFifo DEF ProcessDone, libevVars, sipVars, RequestInv, EventInv
  <1>8. CASE RunWakeup
    BY <1>8, SameFifo DEF RunWakeup, sipVars, RequestInv
  <1>9. CASE LoopPop
    <2>1. PICK e \in live : pendingEv = <<e>>
      BY <1>9 DEF LoopPop, EventInv
    <2>2. pendingEv' = <<>>
      BY <1>9, <2>1, OneSeq DEF LoopPop
    <2> QED BY <1>9, <2>2, SameFifo DEF LoopPop, sipVars
  <1>10. CASE LoopReturn
    BY <1>10, SameFifo DEF LoopReturn, libevVars, sipVars, RequestInv
  <1>11. CASE IstDone
    <2>1. \A t \in Tid : Fresh(fifo[t]) => t \in Nist /\ pendingEv = <<>>
      BY <1>11, FreshSeq DEF IstDone, RequestInv, Fresh, TypeOK
    <2> QED BY <1>11, <2>1, SameFifo DEF IstDone, libevVars, sipVars
  <1>12. CASE NistDone
    <2>1. \A t \in Tid : ~Fresh(fifo[t])
      BY <1>12, FreshSeq DEF NistDone, RequestInv, TypeOK
    <2> QED BY <1>12, <2>1, SameFifo DEF NistDone, libevVars, sipVars
  <1>13. CASE FinishIteration
    <2>1. PICK expired \in SUBSET {t \in Tid : tstate[t] = "NIST_COMPLETED"} :
            fifo' = [t \in Tid |-> IF t \in expired THEN Append(fifo[t], "TIMEOUT_J")
                                   ELSE fifo[t]]
      BY <1>13 DEF FinishIteration
    <2>2. \A t \in Tid : Clean(fifo[t]) /\ ~Fresh(fifo[t])
      BY <1>13 DEF FinishIteration, RequestInv
    <2>3. "TIMEOUT_J" \in FifoEvent \ Rcv
      BY DEF FifoEvent, Rcv
    <2>4. \A t \in Tid : Clean(fifo'[t]) /\ ~Fresh(fifo'[t])
      BY <2>1, <2>2, <2>3, CleanAppend DEF TypeOK
    <2>5. \A t \in Tid : tstate'[t] = "none" => fifo'[t] = <<>>
      BY <1>13, <2>1 DEF FinishIteration, RequestInv
    <2> QED BY <2>4, <2>5 DEF RequestInv, Fresh
  <1>14. ASSUME NEW t \in Tid, IstRcvInvite(t) \/ NistRcvRequest(t) PROVE RequestInv'
    <2>1. Fresh(fifo[t]) /\ Tail(fifo[t]) = <<>>
      BY <1>14, CleanHead, FreshSeq
      DEF IstRcvInvite, NistRcvRequest, Executes, RequestInv, TypeOK, Rcv
    <2>2. \A u \in Tid \ {t} : ~Fresh(fifo[u])
      BY <2>1 DEF RequestInv
    <2>3. PICK s \in Seq(FifoEvent) : fifo' = [fifo EXCEPT ![t] = s] /\ Clean(s)
      <3>1. "SND_STATUS_2XX" \in FifoEvent \ Rcv /\ "FREED" \in FifoEvent \ Rcv
        BY DEF FifoEvent, Rcv
      <3>2. <<>> \in Seq(FifoEvent)
        BY EmptySeq
      <3>3. ASSUME NEW ev \in FifoEvent \ Rcv
            PROVE  Append(<<>>, ev) \in Seq(FifoEvent) /\ Clean(Append(<<>>, ev))
        <4>1. Append(<<>>, ev) \in Seq(FifoEvent)
          BY <3>2
        <4> QED BY <3>2, <4>1, CleanAppend, EmptyClean
      <3> QED BY <1>14, <2>1, <3>1, <3>2, <3>3, EmptyClean
              DEF IstRcvInvite, NistRcvRequest, Respond, AddEvent
    <2>4. PICK st \in {"IST_PROCEEDING", "NIST_TRYING"} :
            /\ tstate' = [tstate EXCEPT ![t] = st]
            /\ tstate[t] \in IstState <=> st \in IstState
      BY <1>14 DEF IstRcvInvite, NistRcvRequest, IstState
    <2>5. st \in IstState \cup NistState /\ tstate[t] # "none"
      BY <1>14 DEF IstRcvInvite, NistRcvRequest, IstState, NistState
    <2> QED BY <2>2, <2>3, <2>4, <2>5, OneFifo
  <1>15. ASSUME NEW t \in Tid,
                \/ IstSnd2xx(t) \/ IstIgnore(t) \/ NistSnd2xx(t)
                \/ NistTimeoutJ(t) \/ ExecuteFreed(t)
         PROVE  RequestInv'
    <2>1. fifo[t] # <<>> /\ fifo' = [fifo EXCEPT ![t] = Tail(fifo[t])]
      BY <1>15 DEF IstSnd2xx, IstIgnore, NistSnd2xx, NistTimeoutJ, ExecuteFreed, Executes
    <2>2. Tail(fifo[t]) \in Seq(FifoEvent) /\ Clean(Tail(fifo[t]))
      BY <2>1, CleanTail, HeadTailProperties DEF RequestInv, TypeOK
    <2>3. PICK st \in IstState \cup NistState :
            /\ tstate' = [tstate EXCEPT ![t] = st]
            /\ tstate[t] \in IstState <=> st \in IstState
      BY <1>15 DEF IstSnd2xx, IstIgnore, NistSnd2xx, NistTimeoutJ, ExecuteFreed,
                   IstState, NistState, Ist, Nist, TypeOK
    <2>4. tstate[t] # "none"
      BY <1>15 DEF IstSnd2xx, IstIgnore, NistSnd2xx, NistTimeoutJ, ExecuteFreed,
                   IstState, NistState, Ist, Nist
    <2>5. pendingEv' = pendingEv /\ pc' \in {pc, "crashed"}
      BY <1>15 DEF IstSnd2xx, IstIgnore, NistSnd2xx, NistTimeoutJ, ExecuteFreed, libevVars
    <2>6. \A u \in Tid \ {t} : Fresh(fifo[u]) =>
            /\ pc' \in {"process", "loop", "ist", "nist", "crashed"}
            /\ pc' \in {"process", "loop"} => pendingEv' # <<>>
            /\ pc' \in {"ist", "nist"} => pendingEv' = <<>>
            /\ pc' = "nist" => u \in Nist
      BY <2>5 DEF RequestInv
    <2> QED BY <2>1, <2>2, <2>3, <2>4, <2>6, OneFifo
  <1>16. ~RecvResponseFails /\ \A t \in Tid : ~ToCloneFails(t) /\ ~SendFails(t)
    BY DEF RecvResponseFails, ToCloneFails, SendFails
  <1> QED
    BY <1>1, <1>2, <1>3, <1>4, <1>5, <1>6, <1>7, <1>8, <1>9, <1>10, <1>11,
       <1>12, <1>13, <1>14, <1>15, <1>16
    DEF Next, Run, Receive, ExecuteIst, ExecuteNist, ExecuteFails

(* Both hold when the program starts. *)
LEMMA EventInit == Init => EventInv /\ RequestInv
  <1> SUFFICES ASSUME Init PROVE EventInv /\ RequestInv
    OBVIOUS
  <1>1. EventInv
    BY DEF Init, EventInv
  <1>2. \A t \in Tid : Clean(fifo[t]) /\ ~Fresh(fifo[t])
    BY EmptyClean DEF Init
  <1>3. RequestInv
    BY <1>2 DEF Init, RequestInv, Fresh
  <1> QED BY <1>1, <1>3

(* esosip.c 516 against 431: the list that is filled and emptied at the     *)
(* same end never holds two events, and no event is active that is neither  *)
(* in it nor held by _es_osip_loop, as long as no allocation fails.         *)
THEOREM AtMostOnePendingHolds ==
  ASSUME ~MemoryMayFail
  PROVE  Spec => []AtMostOnePending
  <1>1. TypeOK /\ EventInv /\ RequestInv /\ [Next]_vars => EventInv'
    BY EventNext
  <1>2. TypeOK /\ EventInv /\ RequestInv /\ [Next]_vars => RequestInv'
    BY RequestNext
  <1>3. ASSUME EventInv PROVE AtMostOnePending
    <2>1. CASE pendingEv = <<>>
      BY <1>3, <2>1, EmptySeq DEF AtMostOnePending, EventInv
    <2>2. ASSUME NEW e \in live, pendingEv = <<e>> PROVE AtMostOnePending
      BY <1>3, <2>2 DEF AtMostOnePending, EventInv
    <2> QED BY <1>3, <2>1, <2>2 DEF EventInv
  <1> QED BY <1>1, <1>2, <1>3, TypeCorrect, EventInit, PTL DEF Spec
-----------------------------------------------------------------------------
(* No leak while memory lasts.  NoLeakedEvent is inductive with EventInv.    *)

(* A wake-up that succeeds, or fails because every event is allocated        *)
LEMMA WakeupLeaks ==
  ASSUME ~MemoryMayFail, TypeOK, NoLeakedEvent, UNCHANGED cur, NEW act,
         Wakeup(act) \/ WakeupFails(act) \/ WakeupUnlisted(act)
  PROVE  NoLeakedEvent'
  <1>1. CASE Wakeup(act)
    <2>1. PICK e \in Ev \ live : live' = live \cup {e} /\ pendingEv' = <<e>> \o pendingEv
      BY <1>1 DEF Wakeup
    <2>2. ToSet(pendingEv') = {e} \cup ToSet(pendingEv)
      BY <2>1, ConsSeq DEF TypeOK
    <2> QED BY <2>1, <2>2 DEF NoLeakedEvent
  <1>2. CASE WakeupFails(act)
    <2>1. live' = live /\ pendingEv' = pendingEv
      BY <1>2 DEF WakeupFails
    <2> QED BY <2>1 DEF NoLeakedEvent
  <1> QED BY <1>1, <1>2 DEF WakeupUnlisted

(* Every step keeps NoLeakedEvent. *)
LEMMA LeakNext ==
  ASSUME ~MemoryMayFail
  PROVE  TypeOK /\ EventInv /\ NoLeakedEvent /\ [Next]_vars => NoLeakedEvent'
  <1> SUFFICES ASSUME TypeOK, EventInv, NoLeakedEvent, [Next]_vars PROVE NoLeakedEvent'
    OBVIOUS
  <1>1. ASSUME UNCHANGED <<cur, pendingEv, live>> PROVE NoLeakedEvent'
    BY <1>1 DEF NoLeakedEvent
  <1>2. CASE UNCHANGED vars \/ Poll \/ RecvRefused \/ RecvAck
    BY <1>1, <1>2 DEF vars, Poll, RecvRefused, RecvAck
  <1>3. CASE RecvResponse \/ RecvInvite \/ RecvRequest
    <2>1. UNCHANGED cur /\ \E t, rest, ev : AddEvent(t, rest, ev, active \ {Udp})
      BY <1>3 DEF RecvResponse, RecvInvite, RecvRequest, Open
    <2> QED BY <2>1, WakeupLeaks DEF AddEvent
  <1>4. CASE ProcessDone \/ LoopReturn \/ IstDone \/ NistDone \/ RunWakeup
    BY <1>1, <1>4 DEF ProcessDone, LoopReturn, IstDone, NistDone, RunWakeup, libevVars
  <1>5. CASE LoopPop
    <2>1. PICK e \in live : pendingEv = <<e>>
      BY <1>5 DEF LoopPop, EventInv
    <2>2. cur = NoEv /\ cur' = e /\ pendingEv' = <<>> /\ UNCHANGED live
      BY <1>5, <2>1, OneSeq DEF LoopPop, EventInv
    <2>3. ToSet(pendingEv) = {e} /\ ToSet(pendingEv') = {} /\ e # NoEv
      BY <2>1, <2>2, OneSeq, EvAssumption DEF TypeOK
    <2> QED BY <2>2, <2>3 DEF NoLeakedEvent
  <1>6. CASE FinishIteration
    <2>1. live' = live \ {cur} /\ cur' = NoEv /\ UNCHANGED pendingEv
      BY <1>6 DEF FinishIteration
    <2>2. cur \notin ToSet(pendingEv)
      <3>1. NoEv \notin live
        BY EvAssumption DEF TypeOK
      <3> QED BY <3>1 DEF EventInv, NoLeakedEvent
    <2> QED BY <2>1, <2>2 DEF NoLeakedEvent
  <1>7. ASSUME NEW t \in Tid, IstRcvInvite(t) \/ NistRcvRequest(t) PROVE NoLeakedEvent'
    <2>1. UNCHANGED cur /\ (Respond(t) \/ UNCHANGED libevVars)
      BY <1>7 DEF IstRcvInvite, NistRcvRequest
    <2>2. \/ UNCHANGED libevVars
          \/ Wakeup(active) \/ WakeupUnlisted(active) \/ WakeupFails(active)
      BY <2>1 DEF Respond, AddEvent
    <2> QED BY <1>1, <2>1, <2>2, WakeupLeaks DEF libevVars
  <1>8. ASSUME NEW t \in Tid,
               \/ IstSnd2xx(t) \/ IstIgnore(t) \/ NistSnd2xx(t)
               \/ NistTimeoutJ(t) \/ ExecuteFails(t)
        PROVE  NoLeakedEvent'
    <2>1. UNCHANGED cur /\ UNCHANGED libevVars
      BY <1>8 DEF IstSnd2xx, IstIgnore, NistSnd2xx, NistTimeoutJ, ExecuteFails,
                  ExecuteFreed, ToCloneFails, SendFails
    <2> QED BY <1>1, <2>1 DEF libevVars
  <1>9. ~RecvResponseFails
    BY DEF RecvResponseFails
  <1> QED
    BY <1>2, <1>3, <1>4, <1>5, <1>6, <1>7, <1>8, <1>9
    DEF Next, Run, Receive, ExecuteIst, ExecuteNist

(* The invariant of the wake-ups, for the theorems below. *)
LEMMA EventsHold ==
  ASSUME ~MemoryMayFail
  PROVE  Spec => [](TypeOK /\ EventInv /\ RequestInv)
  <1>1. TypeOK /\ EventInv /\ RequestInv /\ [Next]_vars => EventInv' /\ RequestInv'
    BY EventNext, RequestNext
  <1> QED BY <1>1, TypeCorrect, EventInit, PTL DEF Spec

(* esosip.c 500 against 480: every event that a wake-up allocates is pending *)
(* or held by _es_osip_loop until event_free releases it, as long as no      *)
(* allocation fails.                                                         *)
THEOREM NoLeakedEventHolds ==
  ASSUME ~MemoryMayFail
  PROVE  Spec => []NoLeakedEvent
  <1>1. Init => NoLeakedEvent
    <2>1. ToSet(<<>>) = {}
      BY DEF ToSet
    <2> QED BY <2>1 DEF Init, NoLeakedEvent
  <1>2. TypeOK /\ EventInv /\ NoLeakedEvent /\ [Next]_vars => NoLeakedEvent'
    BY LeakNext
  <1> QED BY <1>1, <1>2, EventsHold, PTL DEF Spec
-----------------------------------------------------------------------------
(* Dialogs, whichever allocations fail.  DialogPerInvite is not inductive:   *)
(* that an INVITE is answered once needs its transaction to be past the      *)
(* answer when it has a dialog, and unanswered before.                       *)

DialogInv ==
  /\ \A i, j \in DOMAIN osipDialog : osipDialog[i] = osipDialog[j] => i = j
  /\ \A t \in ToSet(osipDialog) :
       /\ req[t].type = "INVITE" /\ sent[t] = 1
       /\ tstate[t] \in {"IST_TERMINATED", "freed"}
  /\ \A t \in Tid :
       tstate[t] \in {"none", "IST_PRE_PROCEEDING", "IST_PROCEEDING"} => sent[t] = 0
  /\ ~MemoryMayFail =>
       \A t \in Tid : tstate[t] = "IST_TERMINATED" => t \in ToSet(osipDialog)

(* A transaction without a dialog moves on, and does not become one that     *)
(* should have a dialog.                                                     *)
LEMMA DialogMoves ==
  ASSUME TypeOK, DialogInv, UNCHANGED osipDialog, NEW t \in Tid, NEW s,
         tstate' = [tstate EXCEPT ![t] = s], t \notin ToSet(osipDialog),
         \A u \in Tid \ {t} : req'[u] = req[u] /\ sent'[u] = sent[u],
         s = "IST_TERMINATED" => MemoryMayFail,
         s \in {"none", "IST_PRE_PROCEEDING", "IST_PROCEEDING"} => sent'[t] = 0
  PROVE  DialogInv'
  <1>1. tstate'[t] = s /\ \A u \in Tid \ {t} : tstate'[u] = tstate[u]
    BY DEF TypeOK
  <1>2. ToSet(osipDialog) \subseteq Tid \ {t}
    BY DEF TypeOK, ToSet
  <1>3. \A u \in ToSet(osipDialog) :
          /\ req'[u].type = "INVITE" /\ sent'[u] = 1
          /\ tstate'[u] \in {"IST_TERMINATED", "freed"}
    BY <1>1, <1>2 DEF DialogInv
  <1>4. \A u \in Tid :
          tstate'[u] \in {"none", "IST_PRE_PROCEEDING", "IST_PROCEEDING"} => sent'[u] = 0
    BY <1>1 DEF DialogInv
  <1>5. ~MemoryMayFail =>
          \A u \in Tid : tstate'[u] = "IST_TERMINATED" => u \in ToSet(osipDialog)
    BY <1>1 DEF DialogInv
  <1> QED BY <1>3, <1>4, <1>5 DEF DialogInv

(* Every step keeps DialogInv. *)
LEMMA DialogNext == TypeOK /\ DialogInv /\ [Next]_vars => DialogInv'
  <1> SUFFICES ASSUME TypeOK, DialogInv, [Next]_vars PROVE DialogInv'
    OBVIOUS
  <1>1. ASSUME UNCHANGED <<tstate, req, sent, osipDialog>> PROVE DialogInv'
    BY <1>1 DEF DialogInv
  <1>2. CASE UNCHANGED vars \/ Poll \/ RecvRefused \/ RecvAck \/ RecvResponse
    BY <1>1, <1>2 DEF vars, Poll, RecvRefused, RecvAck, RecvResponse, sipVars
  <1>3. CASE \/ ProcessDone \/ RunWakeup \/ LoopPop \/ LoopReturn
             \/ IstDone \/ NistDone \/ FinishIteration
    BY <1>1, <1>3 DEF ProcessDone, RunWakeup, LoopPop, LoopReturn, IstDone, NistDone,
                      FinishIteration, sipVars
  <1>4. ASSUME NEW types, NEW ev,
               NEW state \in {"IST_PRE_PROCEEDING", "NIST_PRE_TRYING"},
               Open(types, state, ev)
        PROVE  DialogInv'
    <2>1. PICK t \in Tid : /\ tstate[t] = "none"
                          /\ tstate' = [tstate EXCEPT ![t] = state]
                          /\ \E r : req' = [req EXCEPT ![t] = r]
      BY <1>4 DEF Open
    <2>2. UNCHANGED <<sent, osipDialog>>
      BY <1>4 DEF Open
    <2>3. t \notin ToSet(osipDialog) /\ sent[t] = 0
      BY <2>1 DEF DialogInv
    <2>4. \A u \in Tid \ {t} : req'[u] = req[u]
      BY <2>1 DEF TypeOK
    <2> QED BY <2>1, <2>2, <2>3, <2>4, DialogMoves
  <1>5. CASE RecvInvite \/ RecvRequest
    BY <1>4, <1>5 DEF RecvInvite, RecvRequest
  <1>6. CASE RecvResponseFails
    <2>1. PICK t \in Ist : tstate' = [tstate EXCEPT ![t] = "freed"]
      BY <1>6 DEF RecvResponseFails
    <2>2. MemoryMayFail /\ UNCHANGED <<req, sent, osipDialog>>
      BY <1>6 DEF RecvResponseFails
    <2>3. \A u \in Tid : tstate'[u] = tstate[u] \/ tstate'[u] = "freed"
      BY <2>1 DEF TypeOK, Ist
    <2>4. ToSet(osipDialog) \subseteq Tid
      BY DEF TypeOK, ToSet
    <2> QED BY <2>2, <2>3, <2>4 DEF DialogInv
  <1>7. ASSUME NEW t \in Tid, IstSnd2xx(t), osipDialog' = <<t>> \o osipDialog
        PROVE  DialogInv'
    <2>1. /\ tstate[t] = "IST_PROCEEDING" /\ UNCHANGED req
          /\ tstate' = [tstate EXCEPT ![t] = "IST_TERMINATED"]
          /\ sent' = [sent EXCEPT ![t] = @ + 1]
      BY <1>7 DEF IstSnd2xx
    <2>2. /\ tstate'[t] = "IST_TERMINATED" /\ sent[t] = 0 /\ sent'[t] = 1
          /\ \A u \in Tid \ {t} : tstate'[u] = tstate[u] /\ sent'[u] = sent[u]
      BY <2>1 DEF TypeOK, DialogInv
    <2>3. req[t].type = "INVITE"
      BY <2>1 DEF TypeOK, KindOK, Ist, IstState
    <2>4. osipDialog \in Seq(Tid) /\ t \notin ToSet(osipDialog)
      BY <2>1 DEF TypeOK, DialogInv
    <2>5. ToSet(osipDialog') = {t} \cup ToSet(osipDialog)
      BY <1>7, <2>4, ConsSeq
    <2>6. \A i, j \in DOMAIN osipDialog' : osipDialog'[i] = osipDialog'[j] => i = j
      <3>1. \A i, j \in DOMAIN osipDialog : osipDialog[i] = osipDialog[j] => i = j
        BY DEF DialogInv
      <3>2. \A i, j \in DOMAIN (<<t>> \o osipDialog) :
              (<<t>> \o osipDialog)[i] = (<<t>> \o osipDialog)[j] => i = j
        BY <2>4, <3>1, ConsInjective
      <3> QED BY <1>7, <3>2
    <2>7. ToSet(osipDialog) \subseteq Tid \ {t}
      BY <2>4 DEF ToSet
    <2>8. \A u \in ToSet(osipDialog') :
            /\ req'[u].type = "INVITE" /\ sent'[u] = 1
            /\ tstate'[u] \in {"IST_TERMINATED", "freed"}
      BY <2>1, <2>2, <2>3, <2>5, <2>7 DEF DialogInv
    <2>9. \A u \in Tid :
            tstate'[u] \in {"none", "IST_PRE_PROCEEDING", "IST_PROCEEDING"} => sent'[u] = 0
      BY <2>2 DEF DialogInv
    <2>10. ~MemoryMayFail =>
             \A u \in Tid : tstate'[u] = "IST_TERMINATED" => u \in ToSet(osipDialog')
      BY <2>2, <2>5 DEF DialogInv
    <2> QED BY <2>6, <2>8, <2>9, <2>10 DEF DialogInv
  <1>8. ASSUME NEW t \in Tid,
               \/ IstRcvInvite(t) \/ NistRcvRequest(t) \/ NistSnd2xx(t)
               \/ NistTimeoutJ(t) \/ SendFails(t)
               \/ IstSnd2xx(t) /\ osipDialog' # <<t>> \o osipDialog
        PROVE  DialogInv'
    <2>1. PICK s : /\ tstate' = [tstate EXCEPT ![t] = s]
                   /\ s = "IST_TERMINATED" => MemoryMayFail
                   /\ s \in {"none", "IST_PRE_PROCEEDING", "IST_PROCEEDING"} =>
                        tstate[t] = "IST_PRE_PROCEEDING" /\ UNCHANGED sent
      BY <1>8 DEF IstRcvInvite, NistRcvRequest, NistSnd2xx, NistTimeoutJ, SendFails, IstSnd2xx
    <2>2. tstate[t] \notin {"IST_TERMINATED", "freed"} /\ UNCHANGED <<req, osipDialog>>
      BY <1>8 DEF IstRcvInvite, NistRcvRequest, NistSnd2xx, NistTimeoutJ, SendFails, IstSnd2xx
    <2>3. sent' = [sent EXCEPT ![t] = @ + 1] \/ sent' = sent
      BY <1>8 DEF IstRcvInvite, NistRcvRequest, NistSnd2xx, NistTimeoutJ, SendFails, IstSnd2xx
    <2>4. \A u \in Tid \ {t} : sent'[u] = sent[u]
      BY <2>3 DEF TypeOK
    <2>5. t \notin ToSet(osipDialog)
      BY <2>2 DEF DialogInv
    <2>6. s \in {"none", "IST_PRE_PROCEEDING", "IST_PROCEEDING"} => sent'[t] = 0
      BY <2>1 DEF DialogInv
    <2> QED BY <2>1, <2>2, <2>4, <2>5, <2>6, DialogMoves
  <1>9. ASSUME NEW t \in Tid, IstIgnore(t) \/ ExecuteFreed(t) \/ ToCloneFails(t)
        PROVE  DialogInv'
    BY <1>1, <1>9 DEF IstIgnore, ExecuteFreed, ToCloneFails, sipVars
  <1> QED
    BY <1>2, <1>3, <1>5, <1>6, <1>7, <1>8, <1>9
    DEF Next, Run, Receive, ExecuteIst, ExecuteNist, ExecuteFails

(* esosip.c 611-624: every dialog comes from one INVITE that was answered    *)
(* once, no INVITE has two and, if no allocation fails, every answered one   *)
(* has a dialog.                                                             *)
THEOREM DialogPerInviteHolds == Spec => []DialogPerInvite
  <1>1. Init => DialogInv
    <2>1. ToSet(<<>>) = {} /\ DOMAIN <<>> = {}
      BY DEF ToSet
    <2> QED BY <2>1 DEF Init, DialogInv
  <1>2. DialogInv => DialogPerInvite
    BY DEF DialogInv, DialogPerInvite
  <1> QED BY <1>1, <1>2, TypeCorrect, DialogNext, PTL DEF Spec
=============================================================================
