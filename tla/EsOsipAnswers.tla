---------------------------- MODULE EsOsipAnswers ----------------------------
(***************************************************************************)
(* Proofs that EsOsip answers: every request is answered once before the    *)
(* thread polls again, as long as no allocation fails and memory has room   *)
(* for the two wake-ups a request needs, and every step of EsOsip is a step *)
(* or a stutter of SipUas, whichever allocations fail.                      *)
(***************************************************************************)
EXTENDS EsOsipProofs

(* One wake-up is made while another is held by _es_osip_loop. *)
TwoEvents == \E e1, e2 \in Ev : e1 # e2

(* What a transaction has in its FIFO, and how often it was answered, in    *)
(* each of its states: f is transactionff, n is sent.                       *)
Fits(s, type, f, n) ==
  \/ s = "none" /\ f = <<>> /\ n = 0
  \/ s = "IST_PRE_PROCEEDING" /\ f = <<"RCV_REQINVITE">> /\ n = 0
  \/ s = "IST_PROCEEDING" /\ f = <<"SND_STATUS_2XX">> /\ n = 0
  \/ s = "IST_TERMINATED" /\ f \in {<<>>, <<"RCV_STATUS">>} /\ n = 1
  \/ s = "NIST_PRE_TRYING" /\ f = <<"RCV_REQUEST">> /\ n = 0
  \/ s = "NIST_TRYING" /\ type # "OTHER" /\ f = <<"SND_STATUS_2XX">> /\ n = 0
  \/ s = "NIST_TRYING" /\ type = "OTHER" /\ f = <<>> /\ n = 0
  \/ s = "NIST_COMPLETED" /\ type # "OTHER" /\ f \in {<<>>, <<"TIMEOUT_J">>} /\ n = 1
  \/ s = "NIST_TERMINATED" /\ type # "OTHER" /\ f = <<>> /\ n = 1

FitsAt(t) == Fits(tstate[t], req[t].type, fifo[t], sent[t])

(* Nothing is queued but a timer that has expired. *)
Quiet(t) == fifo[t] \in {<<>>, <<"TIMEOUT_J">>}

AnswerInv ==
  /\ \A t \in Tid : FitsAt(t)
  /\ pc = "poll" => \A t \in Tid : Quiet(t)
  /\ pc \in {"process", "loop"} /\ pendingEv = <<>> => \A t \in Tid : Quiet(t)
  /\ pc = "nist" => \A t \in Ist : fifo[t] = <<>>
  /\ pc = "timers" => \A t \in Tid : fifo[t] = <<>>

-----------------------------------------------------------------------------
(* FIFOs of at most one event *)

(* What is told apart of them: their event, and whether they have one.      *)
LEMMA OneEvent ==
  /\ \A a, b \in FifoEvent : <<a>> = <<b>> => a = b
  /\ \A a \in FifoEvent : /\ <<a>> # <<>> /\ Head(<<a>>) = a /\ Tail(<<a>>) = <<>>
                          /\ Append(<<>>, a) = <<a>>
  <1>1. \A a \in FifoEvent : /\ <<a>> # <<>> /\ Head(<<a>>) = a /\ Tail(<<a>>) = <<>>
                             /\ Append(<<>>, a) = <<a>>
    BY OneSeq
  <1>2. ASSUME NEW a \in FifoEvent, NEW b \in FifoEvent, <<a>> = <<b>> PROVE a = b
    <2>1. Head(<<a>>) = a /\ Head(<<b>>) = b
      BY <1>1
    <2> QED BY <1>2, <2>1
  <1> QED BY <1>1, <1>2

(* The events are different strings. *)
LEMMA Events ==
  {"RCV_REQINVITE", "RCV_REQUEST", "RCV_STATUS", "SND_STATUS_2XX", "TIMEOUT_J"}
    \subseteq FifoEvent
  BY DEF FifoEvent

(* The state that an execution of the state machines starts from, by the    *)
(* event it takes: that event was alone in the FIFO.                        *)
LEMMA Taken ==
  ASSUME TypeOK, AnswerInv, NEW t \in Tid, fifo[t] # <<>>
  PROVE  /\ fifo[t] = <<Head(fifo[t])>> /\ Tail(fifo[t]) = <<>>
         /\ Head(fifo[t]) # "FREED"
  <1>1. PICK a \in {"RCV_REQINVITE", "RCV_REQUEST", "RCV_STATUS",
                    "SND_STATUS_2XX", "TIMEOUT_J"} : fifo[t] = <<a>>
    BY DEF AnswerInv, FitsAt, Fits
  <1>2. Head(<<a>>) = a /\ Tail(<<a>>) = <<>>
    BY OneEvent, Events
  <1> QED BY <1>1, <1>2

(* A quiet transaction has done all it has to, and was answered if it is to *)
(* be answered at all.                                                      *)
LEMMA QuietIsAnswered ==
  ASSUME TypeOK, AnswerInv, NEW t \in Tid, Quiet(t)
  PROVE  /\ tstate[t] # "none" =>
              sent[t] = IF req[t].type \in Answerable THEN 1 ELSE 0
         /\ t \in Ist => tstate[t] = "IST_TERMINATED" /\ fifo[t] = <<>>
  <1>1. \/ tstate[t] = "none"
        \/ tstate[t] = "IST_TERMINATED" /\ fifo[t] = <<>> /\ sent[t] = 1
        \/ tstate[t] = "NIST_TRYING" /\ req[t].type = "OTHER" /\ sent[t] = 0
        \/ /\ tstate[t] \in {"NIST_COMPLETED", "NIST_TERMINATED"}
           /\ req[t].type # "OTHER" /\ sent[t] = 1
    BY OneEvent, Events DEF AnswerInv, FitsAt, Fits, Quiet
  <1>2. tstate[t] # "none" => req[t].type \in {"INVITE", "REGISTER", "BYE", "OTHER"}
    BY DEF TypeOK, KindOK, Request
  <1>3. tstate[t] = "IST_TERMINATED" => req[t].type = "INVITE"
    BY DEF TypeOK, KindOK, Ist, IstState
  <1> QED BY <1>1, <1>2, <1>3 DEF Answerable, Ist, IstState

-----------------------------------------------------------------------------
(* Steps *)

(* A wake-up made when none is pending finds memory: the loop holds at most *)
(* one of the two events.                                                   *)
LEMMA WakeupSucceeds ==
  ASSUME ~MemoryMayFail, TwoEvents, NoLeakedEvent, pendingEv = <<>>, TypeOK,
         NEW t, NEW rest, NEW ev, NEW act, AddEvent(t, rest, ev, act)
  PROVE  fifo' = [fifo EXCEPT ![t] = Append(rest, ev)] /\ pendingEv' # <<>>
  <1>1. ToSet(<<>>) = {}
    BY DEF ToSet
  <1>2. live # Ev
    BY <1>1 DEF NoLeakedEvent, TwoEvents
  <1>3. Wakeup(act) /\ fifo' = [fifo EXCEPT ![t] = Append(rest, ev)]
    BY <1>2 DEF AddEvent, WakeupFails, WakeupUnlisted
  <1>4. PICK e \in Ev \ live : pendingEv' = <<e>>
    BY <1>3, WakeupEffect
  <1> QED BY <1>3, <1>4, OneSeq

(* A step of one transaction *)
LEMMA OneFits ==
  ASSUME TypeOK, AnswerInv, NEW t \in Tid,
         \A u \in Tid \ {t} : /\ tstate'[u] = tstate[u] /\ req'[u] = req[u]
                              /\ fifo'[u] = fifo[u] /\ sent'[u] = sent[u],
         Fits(tstate'[t], req'[t].type, fifo'[t], sent'[t])
  PROVE  \A u \in Tid : FitsAt(u)'
  <1>1. ASSUME NEW u \in Tid \ {t} PROVE FitsAt(u)'
    BY DEF AnswerInv, FitsAt
  <1>2. FitsAt(t)'
    BY DEF FitsAt
  <1> QED BY <1>1, <1>2

(* A step that leaves all transactions alone *)
LEMMA SameFits ==
  ASSUME AnswerInv, UNCHANGED sipVars
  PROVE  (\A t \in Tid : FitsAt(t)') /\ (\A t \in Tid : Quiet(t)' <=> Quiet(t)) /\ Ist' = Ist
  BY DEF AnswerInv, FitsAt, Fits, sipVars, Quiet, Ist

(* A step of osip_ist_execute or osip_nist_execute: the FIFO of one of its  *)
(* transactions is changed.                                                 *)
LEMMA ExecuteFits ==
  ASSUME TypeOK, AnswerInv, NEW t \in Tid, UNCHANGED <<pc, req>>,
         \/ pc = "ist"
         \/ pc = "nist" /\ t \notin Ist /\ tstate'[t] \notin IstState,
         \A u \in Tid \ {t} : /\ tstate'[u] = tstate[u] /\ fifo'[u] = fifo[u]
                              /\ sent'[u] = sent[u],
         Fits(tstate'[t], req[t].type, fifo'[t], sent'[t])
  PROVE  AnswerInv'
  <1>1. \A u \in Tid : FitsAt(u)'
    BY OneFits
  <1>2. pc = "nist" => \A u \in Ist' : u \in Ist /\ fifo'[u] = fifo[u]
    BY DEF Ist
  <1> QED BY <1>1, <1>2 DEF AnswerInv

(* es_osip_parse_msg opens a transaction and wakes the loop up. *)
LEMMA OpenFits ==
  ASSUME ~MemoryMayFail, TwoEvents, TypeOK, EventInv, NoLeakedEvent, AnswerInv,
         NEW types, NEW state, NEW ev \in FifoEvent, Open(types, state, ev),
         \/ state = "IST_PRE_PROCEEDING" /\ ev = "RCV_REQINVITE"
         \/ state = "NIST_PRE_TRYING" /\ ev = "RCV_REQUEST"
  PROVE  AnswerInv'
  <1>1. PICK t \in Tid :
          /\ tstate[t] = "none"
          /\ tstate' = [tstate EXCEPT ![t] = state]
          /\ \E r : req' = [req EXCEPT ![t] = r]
          /\ AddEvent(t, fifo[t], ev, active \ {Udp})
    BY DEF Open
  <1>2. pc = "process" /\ pendingEv = <<>> /\ UNCHANGED <<pc, sent>>
    BY DEF Open, Reading, EventInv
  <1>3. fifo[t] = <<>> /\ sent[t] = 0
    BY <1>1 DEF AnswerInv, FitsAt, Fits
  <1>4. fifo' = [fifo EXCEPT ![t] = Append(fifo[t], ev)] /\ pendingEv' # <<>>
    BY <1>1, <1>2, WakeupSucceeds
  <1>5. fifo'[t] = <<ev>> /\ tstate'[t] = state
    BY <1>1, <1>3, <1>4, OneEvent DEF TypeOK
  <1>6. \A u \in Tid \ {t} : /\ tstate'[u] = tstate[u] /\ req'[u] = req[u]
                             /\ fifo'[u] = fifo[u] /\ sent'[u] = sent[u]
    BY <1>1, <1>2, <1>4 DEF TypeOK
  <1>7. Fits(tstate'[t], req'[t].type, fifo'[t], sent'[t])
    BY <1>2, <1>3, <1>5 DEF Fits
  <1>8. \A u \in Tid : FitsAt(u)'
    BY <1>6, <1>7, OneFits
  <1> QED BY <1>2, <1>4, <1>8 DEF AnswerInv

(* A response reaches an INVITE that was answered, and finds no other event *)
(* in its FIFO.                                                             *)
LEMMA ResponseFits ==
  ASSUME ~MemoryMayFail, TwoEvents, TypeOK, EventInv, NoLeakedEvent, AnswerInv,
         RecvResponse
  PROVE  AnswerInv'
  <1>1. PICK t \in Ist : AddEvent(t, fifo[t], "RCV_STATUS", active \ {Udp})
    BY DEF RecvResponse
  <1>2. pc = "process" /\ pendingEv = <<>> /\ UNCHANGED <<pc, tstate, req, sent>>
    BY DEF RecvResponse, Reading, EventInv
  <1>3. t \in Tid /\ Quiet(t)
    BY <1>2 DEF AnswerInv, Ist
  <1>4. tstate[t] = "IST_TERMINATED" /\ fifo[t] = <<>>
    BY <1>1, <1>3, QuietIsAnswered
  <1>5. fifo' = [fifo EXCEPT ![t] = Append(fifo[t], "RCV_STATUS")] /\ pendingEv' # <<>>
    BY <1>1, <1>2, WakeupSucceeds
  <1>6. fifo'[t] = <<"RCV_STATUS">>
    BY <1>3, <1>4, <1>5, OneEvent, Events DEF TypeOK
  <1>7. \A u \in Tid \ {t} : fifo'[u] = fifo[u]
    BY <1>5 DEF TypeOK
  <1>8. sent[t] = 1
    BY <1>3, <1>4 DEF AnswerInv, FitsAt, Fits
  <1>9. Fits(tstate'[t], req'[t].type, fifo'[t], sent'[t])
    BY <1>2, <1>4, <1>6, <1>8 DEF Fits
  <1>10. \A u \in Tid : FitsAt(u)'
    BY <1>2, <1>3, <1>7, <1>9, OneFits
  <1> QED BY <1>2, <1>5, <1>10 DEF AnswerInv

(* A request is taken, answered in the FIFO and the loop is woken up again. *)
LEMMA RespondFits ==
  ASSUME ~MemoryMayFail, TwoEvents, TypeOK, EventInv, RequestInv, NoLeakedEvent,
         AnswerInv, NEW t \in Tid, IstRcvInvite(t) \/ NistRcvRequest(t)
  PROVE  AnswerInv'
  <1>1. /\ \/ pc = "ist" /\ tstate[t] = "IST_PRE_PROCEEDING"
           \/ pc = "nist" /\ tstate[t] = "NIST_PRE_TRYING"
        /\ UNCHANGED <<pc, req, sent>> /\ fifo[t] # <<>>
    BY DEF IstRcvInvite, NistRcvRequest, Executes
  <1>2. Fresh(fifo[t]) /\ Tail(fifo[t]) = <<>> /\ sent[t] = 0
    BY <1>1, Taken DEF AnswerInv, FitsAt, Fits, Fresh
  <1>3. pendingEv = <<>>
    BY <1>1, <1>2 DEF RequestInv
  <1>4. PICK st \in {"IST_PROCEEDING", "NIST_TRYING"} :
          /\ tstate' = [tstate EXCEPT ![t] = st]
          /\ pc = "nist" => st = "NIST_TRYING"
          /\ st = "NIST_TRYING" => pc = "nist"
    BY DEF IstRcvInvite, NistRcvRequest
  <1>5. tstate'[t] = st /\ \A u \in Tid \ {t} : tstate'[u] = tstate[u]
    BY <1>4 DEF TypeOK
  <1>6. \/ t \notin Ist /\ tstate'[t] \notin IstState
        \/ pc = "ist"
    BY <1>1, <1>4, <1>5 DEF Ist, IstState
  <1>7. ASSUME Respond(t), st = "NIST_TRYING" => req[t].type # "OTHER" PROVE AnswerInv'
    <2>1. AddEvent(t, Tail(fifo[t]), "SND_STATUS_2XX", active)
      BY <1>7 DEF Respond
    <2>2. fifo' = [fifo EXCEPT ![t] = Append(Tail(fifo[t]), "SND_STATUS_2XX")]
      BY <1>3, <2>1, WakeupSucceeds
    <2>3. /\ fifo'[t] = <<"SND_STATUS_2XX">>
          /\ \A u \in Tid \ {t} : fifo'[u] = fifo[u]
      BY <1>2, <2>2, OneEvent, Events DEF TypeOK
    <2>4. Fits(tstate'[t], req[t].type, fifo'[t], sent'[t])
      BY <1>1, <1>2, <1>4, <1>5, <1>7, <2>3 DEF Fits
    <2> QED BY <1>1, <1>5, <1>6, <2>3, <2>4, ExecuteFits
  <1>8. ASSUME fifo' = [fifo EXCEPT ![t] = Tail(@)], st = "NIST_TRYING",
               req[t].type = "OTHER"
        PROVE  AnswerInv'
    <2>1. fifo'[t] = <<>> /\ \A u \in Tid \ {t} : fifo'[u] = fifo[u]
      BY <1>2, <1>8 DEF TypeOK
    <2>2. Fits(tstate'[t], req[t].type, fifo'[t], sent'[t])
      BY <1>1, <1>2, <1>5, <1>8, <2>1 DEF Fits
    <2> QED BY <1>1, <1>5, <1>6, <2>1, <2>2, ExecuteFits
  <1>9. CASE IstRcvInvite(t)
    <2>1. Respond(t) /\ st # "NIST_TRYING"
      BY <1>4, <1>9 DEF IstRcvInvite
    <2> QED BY <1>7, <2>1
  <1>10. CASE NistRcvRequest(t)
    <2>1. st = "NIST_TRYING"
      BY <1>4, <1>10 DEF NistRcvRequest
    <2>2. \/ Respond(t) /\ req[t].type # "OTHER"
          \/ fifo' = [fifo EXCEPT ![t] = Tail(@)] /\ req[t].type = "OTHER"
      BY <1>10 DEF NistRcvRequest
    <2> QED BY <1>7, <1>8, <2>1, <2>2
  <1> QED BY <1>9, <1>10

(* An answer is sent, a response ignored or a timer served. *)
LEMMA TakeFits ==
  ASSUME TypeOK, AnswerInv, NEW t \in Tid,
         IstSnd2xx(t) \/ IstIgnore(t) \/ NistSnd2xx(t) \/ NistTimeoutJ(t)
  PROVE  AnswerInv'
  <1>1. /\ UNCHANGED <<pc, req>> /\ fifo[t] # <<>>
        /\ fifo' = [fifo EXCEPT ![t] = Tail(fifo[t])]
    BY DEF IstSnd2xx, IstIgnore, NistSnd2xx, NistTimeoutJ, Executes
  <1>2. fifo'[t] = <<>> /\ \A u \in Tid \ {t} : fifo'[u] = fifo[u]
    BY <1>1, Taken DEF TypeOK
  <1>3. CASE IstSnd2xx(t) \/ NistSnd2xx(t)
    <2>1. PICK st \in {"IST_TERMINATED", "NIST_COMPLETED"} :
            /\ tstate' = [tstate EXCEPT ![t] = st]
            /\ sent' = [sent EXCEPT ![t] = @ + 1]
            /\ st = "IST_TERMINATED" => pc = "ist" /\ tstate[t] = "IST_PROCEEDING"
            /\ st = "NIST_COMPLETED" => pc = "nist" /\ tstate[t] = "NIST_TRYING"
      BY <1>3 DEF IstSnd2xx, NistSnd2xx
    <2>2. sent[t] = 0 /\ (st = "NIST_COMPLETED" => req[t].type # "OTHER")
      BY <1>1, <2>1 DEF AnswerInv, FitsAt, Fits
    <2>3. /\ tstate'[t] = st /\ sent'[t] = 1
          /\ \A u \in Tid \ {t} : tstate'[u] = tstate[u] /\ sent'[u] = sent[u]
      BY <2>1, <2>2 DEF TypeOK
    <2>4. Fits(tstate'[t], req[t].type, fifo'[t], sent'[t])
      BY <1>2, <2>2, <2>3 DEF Fits
    <2>5. \/ pc = "ist"
          \/ pc = "nist" /\ t \notin Ist /\ tstate'[t] \notin IstState
      BY <2>1, <2>3 DEF Ist, IstState
    <2> QED BY <1>1, <1>2, <2>3, <2>4, <2>5, ExecuteFits
  <1>4. CASE IstIgnore(t)
    <2>1. pc = "ist" /\ t \in Ist /\ Head(fifo[t]) = "RCV_STATUS"
          /\ UNCHANGED <<tstate, sent>>
      BY <1>4 DEF IstIgnore, Executes
    <2>2. fifo[t] = <<"RCV_STATUS">>
      BY <1>1, <2>1, Taken
    <2>3. tstate[t] = "IST_TERMINATED" /\ sent[t] = 1
      BY <2>2, OneEvent, Events DEF AnswerInv, FitsAt, Fits
    <2>4. Fits(tstate'[t], req[t].type, fifo'[t], sent'[t])
      BY <1>2, <2>1, <2>3 DEF Fits
    <2> QED BY <1>1, <1>2, <2>1, <2>4, ExecuteFits
  <1>5. CASE NistTimeoutJ(t)
    <2>1. /\ pc = "nist" /\ tstate[t] = "NIST_COMPLETED" /\ UNCHANGED sent
          /\ tstate' = [tstate EXCEPT ![t] = "NIST_TERMINATED"]
      BY <1>5 DEF NistTimeoutJ
    <2>2. sent[t] = 1 /\ req[t].type # "OTHER"
      BY <2>1 DEF AnswerInv, FitsAt, Fits
    <2>3. /\ tstate'[t] = "NIST_TERMINATED"
          /\ \A u \in Tid \ {t} : tstate'[u] = tstate[u]
      BY <2>1 DEF TypeOK
    <2>4. Fits(tstate'[t], req[t].type, fifo'[t], sent'[t])
      BY <1>2, <2>1, <2>2, <2>3 DEF Fits
    <2>5. t \notin Ist /\ tstate'[t] \notin IstState
      BY <2>1, <2>3 DEF Ist, IstState
    <2> QED BY <1>1, <1>2, <2>1, <2>3, <2>4, <2>5, ExecuteFits
  <1> QED BY <1>3, <1>4, <1>5

(* Every step keeps AnswerInv. *)
LEMMA AnswerNext ==
  ASSUME ~MemoryMayFail, TwoEvents
  PROVE  TypeOK /\ EventInv /\ RequestInv /\ NoLeakedEvent /\ AnswerInv /\ [Next]_vars
           => AnswerInv'
  <1> SUFFICES ASSUME TypeOK, EventInv, RequestInv, NoLeakedEvent, AnswerInv, [Next]_vars
               PROVE  AnswerInv'
    OBVIOUS
  <1>1. ASSUME UNCHANGED sipVars,
               pc' = "poll" => \A t \in Tid : Quiet(t),
               pc' \in {"process", "loop"} /\ pendingEv' = <<>> => \A t \in Tid : Quiet(t),
               pc' = "nist" => \A t \in Ist : fifo[t] = <<>>,
               pc' = "timers" => \A t \in Tid : fifo[t] = <<>>
        PROVE  AnswerInv'
    <2>1. fifo' = fifo
      BY <1>1 DEF sipVars
    <2> QED BY <1>1, <2>1, SameFits DEF AnswerInv
  <1>2. CASE UNCHANGED vars
    BY <1>1, <1>2 DEF vars, sipVars, AnswerInv
  <1>3. CASE Poll
    BY <1>1, <1>3 DEF Poll, AnswerInv
  <1>4. CASE RecvRefused \/ RecvAck
    BY <1>1, <1>4 DEF RecvRefused, RecvAck, Reading, AnswerInv
  <1>5. CASE ProcessDone
    BY <1>1, <1>5 DEF ProcessDone, libevVars, AnswerInv, EventInv
  <1>6. CASE RunWakeup
    BY <1>1, <1>6 DEF RunWakeup, AnswerInv
  <1>7. CASE LoopPop
    BY <1>1, <1>7 DEF LoopPop
  <1>8. CASE LoopReturn
    BY <1>1, <1>8 DEF LoopReturn, libevVars, AnswerInv
  <1>9. CASE IstDone
    BY <1>1, <1>9 DEF IstDone
  <1>10. CASE NistDone
    <2>1. ASSUME NEW t \in Tid PROVE fifo[t] = <<>>
      <3>1. t \in Ist \/ t \in Nist \/ tstate[t] = "none"
        BY DEF AnswerInv, FitsAt, Fits, Ist, Nist, IstState, NistState
      <3>2. tstate[t] = "none" => fifo[t] = <<>>
        BY DEF RequestInv
      <3> QED BY <1>10, <3>1, <3>2 DEF NistDone, AnswerInv
    <2> QED BY <1>1, <1>10, <2>1 DEF NistDone
  <1>11. CASE FinishIteration
    <2>1. PICK expired \in SUBSET {t \in Tid : tstate[t] = "NIST_COMPLETED"} :
            fifo' = [t \in Tid |-> IF t \in expired THEN Append(fifo[t], "TIMEOUT_J")
                                   ELSE fifo[t]]
      BY <1>11 DEF FinishIteration
    <2>2. pc' = "loop" /\ UNCHANGED <<tstate, req, sent>> /\ \A t \in Tid : fifo[t] = <<>>
      BY <1>11 DEF FinishIteration, AnswerInv
    <2>3. Append(<<>>, "TIMEOUT_J") = <<"TIMEOUT_J">>
      BY OneEvent, Events
    <2>4. \A t \in Tid : \/ fifo'[t] = <<>>
                         \/ tstate[t] = "NIST_COMPLETED" /\ fifo'[t] = <<"TIMEOUT_J">>
      BY <2>1, <2>2, <2>3
    <2>5. ASSUME NEW t \in Tid PROVE FitsAt(t)' /\ Quiet(t)'
      <3>1. Fits(tstate[t], req[t].type, <<>>, sent[t])
        BY <2>2 DEF AnswerInv, FitsAt
      <3> QED BY <2>2, <2>4, <3>1 DEF FitsAt, Fits, Quiet
    <2> QED BY <2>2, <2>5 DEF AnswerInv
  <1>12. CASE RecvResponse
    BY <1>12, ResponseFits
  <1>13. CASE RecvInvite \/ RecvRequest
    BY <1>13, OpenFits, Events DEF RecvInvite, RecvRequest
  <1>14. ASSUME NEW t \in Tid, IstRcvInvite(t) \/ NistRcvRequest(t) PROVE AnswerInv'
    BY <1>14, RespondFits
  <1>15. ASSUME NEW t \in Tid,
                IstSnd2xx(t) \/ IstIgnore(t) \/ NistSnd2xx(t) \/ NistTimeoutJ(t)
         PROVE  AnswerInv'
    BY <1>15, TakeFits
  <1>16. \A t \in Tid : ~ExecuteFails(t)
    BY Taken DEF ExecuteFails, ExecuteFreed, ToCloneFails, SendFails, Executes
  <1>17. ~RecvResponseFails
    BY DEF RecvResponseFails
  <1> QED
    BY <1>2, <1>3, <1>4, <1>5, <1>6, <1>7, <1>8, <1>9, <1>10, <1>11, <1>12, <1>13,
       <1>14, <1>15, <1>16, <1>17
    DEF Next, Run, Receive, ExecuteIst, ExecuteNist

(* At the start no transaction exists and every FIFO is empty.              *)
LEMMA AnswerInit == Init => AnswerInv
  BY DEF Init, AnswerInv, FitsAt, Fits, Quiet

(* All that is known of a reachable state while memory lasts. *)
LEMMA AnswersHold ==
  ASSUME ~MemoryMayFail, TwoEvents
  PROVE  Spec => [](TypeOK /\ EventInv /\ RequestInv /\ NoLeakedEvent /\ AnswerInv)
  <1>1. TypeOK /\ EventInv /\ RequestInv /\ NoLeakedEvent /\ AnswerInv /\ [Next]_vars
          => AnswerInv'
    BY AnswerNext
  <1> QED BY <1>1, EventsHold, NoLeakedEventHolds, AnswerInit, PTL DEF Spec

(* esosip.c 395-414 to 546: when the thread goes back to the poll it has     *)
(* answered every INVITE, REGISTER and BYE exactly once and nothing else,    *)
(* and left no work behind but expired timers.                               *)
THEOREM AnsweredAtPollHolds ==
  ASSUME ~MemoryMayFail, TwoEvents
  PROVE  Spec => []AnsweredAtPoll
  <1>1. ASSUME TypeOK, AnswerInv PROVE AnsweredAtPoll
    <2> SUFFICES ASSUME pc = "poll", NEW t \in Tid
                 PROVE  /\ Quiet(t)
                        /\ tstate[t] # "none" =>
                             sent[t] = IF req[t].type \in Answerable THEN 1 ELSE 0
      BY DEF AnsweredAtPoll, Quiet
    <2>1. Quiet(t)
      BY <1>1 DEF AnswerInv
    <2> QED BY <1>1, <2>1, QuietIsAnswered
  <1> QED BY <1>1, AnswersHold, PTL
-----------------------------------------------------------------------------
(* Whichever allocations fail, no request is answered twice. *)

(* No answer is queued. *)
NoAnswer(f) == \A i \in DOMAIN f : f[i] # "SND_STATUS_2XX"

(* The states in which no answer has been sent. *)
Before ==
  {"none", "IST_PRE_PROCEEDING", "IST_PROCEEDING", "NIST_PRE_TRYING", "NIST_TRYING"}

(* What is known of a transaction in state s: f is transactionff, n is sent. *)
Once(s, type, f, n) ==
  /\ n \in {0, 1}
  /\ s \in Before => n = 0
  /\ s = "none" \/ type = "OTHER" => n = 0 /\ NoAnswer(f)
  /\ s = "freed" => MemoryMayFail

OnceInv == \A t \in Tid : Once(tstate[t], req[t].type, fifo[t], sent[t])

(* Queueing another event leaves no answer in the FIFO, *)
LEMMA NoAnswerAppend ==
  ASSUME NEW f \in Seq(FifoEvent), NoAnswer(f),
         NEW ev \in FifoEvent, ev # "SND_STATUS_2XX"
  PROVE  NoAnswer(Append(f, ev))
  <1>1. /\ Append(f, ev) \in Seq(FifoEvent) /\ Len(Append(f, ev)) = Len(f) + 1
        /\ \A i \in 1 .. Len(f) + 1 :
             Append(f, ev)[i] = IF i = Len(f) + 1 THEN ev ELSE f[i]
    OBVIOUS
  <1>2. Len(f) \in Nat /\ DOMAIN f = 1 .. Len(f)
        /\ DOMAIN Append(f, ev) = 1 .. Len(f) + 1
    BY <1>1, LenProperties
  <1> QED BY <1>1, <1>2 DEF NoAnswer

(* nor does taking one, which is not an answer itself. *)
LEMMA NoAnswerTake ==
  ASSUME NEW f \in Seq(FifoEvent), f # <<>>, NoAnswer(f)
  PROVE  Head(f) # "SND_STATUS_2XX" /\ NoAnswer(Tail(f))
  <1>1. /\ Tail(f) \in Seq(FifoEvent) /\ Len(Tail(f)) = Len(f) - 1
        /\ \A i \in 1 .. Len(Tail(f)) : Tail(f)[i] = f[i + 1]
    BY HeadTailProperties
  <1>2. /\ Len(f) \in Nat \ {0} /\ DOMAIN f = 1 .. Len(f) /\ Head(f) = f[1]
        /\ DOMAIN Tail(f) = 1 .. Len(Tail(f))
    BY <1>1, EmptySeq, LenProperties
  <1> QED BY <1>1, <1>2 DEF NoAnswer

(* A step of one transaction *)
LEMMA OnceMoves ==
  ASSUME TypeOK, OnceInv, NEW t \in Tid,
         \A u \in Tid \ {t} : /\ tstate'[u] = tstate[u] /\ req'[u] = req[u]
                              /\ fifo'[u] = fifo[u] /\ sent'[u] = sent[u],
         Once(tstate'[t], req'[t].type, fifo'[t], sent'[t])
  PROVE  OnceInv'
  <1>1. ASSUME NEW u \in Tid \ {t}
        PROVE  Once(tstate'[u], req'[u].type, fifo'[u], sent'[u])
    BY DEF OnceInv
  <1> QED BY <1>1 DEF OnceInv, Once

(* What an event leaves in the FIFOs, whether or not its wake-up succeeds.  *)
LEMMA AddEventFifo ==
  ASSUME TypeOK, NEW t \in Tid, NEW rest \in Seq(FifoEvent), NEW ev \in FifoEvent,
         NEW act, AddEvent(t, rest, ev, act)
  PROVE  /\ \A u \in Tid \ {t} : fifo'[u] = fifo[u]
         /\ NoAnswer(rest) /\ ev # "SND_STATUS_2XX" => NoAnswer(fifo'[t])
  <1>1. PICK e \in {ev, "FREED"} : fifo' = [fifo EXCEPT ![t] = Append(rest, e)]
    BY DEF AddEvent
  <1>2. e \in FifoEvent /\ (ev # "SND_STATUS_2XX" => e # "SND_STATUS_2XX")
    BY DEF FifoEvent
  <1>3. fifo'[t] = Append(rest, e) /\ \A u \in Tid \ {t} : fifo'[u] = fifo[u]
    BY <1>1 DEF TypeOK
  <1> QED BY <1>2, <1>3, NoAnswerAppend

(* Every step keeps OnceInv. *)
LEMMA OnceNext == TypeOK /\ OnceInv /\ [Next]_vars => OnceInv'
  <1> SUFFICES ASSUME TypeOK, OnceInv, [Next]_vars PROVE OnceInv'
    OBVIOUS
  <1>1. ASSUME UNCHANGED <<tstate, req, fifo, sent>> PROVE OnceInv'
    BY <1>1 DEF OnceInv, Once
  <1>2. CASE UNCHANGED vars \/ Poll \/ RecvRefused \/ RecvAck
    BY <1>1, <1>2 DEF vars, Poll, RecvRefused, RecvAck, sipVars
  <1>3. CASE ProcessDone \/ RunWakeup \/ LoopPop \/ LoopReturn \/ IstDone \/ NistDone
    BY <1>1, <1>3 DEF ProcessDone, RunWakeup, LoopPop, LoopReturn, IstDone, NistDone, sipVars
  <1>4. \A t \in Ist : t \in Tid /\ tstate[t] # "none" /\ req[t].type = "INVITE"
    BY DEF TypeOK, KindOK, Ist, IstState
  <1>5. CASE RecvResponse
    <2>1. PICK t \in Ist : AddEvent(t, fifo[t], "RCV_STATUS", active \ {Udp})
      BY <1>5 DEF RecvResponse
    <2>2. UNCHANGED <<tstate, req, sent>> /\ fifo[t] \in Seq(FifoEvent)
      BY <1>4, <1>5 DEF RecvResponse, TypeOK
    <2>3. \A u \in Tid \ {t} : fifo'[u] = fifo[u]
      BY <1>4, <2>1, <2>2, AddEventFifo, Events
    <2>4. Once(tstate'[t], req'[t].type, fifo'[t], sent'[t])
      BY <1>4, <2>2 DEF OnceInv, Once
    <2> QED BY <1>4, <2>2, <2>3, <2>4, OnceMoves
  <1>6. CASE RecvResponseFails
    <2>1. PICK t \in Ist : /\ tstate' = [tstate EXCEPT ![t] = "freed"]
                           /\ fifo' = [fifo EXCEPT ![t] = <<>>]
      BY <1>6 DEF RecvResponseFails
    <2>2. MemoryMayFail /\ UNCHANGED <<req, sent>> /\ t \in Tid
      BY <1>4, <1>6 DEF RecvResponseFails
    <2>3. tstate'[t] = "freed" /\ \A u \in Tid \ {t} : tstate'[u] = tstate[u] /\ fifo'[u] = fifo[u]
      BY <2>1, <2>2 DEF TypeOK
    <2>4. Once(tstate'[t], req'[t].type, fifo'[t], sent'[t])
      BY <1>4, <2>2, <2>3 DEF OnceInv, Once, Before
    <2> QED BY <2>2, <2>3, <2>4, OnceMoves
  <1>7. ASSUME NEW types, NEW ev \in FifoEvent, ev # "SND_STATUS_2XX",
               NEW state \in {"IST_PRE_PROCEEDING", "NIST_PRE_TRYING"},
               Open(types, state, ev)
        PROVE  OnceInv'
    <2>1. PICK t \in Tid : /\ tstate[t] = "none"
                           /\ tstate' = [tstate EXCEPT ![t] = state]
                           /\ \E r : req' = [req EXCEPT ![t] = r]
                           /\ AddEvent(t, fifo[t], ev, active \ {Udp})
      BY <1>7 DEF Open
    <2>2. UNCHANGED sent /\ sent[t] = 0 /\ NoAnswer(fifo[t]) /\ fifo[t] \in Seq(FifoEvent)
      BY <1>7, <2>1 DEF Open, OnceInv, Once, TypeOK
    <2>3. NoAnswer(fifo'[t]) /\ \A u \in Tid \ {t} : fifo'[u] = fifo[u]
      BY <1>7, <2>1, <2>2, AddEventFifo
    <2>4. tstate'[t] = state
          /\ \A u \in Tid \ {t} : tstate'[u] = tstate[u] /\ req'[u] = req[u]
      BY <2>1 DEF TypeOK
    <2>5. Once(tstate'[t], req'[t].type, fifo'[t], sent'[t])
      BY <2>2, <2>3, <2>4 DEF Once
    <2> QED BY <2>2, <2>3, <2>4, <2>5, OnceMoves
  <1>8. CASE RecvInvite \/ RecvRequest
    BY <1>7, <1>8, Events DEF RecvInvite, RecvRequest
  <1>9. ASSUME NEW t \in Tid, fifo[t] # <<>>, NEW s,
               tstate' = [tstate EXCEPT ![t] = s], tstate[t] # "none",
               s \notin {"none", "freed"},
               UNCHANGED req, fifo' = [fifo EXCEPT ![t] = Tail(@)],
               \/ UNCHANGED sent /\ (s \in Before => sent[t] = 0)
               \/ /\ Head(fifo[t]) = "SND_STATUS_2XX" /\ tstate[t] \in Before
                  /\ sent' = [sent EXCEPT ![t] = @ + 1] /\ s \notin Before
        PROVE  OnceInv'
    <2>1. tstate'[t] = s /\ fifo'[t] = Tail(fifo[t])
          /\ \A u \in Tid \ {t} : /\ tstate'[u] = tstate[u] /\ req'[u] = req[u]
                                  /\ fifo'[u] = fifo[u] /\ sent'[u] = sent[u]
      BY <1>9 DEF TypeOK
    <2>2. req[t].type = "OTHER" => /\ NoAnswer(fifo'[t]) /\ sent[t] = 0
                                   /\ Head(fifo[t]) # "SND_STATUS_2XX"
      BY <1>9, <2>1, NoAnswerTake DEF OnceInv, Once, TypeOK
    <2>3. \/ sent'[t] = sent[t]
          \/ sent[t] = 0 /\ sent'[t] = 1 /\ Head(fifo[t]) = "SND_STATUS_2XX"
      BY <1>9 DEF OnceInv, Once, TypeOK
    <2>4. sent[t] \in {0, 1}
      BY DEF OnceInv, Once
    <2>5. s \in Before => sent'[t] = 0
      BY <1>9
    <2>6. Once(tstate'[t], req'[t].type, fifo'[t], sent'[t])
      BY <1>9, <2>1, <2>2, <2>3, <2>4, <2>5 DEF Once
    <2> QED BY <2>1, <2>6, OnceMoves
  <1>10. ASSUME NEW t \in Tid, IstRcvInvite(t) \/ NistRcvRequest(t) PROVE OnceInv'
    <2>1. /\ fifo[t] # <<>> /\ UNCHANGED <<req, sent>> /\ tstate[t] \in Before \ {"none"}
          /\ \/ Respond(t) /\ req[t].type # "OTHER"
             \/ fifo' = [fifo EXCEPT ![t] = Tail(@)]
          /\ \E s \in Before \ {"none"} : tstate' = [tstate EXCEPT ![t] = s]
      BY <1>4, <1>10 DEF IstRcvInvite, NistRcvRequest, Executes, Before, Ist, IstState
    <2>2. PICK s \in Before \ {"none"} : tstate' = [tstate EXCEPT ![t] = s]
      BY <2>1
    <2>3. s \notin {"none", "freed"} /\ sent[t] = 0
      BY <2>1 DEF Before, OnceInv, Once
    <2>4. CASE fifo' = [fifo EXCEPT ![t] = Tail(@)]
      BY <1>9, <2>1, <2>2, <2>3, <2>4
    <2>5. CASE req[t].type # "OTHER" /\ AddEvent(t, Tail(fifo[t]), "SND_STATUS_2XX", active)
      <3>1. Tail(fifo[t]) \in Seq(FifoEvent)
        BY <2>1, HeadTailProperties DEF TypeOK
      <3>2. \A u \in Tid \ {t} : fifo'[u] = fifo[u]
        BY <2>5, <3>1, AddEventFifo, Events
      <3>3. tstate'[t] = s /\ \A u \in Tid \ {t} : tstate'[u] = tstate[u]
        BY <2>2 DEF TypeOK
      <3>4. Once(tstate'[t], req'[t].type, fifo'[t], sent'[t])
        BY <2>1, <2>3, <2>5, <3>3 DEF Once
      <3> QED BY <2>1, <3>2, <3>3, <3>4, OnceMoves
    <2> QED BY <2>1, <2>4, <2>5 DEF Respond
  <1>11. ASSUME NEW t \in Tid,
                IstSnd2xx(t) \/ NistSnd2xx(t) \/ NistTimeoutJ(t) \/ SendFails(t)
         PROVE  OnceInv'
    <2>1. PICK s \in {"IST_TERMINATED", "NIST_COMPLETED", "NIST_TERMINATED"} :
            tstate' = [tstate EXCEPT ![t] = s]
      BY <1>11 DEF IstSnd2xx, NistSnd2xx, NistTimeoutJ, SendFails
    <2>2. /\ fifo[t] # <<>> /\ tstate[t] # "none" /\ UNCHANGED req
          /\ fifo' = [fifo EXCEPT ![t] = Tail(@)]
          /\ \/ UNCHANGED sent
             \/ /\ Head(fifo[t]) = "SND_STATUS_2XX" /\ tstate[t] \in Before
                /\ sent' = [sent EXCEPT ![t] = @ + 1]
      BY <1>11 DEF IstSnd2xx, NistSnd2xx, NistTimeoutJ, SendFails, Executes, Before
    <2>3. s \notin Before /\ s \notin {"none", "freed"}
      BY <2>1 DEF Before
    <2> QED BY <1>9, <2>1, <2>2, <2>3
  <1>12. ASSUME NEW t \in Tid, IstIgnore(t) \/ ExecuteFreed(t) PROVE OnceInv'
    <2>1. /\ t \in Ist \/ t \in Nist
          /\ fifo[t] # <<>> /\ UNCHANGED <<tstate, req, sent>>
          /\ fifo' = [fifo EXCEPT ![t] = Tail(@)]
      BY <1>12 DEF IstIgnore, ExecuteFreed, Executes
    <2>2. tstate' = [tstate EXCEPT ![t] = tstate[t]]
          /\ tstate[t] \notin {"none", "freed"}
      BY <2>1 DEF TypeOK, Ist, Nist, IstState, NistState
    <2>3. tstate[t] \in Before => sent[t] = 0
      BY DEF OnceInv, Once
    <2> QED BY <1>9, <2>1, <2>2, <2>3
  <1>13. ASSUME NEW t \in Tid, ToCloneFails(t) PROVE OnceInv'
    BY <1>1, <1>13 DEF ToCloneFails, sipVars
  <1>14. CASE FinishIteration
    <2>1. UNCHANGED <<tstate, req, sent>>
          /\ \A t \in Tid : fifo'[t] \in {fifo[t], Append(fifo[t], "TIMEOUT_J")}
      BY <1>14 DEF FinishIteration
    <2>2. ASSUME NEW t \in Tid, NoAnswer(fifo[t]) PROVE NoAnswer(fifo'[t])
      BY <2>1, <2>2, NoAnswerAppend, Events DEF TypeOK
    <2> QED BY <2>1, <2>2 DEF OnceInv, Once
  <1> QED
    BY <1>2, <1>3, <1>5, <1>6, <1>8, <1>10, <1>11, <1>12, <1>13, <1>14
    DEF Next, Run, Receive, ExecuteIst, ExecuteNist, ExecuteFails

(* At the start nothing was answered. *)
LEMMA OnceInit == Init => OnceInv
  BY DEF Init, OnceInv, Once, NoAnswer
-----------------------------------------------------------------------------
(* EsOsip implements the steps of SipUas, with or without failures. *)

(* The method of an accepted request, as SipUas sees it. *)
Kind == [t \in Tid |-> IF tstate[t] = "none" THEN "none" ELSE req[t].type]

(* What is known of the requests that wait. *)
UasInv == TypeOK /\ OnceInv /\ (~MemoryMayFail => EventInv /\ AnswerInv)

(* A request is accepted when none waits: the socket is read in a pass in   *)
(* which nothing is queued, unless an allocation failed.                    *)
LEMMA AcceptStep ==
  ASSUME UasInv,
         NEW types \in SUBSET {"INVITE", "REGISTER", "BYE", "OTHER"},
         NEW state, state # "none", NEW ev, Open(types, state, ev)
  PROVE  \E t \in Tid : Uas!Accept(t)
  <1>1. PICK t \in Tid, r \in [type : types, call : Call, tag : Known] :
          /\ tstate[t] = "none"
          /\ tstate' = [tstate EXCEPT ![t] = state]
          /\ req' = [req EXCEPT ![t] = r]
    BY DEF Open
  <1>2. UNCHANGED <<sent, osipDialog>>
    BY DEF Open
  <1>3. ~MemoryMayFail => \A u \in Tid : Quiet(u)
    BY DEF Open, Reading, UasInv, EventInv, AnswerInv
  <1>4. ASSUME ~MemoryMayFail, NEW u \in Tid PROVE ~Uas!Waiting(u)
    <2>1. tstate[u] # "none" => sent[u] = IF req[u].type \in Answerable THEN 1 ELSE 0
      BY <1>3, <1>4, QuietIsAnswered DEF UasInv
    <2> QED BY <2>1 DEF Uas!Waiting, Uas!Answered, Answerable
  <1>5. r.type \in {"INVITE", "REGISTER", "BYE", "OTHER"}
    OBVIOUS
  <1>6. Kind[t] = "none" /\ Kind' = [Kind EXCEPT ![t] = r.type]
    BY <1>1 DEF Kind, UasInv, TypeOK
  <1>7. r.type \in Uas!Method
    BY <1>5 DEF Uas!Method
  <1> QED BY <1>2, <1>4, <1>6, <1>7 DEF Uas!Accept, Kind

(* An answer to a transaction that waits for it, and its dialog. *)
LEMMA AnswerStep ==
  ASSUME TypeOK, OnceInv, NEW t \in Tid, IstSnd2xx(t) \/ NistSnd2xx(t)
  PROVE  Uas!Answer(t)
  <1>1. /\ tstate[t] \in {"IST_PROCEEDING", "NIST_TRYING"}
        /\ fifo[t] # <<>> /\ Head(fifo[t]) = "SND_STATUS_2XX" /\ UNCHANGED req
        /\ sent' = [sent EXCEPT ![t] = @ + 1]
        /\ \E st \in {"IST_TERMINATED", "NIST_COMPLETED"} : tstate' = [tstate EXCEPT ![t] = st]
    BY DEF IstSnd2xx, NistSnd2xx, Executes
  <1>2. sent[t] = 0 /\ req[t].type \in {"INVITE", "REGISTER", "BYE"}
    <2>1. sent[t] = 0
      BY <1>1 DEF OnceInv, Once, Before
    <2>2. req[t].type # "OTHER"
      BY <1>1, NoAnswerTake DEF OnceInv, Once, TypeOK
    <2>3. req[t] \in Request
      BY <1>1 DEF TypeOK, KindOK
    <2> QED BY <2>1, <2>2, <2>3 DEF Request
  <1>3. Kind[t] = req[t].type /\ Kind' = Kind
    BY <1>1 DEF Kind, TypeOK
  <1>4. sent' = [sent EXCEPT ![t] = 1]
    BY <1>1, <1>2 DEF TypeOK
  <1>5. \/ ToSet(osipDialog') = IF req[t].type = "INVITE" THEN ToSet(osipDialog) \cup {t}
                                                         ELSE ToSet(osipDialog)
        \/ MemoryMayFail /\ ToSet(osipDialog') = ToSet(osipDialog)
    <2>1. ASSUME IstSnd2xx(t), osipDialog' = <<t>> \o osipDialog
          PROVE  ToSet(osipDialog') = ToSet(osipDialog) \cup {t} /\ req[t].type = "INVITE"
      <3>1. tstate[t] = "IST_PROCEEDING"
        BY <2>1 DEF IstSnd2xx
      <3>2. req[t].type = "INVITE"
        BY <3>1 DEF TypeOK, KindOK, Ist, IstState
      <3>3. ToSet(osipDialog') = {t} \cup ToSet(osipDialog)
        BY <2>1, ConsSeq DEF TypeOK
      <3> QED BY <3>2, <3>3
    <2>2. CASE NistSnd2xx(t)
      <3>1. osipDialog' = osipDialog /\ tstate[t] = "NIST_TRYING"
        BY <2>2 DEF NistSnd2xx
      <3>2. req[t].type # "INVITE"
        BY <3>1 DEF TypeOK, KindOK, Nist, NistState
      <3> QED BY <3>1, <3>2
    <2> QED BY <2>1, <2>2 DEF IstSnd2xx
  <1> QED BY <1>2, <1>3, <1>4, <1>5 DEF Uas!Answer, Uas!Waiting, Uas!Answered, Kind

(* Every step of EsOsip is a step of SipUas or changes nothing in it. *)
LEMMA UasNext ==
  ASSUME UasInv, [Next]_vars
  PROVE  [Uas!Next]_(Uas!uasVars)
  <1> USE DEF UasInv
  <1>1. ASSUME UNCHANGED <<tstate, req, sent, osipDialog>> PROVE UNCHANGED Uas!uasVars
    BY <1>1 DEF Uas!uasVars
  <1>2. CASE \/ UNCHANGED vars \/ Poll \/ RecvRefused \/ RecvAck \/ RecvResponse
             \/ ProcessDone \/ RunWakeup \/ LoopPop \/ LoopReturn
             \/ IstDone \/ NistDone \/ FinishIteration
    BY <1>1, <1>2 DEF vars, sipVars, Poll, RecvRefused, RecvAck, RecvResponse,
       ProcessDone, RunWakeup, LoopPop, LoopReturn, IstDone, NistDone, FinishIteration
  <1>3. CASE RecvInvite \/ RecvRequest
    <2>1. \E t \in Tid : Uas!Accept(t)
      BY <1>3, AcceptStep DEF RecvInvite, RecvRequest
    <2> QED BY <2>1 DEF Uas!Next
  <1>4. ASSUME NEW t \in Tid, IstSnd2xx(t) \/ NistSnd2xx(t) PROVE Uas!Next
    <2>1. Uas!Answer(t)
      BY <1>4, AnswerStep
    <2> QED BY <2>1 DEF Uas!Next
  <1>5. ASSUME NEW t \in Tid, NEW st, st # "none", tstate' = [tstate EXCEPT ![t] = st],
               tstate[t] # "none", UNCHANGED <<req, sent, osipDialog>>
        PROVE  UNCHANGED Uas!uasVars
    <2>1. \A u \in Tid : tstate'[u] = "none" <=> tstate[u] = "none"
      BY <1>5 DEF TypeOK
    <2>2. Kind' = Kind
      BY <1>5, <2>1 DEF Kind
    <2> QED BY <1>5, <2>2 DEF Uas!uasVars, Kind
  <1>6. ASSUME NEW t \in Tid, \/ IstRcvInvite(t) \/ NistRcvRequest(t)
                              \/ NistTimeoutJ(t) \/ SendFails(t)
        PROVE  UNCHANGED Uas!uasVars
    <2>1. PICK st \in IstState \cup NistState : tstate' = [tstate EXCEPT ![t] = st]
      BY <1>6 DEF IstRcvInvite, NistRcvRequest, NistTimeoutJ, SendFails, IstState, NistState
    <2>2. tstate[t] # "none" /\ UNCHANGED <<req, sent, osipDialog>>
      BY <1>6 DEF IstRcvInvite, NistRcvRequest, NistTimeoutJ, SendFails
    <2>3. st # "none"
      BY DEF IstState, NistState
    <2> QED BY <1>5, <2>1, <2>2, <2>3
  <1>7. CASE RecvResponseFails
    <2>1. PICK t \in Ist : tstate' = [tstate EXCEPT ![t] = "freed"]
      BY <1>7 DEF RecvResponseFails
    <2>2. t \in Tid /\ tstate[t] # "none" /\ UNCHANGED <<req, sent, osipDialog>>
      BY <1>7 DEF RecvResponseFails, Ist, IstState
    <2> QED BY <1>5, <2>1, <2>2
  <1>8. ASSUME NEW t \in Tid, IstIgnore(t) \/ ExecuteFreed(t) \/ ToCloneFails(t)
        PROVE  UNCHANGED Uas!uasVars
    BY <1>1, <1>8 DEF IstIgnore, ExecuteFreed, ToCloneFails, sipVars
  <1> QED
    BY <1>2, <1>3, <1>4, <1>6, <1>7, <1>8
    DEF Next, Run, Receive, ExecuteIst, ExecuteNist, ExecuteFails

(* UasInv holds with either assumption on the memory. *)
LEMMA UasInvHolds ==
  ASSUME MemoryMayFail \/ TwoEvents
  PROVE  Spec => []UasInv
  <1>1. Spec => [](TypeOK /\ OnceInv)
    BY TypeCorrect, OnceInit, OnceNext, PTL DEF Spec
  <1>2. CASE MemoryMayFail
    <2>1. TypeOK /\ OnceInv => UasInv
      BY <1>2 DEF UasInv
    <2> QED BY <1>1, <2>1, PTL
  <1>3. CASE ~MemoryMayFail
    <2>1. Spec => [](TypeOK /\ EventInv /\ RequestInv /\ NoLeakedEvent /\ AnswerInv)
      BY <1>3, AnswersHold
    <2>2. TypeOK /\ OnceInv /\ EventInv /\ AnswerInv => UasInv
      BY DEF UasInv
    <2> QED BY <1>1, <2>1, <2>2, PTL
  <1> QED BY <1>2, <1>3

(* At the start SipUas is at its start too. *)
LEMMA UasInit == Init => Uas!Init
  <1>1. ToSet(<<>>) = {}
    BY DEF ToSet
  <1> QED BY <1>1 DEF Init, Uas!Init

(* esosip.c as a whole, seen from the callers: whichever allocations fail,   *)
(* no request is answered twice, only those that are to be, and a dialog is  *)
(* confirmed together with the answer to its INVITE; and if none fails and   *)
(* memory has room for the two wake-ups of a request, requests are accepted  *)
(* one at a time and each answer has its dialog.  This is ImplementsUas      *)
(* without fairness.                                                         *)
THEOREM StepsImplementUas ==
  ASSUME MemoryMayFail \/ TwoEvents
  PROVE  Spec => KeepsUas
  <1>1. UasInv /\ [Next]_vars => [Uas!Next]_(Uas!uasVars)
    BY UasNext
  <1> QED BY <1>1, UasInit, UasInvHolds, PTL DEF Spec, Uas!Spec, KeepsUas
==============================================================================
