------------------------------- MODULE EsOsip -------------------------------
(***************************************************************************)
(* The SIP core of esip (src/sip/esosip.c): one thread, the libevent loop,  *)
(* turns datagrams into osip server transactions, wakes itself up through   *)
(* one-shot events, drives the transaction state machines and answers.      *)
(*                                                                         *)
(* The thread's place in the code is pc:                                    *)
(*   poll     inside event_base_dispatch, nothing of priority 0 is active   *)
(*   process  libevent runs the active priority-0 callbacks                 *)
(*   loop     at the head of the while of _es_osip_loop                     *)
(*   ist      in osip_ist_execute (line 446)                                *)
(*   nist     in osip_nist_execute (line 458)                               *)
(*   timers   in the four osip_timers_*_execute and event_free (466-480)    *)
(*   crashed  the process was killed by the use of a freed osip event or of *)
(*            a null To                                                     *)
(* The client transactions (ICT, NICT) are left out: esip never creates one *)
(* so lines 440, 452, 466 and 472 find empty lists.                         *)
(***************************************************************************)
EXTENDS Naturals, Sequences, SequencesExt

CONSTANTS
  Tid,            \* the transactions memory has room for
  Ev,             \* the struct events memory has room for
  Call,           \* a Call-ID with the caller's From tag
  OldTag,         \* To tags this process never issued (an earlier run did)
  NoTag,          \* a request without a To tag
  Udp,            \* the read event of the UDP socket (estransport.c)
  NoEv,           \* _es_osip_loop holds no event
  NoReq,          \* a transaction that was not created
  NoDialog,       \* a null osip_dialog_t pointer
  MemoryMayFail   \* may an allocation fail before memory is exhausted?

ASSUME TagAssumption == OldTag \cap Tid = {} /\ NoTag \notin Tid \cup OldTag
ASSUME EvAssumption == Udp \notin Ev /\ NoEv \notin Ev \cup {Udp}
ASSUME DialogAssumption == NoDialog \notin Tid \cup {"never"}
ASSUME MemoryAssumption == MemoryMayFail \in BOOLEAN

VARIABLES
  pc,          \* where the event-loop thread is
  cur,         \* the local ev of _es_osip_loop
  pendingEv,   \* es_osip_s.pendingEv
  active,      \* the active queue of priority 0 (its order is left open)
  live,        \* the struct events allocated and not freed
  tstate,      \* osip_transaction_t.state
  req,         \* osip_transaction_t.orig_request
  fifo,        \* osip_transaction_t.transactionff
  sent,        \* how often es_transport_send was called for a final response
  osipDialog,  \* es_osip_s.osipDialog, a dialog named by its transaction
  stopArg      \* the last dialog passed to osip_stop_retransmissions_from_dialog

libevVars == <<pendingEv, active, live>>
sipVars == <<tstate, req, fifo, sent, osipDialog>>
vars == <<pc, cur, pendingEv, active, live, tstate, req, fifo, sent,
          osipDialog, stopArg>>
-----------------------------------------------------------------------------
(* To tags are random (esomsg.c 180-190): the tag of an answer is named by  *)
(* the transaction that drew it.                                            *)
Tag == Tid \cup OldTag \cup {NoTag}
Request == [type : {"INVITE", "REGISTER", "BYE", "OTHER"}, call : Call, tag : Tag]

ASSUME RequestAssumption == NoReq \notin Request

IstState == {"IST_PRE_PROCEEDING", "IST_PROCEEDING", "IST_TERMINATED"}
NistState == {"NIST_PRE_TRYING", "NIST_TRYING", "NIST_COMPLETED",
              "NIST_TERMINATED"}
(* FREED: the element still points to an event that was given to free(). *)
FifoEvent == {"RCV_REQINVITE", "RCV_REQUEST", "RCV_STATUS", "SND_STATUS_2XX",
              "TIMEOUT_J", "FREED"}

Ist == {t \in Tid : tstate[t] \in IstState}
Nist == {t \in Tid : tstate[t] \in NistState}

(* The kind of transaction each request is given (327-345). *)
KindOK ==
  \A t \in Tid :
    /\ tstate[t] = "none" <=> req[t] = NoReq
    /\ tstate[t] = "none" => sent[t] = 0
    /\ t \in Ist => req[t].type = "INVITE"
    /\ t \in Nist => req[t].type # "INVITE"

(* Types, and the kinds of the transactions. *)
TypeOK ==
  /\ pc \in {"poll", "process", "loop", "ist", "nist", "timers", "crashed"}
  /\ cur \in Ev \cup {NoEv}
  /\ pendingEv \in Seq(Ev)
  /\ active \subseteq Ev \cup {Udp}
  /\ live \subseteq Ev
  /\ tstate \in [Tid -> IstState \cup NistState \cup {"none", "freed"}]
  /\ req \in [Tid -> Request \cup {NoReq}]
  /\ fifo \in [Tid -> Seq(FifoEvent)]
  /\ sent \in [Tid -> Nat]
  /\ osipDialog \in Seq(Tid)
  /\ stopArg \in Tid \cup {NoDialog, "never"}
  /\ KindOK

Init ==
  /\ pc = "poll"
  /\ cur = NoEv
  /\ pendingEv = <<>>
  /\ active = {}
  /\ live = {}
  /\ tstate = [t \in Tid |-> "none"]
  /\ req = [t \in Tid |-> NoReq]
  /\ fifo = [t \in Tid |-> <<>>]
  /\ sent = [t \in Tid |-> 0]
  /\ osipDialog = <<>>
  /\ stopArg = "never"
-----------------------------------------------------------------------------
(* The To tag of the answer to t (es_msg_initResponse, lines 180-190): the  *)
(* request's own, or a fresh one.  When the fresh one finds no memory (188) *)
(* the answer has none: then no dialog is made of it (IstSnd2xx), and EsNet *)
(* shows its caller none.                                                   *)
ToTag(t) == IF req[t].tag = NoTag THEN t ELSE req[t].tag

(* osip_dialog_match_as_uas of the dialog of t with a request *)
Matches(t, call, tag) == req[t].call = call /\ ToTag(t) = tag

(* The tags a caller can put in a request: none, one it was given in an     *)
(* answer, or one an earlier run of the server gave it.                     *)
Known == {NoTag} \cup OldTag \cup {ToTag(t) : t \in {u \in Tid : sent[u] > 0}}

MutantWakeupInactive(act) ==
  \E e \in Ev \ live :
    /\ live' = live \cup {e}
    /\ pendingEv' = <<e>> \o pendingEv
    /\ active' = act

(* _es_osip_wakeup, seen from a caller that leaves act active: the event is *)
(* added at the head of pendingEv (position 0, line 516) and activated.     *)
Wakeup(act) ==
  \E e \in Ev \ live :
    /\ live' = live \cup {e}
    /\ pendingEv' = <<e>> \o pendingEv
    /\ active' = act \cup {e}

(* The two error returns of _es_osip_wakeup: event_new finds no memory, or  *)
(* event_add fails and the event is neither pending nor freed (509-513).    *)
WakeupFails(act) ==
  /\ MemoryMayFail \/ live = Ev
  /\ \/ live' = live
     \/ \E e \in Ev \ live : live' = live \cup {e}
  /\ active' = act
  /\ UNCHANGED pendingEv

(* osip_list_add finds no memory, which line 516 does not look at: the      *)
(* event is active but not in pendingEv, and nothing will free it.          *)
WakeupUnlisted(act) ==
  /\ MemoryMayFail
  /\ \E e \in Ev \ live :
       /\ live' = live \cup {e}
       /\ active' = act \cup {e}
  /\ UNCHANGED pendingEv

(* osip_transaction_add_event then _es_osip_wakeup, the tail that           *)
(* es_osip_parse_msg (363-376) and _es_internal_message_cb (683-693) share: *)
(* when the wake-up fails the event is freed where it is, in the FIFO.      *)
AddEvent(t, rest, ev, act) ==
  \/ /\ Wakeup(act) \/ WakeupUnlisted(act)
     /\ fifo' = [fifo EXCEPT ![t] = Append(rest, ev)]
  \/ /\ WakeupFails(act)
     /\ fifo' = [fifo EXCEPT ![t] = Append(rest, "FREED")]
-----------------------------------------------------------------------------
(* event_base_dispatch blocks until the UDP socket is readable. *)
Poll ==
  /\ pc = "poll"
  /\ pc' = "process"
  /\ active' = active \cup {Udp}
  /\ UNCHANGED <<cur, pendingEv, live, stopArg>> /\ UNCHANGED sipVars

(* The read callback of the socket ran and es_osip_parse_msg was called. *)
Reading == pc = "process" /\ Udp \in active

(* No transaction comes out of the datagram: it does not parse (280), it is *)
(* a response of no transaction (290-306), or the transaction cannot be     *)
(* created (330, 340) or is freed again because its request cannot be       *)
(* queued (364-368).                                                        *)
RecvRefused ==
  /\ Reading
  /\ active' = active \ {Udp}
  /\ UNCHANGED <<pc, cur, pendingEv, live, stopArg>> /\ UNCHANGED sipVars

(* A response is looked up among the IST (291, 300): one that carries the   *)
(* branch of t is queued there.                                             *)
RecvResponse ==
  /\ Reading
  /\ \E t \in Ist : AddEvent(t, fifo[t], "RCV_STATUS", active \ {Udp})
  /\ UNCHANGED <<pc, cur, tstate, req, sent, osipDialog, stopArg>>

(* The response cannot be queued: its transaction is freed (364-368).       *)
RecvResponseFails ==
  /\ Reading /\ MemoryMayFail
  /\ \E t \in Ist :
       /\ tstate' = [tstate EXCEPT ![t] = "freed"]
       /\ fifo' = [fifo EXCEPT ![t] = <<>>]
  /\ active' = active \ {Udp}
  /\ UNCHANGED <<pc, cur, pendingEv, live, req, sent, osipDialog, stopArg>>

(* The search of lines 308-317 ends on d: the first dialog of the list that *)
(* matches, or null when none does.                                         *)
FirstMatch(d, call, tag) ==
  \/ \E i \in DOMAIN osipDialog :
       /\ d = osipDialog[i] /\ Matches(d, call, tag)
       /\ \A j \in 1 .. i - 1 : ~Matches(osipDialog[j], call, tag)
  \/ /\ d = NoDialog
     /\ \A t \in ToSet(osipDialog) : ~Matches(t, call, tag)

(* An ACK (308-325): the call at line 320 is made with or without a dialog. *)
RecvAck ==
  /\ Reading
  /\ \E d \in Tid \cup {NoDialog}, call \in Call, tag \in Known :
       FirstMatch(d, call, tag) /\ stopArg' = d
  /\ active' = active \ {Udp}
  /\ UNCHANGED <<pc, cur, pendingEv, live>> /\ UNCHANGED sipVars

(* A request other than ACK opens a server transaction, whatever dialogs or *)
(* transactions there are, and is its first event (327-376).                *)
Open(types, state, ev) ==
  /\ Reading
  /\ \E t \in Tid, r \in [type : types, call : Call, tag : Known] :
       /\ tstate[t] = "none"
       /\ tstate' = [tstate EXCEPT ![t] = state]
       /\ req' = [req EXCEPT ![t] = r]
       /\ AddEvent(t, fifo[t], ev, active \ {Udp})
  /\ UNCHANGED <<pc, cur, sent, osipDialog, stopArg>>

MutantRecvRequestAsIst ==
  Open({"REGISTER", "BYE", "OTHER"}, "IST_PRE_PROCEEDING", "RCV_REQINVITE")

RecvInvite == Open({"INVITE"}, "IST_PRE_PROCEEDING", "RCV_REQINVITE")
RecvRequest == Open({"REGISTER", "BYE", "OTHER"}, "NIST_PRE_TRYING", "RCV_REQUEST")

(* The callbacks of priority 0 are exhausted: libevent polls again. *)
ProcessDone ==
  /\ pc = "process" /\ active = {}
  /\ pc' = "poll"
  /\ UNCHANGED <<cur, stopArg>> /\ UNCHANGED libevVars /\ UNCHANGED sipVars
-----------------------------------------------------------------------------
(* libevent takes a one-shot event off the active queue and calls           *)
(* _es_osip_loop.                                                           *)
RunWakeup ==
  /\ pc = "process"
  /\ \E e \in active \cap Ev : active' = active \ {e}
  /\ pc' = "loop"
  /\ UNCHANGED <<cur, pendingEv, live, stopArg>> /\ UNCHANGED sipVars

MutantPopKeeps ==
  /\ pc = "loop" /\ pendingEv # <<>>
  /\ cur' = Head(pendingEv)
  /\ pc' = "ist"
  /\ UNCHANGED <<pendingEv, active, live, stopArg>> /\ UNCHANGED sipVars

(* Lines 428-436: take the first pending event. *)
LoopPop ==
  /\ pc = "loop" /\ pendingEv # <<>>
  /\ cur' = Head(pendingEv)
  /\ pendingEv' = Tail(pendingEv)
  /\ pc' = "ist"
  /\ UNCHANGED <<active, live, stopArg>> /\ UNCHANGED sipVars

LoopReturn ==
  /\ pc = "loop" /\ pendingEv = <<>>
  /\ pc' = "process"
  /\ UNCHANGED <<cur, stopArg>> /\ UNCHANGED libevVars /\ UNCHANGED sipVars

(* osip_transaction_execute takes ev, the oldest event of t.  The order in  *)
(* which osip walks the transactions is left open.                          *)
Executes(t, ev) == fifo[t] # <<>> /\ Head(fifo[t]) = ev

(* _es_internal_message_cb builds a 200 and queues it on its transaction    *)
(* (596-604, 641-670, 683-693).  When es_msg_initResponse fails there is no *)
(* wake-up; when the answer cannot be queued, which line 685 does not look  *)
(* at, there is one for nothing.                                            *)
Respond(t) ==
  \/ AddEvent(t, Tail(fifo[t]), "SND_STATUS_2XX", active)
  \/ /\ MemoryMayFail
     /\ fifo' = [fifo EXCEPT ![t] = Tail(@)]
     /\ \/ UNCHANGED libevVars
        \/ Wakeup(active) \/ WakeupUnlisted(active) \/ WakeupFails(active)

MutantEarlyDialog(t) ==
  /\ pc = "ist" /\ tstate[t] = "IST_PRE_PROCEEDING"
  /\ Executes(t, "RCV_REQINVITE")
  /\ Respond(t)
  /\ osipDialog' = <<t>> \o osipDialog
  /\ tstate' = [tstate EXCEPT ![t] = "IST_PROCEEDING"]
  /\ UNCHANGED <<pc, cur, req, sent, stopArg>>

IstRcvInvite(t) ==
  /\ pc = "ist" /\ tstate[t] = "IST_PRE_PROCEEDING"
  /\ Executes(t, "RCV_REQINVITE")
  /\ Respond(t)
  /\ tstate' = [tstate EXCEPT ![t] = "IST_PROCEEDING"]
  /\ UNCHANGED <<pc, cur, req, sent, osipDialog, stopArg>>

MutantNoDialog(t) ==
  /\ pc = "ist" /\ tstate[t] = "IST_PROCEEDING"
  /\ Executes(t, "SND_STATUS_2XX")
  /\ fifo' = [fifo EXCEPT ![t] = Tail(@)]
  /\ sent' = [sent EXCEPT ![t] = @ + 1]
  /\ tstate' = [tstate EXCEPT ![t] = "IST_TERMINATED"]
  /\ UNCHANGED <<pc, cur, req, osipDialog, stopArg>> /\ UNCHANGED libevVars

MutantSndKeepsEvent(t) ==
  /\ pc = "ist" /\ tstate[t] = "IST_PROCEEDING"
  /\ Executes(t, "SND_STATUS_2XX")
  /\ sent' = [sent EXCEPT ![t] = @ + 1]
  /\ osipDialog' = <<t>> \o osipDialog
  /\ UNCHANGED <<pc, cur, tstate, req, fifo, stopArg>> /\ UNCHANGED libevVars

(* The 200 of an INVITE goes out (546), as an empty text when a part of it  *)
(* found no memory (542).  The callback makes the dialog, the newest first  *)
(* (611-624), unless there is no memory for it or the answer has no From or *)
(* no tag (615-617).  The transaction is terminated: the kill callback      *)
(* (557-571) leaves it in osip's list.                                      *)
IstSnd2xx(t) ==
  /\ pc = "ist" /\ tstate[t] = "IST_PROCEEDING"
  /\ Executes(t, "SND_STATUS_2XX")
  /\ fifo' = [fifo EXCEPT ![t] = Tail(@)]
  /\ sent' = [sent EXCEPT ![t] = @ + 1]
  /\ \/ osipDialog' = <<t>> \o osipDialog
     \/ MemoryMayFail /\ UNCHANGED osipDialog
  /\ tstate' = [tstate EXCEPT ![t] = "IST_TERMINATED"]
  /\ UNCHANGED <<pc, cur, req, stopArg>> /\ UNCHANGED libevVars

(* No IST state has a transition for a response. *)
IstIgnore(t) ==
  /\ pc = "ist" /\ t \in Ist
  /\ Executes(t, "RCV_STATUS")
  /\ fifo' = [fifo EXCEPT ![t] = Tail(@)]
  /\ UNCHANGED <<pc, cur, tstate, req, sent, osipDialog, stopArg>>
  /\ UNCHANGED libevVars

MutantIstDone ==
  /\ pc = "ist" /\ \A t \in Ist : fifo[t] = <<>>
  /\ IF Ist = {}
     THEN pc' = "nist" /\ UNCHANGED cur /\ UNCHANGED libevVars
     ELSE /\ pc' = "loop" /\ cur' = NoEv
          /\ live' = live \ {cur} /\ active' = active \ {cur}
          /\ UNCHANGED pendingEv
  /\ UNCHANGED stopArg /\ UNCHANGED sipVars

IstDone ==
  /\ pc = "ist" /\ \A t \in Ist : fifo[t] = <<>>
  /\ pc' = "nist"
  /\ UNCHANGED <<cur, stopArg>> /\ UNCHANGED libevVars /\ UNCHANGED sipVars

(* Only REGISTER and BYE are answered (641-679). *)
NistRcvRequest(t) ==
  /\ pc = "nist" /\ tstate[t] = "NIST_PRE_TRYING"
  /\ Executes(t, "RCV_REQUEST")
  /\ \/ req[t].type \in {"REGISTER", "BYE"} /\ Respond(t)
     \/ /\ req[t].type = "OTHER"
        /\ fifo' = [fifo EXCEPT ![t] = Tail(@)]
        /\ UNCHANGED libevVars
  /\ tstate' = [tstate EXCEPT ![t] = "NIST_TRYING"]
  /\ UNCHANGED <<pc, cur, req, sent, osipDialog, stopArg>>

NistSnd2xx(t) ==
  /\ pc = "nist" /\ tstate[t] = "NIST_TRYING"
  /\ Executes(t, "SND_STATUS_2XX")
  /\ fifo' = [fifo EXCEPT ![t] = Tail(@)]
  /\ sent' = [sent EXCEPT ![t] = @ + 1]
  /\ tstate' = [tstate EXCEPT ![t] = "NIST_COMPLETED"]
  /\ UNCHANGED <<pc, cur, req, osipDialog, stopArg>> /\ UNCHANGED libevVars

NistTimeoutJ(t) ==
  /\ pc = "nist" /\ tstate[t] = "NIST_COMPLETED"
  /\ Executes(t, "TIMEOUT_J")
  /\ fifo' = [fifo EXCEPT ![t] = Tail(@)]
  /\ tstate' = [tstate EXCEPT ![t] = "NIST_TERMINATED"]
  /\ UNCHANGED <<pc, cur, req, sent, osipDialog, stopArg>>
  /\ UNCHANGED libevVars

(* The event taken was freed by the caller of _es_osip_wakeup: the process  *)
(* dies, or the overwritten type has no transition.  That its memory is by  *)
(* then the next osip_event_t is left out.                                  *)
ExecuteFreed(t) ==
  /\ \/ pc = "ist" /\ t \in Ist
     \/ pc = "nist" /\ t \in Nist
  /\ Executes(t, "FREED")
  /\ fifo' = [fifo EXCEPT ![t] = Tail(@)]
  /\ pc' \in {pc, "crashed"}
  /\ UNCHANGED <<cur, tstate, req, sent, osipDialog, stopArg>>
  /\ UNCHANGED libevVars

(* Events that osip has taken and that make it call es_msg_initResponse.    *)
Answering(t) ==
  \/ /\ pc = "ist" /\ tstate[t] = "IST_PRE_PROCEEDING"
     /\ Executes(t, "RCV_REQINVITE")
  \/ /\ pc = "nist" /\ tstate[t] = "NIST_PRE_TRYING"
     /\ Executes(t, "RCV_REQUEST") /\ req[t].type \in {"REGISTER", "BYE"}

(* Of the results es_msg_initResponse does not look at, that of             *)
(* osip_to_clone (esomsg.c 178) kills the process: without memory the       *)
(* answer has no To, and the tag is looked for through the null pointer     *)
(* (184).  Without a version, a reason, a From or a tag (164, 171, 175,     *)
(* 188) the answer goes on, see IstSnd2xx; the rest (166, 225-228) are      *)
(* headers nobody needs.                                                    *)
ToCloneFails(t) ==
  /\ MemoryMayFail /\ Answering(t)
  /\ pc' = "crashed"
  /\ UNCHANGED <<cur, stopArg>> /\ UNCHANGED libevVars /\ UNCHANGED sipVars

(* Nor is that of osip_list_add looked at (219): osip finds no Via to send  *)
(* the answer to and terminates the transaction, without a dialog.          *)
SendFails(t) ==
  /\ MemoryMayFail /\ Executes(t, "SND_STATUS_2XX")
  /\ \/ /\ pc = "ist" /\ tstate[t] = "IST_PROCEEDING"
        /\ tstate' = [tstate EXCEPT ![t] = "IST_TERMINATED"]
     \/ /\ pc = "nist" /\ tstate[t] = "NIST_TRYING"
        /\ tstate' = [tstate EXCEPT ![t] = "NIST_TERMINATED"]
  /\ fifo' = [fifo EXCEPT ![t] = Tail(@)]
  /\ UNCHANGED <<pc, cur, req, sent, osipDialog, stopArg>> /\ UNCHANGED libevVars

NistDone ==
  /\ pc = "nist" /\ \A t \in Nist : fifo[t] = <<>>
  /\ pc' = "timers"
  /\ UNCHANGED <<cur, stopArg>> /\ UNCHANGED libevVars /\ UNCHANGED sipVars

MutantNoEventFree ==
  /\ pc = "timers"
  /\ \E expired \in SUBSET {t \in Tid : tstate[t] = "NIST_COMPLETED"} :
       fifo' = [t \in Tid |-> IF t \in expired THEN Append(fifo[t], "TIMEOUT_J")
                              ELSE fifo[t]]
  /\ cur' = NoEv
  /\ pc' = "loop"
  /\ UNCHANGED <<live, active, pendingEv, tstate, req, sent, osipDialog, stopArg>>

(* Lines 462-480.  Timer J of any completed NIST may have expired; no IST   *)
(* timer is ever armed.  event_free takes the event off the active queue.   *)
FinishIteration ==
  /\ pc = "timers"
  /\ \E expired \in SUBSET {t \in Tid : tstate[t] = "NIST_COMPLETED"} :
       fifo' = [t \in Tid |-> IF t \in expired THEN Append(fifo[t], "TIMEOUT_J")
                              ELSE fifo[t]]
  /\ live' = live \ {cur}
  /\ active' = active \ {cur}
  /\ cur' = NoEv
  /\ pc' = "loop"
  /\ UNCHANGED <<pendingEv, tstate, req, sent, osipDialog, stopArg>>
-----------------------------------------------------------------------------
Receive ==
  \/ RecvRefused \/ RecvResponse \/ RecvResponseFails
  \/ RecvAck \/ RecvInvite \/ RecvRequest

ExecuteIst(t) == IstRcvInvite(t) \/ IstSnd2xx(t) \/ IstIgnore(t)
ExecuteNist(t) == NistRcvRequest(t) \/ NistSnd2xx(t) \/ NistTimeoutJ(t)
ExecuteFails(t) == ExecuteFreed(t) \/ ToCloneFails(t) \/ SendFails(t)

(* What the thread does once libevent has something to run. *)
Run ==
  \/ Receive
  \/ RunWakeup \/ ProcessDone
  \/ LoopPop \/ LoopReturn \/ IstDone \/ NistDone \/ FinishIteration
  \/ \E t \in Tid : ExecuteIst(t) \/ ExecuteNist(t) \/ ExecuteFails(t)

Next == Poll \/ Run

Spec == Init /\ [][Next]_vars

(* A thread that has something to run runs it.  Nothing makes a datagram    *)
(* come, so Poll has no fairness.                                           *)
FairSpec == Spec /\ WF_vars(Run)
-----------------------------------------------------------------------------
Answerable == {"INVITE", "REGISTER", "BYE"}

(* No struct event is used after its release, whichever allocations fail:   *)
(* one that is pending, active or held by _es_osip_loop is allocated, it is *)
(* pending only once, and not while it is held, so that event_free (480)    *)
(* releases one that the loop will not take again.                          *)
NoDanglingEvent ==
  /\ ToSet(pendingEv) \cup (active \ {Udp}) \subseteq live
  /\ cur # NoEv => cur \in live /\ cur \notin ToSet(pendingEv)
  /\ \A i, j \in DOMAIN pendingEv : pendingEv[i] = pendingEv[j] => i = j

(* pendingEv, into which the code inserts at the head and from which it     *)
(* takes the head, never holds two events while memory lasts, so its order  *)
(* cannot matter, and libevent has no event active that the code forgot.    *)
AtMostOnePending ==
  /\ Len(pendingEv) <= 1
  /\ active \ {Udp} \subseteq ToSet(pendingEv) \cup {cur}

(* Nothing is leaked by a wake-up: every event allocated by event_new is    *)
(* pending or held, so event_free (480) will release it.                    *)
NoLeakedEvent == live = ToSet(pendingEv) \cup ({cur} \ {NoEv})

(* When the thread goes back to wait for the network it has answered every  *)
(* INVITE, REGISTER and BYE exactly once, has not answered the others, and  *)
(* no transaction has work that only a later wake-up would find, a timer    *)
(* that has expired excepted.                                               *)
AnsweredAtPoll ==
  pc = "poll" => \A t \in Tid :
    /\ fifo[t] \in {<<>>, <<"TIMEOUT_J">>}
    /\ tstate[t] # "none" =>
         sent[t] = IF req[t].type \in Answerable THEN 1 ELSE 0

(* Every dialog comes from an INVITE that was answered, no received copy of *)
(* one makes two and, when memory holds out, each answered copy makes one.  *)
(* A retransmission is a copy, and a transaction, of its own (327).         *)
DialogPerInvite ==
  /\ \A i, j \in DOMAIN osipDialog : osipDialog[i] = osipDialog[j] => i = j
  /\ \A t \in ToSet(osipDialog) : req[t].type = "INVITE" /\ sent[t] = 1
  /\ ~MemoryMayFail =>
       \A t \in Tid : tstate[t] = "IST_TERMINATED" => t \in ToSet(osipDialog)

(* The thread always comes back from the callbacks to the poll, or the use  *)
(* of a freed event has killed it: the loop at 428, which the comment above *)
(* it says may block under many events, ends, even with wake-ups for        *)
(* nothing and events left behind by allocations that failed.               *)
ReturnsToPoll == pc # "poll" ~> pc \in {"poll", "crashed"}

(* What a pass of the thread has left to do, the weightiest first: the      *)
(* datagram, the requests not executed yet, the wake-ups to take, those to  *)
(* run, the way through the loop, the events in the FIFOs.                  *)
Unserved == {t \in Tid : tstate[t] \in {"IST_PRE_PROCEEDING", "NIST_PRE_TRYING"}}
Backlog == UNION {{t} \X DOMAIN fifo[t] : t \in Tid}
Place(p) == CASE p = "ist" -> 5 [] p = "nist" -> 4 [] p = "timers" -> 3
              [] p = "loop" -> 2 [] p = "process" -> 1 [] OTHER -> 0

Work == <<Cardinality(active \cap {Udp}), Cardinality(Unserved), Len(pendingEv),
          Cardinality(active \ {Udp}), Place(pc), Cardinality(Backlog)>>

Less(v, w) == \E k \in 1 .. 6 : v[k] < w[k] /\ \A j \in 1 .. k - 1 : v[j] = w[j]

(* Every step between two polls leaves less to do, although each request    *)
(* makes a wake-up for its answer inside the loop that takes them (428) and *)
(* each iteration may queue expired timers (472): so the loop cannot block, *)
(* as the comment above it (425) fears, whichever allocations fail.         *)
WorkShrinks == [][Run => Less(Work', Work)]_vars

(* Nothing wakes the thread up for a timer (the TODO at 462): one that has  *)
(* expired is served only because later traffic makes _es_osip_loop run.    *)
TimersServedByTraffic ==
  []<>(pc = "loop") =>
    \A t \in Tid : "TIMEOUT_J" \in ToSet(fifo[t]) ~> tstate[t] = "NIST_TERMINATED"
-----------------------------------------------------------------------------
(* What the core promises to the callers: see SipUas. *)
Uas == INSTANCE SipUas WITH
  kind <- [t \in Tid |-> IF tstate[t] = "none" THEN "none" ELSE req[t].type],
  answers <- sent,
  dialogs <- ToSet(osipDialog)

(* esosip.c as a whole implements SipUas: requests are served one at a time *)
(* in the order they were accepted, each is answered once and eventually.   *)
ImplementsUas == Uas!FairSpec

(* Whichever allocations fail, no copy of a request is answered twice, only *)
(* INVITE, REGISTER and BYE are answered, and a dialog is confirmed only    *)
(* with the answer to its INVITE: esosip.c keeps to SipUas, fairness apart. *)
KeepsUas == Uas!Spec
-----------------------------------------------------------------------------
\* "if (dialog != (osip_dialog_t *)0); {" (319): retransmissions are stopped
\* for a dialog that was found.
StopHasDialog == stopArg # NoDialog

(* "add a new OSip event into FiFo list" (363): the list owns the event     *)
(* from then on, so no event in it has been freed.                          *)
FifoOwnsEvents == \A t \in Tid : "FREED" \notin ToSet(fifo[t])
=============================================================================
