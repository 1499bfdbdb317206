-------------------------------- MODULE EsNet --------------------------------
(***************************************************************************)
(* The callers of esip on a UDP network that loses, delays and reorders     *)
(* datagrams, composed with the SIP core (EsOsip) datagram by datagram.     *)
(* A caller repeats its request until it is answered; the core does not     *)
(* recognise a copy (esosip.c 327-345) and serves each on its own.          *)
(*                                                                         *)
(* A branch stands for what a request and its answer have in common: the    *)
(* Via, From, Call-ID and CSeq that es_msg_initResponse copies.             *)
(***************************************************************************)
EXTENDS EsOsip

CONSTANTS
  Methods,    \* the methods the callers use
  Branch,     \* the requests the callers may make
  NoBranch,   \* a transaction that was not created
  MaxTries,   \* bound: the copies a caller sends of one request
  MaxLoss,    \* bound: the datagrams that are lost
  MaxQueue    \* the datagrams the socket's buffer has room for

ASSUME NetAssumption ==
  /\ Methods \subseteq {"INVITE", "REGISTER", "BYE", "OTHER"}
  /\ NoBranch \notin Branch
  /\ MaxTries \in Nat \ {0} /\ MaxLoss \in Nat /\ MaxQueue \in Nat \ {0}

VARIABLES
  asked,    \* the request each caller made
  tries,    \* how many copies of it were sent
  got,      \* the To tags of the answers it received
  wire,     \* the datagrams in flight, in both directions
  queue,    \* the datagrams in the buffer of esip's socket
  via,      \* the branch of each transaction's request
  losses    \* how many datagrams were lost

callerVars == <<asked, tries, got>>
wireVars == <<wire, queue, losses>>
netVars == <<callerVars, wireVars, via, vars>>

(* The tag is the request's own, the one an ACK confirms or an answer's.    *)
Datagram == [kind : {"request", "ack", "answer"}, branch : Branch, tag : Tag]
-----------------------------------------------------------------------------
NetInit ==
  /\ Init
  /\ asked = [b \in Branch |-> NoReq]
  /\ tries = [b \in Branch |-> 0]
  /\ got = [b \in Branch |-> {}]
  /\ wire = EmptyBag /\ queue = <<>> /\ losses = 0
  /\ via = [t \in Tid |-> NoBranch]

(* Types, and a transaction has the request of its branch.                  *)
NetTypeOK ==
  /\ TypeOK
  /\ asked \in [Branch -> Request \cup {NoReq}]
  /\ tries \in [Branch -> 0 .. MaxTries]
  /\ got \in [Branch -> SUBSET Tag]
  /\ IsABag(wire) /\ BagToSet(wire) \subseteq Datagram
  /\ queue \in Seq(Datagram) /\ Len(queue) <= MaxQueue
  /\ via \in [Tid -> Branch \cup {NoBranch}]
  /\ losses \in 0 .. MaxLoss
  /\ \A t \in Tid : via[t] # NoBranch => req[t] = asked[via[t]]
-----------------------------------------------------------------------------
(* The callers *)

Copy(b) == [kind |-> "request", branch |-> b, tag |-> asked[b].tag]

(* The tags a caller of that call has been given: its dialogs.              *)
Learned(call) ==
  UNION {got[b] : b \in {a \in Branch : asked[a] # NoReq
                                        /\ asked[a].type = "INVITE" /\ asked[a].call = call}}

(* A caller makes a request, outside a dialog or inside one of its own, and *)
(* sends the first copy.                                                    *)
Ask(b) ==
  /\ asked[b] = NoReq
  /\ \E type \in Methods, call \in Call :
       \E tag \in {NoTag} \cup Learned(call) :
         asked' = [asked EXCEPT ![b] = [type |-> type, call |-> call, tag |-> tag]]
  /\ tries' = [tries EXCEPT ![b] = 1]
  /\ wire' = wire (+) SetToBag({Copy(b)'})
  /\ UNCHANGED <<got, queue, losses, via, vars>>

(* It has no answer yet and sends the same request again.                   *)
Retransmit(b) ==
  /\ asked[b] # NoReq /\ got[b] = {} /\ tries[b] < MaxTries
  /\ tries' = [tries EXCEPT ![b] = @ + 1]
  /\ wire' = wire (+) SetToBag({Copy(b)})
  /\ UNCHANGED <<asked, got, queue, losses, via, vars>>

(* Each answer to an INVITE is acknowledged. *)
Acks(d) == IF asked[d.branch].type = "INVITE" THEN {[d EXCEPT !.kind = "ack"]} ELSE {}

(* It gets an answer, which may be the second one, and acknowledges it.     *)
ReceiveAnswer(d) ==
  /\ d.kind = "answer"
  /\ got' = [got EXCEPT ![d.branch] = @ \cup {d.tag}]
  /\ wire' = (wire (-) SetToBag({d})) (+) SetToBag(Acks(d))
  /\ UNCHANGED <<asked, tries, queue, losses, via, vars>>
-----------------------------------------------------------------------------
(* The network *)

(* The network or a full buffer drops a datagram, or sendto has failed and  *)
(* es_transport_send did not look (estransport.c 296).                      *)
Lose(d) ==
  /\ losses < MaxLoss
  /\ losses' = losses + 1
  /\ wire' = wire (-) SetToBag({d})
  /\ UNCHANGED <<callerVars, queue, via, vars>>

(* A datagram reaches the socket, in any order. *)
Arrive(d) ==
  /\ d.kind # "answer" /\ Len(queue) < MaxQueue
  /\ queue' = Append(queue, d)
  /\ wire' = wire (-) SetToBag({d})
  /\ UNCHANGED <<callerVars, losses, via, vars>>
-----------------------------------------------------------------------------
(* esip *)

(* The poll returns because the socket is readable. *)
NetPoll ==
  /\ queue # <<>>
  /\ Poll
  /\ UNCHANGED <<callerVars, wireVars, via>>

(* _es_transport_ev takes the oldest datagram and es_osip_parse_msg opens a *)
(* transaction for it (327-345), or finds no memory for one.                *)
ReadRequest ==
  /\ queue # <<>> /\ Head(queue).kind = "request"
  /\ LET b == Head(queue).branch IN
       \/ /\ IF asked[b].type = "INVITE" THEN RecvInvite ELSE RecvRequest
          /\ \E t \in Tid :
               /\ tstate[t] = "none" /\ req'[t] = asked[b]
               /\ via' = [via EXCEPT ![t] = b]
       \/ /\ MemoryMayFail \/ \A t \in Tid : tstate[t] # "none"
          /\ RecvRefused /\ UNCHANGED via
  /\ queue' = Tail(queue)
  /\ UNCHANGED <<callerVars, wire, losses>>

(* The same with an ACK: the dialog it is for is looked up (308-325).       *)
ReadAck ==
  /\ queue # <<>> /\ Head(queue).kind = "ack"
  /\ RecvAck
  /\ FirstMatch(stopArg', asked[Head(queue).branch].call, Head(queue).tag)
  /\ queue' = Tail(queue)
  /\ UNCHANGED <<callerVars, wire, losses, via>>

MutantReplyNoTag(t) == [kind |-> "answer", branch |-> via[t], tag |-> req[t].tag]

(* es_msg_initResponse: the Via, From, Call-ID and CSeq are the request's,  *)
(* the To is the request's with a tag.                                      *)
Reply(t) == [kind |-> "answer", branch |-> via[t], tag |-> ToTag(t)]

(* The To when osip_strdup or osip_to_set_tag failed, which line 188 does   *)
(* not look at: the request's as it was.                                    *)
Untagged(t) == [Reply(t) EXCEPT !.tag = req[t].tag]

(* What the network is given when the transactions of done are answered.    *)
(* Without memory it may be nothing: an answer that has no version, reason  *)
(* or From (esomsg.c 164-175) makes no text, and neither that nor the text  *)
(* itself is looked at (esosip.c 542-549).                                  *)
Outgoing(done) ==
  {{Reply(t) : t \in done}} \cup
  {out \in {{}, {Untagged(t) : t \in done}} : MemoryMayFail}

(* The thread runs wake-ups and transactions; the answers they hand to      *)
(* es_transport_send are put on the wire.                                   *)
Serve ==
  /\ \/ RunWakeup \/ ProcessDone
     \/ LoopPop \/ LoopReturn
     \/ IstDone \/ NistDone \/ FinishIteration
     \/ \E t \in Tid : ExecuteIst(t) \/ ExecuteNist(t) \/ ExecuteFails(t)
  /\ \E out \in Outgoing({t \in Tid : sent'[t] > sent[t]}) : wire' = wire (+) SetToBag(out)
  /\ UNCHANGED <<callerVars, queue, losses, via>>

Core == NetPoll \/ ReadRequest \/ ReadAck \/ Serve
-----------------------------------------------------------------------------
NetNext ==
  \/ Core
  \/ \E b \in Branch : Ask(b) \/ Retransmit(b)
  \/ \E d \in BagToSet(wire) : ReceiveAnswer(d) \/ Lose(d) \/ Arrive(d)

NetSpec == NetInit /\ [][NetNext]_netVars

(* esip's thread runs when it can; a caller without an answer goes on       *)
(* asking; a datagram that is not lost, of which there are at most MaxLoss, *)
(* comes through, though the socket's buffer may be full at times.          *)
Fairness ==
  /\ WF_netVars(Core)
  /\ \A b \in Branch :
       /\ WF_netVars(Retransmit(b))
       /\ WF_netVars(\E d \in BagToSet(wire) : d.branch = b /\ ReceiveAnswer(d))
       /\ SF_netVars(\E d \in BagToSet(wire) : d.branch = b /\ d.kind = "request" /\ Arrive(d))

NetFairSpec == NetSpec /\ Fairness
-----------------------------------------------------------------------------
(* What a caller takes for a dialog is one at esip too: whichever copies of *)
(* an INVITE arrive, late or twice, each answer it got names a dialog that  *)
(* its next request or ACK will match (611-624 against 313 and 655).        *)
CallersDialogExists ==
  \A b \in Branch : asked[b] # NoReq /\ asked[b].type = "INVITE" =>
    \A tag \in got[b] :
      \E t \in ToSet(osipDialog) : Matches(t, asked[b].call, tag)

(* Every ACK for an answer of this run finds a dialog: the null one of line *)
(* 320 needs an ACK of an earlier run.                                      *)
AckFindsDialog == stopArg # NoDialog

(* esip does not amplify: it answers a caller at most once for each copy of *)
(* its request that was sent, and makes no dialog for a copy that it did    *)
(* not answer nor, while memory lasts, answers an INVITE without one.       *)
NoAmplification ==
  \A b \in Branch :
    LET served == {t \in Tid : via[t] = b}
        answered == {t \in served : sent[t] > 0}
    IN  /\ Cardinality(answered) <= tries[b] /\ \A t \in answered : sent[t] = 1
        /\ ToSet(osipDialog) \cap served \subseteq answered
        /\ ~MemoryMayFail /\ asked[b] # NoReq /\ asked[b].type = "INVITE" =>
             answered \subseteq ToSet(osipDialog)

(* A caller that repeats its request more often than the network loses      *)
(* datagrams is answered, as long as memory has room for every copy.        *)
EveryCallerAnswered ==
  \A b \in Branch :
    asked[b] # NoReq /\ asked[b].type \in Answerable ~> got[b] # {}
==============================================================================
