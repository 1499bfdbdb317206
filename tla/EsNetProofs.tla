----------------------------- MODULE EsNetProofs -----------------------------
(***************************************************************************)
(* Proofs about the callers and the network around the SIP core: for every  *)
(* number of callers, copies, losses and transactions, the core answers a   *)
(* caller at most once per copy of its request and, while memory lasts,     *)
(* each answer to an INVITE names a dialog that its ACK will find.          *)
(***************************************************************************)
EXTENDS EsNet, EsOsipAnswers, FiniteSetTheorems

(* What is on its way: in flight, or in the buffer of the socket. *)
Under == BagToSet(wire) \cup ToSet(queue)

(* A transaction that exists comes from a branch. *)
TransInv == \A t \in Tid : via[t] = NoBranch <=> req[t] = NoReq

(* Nothing is on its way for a caller that did not ask, a request is the    *)
(* one its caller made, and only answers to an INVITE are acknowledged.     *)
DatagramInv ==
  /\ \A d \in Under :
       /\ asked[d.branch] # NoReq
       /\ d.kind = "request" => d = Copy(d.branch)
       /\ d.kind = "ack" => asked[d.branch].type = "INVITE"
  /\ \A b \in Branch : asked[b] = NoReq => got[b] = {} /\ tries[b] = 0

NetInv == NetTypeOK /\ TransInv /\ DatagramInv
-----------------------------------------------------------------------------
(* Bags and sequences *)

Copies(d, B) == IF d \in DOMAIN B THEN B[d] ELSE 0

(* What sending does to the wire, *)
LEMMA BagAdd ==
  ASSUME NEW B, IsABag(B), NEW S
  PROVE  /\ IsABag(B (+) SetToBag(S))
         /\ BagToSet(B (+) SetToBag(S)) = BagToSet(B) \cup S
         /\ \A d : Copies(d, B (+) SetToBag(S))
                     = IF d \in S THEN Copies(d, B) + 1 ELSE Copies(d, B)
  BY DEF IsABag, BagToSet, SetToBag, (+), Copies

(* and what the loss or the arrival of a datagram does. *)
LEMMA BagTake ==
  ASSUME NEW B, IsABag(B), NEW d \in BagToSet(B)
  PROVE  /\ IsABag(B (-) SetToBag({d}))
         /\ BagToSet(B (-) SetToBag({d})) \subseteq BagToSet(B)
         /\ Copies(d, B (-) SetToBag({d})) = Copies(d, B) - 1
         /\ \A e : e # d => Copies(e, B (-) SetToBag({d})) = Copies(e, B)
  <1> DEFINE R == [e \in DOMAIN B |-> IF e \in {d} THEN B[e] - 1 ELSE B[e]]
  <1>1. B (-) SetToBag({d}) = [e \in {x \in DOMAIN B : R[x] > 0} |-> R[e]]
    BY DEF SetToBag, (-)
  <1>2. \A e \in DOMAIN B : B[e] \in Nat /\ B[e] > 0
    BY DEF IsABag
  <1>3. \A e \in DOMAIN B : R[e] \in Nat
    BY <1>2
  <1>4. d \in DOMAIN B /\ R[d] = B[d] - 1
    BY DEF BagToSet
  <1>5. \A e : e # d => (e \in DOMAIN B => R[e] = B[e])
    OBVIOUS
  <1> HIDE DEF R
  <1>6. IsABag(B (-) SetToBag({d})) /\ BagToSet(B (-) SetToBag({d})) \subseteq BagToSet(B)
    BY <1>1, <1>3 DEF IsABag, BagToSet
  <1>7. Copies(d, B (-) SetToBag({d})) = Copies(d, B) - 1
    BY <1>1, <1>2, <1>3, <1>4 DEF Copies
  <1>8. \A e : e # d => Copies(e, B (-) SetToBag({d})) = Copies(e, B)
    BY <1>1, <1>2, <1>5 DEF Copies
  <1> QED BY <1>6, <1>7, <1>8

(* A datagram at the end of the queue, *)
LEMMA QueueAppend ==
  ASSUME NEW S, NEW q \in Seq(S), NEW d \in S
  PROVE  /\ Append(q, d) \in Seq(S) /\ Len(Append(q, d)) = Len(q) + 1
         /\ ToSet(Append(q, d)) = ToSet(q) \cup {d}
  <1>1. /\ Append(q, d) \in Seq(S) /\ Len(Append(q, d)) = Len(q) + 1
        /\ \A i \in 1 .. Len(q) + 1 : Append(q, d)[i] = IF i = Len(q) + 1 THEN d ELSE q[i]
    OBVIOUS
  <1>2. Len(q) \in Nat /\ DOMAIN q = 1 .. Len(q) /\ DOMAIN Append(q, d) = 1 .. Len(q) + 1
    BY <1>1, LenProperties
  <1> QED BY <1>1, <1>2 DEF ToSet

(* and one taken from its head. *)
LEMMA QueueTail ==
  ASSUME NEW S, NEW q \in Seq(S), q # <<>>
  PROVE  /\ Tail(q) \in Seq(S) /\ Len(Tail(q)) = Len(q) - 1
         /\ Head(q) \in S /\ Head(q) \in ToSet(q) /\ ToSet(Tail(q)) \subseteq ToSet(q)
  <1>1. /\ Tail(q) \in Seq(S) /\ Len(Tail(q)) = Len(q) - 1
        /\ \A i \in 1 .. Len(Tail(q)) : Tail(q)[i] = q[i + 1]
    BY HeadTailProperties
  <1>2. /\ Len(q) \in Nat \ {0} /\ DOMAIN q = 1 .. Len(q) /\ Head(q) = q[1] /\ Head(q) \in S
        /\ DOMAIN Tail(q) = 1 .. Len(Tail(q))
    BY <1>1, EmptySeq, LenProperties
  <1> QED BY <1>1, <1>2 DEF ToSet
-----------------------------------------------------------------------------
(* The core, seen from the network *)

(* Every step is one of EsOsip or leaves the core alone. *)
LEMMA NetStep == [NetNext]_netVars => [Next]_vars
  <1> SUFFICES ASSUME [NetNext]_netVars, ~UNCHANGED vars PROVE Next
    OBVIOUS
  <1>1. NetNext
    BY DEF netVars
  <1>2. \A b \in Branch : ~Ask(b) /\ ~Retransmit(b)
    BY DEF Ask, Retransmit
  <1>3. \A d : ~ReceiveAnswer(d) /\ ~Lose(d) /\ ~Arrive(d)
    BY DEF ReceiveAnswer, Lose, Arrive
  <1>4. NetPoll => Next
    BY DEF NetPoll, Next
  <1>5. ReadRequest => Next
    BY DEF ReadRequest, Next, Run, Receive
  <1>6. ReadAck => Next
    BY DEF ReadAck, Next, Run, Receive
  <1>7. Serve => Next
    BY DEF Serve, Next, Run
  <1> QED BY <1>1, <1>2, <1>3, <1>4, <1>5, <1>6, <1>7 DEF NetNext, Core

(* esip among its callers behaves as EsOsip does with any traffic, so that  *)
(* what is proved of EsOsip holds here.                                     *)
THEOREM NetImplementsSip == NetSpec => Spec
  BY NetStep, PTL DEF NetSpec, NetInit, Spec

(* The thread serves requests; it does not change them. *)
LEMMA ServeKeeps ==
  ASSUME Serve
  PROVE  UNCHANGED <<req, stopArg, callerVars, queue, losses, via>>
  <1>1. UNCHANGED <<callerVars, queue, losses, via>>
    BY DEF Serve
  <1>2. CASE \/ RunWakeup \/ ProcessDone \/ LoopPop \/ LoopReturn
             \/ IstDone \/ NistDone \/ FinishIteration
    BY <1>1, <1>2 DEF RunWakeup, ProcessDone, LoopPop, LoopReturn, IstDone, NistDone,
                      FinishIteration, sipVars
  <1>3. ASSUME NEW t \in Tid, ExecuteIst(t) \/ ExecuteNist(t) \/ ExecuteFails(t)
        PROVE  UNCHANGED <<req, stopArg>>
    BY <1>3 DEF ExecuteIst, ExecuteNist, ExecuteFails, IstRcvInvite, IstSnd2xx, IstIgnore,
                NistRcvRequest, NistSnd2xx, NistTimeoutJ, ExecuteFreed, ToCloneFails,
                SendFails, sipVars
  <1> QED BY <1>1, <1>2, <1>3 DEF Serve

(* The transaction that a request opens is the one that gets its branch. *)
LEMMA OpenedVia ==
  ASSUME TypeOK, NEW r \in Request, RecvInvite \/ RecvRequest,
         NEW t \in Tid, tstate[t] = "none", req'[t] = r
  PROVE  req' = [req EXCEPT ![t] = r] /\ UNCHANGED stopArg
  <1>1. PICK u \in Tid : \E q : req' = [req EXCEPT ![u] = q]
    BY DEF RecvInvite, RecvRequest, Open
  <1>2. req[t] = NoReq /\ r # NoReq
    BY RequestAssumption DEF TypeOK, KindOK
  <1>3. t = u
    BY <1>1, <1>2 DEF TypeOK
  <1>4. UNCHANGED stopArg
    BY DEF RecvInvite, RecvRequest, Open
  <1> QED BY <1>1, <1>3, <1>4 DEF TypeOK
-----------------------------------------------------------------------------
(* Types *)

(* At the start nothing is on its way. *)
LEMMA NetInitInv == NetInit => NetInv
  <1> SUFFICES ASSUME NetInit PROVE NetInv
    OBVIOUS
  <1>1. IsABag(EmptyBag) /\ BagToSet(EmptyBag) = {} /\ ToSet(<<>>) = {}
    BY DEF EmptyBag, IsABag, BagToSet, SetToBag, ToSet
  <1>2. <<>> \in Seq(Datagram) /\ Len(<<>>) = 0
    BY EmptySeq
  <1>3. TypeOK
    BY TypeInit DEF NetInit
  <1>4. NetTypeOK
    BY <1>1, <1>2, <1>3, NetAssumption DEF NetInit, NetTypeOK, NetAssumption
  <1>5. TransInv
    BY DEF TransInv, NetInit, Init
  <1>6. DatagramInv
    BY <1>1 DEF DatagramInv, Under, NetInit
  <1> QED BY <1>4, <1>5, <1>6 DEF NetInv

(* A step of the callers or the network that adds the datagrams S to those  *)
(* on their way, and leaves the transactions alone.                         *)
LEMMA OutsideStep ==
  ASSUME NetInv, UNCHANGED <<via, vars>>,
         NEW S \in SUBSET Datagram, Under' \subseteq Under \cup S,
         IsABag(wire'), queue' \in Seq(Datagram), Len(queue') <= MaxQueue,
         losses' \in 0 .. MaxLoss,
         asked' \in [Branch -> Request \cup {NoReq}],
         tries' \in [Branch -> 0 .. MaxTries], got' \in [Branch -> SUBSET Tag],
         \A b \in Branch : asked[b] # NoReq => asked'[b] = asked[b],
         \A b \in Branch : asked'[b] = NoReq => got'[b] = {} /\ tries'[b] = 0,
         \A d \in S : /\ asked'[d.branch] # NoReq
                      /\ d.kind = "request" => d = Copy(d.branch)'
                      /\ d.kind = "ack" => asked'[d.branch].type = "INVITE"
  PROVE  NetInv'
  <1> USE DEF NetInv
  <1>1. TypeOK'
    BY TypeNext DEF NetTypeOK
  <1>2. Under \subseteq Datagram
    BY DEF NetTypeOK, Under, ToSet
  <1>3. Under' \subseteq Datagram
    BY <1>2
  <1>4. UNCHANGED req
    BY DEF vars
  <1>5. ASSUME NEW t \in Tid, via'[t] # NoBranch PROVE req'[t] = asked'[via'[t]]
    <2>1. via[t] \in Branch /\ req[t] = asked[via[t]] /\ req[t] # NoReq
      BY <1>5 DEF NetTypeOK, TransInv
    <2> QED BY <1>4, <2>1
  <1>6. NetTypeOK'
    BY <1>1, <1>3, <1>5 DEF NetTypeOK, Under
  <1>7. TransInv'
    BY <1>4 DEF TransInv
  <1>8. ASSUME NEW d \in Under
        PROVE  /\ asked'[d.branch] # NoReq
               /\ d.kind = "request" => d = Copy(d.branch)'
               /\ d.kind = "ack" => asked'[d.branch].type = "INVITE"
    <2>1. d.branch \in Branch
      BY <1>2 DEF Datagram
    <2>2. asked'[d.branch] = asked[d.branch] /\ asked[d.branch] # NoReq
      BY <2>1 DEF DatagramInv
    <2> QED BY <2>2 DEF DatagramInv, Copy
  <1>9. DatagramInv'
    BY <1>8 DEF DatagramInv
  <1> QED BY <1>6, <1>7, <1>9

(* A caller makes a request or repeats it. *)
LEMMA AskKeeps ==
  ASSUME NetInv, NEW b \in Branch, Ask(b) \/ Retransmit(b)
  PROVE  NetInv'
  <1> USE DEF NetInv
  <1>1. /\ wire' = wire (+) SetToBag({Copy(b)'}) /\ IsABag(wire)
        /\ UNCHANGED <<got, queue, losses, via, vars>>
    BY DEF Ask, Retransmit, Copy, NetTypeOK
  <1>2. IsABag(wire') /\ Under' = Under \cup {Copy(b)'}
    BY <1>1, BagAdd DEF Under
  <1>3. asked' \in [Branch -> Request \cup {NoReq}] /\ asked'[b] \in Request
    <2>1. CASE Ask(b)
      <3>1. PICK type \in Methods, call \in Call :
              \E tag \in {NoTag} \cup Learned(call) :
                asked' = [asked EXCEPT ![b] = [type |-> type, call |-> call, tag |-> tag]]
        BY <2>1 DEF Ask
      <3>2. PICK tag \in {NoTag} \cup Learned(call) :
              asked' = [asked EXCEPT ![b] = [type |-> type, call |-> call, tag |-> tag]]
        BY <3>1
      <3>3. Learned(call) \subseteq Tag
        BY DEF Learned, NetTypeOK
      <3>4. [type |-> type, call |-> call, tag |-> tag] \in Request
        BY <3>3, NetAssumption DEF Request, Tag, NetAssumption
      <3> QED BY <3>2, <3>4 DEF NetTypeOK
    <2>2. CASE Retransmit(b)
      BY <2>2 DEF Retransmit, NetTypeOK
    <2> QED BY <2>1, <2>2
  <1>4. Copy(b)' \in Datagram
    BY <1>3 DEF Copy, Datagram, Request
  <1>5. \A c \in Branch : asked[c] # NoReq => asked'[c] = asked[c]
    BY DEF Ask, Retransmit, NetTypeOK
  <1>6. tries' \in [Branch -> 0 .. MaxTries] /\ \A c \in Branch \ {b} : tries'[c] = tries[c]
    BY NetAssumption DEF Ask, Retransmit, NetTypeOK, NetAssumption
  <1>7. \A c \in Branch : asked'[c] = NoReq => got'[c] = {} /\ tries'[c] = 0
    <2>1. asked'[b] # NoReq
      BY <1>3, RequestAssumption
    <2> QED BY <1>1, <1>5, <1>6, <2>1 DEF DatagramInv
  <1>8. Copy(b)'.branch = b /\ Copy(b)'.kind = "request"
    BY DEF Copy
  <1>9. \A d \in {Copy(b)'} :
          /\ asked'[d.branch] # NoReq
          /\ d.kind = "request" => d = Copy(d.branch)'
          /\ d.kind = "ack" => asked'[d.branch].type = "INVITE"
    BY <1>3, <1>8, RequestAssumption
  <1>10. {Copy(b)'} \in SUBSET Datagram /\ Under' \subseteq Under \cup {Copy(b)'}
    BY <1>2, <1>4
  <1>11. queue' \in Seq(Datagram) /\ Len(queue') <= MaxQueue /\ losses' \in 0 .. MaxLoss
         /\ got' \in [Branch -> SUBSET Tag] /\ UNCHANGED <<via, vars>>
    BY <1>1 DEF NetTypeOK
  <1> QED BY <1>2, <1>3, <1>5, <1>6, <1>7, <1>9, <1>10, <1>11, OutsideStep

(* A caller receives an answer, or the network loses or delivers a datagram.*)
LEMMA CarryKeeps ==
  ASSUME NetInv, NEW d \in BagToSet(wire), ReceiveAnswer(d) \/ Lose(d) \/ Arrive(d)
  PROVE  NetInv'
  <1> USE DEF NetInv
  <1>1. IsABag(wire) /\ d \in Datagram /\ d \in Under /\ d.branch \in Branch /\ d.tag \in Tag
    BY DEF NetTypeOK, Under, Datagram
  <1>2. asked[d.branch] # NoReq
    BY <1>1 DEF DatagramInv
  <1> DEFINE rest == wire (-) SetToBag({d})
  <1>3. IsABag(rest) /\ BagToSet(rest) \subseteq BagToSet(wire)
    BY <1>1, BagTake
  <1> HIDE DEF rest
  <1>4. CASE ReceiveAnswer(d)
    <2>1. wire' = rest (+) SetToBag(Acks(d)) /\ UNCHANGED <<asked, tries, queue, losses, via, vars>>
          /\ got' = [got EXCEPT ![d.branch] = @ \cup {d.tag}]
      BY <1>4 DEF ReceiveAnswer, rest
    <2>2. IsABag(wire') /\ Under' \subseteq Under \cup Acks(d)
      BY <1>3, <2>1, BagAdd DEF Under
    <2>3. ASSUME NEW a \in Acks(d)
          PROVE  /\ a \in Datagram /\ a.branch = d.branch /\ a.kind = "ack"
                 /\ asked[d.branch].type = "INVITE"
      BY <1>1 DEF Acks, Datagram
    <2>4. got' \in [Branch -> SUBSET Tag]
          /\ \A b \in Branch : asked'[b] = NoReq => got'[b] = {} /\ tries'[b] = 0
      BY <1>1, <1>2, <2>1 DEF NetTypeOK, DatagramInv
    <2>5. Acks(d) \subseteq Datagram
      BY <2>3
    <2>6. \A a \in Acks(d) : /\ asked'[a.branch] # NoReq
                             /\ a.kind = "request" => a = Copy(a.branch)'
                             /\ a.kind = "ack" => asked'[a.branch].type = "INVITE"
      BY <1>2, <2>1, <2>3
    <2> QED BY <2>1, <2>2, <2>4, <2>5, <2>6, OutsideStep DEF NetTypeOK
  <1>5. ASSUME IsABag(wire'), Under' \subseteq Under, queue' \in Seq(Datagram),
               Len(queue') <= MaxQueue, losses' \in 0 .. MaxLoss,
               UNCHANGED <<asked, tries, got, via, vars>>
        PROVE  NetInv'
    <2>1. Under' \subseteq Under \cup {} /\ {} \in SUBSET Datagram
      BY <1>5
    <2>2. /\ asked' \in [Branch -> Request \cup {NoReq}] /\ tries' \in [Branch -> 0 .. MaxTries]
          /\ got' \in [Branch -> SUBSET Tag]
          /\ \A b \in Branch : asked[b] # NoReq => asked'[b] = asked[b]
          /\ \A b \in Branch : asked'[b] = NoReq => got'[b] = {} /\ tries'[b] = 0
      BY <1>5 DEF NetTypeOK, DatagramInv
    <2> QED BY <1>5, <2>1, <2>2, OutsideStep
  <1>6. CASE Lose(d)
    <2>1. wire' = rest /\ losses' \in 0 .. MaxLoss /\ UNCHANGED <<asked, tries, got, queue, via, vars>>
      BY <1>6, NetAssumption DEF Lose, rest, callerVars, NetTypeOK, NetAssumption
    <2>2. IsABag(wire') /\ Under' \subseteq Under
      BY <1>3, <2>1 DEF Under
    <2> QED BY <1>5, <2>1, <2>2 DEF NetTypeOK
  <1>7. CASE Arrive(d)
    <2>1. /\ wire' = rest /\ queue' = Append(queue, d) /\ Len(queue) < MaxQueue
          /\ UNCHANGED <<asked, tries, got, losses, via, vars>>
      BY <1>7 DEF Arrive, rest, callerVars
    <2>2. queue' \in Seq(Datagram) /\ ToSet(queue') = ToSet(queue) \cup {d}
          /\ Len(queue') = Len(queue) + 1 /\ Len(queue) \in Nat
      BY <1>1, <2>1, QueueAppend, LenProperties DEF NetTypeOK
    <2>3. IsABag(wire') /\ Under' \subseteq Under
      BY <1>1, <1>3, <2>1, <2>2 DEF Under
    <2>4. Len(queue') <= MaxQueue
      BY <2>1, <2>2, NetAssumption DEF NetAssumption
    <2> QED BY <1>5, <2>1, <2>2, <2>3, <2>4 DEF NetTypeOK
  <1> QED BY <1>4, <1>6, <1>7

(* A step of esip that sends the answers S: the callers have not changed.   *)
LEMMA CoreStep ==
  ASSUME NetInv, [Next]_vars, UNCHANGED <<asked, tries, got, losses>>,
         via' \in [Tid -> Branch \cup {NoBranch}], TransInv',
         \A t \in Tid : via'[t] # NoBranch => req'[t] = asked[via'[t]],
         NEW S \in SUBSET Datagram, Under' \subseteq Under \cup S,
         IsABag(wire'), queue' \in Seq(Datagram), Len(queue') <= MaxQueue,
         \A d \in S : d.kind = "answer" /\ asked[d.branch] # NoReq
  PROVE  NetInv'
  <1> USE DEF NetInv
  <1>1. TypeOK'
    BY TypeNext DEF NetTypeOK
  <1>2. Under' \subseteq Datagram
    BY DEF NetTypeOK, Under, ToSet
  <1>3. NetTypeOK'
    BY <1>1, <1>2 DEF NetTypeOK, Under
  <1>4. DatagramInv'
    BY DEF DatagramInv, Copy
  <1> QED BY <1>3, <1>4

(* What a step of the thread answers belongs to a branch. *)
LEMMA ReplyType ==
  ASSUME NetInv, TypeOK', UNCHANGED req, NEW t \in Tid, sent'[t] > sent[t]
  PROVE  /\ via[t] \in Branch /\ req[t] = asked[via[t]] /\ req[t] \in Request
         /\ Reply(t) \in Datagram /\ Untagged(t) \in Datagram
  <1> USE DEF NetInv
  <1>1. sent[t] \in Nat /\ sent'[t] \in Nat /\ sent'[t] # 0
    BY DEF NetTypeOK, TypeOK
  <1>2. tstate'[t] # "none"
    BY <1>1 DEF TypeOK, KindOK
  <1>3. req[t] # NoReq
    BY <1>2 DEF TypeOK, KindOK
  <1>4. via[t] \in Branch /\ req[t] = asked[via[t]] /\ req[t] \in Request
    BY <1>3 DEF TransInv, NetTypeOK, TypeOK
  <1>5. ToTag(t) \in Tag
    BY <1>4 DEF ToTag, Tag, Request
  <1>6. Reply(t) \in Datagram
    BY <1>4, <1>5 DEF Reply, Datagram
  <1>7. req[t].tag \in Tag
    BY <1>4 DEF Request
  <1> QED BY <1>4, <1>6, <1>7 DEF Untagged, Datagram

(* Whatever the network is given of them are answers of their branches, and *)
(* all of them while memory lasts.                                          *)
LEMMA OutgoingAnswers ==
  ASSUME NEW done, NEW out \in Outgoing(done)
  PROVE  /\ \A d \in out : /\ d.kind = "answer"
                           /\ \E t \in done : d = Reply(t) \/ d = Untagged(t)
         /\ \A t \in done : Reply(t).branch = via[t] /\ Untagged(t).branch = via[t]
         /\ ~MemoryMayFail => out = {Reply(t) : t \in done}
  <1>1. out \in {{}, {Reply(t) : t \in done}, {Untagged(t) : t \in done}}
    BY DEF Outgoing
  <1>2. ~MemoryMayFail => out = {Reply(t) : t \in done}
    BY DEF Outgoing
  <1>3. \A t : /\ Reply(t).kind = "answer" /\ Untagged(t).kind = "answer"
              /\ Reply(t).branch = via[t] /\ Untagged(t).branch = via[t]
    BY DEF Reply, Untagged
  <1> QED BY <1>1, <1>2, <1>3

(* The poll, the read of a datagram and the work of the thread. *)
LEMMA CoreKeeps ==
  ASSUME NetInv, Core
  PROVE  NetInv'
  <1> USE DEF NetInv
  <1>1. [Next]_vars
    BY NetStep DEF NetNext
  <1>2. TypeOK'
    BY <1>1, TypeNext DEF NetTypeOK
  <1>3. UNCHANGED <<asked, tries, got, losses>>
    BY ServeKeeps DEF Core, NetPoll, ReadRequest, ReadAck, callerVars, wireVars
  <1>4. {} \in SUBSET Datagram
    OBVIOUS
  <1>5. ASSUME UNCHANGED <<req, via>>
        PROVE  /\ via' \in [Tid -> Branch \cup {NoBranch}] /\ TransInv'
               /\ \A t \in Tid : via'[t] # NoBranch => req'[t] = asked[via'[t]]
    BY <1>5 DEF TransInv, NetTypeOK
  <1>6. CASE NetPoll
    <2>1. UNCHANGED <<req, via, wire, queue>>
      BY <1>6 DEF NetPoll, Poll, sipVars, wireVars
    <2>2. Under' \subseteq Under \cup {}
      BY <2>1 DEF Under
    <2> QED BY <1>1, <1>3, <1>4, <1>5, <2>1, <2>2, CoreStep DEF NetTypeOK
  <1>7. ASSUME queue # <<>>, queue' = Tail(queue), UNCHANGED wire
        PROVE  /\ Under' \subseteq Under \cup {} /\ IsABag(wire')
               /\ queue' \in Seq(Datagram) /\ Len(queue') <= MaxQueue
               /\ Head(queue) \in Datagram /\ Head(queue) \in Under
    <2>1. /\ queue' \in Seq(Datagram) /\ Len(queue') = Len(queue) - 1
          /\ ToSet(queue') \subseteq ToSet(queue)
          /\ Head(queue) \in Datagram /\ Head(queue) \in ToSet(queue)
      BY <1>7, QueueTail DEF NetTypeOK
    <2>2. Len(queue) \in Nat
      BY LenProperties DEF NetTypeOK
    <2> QED BY <1>7, <2>1, <2>2, NetAssumption DEF NetTypeOK, Under, NetAssumption
  <1>8. CASE ReadAck
    <2>1. UNCHANGED <<req, via, wire>> /\ queue # <<>> /\ queue' = Tail(queue)
      BY <1>8 DEF ReadAck, RecvAck, sipVars
    <2> QED BY <1>1, <1>3, <1>4, <1>5, <1>7, <2>1, CoreStep
  <1>9. CASE ReadRequest
    <2>1. UNCHANGED wire /\ queue # <<>> /\ queue' = Tail(queue)
      BY <1>9 DEF ReadRequest
    <2>2. Head(queue).branch \in Branch
      BY <1>7, <2>1 DEF Datagram
    <2>3. CASE RecvRefused /\ UNCHANGED via
      <3>1. UNCHANGED <<req, via>>
        BY <2>3 DEF RecvRefused, sipVars
      <3> QED BY <1>1, <1>3, <1>4, <1>5, <1>7, <2>1, <3>1, CoreStep
    <2>4. ASSUME NEW t \in Tid, RecvInvite \/ RecvRequest, tstate[t] = "none",
                 req'[t] = asked[Head(queue).branch],
                 via' = [via EXCEPT ![t] = Head(queue).branch]
          PROVE  NetInv'
      <3>1. asked[Head(queue).branch] \in Request
        BY <1>7, <2>1, <2>2 DEF DatagramInv, NetTypeOK
      <3>2. req' = [req EXCEPT ![t] = asked[Head(queue).branch]]
        BY <2>4, <3>1, OpenedVia DEF NetTypeOK
      <3>3. /\ via'[t] = Head(queue).branch /\ via'[t] \in Branch
            /\ req'[t] = asked[via'[t]] /\ req'[t] # NoReq
            /\ \A u \in Tid \ {t} : via'[u] = via[u] /\ req'[u] = req[u]
        BY <2>2, <2>4, <3>1, <3>2, RequestAssumption DEF NetTypeOK, TypeOK
      <3>4. \A u \in Tid : via'[u] # NoBranch => req'[u] = asked[via'[u]]
        BY <3>3 DEF NetTypeOK
      <3>5. via' \in [Tid -> Branch \cup {NoBranch}]
        BY <2>2, <2>4 DEF NetTypeOK
      <3>6. TransInv'
        BY <3>3, NetAssumption DEF TransInv, NetAssumption
      <3> QED BY <1>1, <1>3, <1>4, <1>7, <2>1, <3>4, <3>5, <3>6, CoreStep
    <2> QED BY <1>9, <2>3, <2>4 DEF ReadRequest
  <1>10. CASE Serve
    <2> DEFINE done == {t \in Tid : sent'[t] > sent[t]}
    <2>1. PICK S \in Outgoing(done) : wire' = wire (+) SetToBag(S)
      BY <1>10 DEF Serve
    <2>2. UNCHANGED <<req, via, queue>>
      BY <1>10, ServeKeeps
    <2>3. \A t \in done : /\ via[t] \in Branch /\ asked[via[t]] # NoReq
                         /\ Reply(t) \in Datagram /\ Untagged(t) \in Datagram
      BY <1>2, <2>2, ReplyType, RequestAssumption
    <2> HIDE DEF done
    <2>4. S \in SUBSET Datagram
      BY <2>3, OutgoingAnswers
    <2>5. \A d \in S : d.kind = "answer" /\ asked[d.branch] # NoReq
      BY <2>3, OutgoingAnswers
    <2>6. IsABag(wire') /\ Under' \subseteq Under \cup S
      BY <2>1, <2>2, BagAdd DEF Under, NetTypeOK
    <2> QED BY <1>1, <1>3, <1>5, <2>2, <2>4, <2>5, <2>6, CoreStep DEF NetTypeOK
  <1> QED BY <1>6, <1>8, <1>9, <1>10 DEF Core

(* Every step keeps the types and what is known of the datagrams.           *)
LEMMA NetInvNext == NetInv /\ [NetNext]_netVars => NetInv'
  <1> SUFFICES ASSUME NetInv, [NetNext]_netVars PROVE NetInv'
    OBVIOUS
  <1>1. CASE UNCHANGED netVars
    <2>1. UNCHANGED <<asked, tries, got, wire, queue, losses, via, vars>>
      BY <1>1 DEF netVars, callerVars, wireVars
    <2>2. TypeOK'
      BY <2>1, TypeNext DEF NetInv, NetTypeOK
    <2>3. UNCHANGED req
      BY <2>1 DEF vars
    <2> QED BY <2>1, <2>2, <2>3 DEF NetInv, NetTypeOK, TransInv, DatagramInv, Under, Copy
  <1>2. CASE NetNext
    BY <1>2, CoreKeeps, AskKeeps, CarryKeeps DEF NetNext
  <1> QED BY <1>1, <1>2

(* The types of callers, network and core together, and that every          *)
(* transaction keeps the request of its caller.                             *)
THEOREM NetTypeCorrect == NetSpec => []NetTypeOK
  <1>1. NetInv => NetTypeOK
    BY DEF NetInv
  <1> QED BY <1>1, NetInitInv, NetInvNext, PTL DEF NetSpec
-----------------------------------------------------------------------------
(* Dialogs, while memory lasts *)

(* The tag of an answer to the caller of b names one of its dialogs.        *)
Names(b, tag) ==
  asked[b].type = "INVITE" => \E t \in ToSet(osipDialog) : Matches(t, asked[b].call, tag)

(* Every answer and ACK on its way, and every answer received, does so.     *)
NamesInv ==
  /\ \A d \in Under : d.kind # "request" => Names(d.branch, d.tag)
  /\ \A b \in Branch : \A tag \in got[b] : Names(b, tag)

(* Dialogs are not removed, and keep the request they come from. *)
LEMMA DialogsStay ==
  ASSUME TypeOK, DialogInv, [Next]_vars, NEW t \in ToSet(osipDialog)
  PROVE  t \in ToSet(osipDialog') /\ req'[t] = req[t]
  <1>1. t \in Tid /\ tstate[t] # "none" /\ osipDialog \in Seq(Tid)
    <2>1. osipDialog \in Seq(Tid)
      BY DEF TypeOK
    <2>2. ToSet(osipDialog) \subseteq Tid
      BY <2>1 DEF ToSet
    <2> QED BY <2>1, <2>2 DEF DialogInv
  <1>2. CASE UNCHANGED <<req, osipDialog>>
    BY <1>2
  <1>3. CASE \/ UNCHANGED vars \/ Poll \/ RecvRefused \/ RecvAck \/ RecvResponse
             \/ RecvResponseFails \/ ProcessDone \/ RunWakeup \/ LoopPop \/ LoopReturn
             \/ IstDone \/ NistDone \/ FinishIteration
    BY <1>2, <1>3 DEF vars, sipVars, Poll, RecvRefused, RecvAck, RecvResponse,
       RecvResponseFails, ProcessDone, RunWakeup, LoopPop, LoopReturn, IstDone, NistDone,
       FinishIteration
  <1>4. CASE RecvInvite \/ RecvRequest
    <2>1. PICK u \in Tid : tstate[u] = "none" /\ \E r : req' = [req EXCEPT ![u] = r]
      BY <1>4 DEF RecvInvite, RecvRequest, Open
    <2>2. UNCHANGED osipDialog
      BY <1>4 DEF RecvInvite, RecvRequest, Open
    <2> QED BY <1>1, <2>1, <2>2 DEF TypeOK
  <1>5. ASSUME NEW u \in Tid, IstSnd2xx(u)
        PROVE  t \in ToSet(osipDialog') /\ req'[t] = req[t]
    <2>1. UNCHANGED req
      BY <1>5 DEF IstSnd2xx
    <2>2. osipDialog' = osipDialog \/ osipDialog' = <<u>> \o osipDialog
      BY <1>5 DEF IstSnd2xx
    <2>3. ToSet(<<u>> \o osipDialog) = {u} \cup ToSet(osipDialog)
      BY <1>1, ConsSeq
    <2> QED BY <2>1, <2>2, <2>3
  <1>6. ASSUME NEW u \in Tid, \/ ExecuteIst(u) /\ ~IstSnd2xx(u)
                              \/ ExecuteNist(u) \/ ExecuteFails(u)
        PROVE  UNCHANGED <<req, osipDialog>>
    BY <1>6 DEF ExecuteIst, ExecuteNist, ExecuteFails, IstRcvInvite, IstIgnore,
       NistRcvRequest, NistSnd2xx, NistTimeoutJ, ExecuteFreed, ToCloneFails, SendFails, sipVars
  <1> QED BY <1>2, <1>3, <1>4, <1>5, <1>6 DEF Next, Run, Receive

(* So a tag that names a dialog goes on doing so. *)
LEMMA NamesStay ==
  ASSUME NetInv, DialogInv, [NetNext]_netVars, NEW b \in Branch, asked[b] # NoReq,
         NEW tag, Names(b, tag)
  PROVE  Names(b, tag)'
  <1>1. asked'[b] = asked[b]
    <2>1. CASE UNCHANGED asked
      BY <2>1
    <2>2. ASSUME NEW c \in Branch, Ask(c) PROVE asked'[b] = asked[b]
      BY <2>2 DEF Ask, NetInv, NetTypeOK
    <2>3. ASSUME NEW c \in Branch, Retransmit(c) PROVE UNCHANGED asked
      BY <2>3 DEF Retransmit
    <2>4. ASSUME NEW d, ReceiveAnswer(d) \/ Lose(d) \/ Arrive(d) PROVE UNCHANGED asked
      BY <2>4 DEF ReceiveAnswer, Lose, Arrive, callerVars
    <2>5. Core => UNCHANGED asked
      BY ServeKeeps DEF Core, NetPoll, ReadRequest, ReadAck, callerVars
    <2> QED BY <2>1, <2>2, <2>3, <2>4, <2>5 DEF NetNext, netVars, callerVars
  <1>2. ASSUME NEW t \in ToSet(osipDialog), Matches(t, asked[b].call, tag)
        PROVE  t \in ToSet(osipDialog') /\ Matches(t, asked[b].call, tag)'
    <2>1. t \in ToSet(osipDialog') /\ req'[t] = req[t]
      BY NetStep, DialogsStay DEF NetInv, NetTypeOK
    <2> QED BY <1>1, <1>2, <2>1 DEF Matches, ToTag
  <1> QED BY <1>1, <1>2 DEF Names

(* The answer to an INVITE confirms its dialog (esosip.c 611-624). *)
LEMMA ServeConfirms ==
  ASSUME ~MemoryMayFail, TypeOK, Serve, NEW t \in Tid, sent'[t] > sent[t],
         req[t].type = "INVITE"
  PROVE  t \in ToSet(osipDialog')
  <1>1. sent[t] \in Nat /\ sent'[t] # sent[t]
    BY DEF TypeOK
  <1>2. PICK u \in Tid : IstSnd2xx(u) \/ NistSnd2xx(u)
    BY <1>1 DEF Serve, ExecuteIst, ExecuteNist, ExecuteFails, IstRcvInvite, IstIgnore,
       NistRcvRequest, NistTimeoutJ, ExecuteFreed, ToCloneFails, SendFails, RunWakeup,
       ProcessDone, LoopPop, LoopReturn, IstDone, NistDone, FinishIteration, sipVars
  <1>3. u = t
    <2>1. sent' = [sent EXCEPT ![u] = @ + 1]
      BY <1>2 DEF IstSnd2xx, NistSnd2xx
    <2> QED BY <1>1, <2>1 DEF TypeOK
  <1>4. ~NistSnd2xx(t)
    BY DEF NistSnd2xx, TypeOK, KindOK, Nist, NistState
  <1>5. osipDialog' = <<t>> \o osipDialog /\ osipDialog \in Seq(Tid)
    BY <1>2, <1>3, <1>4 DEF IstSnd2xx, TypeOK
  <1> QED BY <1>5, ConsSeq

(* Every step keeps NamesInv: what it puts on the wire, or gives to a       *)
(* caller, names a dialog.                                                  *)
LEMMA NamesNext ==
  ASSUME ~MemoryMayFail
  PROVE  NetInv /\ DialogInv /\ NamesInv /\ [NetNext]_netVars => NamesInv'
  <1> SUFFICES ASSUME NetInv, DialogInv, NamesInv, [NetNext]_netVars PROVE NamesInv'
    OBVIOUS
  <1>1. Under \subseteq Datagram
    BY DEF NetInv, NetTypeOK, Under, ToSet
  <1>2. ASSUME NEW d \in Under, d.kind # "request" PROVE Names(d.branch, d.tag)'
    <2>1. d.branch \in Branch /\ asked[d.branch] # NoReq /\ Names(d.branch, d.tag)
      BY <1>1, <1>2 DEF Datagram, NetInv, DatagramInv, NamesInv
    <2> QED BY <2>1, NamesStay
  <1>3. ASSUME NEW b \in Branch, NEW tag \in got[b] PROVE Names(b, tag)'
    <2>1. asked[b] # NoReq /\ Names(b, tag)
      BY DEF NetInv, DatagramInv, NamesInv
    <2> QED BY <2>1, NamesStay
  <1>4. ASSUME UNCHANGED got,
               \A d \in Under' : d \in Under \/ d.kind = "request" \/ Names(d.branch, d.tag)'
        PROVE  NamesInv'
    BY <1>2, <1>3, <1>4 DEF NamesInv
  <1>5. IsABag(wire) /\ queue \in Seq(Datagram)
    BY DEF NetInv, NetTypeOK
  <1>6. CASE UNCHANGED netVars \/ NetPoll
    BY <1>4, <1>6 DEF netVars, callerVars, wireVars, NetPoll, Under
  <1>7. ASSUME NEW b \in Branch, Ask(b) \/ Retransmit(b) PROVE NamesInv'
    <2>1. wire' = wire (+) SetToBag({Copy(b)'}) /\ UNCHANGED <<got, queue>>
      BY <1>7 DEF Ask, Retransmit, Copy
    <2>2. Under' = Under \cup {Copy(b)'} /\ Copy(b)'.kind = "request"
      BY <1>5, <2>1, BagAdd DEF Under, Copy
    <2> QED BY <1>4, <2>1, <2>2
  <1>8. ASSUME NEW d \in BagToSet(wire) PROVE BagToSet(wire (-) SetToBag({d})) \subseteq BagToSet(wire)
    BY <1>5, BagTake
  <1>9. ASSUME NEW d \in BagToSet(wire), Lose(d) \/ Arrive(d) PROVE NamesInv'
    <2>1. /\ wire' = wire (-) SetToBag({d}) /\ UNCHANGED got
          /\ queue' = queue \/ queue' = Append(queue, d)
      BY <1>9 DEF Lose, Arrive, callerVars
    <2>2. d \in Datagram /\ d \in Under
      BY <1>1 DEF Under
    <2>3. ToSet(queue') \subseteq ToSet(queue) \cup {d}
      <3>1. ToSet(Append(queue, d)) = ToSet(queue) \cup {d}
        BY <1>5, <2>2, QueueAppend
      <3> QED BY <2>1, <3>1
    <2>4. BagToSet(wire') \subseteq BagToSet(wire)
      BY <1>8, <2>1
    <2>5. Under' \subseteq Under
      BY <2>2, <2>3, <2>4 DEF Under
    <2> QED BY <1>4, <2>1, <2>5
  <1>10. ASSUME NEW d \in BagToSet(wire), ReceiveAnswer(d) PROVE NamesInv'
    <2>1. /\ wire' = (wire (-) SetToBag({d})) (+) SetToBag(Acks(d)) /\ UNCHANGED queue
          /\ got' = [got EXCEPT ![d.branch] = @ \cup {d.tag}] /\ d.kind = "answer"
      BY <1>10 DEF ReceiveAnswer
    <2>2. d \in Under /\ d \in Datagram /\ d.branch \in Branch
      BY <1>1 DEF Under, Datagram
    <2>3. Names(d.branch, d.tag)'
      BY <1>2, <2>1, <2>2
    <2>4. Under' \subseteq Under \cup Acks(d)
      <3>1. IsABag(wire (-) SetToBag({d}))
        BY <1>5, BagTake
      <3>2. BagToSet(wire') = BagToSet(wire (-) SetToBag({d})) \cup Acks(d)
        BY <2>1, <3>1, BagAdd
      <3> QED BY <1>8, <2>1, <3>2 DEF Under
    <2>5. \A a \in Acks(d) : a.branch = d.branch /\ a.tag = d.tag
      BY <2>2 DEF Acks, Datagram
    <2>6. \A b \in Branch : \A tag \in got'[b] :
            tag \notin got[b] => b = d.branch /\ tag = d.tag
      BY <2>1 DEF NetInv, NetTypeOK
    <2> QED BY <1>2, <1>3, <2>3, <2>4, <2>5, <2>6 DEF NamesInv
  <1>11. CASE ReadRequest \/ ReadAck
    <2>1. UNCHANGED <<wire, got>> /\ queue # <<>> /\ queue' = Tail(queue)
      BY <1>11 DEF ReadRequest, ReadAck, callerVars
    <2>2. Under' \subseteq Under
      BY <1>5, <2>1, QueueTail DEF Under
    <2> QED BY <1>4, <2>1, <2>2
  <1>12. CASE Serve
    <2> DEFINE S == {Reply(t) : t \in {u \in Tid : sent'[u] > sent[u]}}
    <2>1. UNCHANGED <<req, via, queue, got, asked>> /\ wire' = wire (+) SetToBag(S)
      BY <1>12, ServeKeeps, OutgoingAnswers DEF Serve, callerVars
    <2>2. TypeOK /\ TypeOK'
      BY NetStep, TypeNext DEF NetInv, NetTypeOK
    <2>3. ASSUME NEW t \in Tid, sent'[t] > sent[t] PROVE Names(via[t], ToTag(t))'
      <3>1. req[t] = asked[via[t]]
        BY <2>1, <2>2, <2>3, ReplyType
      <3>2. asked[via[t]].type = "INVITE" => t \in ToSet(osipDialog')
        BY <1>12, <2>2, <2>3, <3>1, ServeConfirms
      <3>3. Matches(t, asked[via[t]].call, ToTag(t))'
        BY <2>1, <3>1 DEF Matches, ToTag
      <3> QED BY <2>1, <3>2, <3>3 DEF Names
    <2>4. ASSUME NEW d \in S PROVE Names(d.branch, d.tag)'
      <3>1. PICK t \in Tid : sent'[t] > sent[t] /\ d = Reply(t)
        OBVIOUS
      <3>2. via'[t] = via[t] /\ ToTag(t)' = ToTag(t)
        BY <2>1 DEF ToTag
      <3>3. d.branch = via[t] /\ d.tag = ToTag(t)
        BY <3>1 DEF Reply
      <3> QED BY <2>3, <3>1, <3>2, <3>3
    <2> HIDE DEF S
    <2>5. Under' = Under \cup S
      BY <1>5, <2>1, BagAdd DEF Under
    <2> QED BY <1>4, <2>1, <2>4, <2>5
  <1> QED BY <1>6, <1>7, <1>9, <1>10, <1>11, <1>12 DEF NetNext, Core

(* All that is known of the callers' dialogs while memory lasts. *)
LEMMA NamesHold ==
  ASSUME ~MemoryMayFail
  PROVE  NetSpec => [](NetInv /\ DialogInv /\ NamesInv)
  <1>1. NetInit => DialogInv /\ NamesInv
    <2>1. ToSet(<<>>) = {} /\ DOMAIN <<>> = {} /\ BagToSet(EmptyBag) = {}
      BY DEF ToSet, BagToSet, EmptyBag, SetToBag
    <2> QED BY <2>1 DEF NetInit, Init, DialogInv, NamesInv, Under
  <1>2. NetInv /\ DialogInv /\ [NetNext]_netVars => DialogInv'
    BY NetStep, DialogNext DEF NetInv, NetTypeOK
  <1>3. NetInv /\ DialogInv /\ NamesInv /\ [NetNext]_netVars => NamesInv'
    BY NamesNext
  <1> QED BY <1>1, <1>2, <1>3, NetInitInv, NetInvNext, PTL DEF NetSpec

(* esosip.c 611-624 against 313 and 655: while memory lasts, each answer a  *)
(* caller got to its INVITE names a dialog of esip, however often the       *)
(* INVITE was repeated and whatever was lost or came late.                  *)
THEOREM CallersDialogExistsHolds ==
  ASSUME ~MemoryMayFail
  PROVE  NetSpec => []CallersDialogExists
  <1>1. NamesInv => CallersDialogExists
    BY DEF NamesInv, Names, CallersDialogExists
  <1> QED BY <1>1, NamesHold, PTL

(* The search of an ACK finds what names a dialog. *)
LEMMA AckFinds ==
  ASSUME NetInv, NamesInv, AckFindsDialog, [NetNext]_netVars
  PROVE  AckFindsDialog'
  <1>1. CASE UNCHANGED stopArg
    BY <1>1 DEF AckFindsDialog
  <1>2. CASE ReadAck
    <2>1. /\ queue # <<>> /\ Head(queue).kind = "ack"
          /\ FirstMatch(stopArg', asked[Head(queue).branch].call, Head(queue).tag)
      BY <1>2 DEF ReadAck
    <2>2. Head(queue) \in Under
      BY <2>1, QueueTail DEF NetInv, NetTypeOK, Under
    <2>3. \E t \in ToSet(osipDialog) :
            Matches(t, asked[Head(queue).branch].call, Head(queue).tag)
      BY <2>1, <2>2 DEF NetInv, DatagramInv, NamesInv, Names
    <2>4. PICK i \in DOMAIN osipDialog : stopArg' = osipDialog[i]
      BY <2>1, <2>3 DEF FirstMatch
    <2>5. osipDialog[i] \in Tid
      BY DEF NetInv, NetTypeOK, TypeOK
    <2> QED BY <2>4, <2>5, DialogAssumption DEF AckFindsDialog, DialogAssumption
  <1>3. CASE ReadRequest
    BY <1>1, <1>3 DEF ReadRequest, RecvInvite, RecvRequest, RecvRefused, Open
  <1>4. CASE NetPoll \/ Serve
    BY <1>1, <1>4, ServeKeeps DEF NetPoll, Poll
  <1>5. ASSUME NEW b \in Branch, Ask(b) \/ Retransmit(b) PROVE UNCHANGED stopArg
    BY <1>5 DEF Ask, Retransmit, vars
  <1>6. ASSUME NEW d, ReceiveAnswer(d) \/ Lose(d) \/ Arrive(d) PROVE UNCHANGED stopArg
    BY <1>6 DEF ReceiveAnswer, Lose, Arrive, vars
  <1> QED BY <1>1, <1>2, <1>3, <1>4, <1>5, <1>6 DEF NetNext, Core, netVars, vars

(* esosip.c 308-325: while memory lasts, the ACK for an answer of this run  *)
(* always finds its dialog, so that line 320 is not reached with a null one.*)
THEOREM AckFindsDialogHolds ==
  ASSUME ~MemoryMayFail
  PROVE  NetSpec => []AckFindsDialog
  <1>1. NetInit => AckFindsDialog
    BY DialogAssumption DEF NetInit, Init, AckFindsDialog, DialogAssumption
  <1> QED BY <1>1, NamesHold, AckFinds, PTL DEF NetSpec
-----------------------------------------------------------------------------
(* One answer per copy, whichever allocations fail: each copy that was sent *)
(* is in flight, in the queue, the origin of one transaction, or gone.      *)

Served(b) == {t \in Tid : via[t] = b}

IsCopy(d, b) == d.kind = "request" /\ d.branch = b
Queued(b, q) == {i \in DOMAIN q : IsCopy(q[i], b)}

Flying(b) == IF asked[b] = NoReq THEN 0 ELSE Copies(Copy(b), wire)

CountInv ==
  \A b \in Branch :
    /\ IsFiniteSet(Served(b))
    /\ Cardinality(Served(b)) + Cardinality(Queued(b, queue)) + Flying(b) <= tries[b]

(* The copies in a queue, *)
LEMMA QueuedType ==
  ASSUME NEW S, NEW q \in Seq(S), NEW b
  PROVE  IsFiniteSet(Queued(b, q)) /\ Cardinality(Queued(b, q)) \in Nat
  <1>1. Len(q) \in Nat /\ DOMAIN q = 1 .. Len(q)
    BY LenProperties
  <1>2. IsFiniteSet(1 .. Len(q))
    BY <1>1, FS_Interval
  <1>3. Queued(b, q) \in SUBSET (1 .. Len(q))
    BY <1>1 DEF Queued
  <1>4. IsFiniteSet(Queued(b, q))
    BY <1>2, <1>3, FS_Subset
  <1> QED BY <1>4, FS_CardinalityType

(* when a datagram arrives at its end *)
LEMMA QueuedAppend ==
  ASSUME NEW S, NEW q \in Seq(S), NEW d \in S, NEW b
  PROVE  Cardinality(Queued(b, Append(q, d)))
           = IF IsCopy(d, b) THEN Cardinality(Queued(b, q)) + 1 ELSE Cardinality(Queued(b, q))
  <1>1. /\ Append(q, d) \in Seq(S) /\ Len(Append(q, d)) = Len(q) + 1
        /\ \A i \in 1 .. Len(q) + 1 : Append(q, d)[i] = IF i = Len(q) + 1 THEN d ELSE q[i]
    OBVIOUS
  <1>2. Len(q) \in Nat /\ DOMAIN q = 1 .. Len(q) /\ DOMAIN Append(q, d) = 1 .. Len(q) + 1
    BY <1>1, LenProperties
  <1>3. Len(q) + 1 \notin Queued(b, q)
    BY <1>2 DEF Queued
  <1>4. Queued(b, Append(q, d))
          = IF IsCopy(d, b) THEN Queued(b, q) \cup {Len(q) + 1} ELSE Queued(b, q)
    BY <1>1, <1>2 DEF Queued
  <1> QED BY <1>3, <1>4, QueuedType, FS_AddElement

(* and when one is taken from its head. *)
LEMMA QueuedTail ==
  ASSUME NEW S, NEW q \in Seq(S), q # <<>>, NEW b
  PROVE  Cardinality(Queued(b, Tail(q)))
           = IF IsCopy(Head(q), b) THEN Cardinality(Queued(b, q)) - 1
                                   ELSE Cardinality(Queued(b, q))
  <1>1. /\ Tail(q) \in Seq(S) /\ Len(Tail(q)) = Len(q) - 1
        /\ \A i \in 1 .. Len(Tail(q)) : Tail(q)[i] = q[i + 1]
    BY HeadTailProperties
  <1>2. /\ Len(q) \in Nat \ {0} /\ DOMAIN q = 1 .. Len(q) /\ Head(q) = q[1]
        /\ DOMAIN Tail(q) = 1 .. Len(q) - 1
    BY <1>1, EmptySeq, LenProperties
  <1> DEFINE rest == Queued(b, q) \ {1}
             f == [i \in Queued(b, Tail(q)) |-> i + 1]
  <1>3. \A i \in Queued(b, Tail(q)) : i \in Nat /\ i + 1 \in rest
    BY <1>1, <1>2 DEF Queued
  <1>4. \A j \in rest : j - 1 \in Queued(b, Tail(q)) /\ f[j - 1] = j
    BY <1>1, <1>2 DEF Queued
  <1>5. f \in Bijection(Queued(b, Tail(q)), rest)
    <2>1. f \in [Queued(b, Tail(q)) -> rest]
      BY <1>3
    <2>2. \A i, j \in Queued(b, Tail(q)) : f[i] = f[j] => i = j
      BY <1>3
    <2>3. \A j \in rest : \E i \in Queued(b, Tail(q)) : f[i] = j
      BY <1>4
    <2> QED BY <2>1, <2>2, <2>3 DEF Bijection, Injection, Surjection, IsInjective
  <1>6. Cardinality(rest) = Cardinality(Queued(b, Tail(q)))
    <2>1. IsFiniteSet(Queued(b, Tail(q)))
      BY <1>1, QueuedType
    <2> QED BY <1>5, <2>1, FS_Bijection DEF ExistsBijection
  <1>7. 1 \in Queued(b, q) <=> IsCopy(Head(q), b)
    BY <1>2 DEF Queued
  <1>8. Cardinality(rest) = IF 1 \in Queued(b, q) THEN Cardinality(Queued(b, q)) - 1
                                                  ELSE Cardinality(Queued(b, q))
    BY QueuedType, FS_RemoveElement
  <1> QED BY <1>6, <1>7, <1>8

(* The numbers that CountInv adds up. *)
LEMMA CountTypes ==
  ASSUME NetInv, NEW b \in Branch
  PROVE  /\ IsFiniteSet(Served(b)) => Cardinality(Served(b)) \in Nat
         /\ Cardinality(Queued(b, queue)) \in Nat
         /\ Flying(b) \in Nat /\ tries[b] \in Nat
  <1>1. Cardinality(Queued(b, queue)) \in Nat
    BY QueuedType DEF NetInv, NetTypeOK
  <1>2. Flying(b) \in Nat
    BY DEF NetInv, NetTypeOK, Flying, Copies, IsABag
  <1>3. tries[b] \in Nat
    BY NetAssumption DEF NetInv, NetTypeOK, NetAssumption
  <1> QED BY <1>1, <1>2, <1>3, FS_CardinalityType

(* A step that opens no transaction: no copies appear that were not sent.   *)
LEMMA CountStep ==
  ASSUME NetInv, NetInv', CountInv, UNCHANGED via,
         \A b \in Branch :
           Cardinality(Queued(b, queue')) + Flying(b)' + tries[b]
             <= Cardinality(Queued(b, queue)) + Flying(b) + tries'[b]
  PROVE  CountInv'
  <1> SUFFICES ASSUME NEW b \in Branch
               PROVE  /\ IsFiniteSet(Served(b)')
                      /\ Cardinality(Served(b)') + Cardinality(Queued(b, queue')) + Flying(b)'
                           <= tries'[b]
    BY DEF CountInv, Served, Queued, IsCopy
  <1>1. Served(b)' = Served(b)
    BY DEF Served
  <1>2. IsFiniteSet(Served(b)) /\
        Cardinality(Served(b)) + Cardinality(Queued(b, queue)) + Flying(b) <= tries[b]
    BY DEF CountInv
  <1>3. /\ Cardinality(Served(b)) \in Nat /\ Cardinality(Queued(b, queue)) \in Nat
        /\ Flying(b) \in Nat /\ tries[b] \in Nat
    BY <1>2, CountTypes
  <1>4. Cardinality(Queued(b, queue')) \in Nat /\ Flying(b)' \in Nat /\ tries'[b] \in Nat
    <2>1. Cardinality(Queued(b, queue')) \in Nat
      BY QueuedType DEF NetInv, NetTypeOK
    <2>2. Flying(b)' \in Nat
      BY DEF NetInv, NetTypeOK, Flying, Copies, IsABag
    <2>3. tries'[b] \in Nat
      BY NetAssumption DEF NetInv, NetTypeOK, NetAssumption
    <2> QED BY <2>1, <2>2, <2>3
  <1> QED BY <1>1, <1>2, <1>3, <1>4

(* The same copies are in flight when no request is put on the wire or      *)
(* taken from it and no caller asks.                                        *)
LEMMA SameFlying ==
  ASSUME NEW b \in Branch, UNCHANGED asked,
         \A d : d.kind = "request" => Copies(d, wire)' = Copies(d, wire)
  PROVE  Flying(b)' = Flying(b)
  <1>1. Copy(b)' = Copy(b) /\ Copy(b).kind = "request"
    BY DEF Copy
  <1>2. Copies(Copy(b), wire)' = Copies(Copy(b), wire)
    BY <1>1
  <1> QED BY <1>1, <1>2 DEF Flying, Copies

(* A caller sends a copy. *)
LEMMA AskCounts ==
  ASSUME NetInv, NetInv', CountInv, NEW b \in Branch, Ask(b) \/ Retransmit(b)
  PROVE  CountInv'
  <1>1. wire' = wire (+) SetToBag({Copy(b)'}) /\ UNCHANGED <<queue, via>>
    BY DEF Ask, Retransmit, Copy
  <1>2. \A d : Copies(d, wire') = IF d \in {Copy(b)'} THEN Copies(d, wire) + 1 ELSE Copies(d, wire)
    BY <1>1, BagAdd DEF NetInv, NetTypeOK
  <1>3. \A c \in Branch : Copy(c).branch = c /\ Copy(c)'.branch = c
    BY DEF Copy
  <1>4. ASSUME NEW c \in Branch, c # b PROVE Flying(c)' = Flying(c) /\ tries'[c] = tries[c]
    <2>1. asked'[c] = asked[c] /\ tries'[c] = tries[c]
      BY <1>4 DEF Ask, Retransmit, NetInv, NetTypeOK
    <2>2. Copy(c)' = Copy(c) /\ Copy(c) # Copy(b)'
      BY <1>3, <1>4, <2>1 DEF Copy
    <2> QED BY <1>2, <2>1, <2>2 DEF Flying, Copies
  <1>5. Flying(b)' = Flying(b) + 1 /\ tries'[b] = tries[b] + 1
    <2>1. CASE Ask(b)
      <3>1. asked[b] = NoReq /\ tries[b] = 0 /\ tries'[b] = 1
        BY <2>1 DEF Ask, NetInv, NetTypeOK, DatagramInv
      <3>2. Copy(b)' \notin BagToSet(wire)
        BY <1>3, <3>1 DEF NetInv, DatagramInv, Under
      <3>3. Copies(Copy(b)', wire') = 1
        BY <1>2, <3>2 DEF Copies, BagToSet
      <3>4. asked'[b] # NoReq
        BY <3>1 DEF NetInv, DatagramInv
      <3> QED BY <3>1, <3>3, <3>4 DEF Flying, Copies
    <2>2. CASE Retransmit(b)
      <3>1. UNCHANGED asked /\ asked[b] # NoReq /\ tries'[b] = tries[b] + 1
        BY <2>2 DEF Retransmit, NetInv, NetTypeOK
      <3>2. Copy(b)' = Copy(b)
        BY <3>1 DEF Copy
      <3> QED BY <1>2, <3>1, <3>2 DEF Flying, Copies
    <2> QED BY <2>1, <2>2
  <1>6. \A c \in Branch :
          Cardinality(Queued(c, queue')) + Flying(c)' + tries[c]
            <= Cardinality(Queued(c, queue)) + Flying(c) + tries'[c]
    <2> SUFFICES ASSUME NEW c \in Branch
                 PROVE  Cardinality(Queued(c, queue')) + Flying(c)' + tries[c]
                          <= Cardinality(Queued(c, queue)) + Flying(c) + tries'[c]
      OBVIOUS
    <2>1. Queued(c, queue') = Queued(c, queue)
      BY <1>1
    <2> QED BY <1>4, <1>5, <2>1, CountTypes
  <1> QED BY <1>1, <1>6, CountStep

(* The network or a caller takes a datagram from the wire. *)
LEMMA CarryCounts ==
  ASSUME NetInv, NetInv', CountInv, NEW d \in BagToSet(wire),
         ReceiveAnswer(d) \/ Lose(d) \/ Arrive(d)
  PROVE  CountInv'
  <1> DEFINE rest == wire (-) SetToBag({d})
  <1>1. IsABag(wire) /\ d \in Datagram /\ d \in Under
    BY DEF NetInv, NetTypeOK, Under
  <1>2. /\ IsABag(rest) /\ Copies(d, rest) = Copies(d, wire) - 1
        /\ \A e : e # d => Copies(e, rest) = Copies(e, wire)
    BY <1>1, BagTake
  <1>3. Copies(d, wire) \in Nat \ {0}
    BY <1>1 DEF Copies, IsABag, BagToSet
  <1>4. UNCHANGED <<asked, tries, via>>
    BY DEF ReceiveAnswer, Lose, Arrive, callerVars
  <1> HIDE DEF rest
  <1>5. CASE ReceiveAnswer(d)
    <2>1. wire' = rest (+) SetToBag(Acks(d)) /\ UNCHANGED queue /\ d.kind = "answer"
      BY <1>5 DEF ReceiveAnswer, rest
    <2>2. \A a \in Acks(d) : a.kind = "ack"
      BY <1>1 DEF Acks, Datagram
    <2>3. ASSUME NEW e, e.kind = "request" PROVE Copies(e, wire') = Copies(e, wire)
      <3>1. e # d /\ e \notin Acks(d)
        BY <2>1, <2>2, <2>3
      <3> QED BY <1>2, <2>1, <3>1, BagAdd
    <2>4. \A b \in Branch : Flying(b)' = Flying(b)
      BY <1>4, <2>3, SameFlying DEF Copies
    <2>5. \A b \in Branch : Queued(b, queue') = Queued(b, queue)
      BY <2>1
    <2> QED BY <1>4, <2>4, <2>5, CountTypes, CountStep
  <1>6. ASSUME NEW b \in Branch, Lose(d) \/ Arrive(d)
        PROVE  Flying(b)' = IF IsCopy(d, b) THEN Flying(b) - 1 ELSE Flying(b)
    <2>1. wire' = rest
      BY <1>6 DEF Lose, Arrive, rest
    <2>2. Copy(b)' = Copy(b) /\ Copy(b).branch = b /\ Copy(b).kind = "request"
      BY <1>4 DEF Copy
    <2>3. IsCopy(d, b) => d = Copy(b) /\ asked[b] # NoReq
      BY <1>1 DEF NetInv, DatagramInv, IsCopy
    <2>4. ~IsCopy(d, b) => d # Copy(b)
      BY <2>2 DEF IsCopy
    <2> QED BY <1>2, <1>4, <2>1, <2>2, <2>3, <2>4 DEF Flying, Copies
  <1>7. CASE Lose(d)
    <2>1. UNCHANGED queue
      BY <1>7 DEF Lose
    <2>2. \A b \in Branch : Queued(b, queue') = Queued(b, queue)
      BY <2>1
    <2> QED BY <1>4, <1>6, <1>7, <2>2, CountTypes, CountStep
  <1>8. CASE Arrive(d)
    <2>1. queue' = Append(queue, d) /\ queue \in Seq(Datagram)
      BY <1>8 DEF Arrive, NetInv, NetTypeOK
    <2>2. \A b \in Branch :
            Cardinality(Queued(b, queue')) = IF IsCopy(d, b) THEN Cardinality(Queued(b, queue)) + 1
                                             ELSE Cardinality(Queued(b, queue))
      BY <1>1, <2>1, QueuedAppend
    <2> QED BY <1>4, <1>6, <1>8, <2>2, CountTypes, CountStep
  <1> QED BY <1>5, <1>7, <1>8

(* A request that is read opens one transaction, or none. *)
LEMMA ReadCounts ==
  ASSUME NetInv, NetInv', CountInv, ReadRequest
  PROVE  CountInv'
  <1> DEFINE h == Head(queue)
  <1>1. /\ queue \in Seq(Datagram) /\ queue # <<>> /\ queue' = Tail(queue)
        /\ h.kind = "request" /\ UNCHANGED <<asked, tries, wire>>
    BY DEF ReadRequest, callerVars, NetInv, NetTypeOK
  <1>2. h.branch \in Branch
    <2>1. h \in Datagram
      BY <1>1, QueueTail
    <2> QED BY <2>1 DEF Datagram
  <1>3. \A b \in Branch :
          Cardinality(Queued(b, queue')) = IF b = h.branch THEN Cardinality(Queued(b, queue)) - 1
                                           ELSE Cardinality(Queued(b, queue))
    BY <1>1, QueuedTail DEF IsCopy
  <1>4. \A b \in Branch : Flying(b)' = Flying(b)
    BY <1>1, SameFlying
  <1>5. CASE UNCHANGED via
    BY <1>1, <1>3, <1>4, <1>5, CountTypes, CountStep
  <1>6. ASSUME NEW t \in Tid, tstate[t] = "none", via' = [via EXCEPT ![t] = h.branch]
        PROVE  CountInv'
    <2>1. via[t] = NoBranch
      BY <1>6 DEF NetInv, NetTypeOK, TypeOK, KindOK, TransInv
    <2>2. \A u \in Tid : via'[u] = IF u = t THEN h.branch ELSE via[u]
      BY <1>6 DEF NetInv, NetTypeOK
    <2> SUFFICES ASSUME NEW b \in Branch
                 PROVE  /\ IsFiniteSet(Served(b)')
                        /\ Cardinality(Served(b)') + Cardinality(Queued(b, queue')) + Flying(b)'
                             <= tries'[b]
      BY DEF CountInv, Served, Queued, IsCopy
    <2>3. /\ IsFiniteSet(Served(b))
          /\ Cardinality(Served(b)) + Cardinality(Queued(b, queue)) + Flying(b) <= tries[b]
      BY DEF CountInv
    <2>4. /\ Cardinality(Served(b)) \in Nat /\ Cardinality(Queued(b, queue)) \in Nat
          /\ Flying(b) \in Nat /\ tries[b] \in Nat
      BY <2>3, CountTypes
    <2>5. b # NoBranch
      BY NetAssumption DEF NetAssumption
    <2>6. Served(b)' = IF b = h.branch THEN Served(b) \cup {t} ELSE Served(b)
      BY <2>1, <2>2, <2>5 DEF Served
    <2>7. t \notin Served(b)
      BY <2>1, <2>5 DEF Served
    <2>8. IsFiniteSet(Served(b) \cup {t}) /\ Cardinality(Served(b) \cup {t}) = Cardinality(Served(b)) + 1
      BY <2>3, <2>7, FS_AddElement
    <2>9. IsFiniteSet(Served(b)') /\ Cardinality(Served(b)')
            = IF b = h.branch THEN Cardinality(Served(b)) + 1 ELSE Cardinality(Served(b))
      BY <2>3, <2>6, <2>8
    <2>10. Cardinality(Queued(b, queue')) \in Nat /\ Flying(b)' = Flying(b) /\ tries'[b] = tries[b]
      BY <1>1, <1>4, QueuedType DEF NetInv, NetTypeOK
    <2> QED BY <1>3, <2>3, <2>4, <2>9, <2>10
  <1> QED BY <1>5, <1>6 DEF ReadRequest

(* The thread takes an ACK, or sends answers. *)
LEMMA ServeCounts ==
  ASSUME NetInv, NetInv', CountInv, ReadAck \/ Serve
  PROVE  CountInv'
  <1>1. UNCHANGED <<asked, tries, via>>
    BY ServeKeeps DEF ReadAck, callerVars
  <1>2. CASE ReadAck
    <2>1. /\ queue \in Seq(Datagram) /\ queue # <<>> /\ queue' = Tail(queue)
          /\ Head(queue).kind = "ack" /\ UNCHANGED wire
      BY <1>2 DEF ReadAck, NetInv, NetTypeOK
    <2>2. \A b \in Branch : ~IsCopy(Head(queue), b)
      BY <2>1 DEF IsCopy
    <2>3. \A b \in Branch : Cardinality(Queued(b, queue')) = Cardinality(Queued(b, queue))
      BY <2>1, <2>2, QueuedTail
    <2>4. \A b \in Branch : Flying(b)' = Flying(b)
      BY <1>1, <2>1, SameFlying
    <2> QED BY <1>1, <2>3, <2>4, CountTypes, CountStep
  <1>3. CASE Serve
    <2>1. PICK S : wire' = wire (+) SetToBag(S) /\ \A d \in S : d.kind = "answer"
      BY <1>3, OutgoingAnswers DEF Serve
    <2>2. UNCHANGED queue
      BY <1>3, ServeKeeps
    <2>3. ASSUME NEW e, e.kind = "request" PROVE Copies(e, wire') = Copies(e, wire)
      <3>1. e \notin S
        BY <2>1, <2>3
      <3> QED BY <2>1, <3>1, BagAdd DEF NetInv, NetTypeOK
    <2>4. \A b \in Branch : Flying(b)' = Flying(b)
      BY <1>1, <2>3, SameFlying DEF Copies
    <2>5. \A b \in Branch : Queued(b, queue') = Queued(b, queue)
      BY <2>2
    <2> QED BY <1>1, <2>4, <2>5, CountTypes, CountStep
  <1> QED BY <1>2, <1>3

(* Every step keeps CountInv. *)
LEMMA CountNext == NetInv /\ NetInv' /\ CountInv /\ [NetNext]_netVars => CountInv'
  <1> SUFFICES ASSUME NetInv, NetInv', CountInv, [NetNext]_netVars PROVE CountInv'
    OBVIOUS
  <1>1. CASE UNCHANGED netVars \/ NetPoll
    <2>1. UNCHANGED <<asked, tries, wire, queue, via>>
      BY <1>1 DEF netVars, NetPoll, callerVars, wireVars
    <2>2. \A b \in Branch : Flying(b)' = Flying(b) /\ Queued(b, queue') = Queued(b, queue)
      BY <2>1, SameFlying
    <2> QED BY <2>1, <2>2, CountTypes, CountStep
  <1>2. ASSUME NEW b \in Branch, Ask(b) \/ Retransmit(b) PROVE CountInv'
    BY <1>2, AskCounts
  <1>3. ASSUME NEW d \in BagToSet(wire), ReceiveAnswer(d) \/ Lose(d) \/ Arrive(d)
        PROVE  CountInv'
    BY <1>3, CarryCounts
  <1> QED BY <1>1, <1>2, <1>3, ReadCounts, ServeCounts DEF NetNext, Core

(* At the start nothing was sent. *)
LEMMA CountInit == NetInit => CountInv
  <1> SUFFICES ASSUME NetInit, NEW b \in Branch
               PROVE  /\ IsFiniteSet(Served(b))
                      /\ Cardinality(Served(b)) + Cardinality(Queued(b, queue)) + Flying(b)
                           <= tries[b]
    BY DEF CountInv
  <1>1. Served(b) = {} /\ Queued(b, queue) = {} /\ Flying(b) = 0 /\ tries[b] = 0
    <2>1. DOMAIN <<>> = {}
      OBVIOUS
    <2> QED BY <2>1, NetAssumption DEF NetInit, Served, Queued, Flying, NetAssumption
  <1> QED BY <1>1, FS_EmptySet

(* An INVITE that was answered has its dialog, while memory lasts. *)
LEMMA AnsweredInvite ==
  ASSUME ~MemoryMayFail, TypeOK, OnceInv, DialogInv,
         NEW t \in Tid, sent[t] > 0, req[t].type = "INVITE"
  PROVE  t \in ToSet(osipDialog)
  <1>1. tstate[t] \notin Before /\ tstate[t] # "freed"
    BY DEF OnceInv, Once
  <1>2. t \notin Nist
    BY DEF TypeOK, KindOK
  <1>3. tstate[t] = "IST_TERMINATED"
    BY <1>1, <1>2 DEF TypeOK, Before, Nist, IstState
  <1> QED BY <1>3 DEF DialogInv

(* estransport.c 91 to esosip.c 546, with copies of a request that osip     *)
(* does not tell apart (327-345): however many copies the callers send and  *)
(* the network delays, and whichever allocations fail, a caller gets no     *)
(* more answers than it sent copies, a transaction sends only one, and a    *)
(* dialog is made only for an answer that was sent.                         *)
THEOREM NoAmplificationHolds == NetSpec => []NoAmplification
  <1>1. ASSUME NetInv, CountInv, OnceInv, DialogInv PROVE NoAmplification
    <2> SUFFICES ASSUME NEW b \in Branch
                 PROVE  LET answered == {t \in Served(b) : sent[t] > 0}
                        IN  /\ Cardinality(answered) <= tries[b]
                            /\ \A t \in answered : sent[t] = 1
                            /\ ToSet(osipDialog) \cap Served(b) \subseteq answered
                            /\ ~MemoryMayFail /\ asked[b] # NoReq /\ asked[b].type = "INVITE" =>
                                 answered \subseteq ToSet(osipDialog)
      BY DEF NoAmplification, Served
    <2> DEFINE answered == {t \in Served(b) : sent[t] > 0}
    <2>1. /\ IsFiniteSet(Served(b))
          /\ Cardinality(Served(b)) + Cardinality(Queued(b, queue)) + Flying(b) <= tries[b]
      BY <1>1 DEF CountInv
    <2>2. Cardinality(answered) <= tries[b]
      <3>1. Cardinality(answered) <= Cardinality(Served(b)) /\ Cardinality(answered) \in Nat
        BY <2>1, FS_Subset, FS_CardinalityType
      <3>2. /\ Cardinality(Served(b)) \in Nat /\ Cardinality(Queued(b, queue)) \in Nat
            /\ Flying(b) \in Nat /\ tries[b] \in Nat
        BY <1>1, <2>1, CountTypes
      <3> HIDE DEF answered
      <3> QED BY <2>1, <3>1, <3>2
    <2>3. \A t \in answered : sent[t] = 1
      BY <1>1 DEF OnceInv, Once, Served
    <2>4. ToSet(osipDialog) \cap Served(b) \subseteq answered
      BY <1>1 DEF DialogInv
    <2>5. ASSUME ~MemoryMayFail, asked[b].type = "INVITE", NEW t \in answered
          PROVE  t \in ToSet(osipDialog)
      <3>1. t \in Tid /\ via[t] = b /\ b # NoBranch /\ sent[t] > 0
        BY NetAssumption DEF Served, NetAssumption
      <3>2. req[t].type = "INVITE" /\ TypeOK
        BY <1>1, <2>5, <3>1 DEF NetInv, NetTypeOK
      <3> QED BY <1>1, <2>5, <3>1, <3>2, AnsweredInvite
    <2> QED BY <2>2, <2>3, <2>4, <2>5
  <1>2. NetInit => OnceInv /\ DialogInv
    <2>1. ToSet(<<>>) = {} /\ DOMAIN <<>> = {}
      BY DEF ToSet
    <2>2. Init => DialogInv
      BY <2>1 DEF Init, DialogInv
    <2> QED BY <2>2, OnceInit DEF NetInit
  <1>3. NetInv /\ OnceInv /\ DialogInv /\ [NetNext]_netVars => OnceInv' /\ DialogInv'
    BY NetStep, OnceNext, DialogNext DEF NetInv, NetTypeOK
  <1> QED BY <1>1, <1>2, <1>3, NetInitInv, NetInvNext, CountInit, CountNext, PTL DEF NetSpec
==============================================================================
