-------------------------- MODULE EsTransportProofs --------------------------
(***************************************************************************)
(* Proofs about EsTransport, for every size of the buffer, any datagrams    *)
(* and any number of failed reads.                                          *)
(***************************************************************************)
EXTENDS EsTransport, SequenceTheorems, TLAPS

(* What recvfrom can return is a size: at most the buffer, or SIZE_MAX.     *)
LEMMA ReadSizes ==
  /\ 0 \in 0 .. SizeMax /\ SizeMax \in 0 .. SizeMax
  /\ \A n \in Lengths : Truncate(n) \in 0 .. SizeMax
  BY SizeAssumption, LengthAssumption DEF SizeAssumption, LengthAssumption, Truncate

(* Appending an element of its kind keeps the type of a sequence.           *)
LEMMA AppendType ==
  ASSUME NEW S, NEW s \in Seq(S), NEW e \in S PROVE Append(s, e) \in Seq(S)
  OBVIOUS

(* What the read callback writes has its type, whatever recvfrom returned.  *)
LEMMA ReadType ==
  ASSUME TypeOK, NEW n \in 0 .. SizeMax, Read(n)
  PROVE  term' \in 0 .. SizeMax /\ delivered' \in Seq(0 .. SizeMax) /\ alive' \in BOOLEAN
  <1>1. term' \in 0 .. SizeMax /\ alive' \in BOOLEAN
    BY DEF Read
  <1>2. delivered' = delivered \/ delivered' = Append(delivered, n)
    BY DEF Read
  <1>3. delivered \in Seq(0 .. SizeMax)
    BY DEF TypeOK
  <1>4. Append(delivered, n) \in Seq(0 .. SizeMax)
    BY <1>3, AppendType
  <1> QED BY <1>1, <1>2, <1>3, <1>4

(* What each action writes has its type. *)
LEMMA TypeNext == TypeOK /\ [Next]_vars => TypeOK'
  <1> SUFFICES ASSUME TypeOK, [Next]_vars PROVE TypeOK'
    OBVIOUS
  <1>1. CASE UNCHANGED vars
    BY <1>1 DEF TypeOK, vars
  <1>2. CASE TransportInit \/ TransportStart \/ LoopFails \/ TransportStop \/ TransportDestroy
    BY <1>2 DEF TypeOK, readVars, TransportInit, TransportStart, LoopFails, TransportStop,
                TransportDestroy
  <1>3. CASE Arrive
    <2>1. PICK n \in Lengths : arrived' = Append(arrived, n)
      BY <1>3 DEF Arrive
    <2>2. arrived' \in Seq(Lengths) /\ Len(arrived') = Len(arrived) + 1
      BY <2>1 DEF TypeOK
    <2>3. waiting' \in 0 .. Len(arrived')
      BY <1>3, <2>2 DEF Arrive, TypeOK
    <2> QED BY <1>3, <2>2, <2>3 DEF Arrive, TypeOK, apiVars
  <1>4. CASE TransportEv
    <2>1. Len(arrived) \in Nat /\ waiting \in 1 .. Len(arrived)
      BY <1>4 DEF TransportEv, TypeOK
    <2>2. arrived[Len(arrived) - waiting + 1] \in Lengths
      BY <2>1 DEF TypeOK
    <2>3. /\ term' \in 0 .. SizeMax /\ delivered' \in Seq(0 .. SizeMax)
          /\ alive' \in BOOLEAN
      BY <1>4, <2>2, ReadSizes, ReadType DEF TransportEv
    <2>4. waiting' \in 0 .. Len(arrived)
      BY <1>4, <2>1 DEF TransportEv
    <2> QED BY <1>4, <2>3, <2>4 DEF TransportEv, TypeOK, apiVars
  <1>5. CASE TransportEvError
    <2>1. /\ term' \in 0 .. SizeMax /\ delivered' \in Seq(0 .. SizeMax)
          /\ alive' \in BOOLEAN
      BY <1>5, ReadSizes, ReadType DEF TransportEvError
    <2>2. errors' \in 0 .. MaxErrors
      BY <1>5, BoundAssumption DEF TransportEvError, TypeOK, BoundAssumption
    <2> QED BY <1>5, <2>1, <2>2 DEF TransportEvError, TypeOK, apiVars
  <1> QED BY <1>1, <1>2, <1>3, <1>4, <1>5 DEF Next

(* The types of the transport: no datagram is taken that did not arrive.    *)
THEOREM TypeCorrect == Spec => []TypeOK
  <1>1. Init => TypeOK
    <2>1. 0 \in 0 .. MaxErrors
      BY BoundAssumption DEF BoundAssumption
    <2>2. <<>> \in Seq(Lengths) /\ <<>> \in Seq(0 .. SizeMax) /\ Len(<<>>) = 0
      OBVIOUS
    <2> QED BY <2>1, <2>2, ReadSizes DEF Init, TypeOK
  <1> QED BY <1>1, TypeNext, PTL DEF Spec
-----------------------------------------------------------------------------
(* What has been delivered, and what has been taken from the socket.        *)
Given(d) == {i \in DOMAIN d : d[i] # SizeMax}
Taken(a, n) == {j \in 1 .. n : a[j] > 0}

(* order says which datagram each call of msg_recv_cb was about.            *)
Orders(order, d, a, n) ==
  /\ order \in [Given(d) -> Taken(a, n)]
  /\ \A i, k \in Given(d) : i < k => order[i] < order[k]
  /\ \A j \in Taken(a, n) : \E i \in Given(d) : order[i] = j
  /\ \A i \in Given(d) : d[i] = Truncate(a[order[i]])

(* The datagrams that have been read. *)
Reads == Len(arrived) - waiting

(* DeliversWhatArrived, in these terms. *)
LEMMA Delivers == DeliversWhatArrived <=> (alive => \E order : Orders(order, delivered, arrived, Reads))
  BY DEF DeliversWhatArrived, Orders, Given, Taken, Reads

(* A new datagram is not among those that have been read. *)
LEMMA ArriveDelivers ==
  ASSUME TypeOK, DeliversWhatArrived, Arrive
  PROVE  DeliversWhatArrived'
  <1>1. PICK n \in Lengths : arrived' = Append(arrived, n)
    BY DEF Arrive
  <1>2. /\ Len(arrived) \in Nat /\ Len(arrived') = Len(arrived) + 1
        /\ \A j \in 1 .. Len(arrived) : arrived'[j] = arrived[j]
        /\ waiting \in 0 .. Len(arrived) /\ waiting' = waiting + 1
        /\ UNCHANGED <<delivered, alive>>
    BY <1>1 DEF Arrive, TypeOK
  <1>3. Reads' = Reads /\ \A j \in 1 .. Reads : arrived'[j] = arrived[j]
    BY <1>2 DEF Reads
  <1>4. Taken(arrived', Reads') = Taken(arrived, Reads)
    BY <1>3 DEF Taken
  <1>5. ASSUME NEW order, Orders(order, delivered, arrived, Reads)
        PROVE  Orders(order, delivered', arrived', Reads')
    <2>1. \A i \in Given(delivered) : order[i] \in 1 .. Reads
      BY <1>5 DEF Orders, Taken
    <2> QED BY <1>2, <1>3, <1>4, <1>5, <2>1 DEF Orders
  <1>6. alive' => \E order : Orders(order, delivered', arrived', Reads')
    BY <1>2, <1>5, Delivers
  <1> QED BY <1>6 DEF DeliversWhatArrived, Orders, Given, Taken, Reads

(* A read of n: the datagram j, which comes after those read before.        *)
LEMMA ReadDelivers ==
  ASSUME TypeOK, DeliversWhatArrived, TransportEv
  PROVE  DeliversWhatArrived'
  <1> DEFINE j == Reads + 1
             n == Truncate(arrived[j])
             last == Len(delivered) + 1
  <1>1. /\ Len(arrived) \in Nat /\ waiting \in 1 .. Len(arrived) /\ waiting' = waiting - 1
        /\ UNCHANGED arrived /\ alive
    BY DEF TransportEv, TypeOK
  <1>2. Reads \in Nat /\ Reads' = j /\ j \in 1 .. Len(arrived)
    BY <1>1 DEF Reads
  <1>3. arrived[j] \in Nat
    <2> HIDE DEF j
    <2>1. arrived[j] \in Lengths
      BY <1>2 DEF TypeOK
    <2> QED BY <2>1, LengthAssumption DEF LengthAssumption
  <1>4. n \in Nat /\ n < SizeMax /\ (n > 0 <=> arrived[j] > 0)
    BY <1>3, SizeAssumption DEF Truncate, SizeAssumption
  <1>5. Read(n)
    BY <1>1 DEF TransportEv, Reads
  <1> HIDE DEF j, n
  <1> SUFFICES ASSUME alive' PROVE \E order : Orders(order, delivered', arrived', Reads')
    BY DEF DeliversWhatArrived, Orders, Given, Taken, Reads
  <1>6. PICK order : Orders(order, delivered, arrived, Reads)
    BY <1>1, Delivers
  <1>7. CASE ~(n > 0)
    <2>1. delivered' = delivered
      BY <1>5, <1>7 DEF Read
    <2>2. Taken(arrived, j) = Taken(arrived, Reads)
      BY <1>2, <1>4, <1>7 DEF Taken, j
    <2> QED BY <1>1, <1>2, <1>6, <2>1, <2>2 DEF Orders
  <1>8. CASE n > 0
    <2>1. delivered' = Append(delivered, n)
      BY <1>5, <1>8 DEF Read
    <2>2. /\ Len(delivered) \in Nat /\ DOMAIN delivered = 1 .. Len(delivered)
          /\ DOMAIN delivered' = 1 .. last
          /\ \A i \in 1 .. last : delivered'[i] = IF i = last THEN n ELSE delivered[i]
      <3>1. delivered \in Seq(0 .. SizeMax) /\ n \in 0 .. SizeMax
        BY <1>4, SizeAssumption DEF TypeOK, SizeAssumption
      <3> HIDE DEF last
      <3>2. /\ Append(delivered, n) \in Seq(0 .. SizeMax)
            /\ Len(Append(delivered, n)) = Len(delivered) + 1
            /\ \A i \in 1 .. Len(delivered) + 1 :
                 Append(delivered, n)[i] = IF i = Len(delivered) + 1 THEN n ELSE delivered[i]
        BY <3>1, AppendProperties
      <3> QED BY <2>1, <3>1, <3>2, LenProperties DEF last
    <2>3. Given(delivered') = Given(delivered) \cup {last} /\ last \notin Given(delivered)
      BY <1>4, <2>2 DEF Given
    <2>4. Taken(arrived, j) = Taken(arrived, Reads) \cup {j}
      BY <1>2, <1>4, <1>8 DEF Taken, j
    <2> DEFINE longer == [i \in Given(delivered') |-> IF i = last THEN j ELSE order[i]]
    <2>5. /\ longer[last] = j /\ last \in Given(delivered')
          /\ \A i \in Given(delivered) : longer[i] = order[i] /\ i \in Given(delivered')
      BY <2>3
    <2>6. longer \in [Given(delivered') -> Taken(arrived, j)]
      BY <1>6, <2>3, <2>4 DEF Orders
    <2>7. \A i \in Given(delivered) : i < last /\ order[i] < j
      BY <1>2, <1>6, <2>2 DEF Orders, Given, Taken, j
    <2>8. \A i \in Given(delivered') : delivered'[i] = Truncate(arrived[longer[i]])
      BY <1>6, <2>2, <2>3, <2>5 DEF Orders, n, Given
    <2> HIDE DEF longer, last
    <2>9. \A i, k \in Given(delivered') : i < k => longer[i] < longer[k]
      <3> SUFFICES ASSUME NEW i \in Given(delivered'), NEW k \in Given(delivered'), i < k
                   PROVE  longer[i] < longer[k]
        OBVIOUS
      <3>1. last \in Nat /\ i \in Nat /\ k \in Nat /\ k <= last
        BY <2>2, <2>3 DEF Given, last
      <3>2. i \in Given(delivered)
        BY <2>3, <3>1
      <3> QED BY <1>6, <2>3, <2>5, <2>7, <3>2 DEF Orders
    <2>10. \A m \in Taken(arrived, j) : \E i \in Given(delivered') : longer[i] = m
      BY <1>6, <2>3, <2>4, <2>5 DEF Orders
    <2>11. Orders(longer, delivered', arrived, j)
      BY <2>6, <2>8, <2>9, <2>10 DEF Orders
    <2> QED BY <1>1, <1>2, <2>11
  <1> QED BY <1>7, <1>8

(* A failed read is delivered too, and is not about a datagram. *)
LEMMA ErrorDelivers ==
  ASSUME TypeOK, DeliversWhatArrived, TransportEvError
  PROVE  DeliversWhatArrived'
  <1>1. UNCHANGED <<arrived, waiting>> /\ alive
    BY DEF TransportEvError
  <1>2. SizeMax \in Nat /\ SizeMax > 0 /\ delivered \in Seq(0 .. SizeMax)
    BY SizeAssumption DEF SizeAssumption, TypeOK
  <1> SUFFICES ASSUME alive' PROVE \E order : Orders(order, delivered', arrived', Reads')
    BY DEF DeliversWhatArrived, Orders, Given, Taken, Reads
  <1>3. delivered' = Append(delivered, SizeMax)
    BY <1>2 DEF TransportEvError, Read
  <1>4. SizeMax \in 0 .. SizeMax
    BY <1>2
  <1>5. /\ Append(delivered, SizeMax) \in Seq(0 .. SizeMax)
        /\ Len(Append(delivered, SizeMax)) = Len(delivered) + 1
        /\ \A i \in 1 .. Len(delivered) + 1 :
             Append(delivered, SizeMax)[i] = IF i = Len(delivered) + 1 THEN SizeMax ELSE delivered[i]
    BY <1>2, <1>4, AppendProperties
  <1>6. /\ Len(delivered) \in Nat /\ DOMAIN delivered = 1 .. Len(delivered)
        /\ DOMAIN delivered' = 1 .. Len(delivered) + 1
        /\ \A i \in 1 .. Len(delivered) + 1 :
             delivered'[i] = IF i = Len(delivered) + 1 THEN SizeMax ELSE delivered[i]
    BY <1>2, <1>3, <1>5, LenProperties
  <1>7. Given(delivered') = Given(delivered)
        /\ \A i \in Given(delivered) : delivered'[i] = delivered[i]
    BY <1>6 DEF Given
  <1>8. PICK order : Orders(order, delivered, arrived, Reads)
    BY <1>1, Delivers
  <1>9. Reads' = Reads
    BY <1>1 DEF Reads
  <1> QED BY <1>1, <1>7, <1>8, <1>9 DEF Orders

(* estransport.c 338-349: as long as no terminator written outside the      *)
(* buffer has killed the process, es_osip gets every datagram that was      *)
(* read once, in order and cut to the buffer, but for the empty ones; what  *)
(* else it gets are failed reads.                                           *)
THEOREM DeliversWhatArrivedHolds == Spec => []DeliversWhatArrived
  <1>1. Init => DeliversWhatArrived
    <2> SUFFICES ASSUME Init PROVE DeliversWhatArrived
      OBVIOUS
    <2>1. Given(delivered) = {} /\ Taken(arrived, Reads) = {}
      <3>1. DOMAIN <<>> = {} /\ Len(<<>>) = 0
        OBVIOUS
      <3> QED BY <3>1 DEF Init, Given, Taken, Reads
    <2>2. Orders([i \in {} |-> 0], delivered, arrived, Reads)
      BY <2>1 DEF Orders
    <2> QED BY <2>2, Delivers
  <1>2. TypeOK /\ DeliversWhatArrived /\ [Next]_vars => DeliversWhatArrived'
    <2> SUFFICES ASSUME TypeOK, DeliversWhatArrived, [Next]_vars PROVE DeliversWhatArrived'
      OBVIOUS
    <2>1. ASSUME UNCHANGED <<arrived, waiting, delivered, alive>> PROVE DeliversWhatArrived'
      <3>1. Reads' = Reads
        BY <2>1 DEF Reads
      <3>2. alive' => \E order : Orders(order, delivered', arrived', Reads')
        BY <2>1, <3>1, Delivers
      <3> QED BY <3>2 DEF DeliversWhatArrived, Orders, Given, Taken, Reads
    <2>2. CASE \/ UNCHANGED vars
               \/ TransportInit \/ TransportStart \/ LoopFails
               \/ TransportStop \/ TransportDestroy
      BY <2>1, <2>2 DEF vars, readVars, TransportInit, TransportStart, LoopFails,
                        TransportStop, TransportDestroy
    <2> QED BY <2>2, ArriveDelivers, ReadDelivers, ErrorDelivers DEF Next
  <1> QED BY <1>1, <1>2, TypeCorrect, PTL DEF Spec
==============================================================================
