----------------------------- MODULE EsTransport -----------------------------
(***************************************************************************)
(* The UDP transport of esip (src/sip/estransport.c): the socket and its    *)
(* persistent read event from es_transport_init to es_transport_destroy, in *)
(* the order main calls them (src/esip.c, through src/sip/esosip.c), and    *)
(* the read callback, which hands each datagram to msg_recv_cb.             *)
(* A datagram is its length; its position in arrived names it.              *)
(***************************************************************************)
EXTENDS Naturals, Sequences, SequencesExt

CONSTANTS
  BufSize,      \* ES_TRANSPORT_MAX_BUFFER_SIZE
  SizeMax,      \* SIZE_MAX, which is what -1 is as a size_t
  Lengths,      \* the lengths of the datagrams that arrive
  MaxArrived,   \* bound: the datagrams that arrive
  MaxErrors     \* bound: the calls of recvfrom that return -1

ASSUME SizeAssumption == BufSize \in Nat \ {0} /\ SizeMax \in Nat /\ BufSize < SizeMax
ASSUME LengthAssumption == Lengths \subseteq Nat
ASSUME BoundAssumption == MaxArrived \in Nat /\ MaxErrors \in Nat

VARIABLES
  caller,      \* what main does next: init, start, loop, destroy; or done, error
  ctx,         \* the es_transport_s: none, valid or freed
  udp_socket,  \* none, open, bound or closed
  evudpsock,   \* null, idle (created, not added), armed or freed
  arrived,     \* the datagrams that reached the bound socket, oldest first
  waiting,     \* how many of them the kernel still holds
  delivered,   \* the sizes msg_recv_cb was called with
  term,        \* the index of buf the terminator was last written to
  errors,      \* how often recvfrom returned -1
  alive        \* FALSE once a write outside buf has killed the process

vars == <<caller, ctx, udp_socket, evudpsock, arrived, waiting, delivered, term,
          errors, alive>>
apiVars == <<caller, ctx, udp_socket, evudpsock>>
readVars == <<arrived, waiting, delivered, term, errors, alive>>

TypeOK ==
  /\ caller \in {"init", "start", "loop", "destroy", "done", "error"}
  /\ ctx \in {"none", "valid", "freed"}
  /\ udp_socket \in {"none", "open", "bound", "closed"}
  /\ evudpsock \in {"null", "idle", "armed", "freed"}
  /\ arrived \in Seq(Lengths)
  /\ waiting \in 0 .. Len(arrived)
  /\ delivered \in Seq(0 .. SizeMax)
  /\ term \in 0 .. SizeMax
  /\ errors \in 0 .. MaxErrors
  /\ alive \in BOOLEAN

Init ==
  /\ caller = "init"
  /\ ctx = "none" /\ udp_socket = "none" /\ evudpsock = "null"
  /\ arrived = <<>> /\ waiting = 0 /\ delivered = <<>>
  /\ term = 0 /\ errors = 0 /\ alive = TRUE
-----------------------------------------------------------------------------
(* es_transport_init: memory, then the socket; a failure of either leaves   *)
(* nothing behind (82-97) and main gives up.                                *)
TransportInit ==
  /\ caller = "init"
  /\ \/ caller' = "start" /\ ctx' = "valid" /\ udp_socket' = "open"
     \/ caller' = "error" /\ ctx' = "freed" /\ UNCHANGED udp_socket
  /\ UNCHANGED evudpsock /\ UNCHANGED readVars

(* es_transport_start (158-179): bind, event_new and event_add in turn, and *)
(* an error return at each that undoes nothing.                             *)
TransportStart ==
  /\ caller = "start"
  /\ \/ caller' = "error" /\ UNCHANGED <<udp_socket, evudpsock>>
     \/ /\ caller' = "error" /\ udp_socket' = "bound"
        /\ evudpsock' \in {"null", "idle"}
     \/ caller' = "loop" /\ udp_socket' = "bound" /\ evudpsock' = "armed"
  /\ UNCHANGED ctx /\ UNCHANGED readVars

(* The event loop ends with an error, and main stops nothing (esip.c 191).  *)
LoopFails ==
  /\ alive /\ caller = "loop"
  /\ caller' = "error"
  /\ UNCHANGED <<ctx, udp_socket, evudpsock>> /\ UNCHANGED readVars

(* The loop has ended: es_transport_stop (197-201). *)
TransportStop ==
  /\ alive /\ caller = "loop"
  /\ caller' = "destroy" /\ evudpsock' = "freed"
  /\ UNCHANGED <<ctx, udp_socket>> /\ UNCHANGED readVars

(* es_transport_destroy (137-141) *)
TransportDestroy ==
  /\ caller = "destroy"
  /\ caller' = "done" /\ ctx' = "freed" /\ udp_socket' = "closed"
  /\ UNCHANGED evudpsock /\ UNCHANGED readVars
-----------------------------------------------------------------------------
(* A datagram reaches the bound socket. *)
Arrive ==
  /\ alive /\ udp_socket = "bound" /\ Len(arrived) < MaxArrived
  /\ \E n \in Lengths : arrived' = Append(arrived, n)
  /\ waiting' = waiting + 1
  /\ UNCHANGED apiVars /\ UNCHANGED <<delivered, term, errors, alive>>

(* The kernel returns at most the size of the buffer and drops the rest. *)
Truncate(n) == IF n > BufSize THEN BufSize ELSE n

MutantReadDropsShort(n) ==
  /\ term' = n
  /\ alive' = TRUE
  /\ delivered' = IF n > 1 THEN Append(delivered, n) ELSE delivered

MutantReadCountsTerminator(n) ==
  /\ term' = n
  /\ \/ /\ alive' = TRUE
        /\ delivered' = IF n > 0 THEN Append(delivered, n + 1) ELSE delivered
     \/ /\ n >= BufSize
        /\ alive' = FALSE /\ UNCHANGED delivered

(* _es_transport_ev once recvfrom has returned n (338-349).  A terminator   *)
(* written outside buf (340) kills the process or goes unnoticed.           *)
Read(n) ==
  /\ term' = n
  /\ \/ /\ alive' = TRUE
        /\ delivered' = IF n > 0 THEN Append(delivered, n) ELSE delivered
     \/ /\ n >= BufSize
        /\ alive' = FALSE /\ UNCHANGED delivered

MutantEvNotPersistent ==
  /\ alive /\ caller = "loop" /\ evudpsock = "armed" /\ waiting > 0
  /\ Read(Truncate(arrived[Len(arrived) - waiting + 1]))
  /\ waiting' = waiting - 1
  /\ evudpsock' = "idle"
  /\ UNCHANGED <<caller, ctx, udp_socket, arrived, errors>>

(* The event is level-triggered: while the loop runs and a datagram waits   *)
(* the callback runs and takes the oldest.                                  *)
TransportEv ==
  /\ alive /\ caller = "loop" /\ evudpsock = "armed" /\ waiting > 0
  /\ Read(Truncate(arrived[Len(arrived) - waiting + 1]))
  /\ waiting' = waiting - 1
  /\ UNCHANGED apiVars /\ UNCHANGED <<arrived, errors>>

(* recvfrom returns -1, SIZE_MAX in the size_t buf_len (and the largest     *)
(* unsigned int for msg_recv_cb; the two are not told apart): an error      *)
(* queued on the socket, or a readiness that did not hold.                  *)
TransportEvError ==
  /\ alive /\ caller = "loop" /\ evudpsock = "armed" /\ errors < MaxErrors
  /\ Read(SizeMax)
  /\ errors' = errors + 1
  /\ UNCHANGED apiVars /\ UNCHANGED <<arrived, waiting>>
-----------------------------------------------------------------------------
Next ==
  \/ TransportInit \/ TransportStart
  \/ LoopFails \/ TransportStop \/ TransportDestroy
  \/ Arrive \/ TransportEv \/ TransportEvError

Spec == Init /\ [][Next]_vars

(* The event loop runs the callback of a readable socket. *)
FairSpec == Spec /\ WF_vars(TransportEv)
-----------------------------------------------------------------------------
(* Apart from its calls after a failed read, msg_recv_cb gets each datagram *)
(* taken from the socket once and in order, cut to the buffer; the empty    *)
(* ones are dropped (347).                                                  *)
DeliversWhatArrived ==
  LET given == {i \in DOMAIN delivered : delivered[i] # SizeMax}
      taken == {j \in 1 .. Len(arrived) - waiting : arrived[j] > 0}
  IN  alive => \E order \in [given -> taken] :
        /\ \A i, k \in given : i < k => order[i] < order[k]
        /\ \A j \in taken : \E i \in given : order[i] = j
        /\ \A i \in given : delivered[i] = Truncate(arrived[order[i]])

(* What has arrived is read unless the loop ends or a terminator written    *)
(* outside the buffer kills the process first.                              *)
EventuallyRead ==
  caller = "loop" /\ waiting > 0 ~> waiting = 0 \/ caller # "loop" \/ ~alive

(* "Max packet size to read from network" (45): a packet of that size is    *)
(* read into buf, and the terminator of line 340 with it.                   *)
TerminatorInBuffer == term < BufSize
==============================================================================
