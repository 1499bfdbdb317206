# A TLA+ verification project for esip

esip (`src/`) is a small SIP server for testing: one libevent loop reads UDP
datagrams, hands them to osip2's server transactions, answers INVITE, REGISTER
and BYE with a 200, and a telnet interface runs libcli in one thread per
connection.  These modules model it, from main's first allocation to the callers
on the other side of the network; TLC checks them on small instances, and TLAPS
proves the invariants of the components, and that the program implements what
its callers are promised, for every value of the constants.

Line numbers are those of `src/src/sip/esosip.c` unless another file is named.

## The system

| Component | State it keeps | Operations | Talks to |
|---|---|---|---|
| main, `src/src/esip.c` | libevent base, signal event, the two contexts | bring up, `event_base_dispatch`, take down, `signal_cb` | calls init/start/stop/deinit of the others |
| SIP core, `src/src/sip/esosip.c` | `pendingEv` (wake-up events), `osipDialog`, osip's transactions and their FIFOs | `es_osip_parse_msg`, `_es_osip_wakeup`, `_es_osip_loop`, the osip callbacks | called by the transport and by libevent, called back by osip |
| UDP transport, `src/src/sip/estransport.c` | context, socket, persistent read event | init, start, stop, destroy, `_es_transport_ev`, `es_transport_send` | `msg_recv_cb` into the SIP core |
| messages, `src/src/sip/esomsg.c` | none | `es_msg_initResponse`, `es_msg_init` (never called) | called by the SIP core |
| CLI, `src/src/cli/escli.c` | listener, one `cli_def` for all connections | init, start, stop, deinit, listener callback, session thread, idle callback | threads in libcli's `cli_loop` |
| log, `src/src/eslog.c` | level | `es_log_trace` | called by every thread |

How they interact.  A datagram makes the socket readable; libevent calls
`_es_transport_ev`, which calls `es_osip_parse_msg`.  That opens a transaction,
queues the request on it and calls `_es_osip_wakeup`: a one-shot event is made,
put into `pendingEv` and activated at once, so that libevent calls
`_es_osip_loop` in the same pass.  The loop takes a pending event, runs the four
kinds of transactions, and these call `_es_internal_message_cb`, which queues
the answer on the transaction and calls `_es_osip_wakeup` again, inside the
loop that consumes `pendingEv`.  The answer goes out in the same pass:
`osip_ist_execute` and `osip_nist_execute` go on until the FIFOs are empty, so that the second
wake-up finds nothing to send and only runs the loop once more.  The CLI
shares with all this only libevent's thread (the listener) and the log, which
every thread writes piece by piece to one terminal.

What is hard.  The wake-ups are made, pending, active, held and freed by two
pieces of code that nest; each allocation on the way may fail in the middle of
a hand-over; osip's timers do not wake the loop; two priorities decide what
runs; several session threads share a `cli_def` and all threads a terminal; a
caller without an answer sends its request again, and the code serves each copy
as a new one; start-up can fail at each of its steps and has one exit.
`PROJECT.json` lists each hazard at its line with the properties that are about
it.

What makes each component correct:

- SIP core: no wake-up event is used after `event_free` or leaked; each received
  copy of an INVITE, REGISTER and BYE is answered exactly once, and before the
  thread waits for the network again; each answered copy of an INVITE makes one
  dialog; the loop ends.
- Transport: each datagram is delivered once and in order; what is read stays in the
  buffer.
- CLI: a session prints to its own connection, ends when its operator is silent,
  nothing it uses is freed under it, and each session closes one descriptor.
- the callers: each that goes on asking is answered, what it takes for a dialog is
  one at esip, and esip does not answer more often than it was asked.
- log: no colour outlives the line that set it.
- main: SIGINT ends the program, between two requests; the parts main made are
  released then, and what is left over (transactions, dialogs, descriptors of sessions)
  is accounted for.

## The modules

| Module | What it is |
|---|---|
| `SipUas` | abstract: what the callers are promised. Requests (received copies) are accepted one at a time, each is answered once, an INVITE's answer confirms a dialog; with failing allocations, what is left of that: no second answer, no dialog without its answer |
| `EsOsip` | the SIP core in detail, with libevent's active queue and osip's transactions as far as the code uses them; its refinement of `SipUas` |
| `MCEsOsip` | symmetry and the bound on FIFOs for TLC |
| `EsOsipProofs` | proofs about `EsOsip`: types, wake-ups, dialogs |
| `EsOsipAnswers` | proofs about `EsOsip`: answers, and the refinement of `SipUas`, with and without failing allocations |
| `EsOsipLoop` | proof about `EsOsip`: the measure that every step of a pass lowers |
| `EsNet` | the callers and a network that loses, delays and reorders; extends `EsOsip` and is composed with it datagram by datagram |
| `EsNetProofs` | proofs about the callers and the network, from those about `EsOsip` |
| `MCEsNet` | memory without names and the order of independent steps, for TLC |
| `EsTransport`, `EsTransportProofs` | the UDP transport, and proofs about it |
| `EsCli`, `EsCliProofs` | the telnet interface and its threads, and proofs about them |
| `EsLog`, `EsLogProofs` | the lines of the log on the terminal, and proofs about them |
| `Esip` | main, the two priorities of the loop, start-up and shutdown; extends `EsOsip` and instantiates `EsCli` |
| `MCEsip` | memory without names and the order of independent steps, for TLC |
| `EsipProofs` | proofs about the whole program, from those about `EsOsip` and `EsCli` |

### EsOsip

The thread's place in the code is `pc`; the local `ev` of `_es_osip_loop` is
`cur`; `pendingEv`, `osipDialog` and the FIFOs are sequences, as the code's lists
are.  `active` is libevent's active queue of priority 0 (a set: its order is
left open) and `live` the events made and not freed.  The actions:

- `Poll`, `ProcessDone`, `RunWakeup`: libevent's dispatch.
- `RecvRefused`, `RecvResponse`, `RecvResponseFails`, `RecvAck`, `RecvInvite`,
  `RecvRequest`: the ways through `es_osip_parse_msg` (258-384).  Each that queues
  an event also makes the wake-up (`AddEvent`), which may succeed (`Wakeup`),
  return an error (`WakeupFails`, 509-513) or lose its place in `pendingEv`
  without noticing (`WakeupUnlisted`, 516).
- `LoopPop`, `LoopReturn`, `IstDone`, `NistDone`, `FinishIteration`: the loop
  (416-482).  ICT and NICT are not there: esip never makes a client transaction.
- `IstRcvInvite`, `IstSnd2xx`, `IstIgnore`, `NistRcvRequest`, `NistSnd2xx`,
  `NistTimeoutJ`: one event of one transaction, with the callbacks osip calls for
  it (524-694).  Which transaction osip walks to next is left open.
- `ExecuteFreed`: osip takes an event that was freed in the FIFO.  That is
  undefined: the process dies (`crashed`) or the event is ignored.  A third outcome is
  left out: `free` may have given the chunk to the next `osip_event_t`, which would
  then be in two FIFOs.  What is said below "whichever allocations fail" is said
  under that assumption.
- `ToCloneFails`, `SendFails`: results `es_msg_initResponse` does not look at.
  Without a To the tag is looked for through a null pointer (`esomsg.c` 178-184);
  without a Via (219) osip cannot send the answer and ends the transaction.

`es_msg_initResponse` leaves more results unlooked at.  Without a version, a reason or a
From (164, 171, 175) `osip_message_to_str` makes no text of the answer, which `esosip.c`
542-546 does not look at either: an empty one is sent (`Outgoing` in `EsNet`), and
the answer counts as sent.  Without a tag (188) the answer goes out as
the request's To was (`Untagged`).  Without a From or a tag no dialog is made of it, which is
the failing branch of `IstSnd2xx`.  What fails at 166 and 225-228 are headers that
nobody needs.

A To tag is random in the code (`esomsg.c` 180-190); here the tag of an answer is
named by its transaction, so two answers never draw the same.  `MemoryMayFail`
says whether an allocation may fail before memory is exhausted; memory is
always finite (`Tid`, `Ev`).

### EsNet

The module extends `EsOsip`; its own start, steps and specification are named
`NetInit`, `NetNext` and `NetSpec`.  A caller names its request by a `Branch`: what a request and its answer have in
common (Via, From, Call-ID, CSeq).  `Ask` makes a request outside a dialog or
inside one of the caller's own, `Retransmit` sends it again while no answer has
come, `ReceiveAnswer` takes an answer and acknowledges it if the request was an
INVITE.  Datagrams are a bag (`wire`), so they come in any order; `Lose` drops one,
which is also what a failed `sendto` is (`estransport.c` 296, nobody looks at the
result); `Arrive` puts one into the socket's buffer, which has room for
`MaxQueue`.  On esip's side every step is one of `EsOsip`: `NetPoll` only if a datagram
waits, `ReadRequest` and `ReadAck` with the datagram at the head (`via` remembers
whose request a transaction has), and `Serve`, which puts each answer given to
`es_transport_send` on the wire, or, when memory fails, an answer without a tag or
nothing.  The code does not look for the transaction a copy belongs to (327-345): a
copy opens another.

### EsTransport

The calls come in main's order, which `caller` keeps: init, start, the loop, then
stop and destroy (`esip.c` 174-199), and none of the two after a failure or when
`event_base_dispatch` fails (`LoopFails`, 191-194).  `es_transport_destroy` itself closes the
socket and frees the context whatever the event's state.  A datagram is its length.  `term` is the index line 340 of `estransport.c` last
wrote to; a write outside the buffer kills the process or goes unnoticed.  -1 is
`SizeMax` as soon as it is in the `size_t`.

### EsCli

`cli_loop` is libcli's: it sets `cli_def.client` to the stream of its connection
when it starts, measures idleness from `cli_def.last_action`, and at its end
closes `cli->client` (`Fclose`) and sets it to null (`CliLoopEnd`), in two steps; both are
libcli's, and `escli.c` only frees the context of the thread after it (`CliReturn`,
132-135).  All sessions share that `cli_def`.  `cli_loop` may fail at its start, with the
null that `fdopen` returned in `cli->client` or with the stream as it was.  A thread that was
not started (174-177), a connection without memory (166-169) and a `cli_loop` that failed
(127-130) leave their descriptor open: `DescriptorBalance` counts them.  After `cli_done` (deinit) a session runs on freed memory.  `CliRegular` is
`_es_cli_regular_callback`, which prints to `cli->client` now and then while nobody
types: to another session's connection, or to a stream that was closed.

### EsLog

`es_log_vprintf` writes a line with up to five calls of `fprintf`, each of which is
atomic because stdio locks the stream; the line is not.  One action per call:
`Begin` sets the colour, `Prefix`, `Where` (DEBUG only) and `Message` write, `End` resets
the colour.  The level is looked at once, in `Begin`, and nothing changes it.

### Esip

The module extends `EsOsip` and instantiates `EsCli` (`Cli`): its variables are those of
the SIP core, of the CLI and of main, its steps are named `EsipInit`, `EsipNext` and
`EsipSpec`.  `at` is main's place, `held` what it has made and has not released,
`prio1` the active queue of priority 1.  What the SIP core and the CLI make
while the loop runs (wake-ups, transactions, dialogs, sessions and their descriptors) is
in their own variables.  `CliMain` is what main has done to the CLI so far; the listener
(`ListenerCb`) is `EvConnListener` of `EsCli`, the session threads (`SessionStep`) run beside
main until the process ends.

The poll finds the socket readable (`PollUdp`, then only the actions of `EsOsip`
run) or not (`PollQuiet`, then the callbacks of priority 1 run until none is
left).  `signal_cb` asks for the loop's exit through one more event of priority
1, and the loop looks at `gotterm` before it polls.  `event_base_dispatch` may fail
at the poll (`DispatchFails`, 191-194): main goes to ERROR_EXIT with everything held and no
component stopped.

`priorities` is how many queues the base has.  When `event_base_priority_init` fails
main logs it and goes on (153-155).  Then there is one queue (`priorities` = 1), in which
the callbacks of both kinds run in any order in the same pass, or none (0), because
libevent frees the old queues before it asks for memory; then the first event that
becomes active kills the process or is lost (`NoQueue`).

## The runs

| Run | Shows | Bounds |
|---|---|---|
| `EsOsip_safety` | types, no dangling, doubled or leaked wake-up, every request answered once at the poll, one dialog per copy of an INVITE | 3 transactions, 2 events, 2 calls, 1 old tag, no failure before memory is exhausted |
| `EsOsip_live` | the callbacks end; timers are served when traffic goes on; `EsOsip` implements `SipUas` with its liveness | 3 transactions, 2 events, 1 call |
| `EsOsip_degraded` | with failing allocations: no dangling wake-up, dialogs only of answered INVITEs, `SipUas` but for its fairness, less to do after every step, always back to the poll or crashed | 2 transactions, 3 events, 1 call, FIFOs of 2 |
| `EsOsip_nulldialog`, `EsOsip_freed` | counterexamples, see below | 2 transactions, 2 events |
| `EsNet_retry` | every caller is answered although datagrams are lost; each answer names a dialog that the ACK finds; no more answers and dialogs than copies | 2 callers with INVITE and BYE, 2 copies each, 1 loss, a buffer of 2, 4 transactions |
| `EsTransport_deliver` | datagrams delivered once, in order, eventually | 3 datagrams of 5 lengths around 0 and a 4-byte buffer, 2 errors |
| `EsTransport_fullbuffer` | counterexample | the same, no errors |
| `EsCli_sessions` | until sessions overlap: own stream, idle sessions closed, no use of a closed stream; also after that, as many open descriptors as sessions that run or did not come to run | 3 connections, 2 at a time, idle limit 2 |
| `EsCli_ownstream` | counterexample | the same |
| `EsLog_lines` | however lines mix, no colour is left on the terminal | 3 threads, levels 3 (red), 4 (yellow), 6 and 7 (plain; only 7 has the place it comes from) |
| `Esip_life` | SIGINT ends the program between two requests; the parts main made are released, and what is left is known; the CLI of the program is `EsCli` | 2 transactions, 2 events, 1 call, 1 connection, idle limit 1, 0 to 2 priorities |

Why the bounds are enough.  Without failures at most one wake-up is pending
(this is proved) and one is held, so two events suffice; the third of
`EsOsip_degraded` is for those a failure leaks.  There responses whose wake-up
failed could pile up for ever in a FIFO, which `MaxFifo` stops at two: one event
behind another is what tells the order of execution.  Three transactions give one being answered, one that was
and one to come, so the search of the dialog list and the sweep over the
transactions have something to choose.  A BYE, an ACK and a second INVITE can
carry no tag, a tag given, or an old one.  A buffer of 4 with lengths 0, 1, 3, 4
and 5 has every boundary of the read.  In `EsNet_retry` two copies and one loss let
a caller lose its first request or its first answer, get a late copy served after
its answer, and have both copies of two callers in the buffer at once; four
transactions are one for each copy, so memory does not run out, which is the
premise of `EveryCallerAnswered`.  Three connections let one session take
over from another while a third
comes later; two ticks tell "idle for some time" from "idle for too long".

Two reductions of `MCEsNet` keep that run small.  `FirstFree`: a new transaction or
event takes the first free name; names are not compared, so any other choice
gives the same behaviour with names exchanged.  `Outside`: the callers and the
network act only while the thread is at the poll (or dead).  They share with the
thread only `wire`, to which the thread adds, and `queue`, from whose head it takes;
a step of theirs in the middle of a pass can be moved behind the pass, where it
is enabled too and leads to the same state, or, if it fills the buffer of a
socket the pass is still to read, is what a pass that starts with a full buffer
finds.  No property of the run looks at a state in the middle of a pass that such
a move would change.

`MCEsip` has the same `FirstFree`.  Its `Outside` lets a signal or a connection come only at
the poll: one that comes while a callback runs is seen by the next poll.  And it
lets the sessions run only when main has left the loop: they share nothing with
the thread of the loop, whose steps only start them.  So every order of session steps
against the shutdown is there; how sessions act on each other is `EsCli_sessions`, and
that the CLI of the program is that of `EsCli`, whatever the order, is proved
(`ProgramImplementsCli`).

Deadlock is checked in the runs of `EsOsip` without failures: the server always
waits for the next datagram.  It is not checked where the program may end: after
a crash, after `es_transport_destroy` or a failure before it, after main returned.

Fairness.  `EsOsip` (in `EsOsip_degraded` too) and `Esip` assume only that the thread runs
what it has to run; no datagram, signal or connection is assumed to come.  `EsTransport` assumes
that libevent calls the callback of a readable socket, `EsCli` that time passes
and that a thread with something to do does it (typing and quitting are the
operator's and not fair), `EsLog` that a thread finishes the line it began.  `EsNet`
assumes that esip's thread runs (WF), that a caller without an answer sends its
next copy and takes an answer that has come (WF), and that a request in flight
gets into the socket's buffer if there is room again and again (SF: the buffer may be full
at times).  At most `MaxLoss` datagrams are lost, fewer than the copies a caller may
send: a caller that gives up before the network delivers is promised nothing.  Two properties state their premise: `TimersServedByTraffic`
holds if traffic goes on for ever, because nothing else wakes the loop (462), and
`SigintEnds` if the poll does not find the socket readable every time, because
priority 1 runs only in a pass without priority 0.

Where the code and what it says of itself differ, a run has the counterexample:

- `EsOsip_nulldialog`: the semicolon of line 319 makes the call at 320 unconditional.
- `EsOsip_freed`: the event given to the FIFO (363) is freed there when the wake-up
  fails (374, 690).
- `EsTransport_fullbuffer`: a packet of the "max packet size" (`estransport.c` 45)
  has its terminator written after the buffer.
- `EsCli_ownstream`: each connection has its `cli_loop` (`escli.c` 162) but not its
  `cli_def`; the newest takes the stream.

Other differences are in the models without a run of their own, because a
property about them fails in two or three steps: "Removing Transaction" (560)
is logged and nothing is removed; the -1 of a failed read passes
`buf_len > 0` (`estransport.c` 347); ERROR_EXIT frees a signal event that was
never made (`esip.c` 213); "Look for existant Dialog" (381) has no code, so an INVITE in
a dialog makes a second one; the "CLI thread handler" (`escli.c` 63-65) is never set
and `es_cli_deinit` frees the `cli_def` under sessions that run; a silent connection stays open while another
operator types (`escli.c` 239, `AloneSilentIsClosed` states what does hold).

## The proofs

The theorems hold for every set of transactions, events, calls, tags, callers, connections
and threads, every number of copies and losses, and every size of the buffers.
`~MemoryMayFail` says that no allocation fails before memory is exhausted,
`TwoEvents` that it has room for two wake-ups; "memory lasts" stands for both.  Where
the last column is empty the theorem holds whichever allocations fail (and, as
`ExecuteFreed` has it, a freed event kills the process or is ignored).

| Theorem | Says | Needs |
|---|---|---|
| `EsOsipProofs!TypeCorrect` | types; a transaction is an IST exactly when its request is an INVITE | |
| `NoDanglingEventHolds` | no wake-up is used after its release | |
| `DialogPerInviteHolds` | each dialog is of an answered INVITE, no received copy of one makes two | |
| `AtMostOnePendingHolds`, `NoLeakedEventHolds` | one wake-up pending at most, none leaked | `~MemoryMayFail` |
| `EsOsipAnswers!AnsweredAtPollHolds` | every copy of a request answered once when the thread waits for the network | memory lasts |
| `StepsImplementUas` | `Spec => KeepsUas`, which is `Uas!Spec`: the core implements `SipUas` | `MemoryMayFail \/ TwoEvents` |
| `EsOsipLoop!WorkShrinksHolds` | every step between two polls leaves less to do | `Tid` and `Ev` finite |
| `EsNetProofs!NetImplementsSip` | `NetSpec => Spec`: among the callers the core behaves as with any traffic | |
| `NetTypeCorrect` | types; each transaction has the request its caller made | |
| `NoAmplificationHolds` | no more answers than copies that were sent; no dialog without an answer | |
| `CallersDialogExistsHolds`, `AckFindsDialogHolds` | each answer to an INVITE names a dialog of esip, and its ACK finds it | `~MemoryMayFail` |
| `EsipProofs!ProgramNoDanglingEvent`, `ProgramDialogPerInvite` | the same of the whole program as of the core | |
| `ProgramImplementsUas` | `EsipSpec => KeepsUas`: the whole program implements `SipUas` | `MemoryMayFail \/ TwoEvents` |
| `ProgramImplementsSip` | `EsipSpec => Spec`: main adds nothing to the behaviour of the core | memory lasts |
| `StopsBetweenRequestsHolds` | SIGINT stops between two requests | memory lasts |
| `LeftAtExitHolds` | a normal exit has released the parts main made but one socket; left are the transactions, the dialogs and the descriptors of sessions that had not ended | memory lasts |
| `EsipTypeCorrect` | types; the loop runs with every part in place | |
| `ProgramImplementsCli` | `EsipSpec => ImplementsCli`, which is `Cli!Spec`: main uses the CLI as `EsCli` says | |
| `ProgramKeepsCli` | the invariants of `EsCli` hold in the program | |
| `EsTransportProofs!TypeCorrect` | types | |
| `DeliversWhatArrivedHolds` | what was read is delivered once, in order and cut to the buffer | |
| `EsCliProofs!TypeCorrect`, `DescriptorBalanceHolds` | types; until something crashes, as many open descriptors as sessions that run or never came to run | |
| `AloneOwnsStreamHolds`, `CrashNeedsOverlapHolds` | one session at a time has its own stream and is safe | |
| `EsLogProofs!TypeCorrect`, `ColourHasALineHolds` | types; no colour is left | |

The other assumptions are those of the modules: names of different kinds differ,
sizes are numbers.  `MemoryMayFail \/ TwoEvents` leaves out one case only: no
allocation fails, but memory has room for a single wake-up.  Then the second wake-up of a
request finds no memory although none is said to fail, and the request waits
while others are accepted; that is not what `SipUas` promises without failures,
and with `MemoryMayFail` it is.

The wake-ups.  `NoDanglingEvent` is inductive with the types: each wake-up is a new
event, the loop takes it out of `pendingEv` before it works (436), and what is freed
at 480 is in `pendingEv` no more.  The lemmas about sequences say what adding and
taking at the head does to a list of distinct elements.

`AtMostOnePending` is not inductive.  Line 516 adds a wake-up without looking, so
it needs that no wake-up is pending whenever one is made.  In
`es_osip_parse_msg` that follows from the pass: the socket is active only while
nothing is pending (`EventInv`).  In the message callback it needs that at most
one transaction has a request that was not executed yet, and that the pending
event was taken for it (`RequestInv`): a FIFO is either `Fresh`, one request
alone, or `Clean`, without a request, and at most one is `Fresh`.  The two
invariants and the types are inductive together.  With `MemoryMayFail` it is
false: a wake-up that line 516 failed to list leaves its request queued at the
poll, and the next wake-up has two requests to serve, each of which makes another.
`NoLeakedEvent` is inductive with these.

The dialogs.  `DialogPerInvite` needs `DialogInv`: a transaction in a dialog is an IST
that has ended with one answer, or was freed; one still to be answered
is in none.  It holds whichever allocations fail.

The answers.  `AnswerInv` gives, for each state of a transaction, the only FIFO and
the only number of answers it can have there (`Fits`), and says at which places
of the thread nothing is queued but an expired timer.  A wake-up made when none
is pending finds memory because the loop holds at most one of two (`NoLeakedEvent`).
At the poll all is quiet, and a quiet transaction was answered as often as it
should be.  From the same invariant every step of `EsOsip` is a step or a stutter
of `SipUas`: a request is accepted only when all are quiet, so none waits; a
`SND_STATUS_2XX` is taken only by a transaction that was not answered.

When allocations fail `AnswerInv` is false, for a FIFO can hold anything a failed
wake-up left there.  What remains is `OnceInv`, which looks at the state of a transaction
only: while it is in a state `Before` its answer it was answered by no one, a request
esip does not answer has no answer in its FIFO, and no state counts two
answers.  It is inductive with the types alone, and with it the refinement of
the weaker `SipUas` that `MemoryMayFail` gives.

The end of a pass.  `Work` orders what is left: the datagram, the requests whose state
machine has not run, the wake-ups in `pendingEv`, those in the active queue, the place
of the thread, the events in the FIFOs.  A step may raise what comes later (a request makes
a wake-up, `FinishIteration` queues timers) but lowers what comes before.  Each part is a
number, so a pass cannot go on for ever: this is what `ReturnsToPoll` rests on beside
the fairness of `Run`, and it is proved for every finite memory.

The program.  Of all of main only `es_osip_deinit` touches the SIP core: it frees
what is pending.  `LoopInv` says that priority 1 runs, and the loop is left, only at
the poll, where the core is idle (`PollIsIdle`), so it frees nothing, every step of the
program is one of `EsOsip` or leaves it alone, and what is proved of
`EsOsip` holds of the program.  `LeftAtExit` joins what no single part knows: `HeldInv`,
what main holds at each place (`Started`); `AnswerInv` and `DialogInv` at the poll
(`KeptAtPoll`), by which each accepted request still has its transaction and each IST has ended and
has its dialog; and the account of descriptors of `EsCli`.  When allocations fail a wake-up may be pending at the poll, and
`es_osip_deinit` frees it: that step is none of `EsOsip`, but it keeps `CoreInv` (the types,
`OnceInv`, `DialogInv`, `NoDanglingEvent`), and to `SipUas` it is a stutter.

The callers.  `NetInv` says of every datagram under way, in flight or in the buffer, that
its caller asked, that a request is its caller's own and that an ACK belongs to
an INVITE; so a transaction has the request of its branch.  Without failures
`NamesInv` says that each answer and ACK under way and each answer received names a
dialog: the state machine confirms the dialog in the step that sends the answer
(`ServeConfirms`), and no dialog is removed or changes its request (`DialogsStay`), so a name
that is right when the answer is sent is right when its ACK arrives (`NamesStay`).  That
is `CallersDialogExists`, and at `ReadAck` it is `AckFindsDialog`.

`NoAmplification` is an account of copies.  `CountInv`: for each caller, the transactions
opened for it (`Served`), its requests in the buffer (`Queued`) and those in flight (`Flying`) are
together at most the copies it sent.  Each step moves a copy from one to the
next or drops it, and sending adds one to both sides.  With `OnceInv` each of those
transactions answers once at most, whichever allocations fail.

An answer that goes out without a tag, or as an empty text (`Outgoing`), is one answer
of its copy still, so the account holds; it names no dialog, which is why
`CallersDialogExists` and `AckFindsDialog` need `~MemoryMayFail`.

The transport.  `DeliversWhatArrived` says that an order-preserving map exists from the
calls of `msg_recv_cb` to the datagrams they are about.  It is inductive with the types: a
read that is delivered extends the map by its last element, an empty or failed
one leaves it, and an arrival adds nothing to what was read.

The CLI.  `AloneOwnsStream` and `CrashNeedsOverlap` follow from `SessionInv`: as long as
sessions do not overlap there is one at most, its connection is open from the
accept to its `fclose`, and while it runs it has the stream.  `DescriptorBalance` is made
inductive by adding that the open descriptors are finitely many (`BalanceInv`): the
listener adds one to both sides (`BothGrow`), an `fclose` takes the open stream, whoever's
it is, from one side and its session from the other (`BothShrink`), and one that finds no
open stream is a crash.

The CLI in the program.  `CliMain` maps main's places to those of `EsCli`; each step
of `Esip` is a step of `EsCli` or leaves its variables alone (`CliStep`), for the listener runs only in
the loop, between `es_cli_start` and `es_cli_stop` (`CliOfMain`).  Then the theorems of
`EsCliProofs` are cited for the program (`ProgramKeepsCli`).

Only model-checked: liveness (`ReturnsToPoll`, `TimersServedByTraffic`,
`EventuallyRead`, `AloneSilentIsClosed`, `ColourIsReset`, `EveryCallerAnswered`,
`SigintEnds`, and the liveness of `SipUas` in `ImplementsUas`), because the prover does
not handle fairness and ENABLED; of `ReturnsToPoll` the measure is proved.  Every invariant of a passing run is proved.

## Not modelled

- The provisional and error classes of responses: esip only asks whether the
  response belongs to an IST.
- Client transactions (ICT, NICT): esip never makes one.
- The reuse of a freed `osip_event_t` (see `ExecuteFreed`).
- An answer without memory for a header that neither osip nor the caller needs
  (`esomsg.c` 166, 225-228), and a To whose tag parameter has no value.
- A session that gets the descriptor number of one that was closed: `EsCli`
  names connections, not numbers.
- A failed `recvfrom` in `EsNet`: what `es_osip_parse_msg` makes of -1 bytes is the
  parser's; `EsTransport` has the call, `RecvRefused` its result.
- The listener's error callback, which logs "Shutting down." and shuts nothing
  down (`escli.c` 205-222), and what is under `#if 0`.
- `es_msg_init`, `es_transport_set_dscp`, `es_log_init` and the rest of the log's
  interface: nothing calls them.
- The text of messages and command-line options.
- `src/tst`: experiments and manual clients.

## Plan

Done: `SipUas`, `EsOsip`, `EsNet`, `EsTransport`, `EsCli`, `EsLog`, `Esip`, and the proofs
above: every invariant of the runs, and the refinements of `SipUas`.  What could still
be added:

1. What the core keeps of the order of requests when allocations fail: which of two
   waiting requests the next wake-up answers first.
2. An abstract specification of the callers' side (a request is asked, perhaps
   lost, answered at most once per copy) that `EsNet` implements.
3. `es_msg_init` and client transactions, when the program makes requests.
4. The interface of the log, when the program changes a level or a handler.
