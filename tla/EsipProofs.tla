----------------------------- MODULE EsipProofs -----------------------------
(***************************************************************************)
(* Proofs about the whole program: the SIP core keeps its promises under    *)
(* main and the two priorities of the loop, whichever allocations fail,     *)
(* SIGINT stops it between two requests while none does, the CLI keeps its  *)
(* promises under main, too, and a normal exit leaves what is named and no  *)
(* more.                                                                    *)
(***************************************************************************)
EXTENDS Esip, EsOsipAnswers

(* What is proved of the CLI for any main. *)
CliProofs == INSTANCE EsCliProofs WITH main <- CliMain

(* What is known of the SIP core while memory lasts (EsOsipAnswers). *)
SipInv == TypeOK /\ EventInv /\ RequestInv /\ NoLeakedEvent /\ AnswerInv

(* A pass of priority 1 runs, and the loop is left, only while the SIP core *)
(* is at the poll.                                                          *)
LoopInv == pass \/ at \in Down \cup {"exit", "done"} => pc = "poll"

(* What main has on its way in and out. *)
Started(place) ==
  CASE place = "base" -> {}
    [] place = "evsig" -> {"cfg", "base"}
    [] place = "osip_init" -> BasePart
    [] place = "cli_init" -> BasePart \cup OsipPart
    [] place \in {"cli_start", "osip_start"} -> Resource \ {"udpEvent"}
    [] place \in {"loop", "osip_stop"} -> Resource
    [] place \in {"cli_stop", "osip_deinit"} -> Resource \ {"udpEvent"}
    [] place = "cli_deinit" -> BasePart \cup CliPart \cup {"listenFd"}
    [] place = "exit" -> BasePart \cup {"listenFd"}
    [] place = "done" -> {"listenFd"}

HeldInv ==
  /\ at \in Up \cup Down \cup {"loop", "exit", "error", "done", "failed", "crashed"}
  /\ at \notin {"error", "failed", "crashed"} => held = Started(at)
-----------------------------------------------------------------------------
(* The SIP core under main *)

(* At the poll nothing is pending, active or allocated. *)
LEMMA PollIsIdle ==
  ASSUME SipInv, pc = "poll"
  PROVE  pendingEv = <<>> /\ live = {} /\ active = {}
  <1>1. pendingEv = <<>> /\ cur = NoEv
    BY DEF SipInv, EventInv
  <1>2. ToSet(<<>>) = {}
    BY DEF ToSet
  <1>3. live = {} /\ active \subseteq {NoEv} /\ Udp \notin active
    BY <1>1, <1>2 DEF SipInv, NoLeakedEvent, EventInv
  <1> QED BY <1>1, <1>3, EvAssumption DEF SipInv, TypeOK, EvAssumption

(* es_osip_deinit finds no event to free. *)
LEMMA DeinitFreesNothing ==
  ASSUME SipInv, LoopInv, OsipDeinit
  PROVE  UNCHANGED vars
  <1>1. pc = "poll"
    BY DEF OsipDeinit, LoopInv, Down
  <1>2. pendingEv = <<>> /\ live = {} /\ active = {}
    BY <1>1, PollIsIdle
  <1>3. pendingEv' = <<>> /\ live' = {} /\ active' = {}
    BY <1>2 DEF OsipDeinit
  <1> QED BY <1>2, <1>3 DEF OsipDeinit, vars

(* Every step of the program is one of EsOsip, leaves the SIP core alone or  *)
(* is the release of the SIP stack.                                         *)
LEMMA SipOrDeinit == [EsipNext]_esipVars => [Next]_vars \/ OsipDeinit
  <1> SUFFICES ASSUME [EsipNext]_esipVars, ~UNCHANGED vars PROVE Next \/ OsipDeinit
    OBVIOUS
  <1>1. MainNext \/ SessionStep \/ Sigint \/ Connect
    BY DEF esipVars, EsipNext
  <1>2. CASE BringUp
    BY <1>2 DEF BringUp, CreateBase, CreateSignal, OsipInit, CliInit, CliStart, OsipStart, Step
  <1>3. CASE TakeDown
    BY <1>3 DEF TakeDown, OsipStop, CliStop, CliDeinit, Release, Exit
  <1>4. CASE Callback
    BY <1>4 DEF Callback, RunSip, SignalCb, LoopExitCb, ListenerCb, PassDone, LeaveLoop, Next
  <1>5. CASE PollUdp
    BY <1>5 DEF PollUdp, NoQueue, Next
  <1>6. CASE PollQuiet \/ DispatchFails \/ SessionStep \/ Sigint \/ Connect
    BY <1>6 DEF PollQuiet, NoQueue, DispatchFails, SessionStep, Sigint, Connect
  <1> QED BY <1>1, <1>2, <1>3, <1>4, <1>5, <1>6 DEF MainNext

(* While memory lasts the release leaves the SIP core alone, too. *)
LEMMA SipStep == SipInv /\ LoopInv /\ [EsipNext]_esipVars => [Next]_vars
  BY SipOrDeinit, DeinitFreesNothing

(* A callback of priority 0 does not run at the poll. *)
LEMMA RunNotAtPoll == Run => pc # "poll"
  <1>1. Receive => pc # "poll"
    BY DEF Receive, Reading, RecvRefused, RecvResponse, RecvResponseFails, RecvAck,
           RecvInvite, RecvRequest, Open
  <1>2. RunWakeup \/ ProcessDone \/ LoopPop \/ LoopReturn \/ IstDone \/ NistDone
          \/ FinishIteration => pc # "poll"
    BY DEF RunWakeup, ProcessDone, LoopPop, LoopReturn, IstDone, NistDone, FinishIteration
  <1>3. \A t \in Tid : ExecuteIst(t) \/ ExecuteNist(t) => pc # "poll"
    BY DEF ExecuteIst, ExecuteNist, IstRcvInvite, IstSnd2xx, IstIgnore,
           NistRcvRequest, NistSnd2xx, NistTimeoutJ
  <1>4. \A t \in Tid : ExecuteFails(t) => pc # "poll"
    BY DEF ExecuteFails, ExecuteFreed, ToCloneFails, SendFails, Answering
  <1> QED BY <1>1, <1>2, <1>3, <1>4 DEF Run

(* Nothing of priority 0 runs between the pass of priority 1 and the end of *)
(* the loop.                                                                *)
LEMMA LoopNext == SipInv /\ LoopInv /\ [EsipNext]_esipVars => LoopInv'
  <1> SUFFICES ASSUME SipInv, LoopInv, [EsipNext]_esipVars PROVE LoopInv'
    OBVIOUS
  <1> USE DEF LoopInv, Down
  <1>1. CASE UNCHANGED esipVars \/ SessionStep
    BY <1>1 DEF esipVars, mainVars, loopVars, vars, SessionStep
  <1>2. CASE BringUp
    BY <1>2 DEF BringUp, CreateBase, CreateSignal, OsipInit, CliInit, CliStart, OsipStart,
                Step, loopVars, vars
  <1>3. CASE OsipStop \/ CliStop \/ CliDeinit \/ Exit
    BY <1>3 DEF OsipStop, CliStop, CliDeinit, Release, Exit, loopVars, vars
  <1>4. CASE OsipDeinit
    BY <1>4 DEF OsipDeinit, loopVars
  <1>5. CASE RunSip
    BY <1>5, RunNotAtPoll DEF RunSip, mainVars, loopVars
  <1>6. CASE SignalCb \/ LoopExitCb \/ ListenerCb \/ PassDone \/ LeaveLoop
    BY <1>6 DEF SignalCb, LoopExitCb, ListenerCb, PassDone, LeaveLoop,
                mainVars, loopVars, vars
  <1>7. CASE PollUdp
    BY <1>7 DEF PollUdp, NoQueue, AtPoll, mainVars, loopVars
  <1>8. CASE PollQuiet \/ DispatchFails
    BY <1>8 DEF PollQuiet, NoQueue, DispatchFails, AtPoll, mainVars, loopVars, vars
  <1>9. CASE Sigint \/ Connect
    BY <1>9 DEF Sigint, Connect, mainVars, vars
  <1> QED BY <1>1, <1>2, <1>3, <1>4, <1>5, <1>6, <1>7, <1>8, <1>9
          DEF EsipNext, MainNext, TakeDown, Callback

(* The two invariants hold of the program together. *)
LEMMA ProgramHolds ==
  ASSUME ~MemoryMayFail, TwoEvents
  PROVE  EsipSpec => [](SipInv /\ LoopInv) /\ Spec
  <1>1. EsipInit => SipInv /\ LoopInv /\ Init
    <2>1. Init => SipInv
      <3>1. ToSet(<<>>) = {}
        BY DEF ToSet
      <3> QED BY <3>1, TypeInit, EventInit, AnswerInit DEF SipInv, Init, NoLeakedEvent
    <2> QED BY <2>1 DEF EsipInit, LoopInv, Init
  <1>2. SipInv /\ [Next]_vars => SipInv'
    BY TypeNext, EventNext, RequestNext, LeakNext, AnswerNext DEF SipInv
  <1> QED BY <1>1, <1>2, SipStep, LoopNext, PTL DEF EsipSpec, Spec
-----------------------------------------------------------------------------
(* esip.c 141-202 changes nothing of what EsOsip shows: main and the        *)
(* callbacks of priority 1 leave the SIP core alone, so that the program    *)
(* behaves as EsOsip does.                                                  *)
THEOREM ProgramImplementsSip ==
  ASSUME ~MemoryMayFail, TwoEvents
  PROVE  EsipSpec => Spec
  BY ProgramHolds, PTL

(* esip.c 74-81 and 196-200: SIGINT stops the loop between two requests,    *)
(* all of them answered, and es_osip_deinit frees nothing under a callback. *)
THEOREM StopsBetweenRequestsHolds ==
  ASSUME ~MemoryMayFail, TwoEvents
  PROVE  EsipSpec => []StopsBetweenRequests
  <1>1. SipInv /\ LoopInv /\ AnsweredAtPoll => StopsBetweenRequests
    BY PollIsIdle DEF LoopInv, StopsBetweenRequests
  <1> QED BY <1>1, ProgramHolds, AnsweredAtPollHolds, PTL
-----------------------------------------------------------------------------
(* The SIP core under main, whichever allocations fail *)

(* What is known of it then. *)
CoreInv == TypeOK /\ OnceInv /\ DialogInv /\ NoDanglingEvent

(* es_osip_deinit frees only events that nothing uses any more, and no      *)
(* transaction or dialog.                                                   *)
LEMMA DeinitKeeps ==
  ASSUME CoreInv, OsipDeinit
  PROVE  CoreInv' /\ UNCHANGED <<tstate, req, fifo, sent, osipDialog>>
  <1> USE DEF CoreInv
  <1>1. /\ UNCHANGED <<pc, cur, tstate, req, fifo, sent, osipDialog, stopArg>>
        /\ live' = live \ ToSet(pendingEv) /\ active' = active \ ToSet(pendingEv)
        /\ pendingEv' = <<>>
    BY DEF OsipDeinit, ToSet
  <1>2. KindOK'
    BY <1>1, KindKept DEF TypeOK
  <1>3. TypeOK'
    BY <1>1, <1>2, EmptySeq DEF TypeOK
  <1>4. OnceInv' /\ DialogInv'
    BY <1>1 DEF OnceInv, Once, DialogInv
  <1>5. ToSet(<<>>) = {} /\ DOMAIN <<>> = {}
    BY DEF ToSet
  <1>6. NoDanglingEvent'
    BY <1>1, <1>5 DEF NoDanglingEvent
  <1> QED BY <1>1, <1>3, <1>4, <1>6

(* It holds of the program. *)
LEMMA CoreHolds == EsipSpec => []CoreInv
  <1>1. Init => CoreInv
    <2>1. ToSet(<<>>) = {} /\ DOMAIN <<>> = {}
      BY DEF ToSet
    <2>2. Init => DialogInv /\ NoDanglingEvent
      BY <2>1 DEF Init, DialogInv, NoDanglingEvent
    <2> QED BY <2>2, TypeInit, OnceInit DEF CoreInv
  <1>2. CoreInv /\ [Next]_vars => CoreInv'
    BY TypeNext, OnceNext, DialogNext, DanglingNext DEF CoreInv
  <1>3. CoreInv /\ [EsipNext]_esipVars => CoreInv'
    BY <1>2, SipOrDeinit, DeinitKeeps
  <1> QED BY <1>1, <1>3, PTL DEF EsipSpec, EsipInit

(* esosip.c and esip.c together, whichever allocations fail: no wake-up is  *)
(* used after its release, those that es_osip_deinit (247) frees included.  *)
THEOREM ProgramNoDanglingEvent == EsipSpec => []NoDanglingEvent
  BY CoreHolds, PTL DEF CoreInv

(* And every dialog comes from one INVITE that was answered once.           *)
THEOREM ProgramDialogPerInvite == EsipSpec => []DialogPerInvite
  <1>1. CoreInv => DialogPerInvite
    BY DEF CoreInv, DialogInv, DialogPerInvite
  <1> QED BY <1>1, CoreHolds, PTL

(* The callers of the program see SipUas, from its start to its shutdown by *)
(* SIGINT, under the assumptions of StepsImplementUas.                      *)
THEOREM ProgramImplementsUas ==
  ASSUME MemoryMayFail \/ TwoEvents
  PROVE  EsipSpec => KeepsUas
  <1>1. EsipInit => Uas!Init
    BY UasInit DEF EsipInit
  <1>2. CASE MemoryMayFail
    <2>1. CoreInv => UasInv
      BY <1>2 DEF CoreInv, UasInv
    <2>2. CoreInv /\ OsipDeinit => UNCHANGED Uas!uasVars
      BY DeinitKeeps DEF Uas!uasVars
    <2>3. CoreInv /\ [EsipNext]_esipVars => [Uas!Next]_(Uas!uasVars)
      BY <2>1, <2>2, UasNext, SipOrDeinit
    <2> QED BY <1>1, <2>3, CoreHolds, PTL DEF EsipSpec, KeepsUas, Uas!Spec
  <1>3. CASE ~MemoryMayFail
    BY <1>3, ProgramHolds, StepsImplementUas, PTL
  <1> QED BY <1>2, <1>3
-----------------------------------------------------------------------------
(* Each step of main has acquired or released what Started says. *)
LEMMA HeldNext == HeldInv /\ [EsipNext]_esipVars => HeldInv'
  <1> SUFFICES ASSUME HeldInv, [EsipNext]_esipVars PROVE HeldInv'
    OBVIOUS
  <1> USE DEF HeldInv, Up, Down
  <1>1. ASSUME UNCHANGED mainVars PROVE HeldInv'
    BY <1>1 DEF mainVars
  <1>2. CASE UNCHANGED esipVars \/ PollUdp \/ PollQuiet \/ Sigint \/ Connect
             \/ RunSip \/ SignalCb \/ LoopExitCb \/ ListenerCb \/ PassDone
             \/ SessionStep \/ DispatchFails
    BY <1>1, <1>2 DEF esipVars, mainVars, PollUdp, PollQuiet, NoQueue, DispatchFails, Sigint,
                      Connect, RunSip, SignalCb, LoopExitCb, ListenerCb, PassDone, SessionStep
  <1>3. CASE BringUp
    BY <1>3 DEF BringUp, CreateBase, CreateSignal, OsipInit, CliInit, CliStart, OsipStart,
                Step, Started, BasePart, OsipPart, TransportPart, CliPart, Resource
  <1>4. CASE LeaveLoop
    BY <1>4 DEF LeaveLoop, Started
  <1>5. CASE OsipStop \/ CliStop \/ OsipDeinit \/ CliDeinit
    BY <1>5 DEF OsipStop, CliStop, OsipDeinit, CliDeinit, Release,
                Started, BasePart, OsipPart, TransportPart, CliPart, Resource
  <1>6. CASE Exit
    BY <1>6 DEF Exit, Started, BasePart
  <1> QED BY <1>2, <1>3, <1>4, <1>5, <1>6 DEF EsipNext, MainNext, TakeDown, Callback

(* main has made and released what Started says. *)
LEMMA HeldHolds == EsipSpec => []HeldInv
  <1>1. EsipInit => HeldInv
    BY DEF EsipInit, HeldInv, Up, Started
  <1> QED BY <1>1, HeldNext, PTL DEF EsipSpec
-----------------------------------------------------------------------------
(* The CLI under main *)

(* The actions of the CLI are those EsCliProofs is about. *)
LEMMA SameSession ==
  ASSUME NEW c \in Conn
  PROVE  /\ Cli!Session(c) => CliProofs!Session(c)
         /\ Cli!GoSilent(c) => CliProofs!GoSilent(c)
         /\ Cli!EvConnListener(c) => CliProofs!EvConnListener(c)
  <1>1. Cli!Session(c) => CliProofs!Session(c)
    BY DEF Cli!Session, Cli!CliLoopStart, Cli!CliInput, Cli!CliRegular, Cli!CliQuit,
           Cli!CliTimeout, Cli!CliLoopEnd, Cli!CliReturn, Cli!MayCrash, Cli!Fclose,
           CliProofs!Session, CliProofs!CliLoopStart, CliProofs!CliInput,
           CliProofs!CliRegular, CliProofs!CliQuit, CliProofs!CliTimeout,
           CliProofs!CliLoopEnd, CliProofs!CliReturn, CliProofs!MayCrash, CliProofs!Fclose
  <1>2. Cli!GoSilent(c) => CliProofs!GoSilent(c)
    BY DEF Cli!GoSilent, CliProofs!GoSilent
  <1>3. /\ Cli!Sessions = CliProofs!Sessions
        /\ Cli!Cardinality(Cli!Sessions) = CliProofs!Cardinality(CliProofs!Sessions)
    BY DEF Cli!Cardinality, Cli!Sessions, CliProofs!Cardinality, CliProofs!Sessions
  <1>4. Cli!EvConnListener(c) => CliProofs!EvConnListener(c)
    BY <1>3 DEF Cli!EvConnListener, CliProofs!EvConnListener
  <1> QED BY <1>1, <1>2, <1>4

(* So every behaviour of the CLI is one that EsCliProofs is about. *)
LEMMA SameCli == Cli!Spec => CliProofs!Spec
  <1>1. Cli!Init => CliProofs!Init
    BY DEF Cli!Init, CliProofs!Init
  <1>2. [Cli!Next]_(Cli!vars) => [CliProofs!Next]_(CliProofs!vars)
    <2>1. Cli!CliStart \/ Cli!CliStop \/ Cli!CliDeinit \/ Cli!Tick =>
            CliProofs!CliStart \/ CliProofs!CliStop \/ CliProofs!CliDeinit \/ CliProofs!Tick
      BY DEF Cli!CliStart, Cli!CliStop, Cli!CliDeinit, Cli!Tick, Cli!threadVars,
             CliProofs!CliStart, CliProofs!CliStop, CliProofs!CliDeinit, CliProofs!Tick,
             CliProofs!threadVars
    <2>2. UNCHANGED Cli!vars => UNCHANGED CliProofs!vars
      BY DEF Cli!vars, CliProofs!vars
    <2> QED BY <2>1, <2>2, SameSession DEF Cli!Next, CliProofs!Next
  <1> QED BY <1>1, <1>2, PTL DEF Cli!Spec, CliProofs!Spec

(* A step that leaves the sessions alone starts, stops or frees the CLI, or *)
(* nothing.                                                                 *)
LEMMA CliOfMain ==
  ASSUME UNCHANGED cliVars, ~crashed,
         \/ CliMain' = CliMain
         \/ CliMain = "init" /\ CliMain' = "start"
         \/ CliMain = "start" /\ CliMain' = "stop"
         \/ CliMain = "stop" /\ CliMain' = "deinit"
  PROVE  [Cli!Next]_(Cli!vars)
  BY DEF cliVars, Cli!Next, Cli!vars, Cli!CliStart, Cli!CliStop, Cli!CliDeinit,
         Cli!threadVars

(* Every step of the program is one of the CLI, or none. *)
LEMMA CliStep == [EsipNext]_esipVars => [Cli!Next]_(Cli!vars)
  <1> SUFFICES ASSUME [EsipNext]_esipVars PROVE [Cli!Next]_(Cli!vars)
    OBVIOUS
  <1>1. CASE UNCHANGED esipVars
    BY <1>1 DEF esipVars, mainVars, cliVars, CliMain, Cli!vars
  <1>2. ASSUME EsipNext PROVE ~crashed
    BY <1>2 DEF EsipNext
  <1>3. ASSUME UNCHANGED cliVars, UNCHANGED at, ~crashed PROVE [Cli!Next]_(Cli!vars)
    BY <1>3, CliOfMain DEF CliMain
  <1>4. CASE ~crashed /\ BringUp
    <2>1. UNCHANGED cliVars
      BY <1>4 DEF BringUp, CreateBase, CreateSignal, OsipInit, CliInit, CliStart, OsipStart,
                  Step
    <2>2. \/ at \in Up \ {"osip_start"} /\ at' \in Up \cup {"error", "crashed"}
          \/ at = "osip_start" /\ at' \in {"loop", "error"}
      BY <1>4 DEF BringUp, CreateBase, CreateSignal, OsipInit, CliInit, CliStart, OsipStart,
                  Step, Up
    <2>3. \/ CliMain' = CliMain
          \/ CliMain = "init" /\ CliMain' = "start"
      BY <2>2 DEF CliMain, Up
    <2> QED BY <1>4, <2>1, <2>3, CliOfMain
  <1>5. CASE ~crashed /\ TakeDown
    <2>1. UNCHANGED cliVars
      BY <1>5 DEF TakeDown, OsipStop, CliStop, OsipDeinit, CliDeinit, Release, Exit
    <2>2. \/ at = "osip_stop" /\ at' = "cli_stop"
          \/ at = "cli_stop" /\ at' = "osip_deinit"
          \/ at = "osip_deinit" /\ at' = "cli_deinit"
          \/ at = "cli_deinit" /\ at' = "exit"
          \/ at = "exit" /\ at' = "done"
          \/ at = "error" /\ at' \in {"failed", "crashed"}
      BY <1>5 DEF TakeDown, OsipStop, CliStop, OsipDeinit, CliDeinit, Release, Exit
    <2>3. \/ CliMain' = CliMain
          \/ CliMain = "start" /\ CliMain' = "stop"
          \/ CliMain = "stop" /\ CliMain' = "deinit"
      BY <2>2 DEF CliMain
    <2> QED BY <1>5, <2>1, <2>3, CliOfMain
  <1>6. CASE ~crashed /\ (LeaveLoop \/ DispatchFails \/ (NoQueue /\ AtPoll))
    <2>1. UNCHANGED cliVars /\ at = "loop" /\ at' \in {"osip_stop", "error", "crashed"}
      BY <1>6 DEF LeaveLoop, DispatchFails, NoQueue, AtPoll
    <2>2. CliMain' = CliMain
      BY <2>1 DEF CliMain
    <2> QED BY <1>6, <2>1, <2>2, CliOfMain
  <1>7. CASE ~crashed /\ (PollUdp \/ PollQuiet)
    BY <1>3, <1>6, <1>7 DEF PollUdp, PollQuiet, mainVars
  <1>8. CASE ~crashed /\ (RunSip \/ SignalCb \/ LoopExitCb \/ PassDone \/ Sigint \/ Connect)
    BY <1>3, <1>8 DEF RunSip, SignalCb, LoopExitCb, PassDone, Sigint, Connect, mainVars
  <1>9. CASE ~crashed /\ ListenerCb
    <2>1. CASE UNCHANGED cliVars
      BY <1>3, <1>9, <2>1 DEF ListenerCb, mainVars
    <2>2. CASE \E c \in Conn : Cli!EvConnListener(c)
      BY <2>2 DEF Cli!Next
    <2> QED BY <1>9, <2>1, <2>2 DEF ListenerCb
  <1>10. CASE SessionStep
    BY <1>10 DEF SessionStep, Cli!Next
  <1>11. CASE EsipNext
    BY <1>2, <1>4, <1>5, <1>6, <1>7, <1>8, <1>9, <1>10, <1>11
       DEF EsipNext, MainNext, Callback
  <1> QED BY <1>1, <1>11

(* esip.c 173-200: main, SIGINT and the SIP traffic use the CLI as EsCli    *)
(* says, so that the program's CLI behaves as EsCli does.                   *)
THEOREM ProgramImplementsCli == EsipSpec => ImplementsCli
  <1>1. EsipInit => Cli!Init
    BY DEF EsipInit
  <1> QED BY <1>1, CliStep, PTL DEF EsipSpec, ImplementsCli, Cli!Spec

(* What EsCliProofs shows of the CLI holds in the program: its types, the   *)
(* account of descriptors, and that only overlapping sessions or the        *)
(* shutdown make a session use another's stream or what was freed.          *)
THEOREM ProgramKeepsCli ==
  EsipSpec => [](/\ Cli!TypeOK /\ Cli!DescriptorBalance
                 /\ Cli!AloneOwnsStream /\ Cli!CrashNeedsOverlap)
  <1>1. CliProofs!ConnAssumption
    BY CliAssumption DEF CliAssumption, CliProofs!ConnAssumption
  <1>2. CliProofs!LimitAssumption
    BY CliAssumption DEF CliAssumption, CliProofs!LimitAssumption
  <1>3. CliProofs!Spec => [](/\ CliProofs!TypeOK /\ CliProofs!DescriptorBalance
                             /\ CliProofs!AloneOwnsStream /\ CliProofs!CrashNeedsOverlap)
    BY <1>1, <1>2, CliProofs!TypeCorrect, CliProofs!DescriptorBalanceHolds,
       CliProofs!AloneOwnsStreamHolds, CliProofs!CrashNeedsOverlapHolds, PTL
  <1>4. CliProofs!TypeOK => Cli!TypeOK
    BY DEF CliProofs!TypeOK, Cli!TypeOK, CliProofs!ThreadState, Cli!ThreadState
  <1>5. CliProofs!DescriptorBalance => Cli!DescriptorBalance
    BY DEF CliProofs!DescriptorBalance, CliProofs!Owed, CliProofs!Cardinality,
           Cli!DescriptorBalance, Cli!Owed, Cli!Cardinality
  <1>6. CliProofs!AloneOwnsStream => Cli!AloneOwnsStream
    BY DEF CliProofs!AloneOwnsStream, CliProofs!OwnStream, Cli!AloneOwnsStream, Cli!OwnStream
  <1>7. CliProofs!CrashNeedsOverlap => Cli!CrashNeedsOverlap
    BY DEF CliProofs!CrashNeedsOverlap, Cli!CrashNeedsOverlap
  <1> QED BY <1>3, <1>4, <1>5, <1>6, <1>7, SameCli, ProgramImplementsCli, PTL
          DEF ImplementsCli
-----------------------------------------------------------------------------
(* While memory lasts, what the SIP core keeps at the poll is a transaction *)
(* of each request and a dialog of each IST.                                *)
LEMMA KeptAtPoll ==
  ASSUME ~MemoryMayFail, SipInv, DialogInv, pc = "poll"
  PROVE  /\ Ist \cup Nist = {t \in Tid : req[t] # NoReq}
         /\ ToSet(osipDialog) = Ist
  <1>1. \A t \in Tid : FitsAt(t) /\ Quiet(t)
    BY DEF SipInv, AnswerInv
  <1>2. \A t \in Tid : tstate[t] # "none" <=> req[t] # NoReq
    BY DEF SipInv, TypeOK, KindOK
  <1>3. \A t \in Tid : tstate[t] \in IstState \cup NistState \cup {"none"}
    BY <1>1 DEF FitsAt, Fits, IstState, NistState
  <1>4. Ist \cup Nist = {t \in Tid : req[t] # NoReq}
    BY <1>2, <1>3 DEF Ist, Nist, IstState, NistState
  <1>5. \A t \in Ist : tstate[t] = "IST_TERMINATED"
    <2> SUFFICES ASSUME NEW t \in Ist PROVE tstate[t] = "IST_TERMINATED"
      OBVIOUS
    <2>1. fifo[t] # <<"RCV_REQINVITE">> /\ fifo[t] # <<"SND_STATUS_2XX">>
      BY <1>1, OneEvent DEF Quiet, Ist, FifoEvent
    <2> QED BY <1>1, <2>1 DEF FitsAt, Fits, Ist, IstState
  <1>6. Ist \subseteq ToSet(osipDialog)
    BY <1>5 DEF DialogInv, Ist
  <1>7. osipDialog \in Seq(Tid)
    BY DEF SipInv, TypeOK
  <1>8. ToSet(osipDialog) \subseteq Tid
    BY <1>7 DEF ToSet
  <1>9. \A t \in ToSet(osipDialog) : t \in Ist
    BY <1>3, <1>8 DEF DialogInv, Ist, IstState, NistState
  <1> QED BY <1>4, <1>6, <1>9

(* esip.c 80 and 196-217, esosip.c 247-253, 621, escli.c 351-372: what a    *)
(* program that came up and was stopped has left when main returns, as long *)
(* as no allocation of the SIP core fails: the socket of escli.c:282, the   *)
(* transactions and dialogs, and the descriptors of sessions that did not   *)
(* end.                                                                     *)
THEOREM LeftAtExitHolds ==
  ASSUME ~MemoryMayFail, TwoEvents
  PROVE  EsipSpec => []LeftAtExit
  <1>1. SipInv /\ LoopInv /\ CoreInv /\ HeldInv /\ Cli!DescriptorBalance => LeftAtExit
    <2> SUFFICES ASSUME SipInv, LoopInv, CoreInv, HeldInv, Cli!DescriptorBalance,
                        at = "done"
                 PROVE  LeftAtExit
      BY DEF LeftAtExit
    <2>1. held = {"listenFd"}
      BY DEF HeldInv, Started
    <2>2. pc = "poll"
      BY DEF LoopInv
    <2>3. live = {}
      BY <2>2, PollIsIdle
    <2>4. DialogInv
      BY DEF CoreInv
    <2> QED BY <2>1, <2>2, <2>3, <2>4, KeptAtPoll DEF LeftAtExit
  <1> QED BY <1>1, ProgramHolds, CoreHolds, HeldHolds, ProgramKeepsCli, PTL
-----------------------------------------------------------------------------
(* The types of the loop's own variables, and what main may hold. *)
MainTypes ==
  /\ held \subseteq Resource
  /\ priorities \in 0 .. 2
  /\ {sigint, conn, pass, gotterm} \subseteq BOOLEAN
  /\ prio1 \subseteq {"evsig", "listener", "loopexit"}

(* What each action writes has its type. *)
LEMMA MainTypesNext == MainTypes /\ [EsipNext]_esipVars => MainTypes'
  <1> SUFFICES ASSUME MainTypes, [EsipNext]_esipVars PROVE MainTypes'
    OBVIOUS
  <1>1. CASE UNCHANGED esipVars \/ LeaveLoop \/ DispatchFails \/ NoQueue \/ RunSip
             \/ SessionStep
    BY <1>1 DEF MainTypes, esipVars, mainVars, loopVars, LeaveLoop, DispatchFails, NoQueue,
                RunSip, SessionStep
  <1>2. ASSUME NEW from, NEW to, NEW acquired \in SUBSET Resource,
               NEW leftBehind \in SUBSET SUBSET Resource, Step(from, to, acquired, leftBehind)
        PROVE  MainTypes'
    BY <1>2 DEF MainTypes, Step, loopVars
  <1>3. CASE BringUp
    <2>1. CASE CreateBase
      BY <2>1 DEF CreateBase, MainTypes, loopVars, Resource, BasePart
    <2>2. /\ {"cfg", "base"} \in SUBSET Resource /\ {"evsig"} \in SUBSET Resource
          /\ OsipPart \in SUBSET Resource /\ TransportPart \in SUBSET Resource
          /\ {"cfg"} \in SUBSET Resource /\ {"cliDef"} \in SUBSET Resource
          /\ CliPart \cup {"listenFd"} \in SUBSET Resource
          /\ {"udpEvent"} \in SUBSET Resource /\ {} \in SUBSET Resource
      BY DEF Resource, BasePart, OsipPart, TransportPart, CliPart
    <2> QED BY <1>2, <1>3, <2>1, <2>2
            DEF BringUp, CreateSignal, OsipInit, CliInit, CliStart, OsipStart
  <1>4. CASE TakeDown
    BY <1>4 DEF MainTypes, TakeDown, OsipStop, CliStop, OsipDeinit, CliDeinit, Release, Exit,
                loopVars
  <1>5. CASE SignalCb \/ LoopExitCb \/ ListenerCb \/ PassDone
    BY <1>5 DEF MainTypes, SignalCb, LoopExitCb, ListenerCb, PassDone, mainVars
  <1>6. CASE PollUdp \/ PollQuiet
    BY <1>1, <1>6 DEF MainTypes, PollUdp, PollQuiet, TakeReady, Ready, mainVars
  <1>7. CASE Sigint \/ Connect
    BY <1>7 DEF MainTypes, Sigint, Connect, mainVars
  <1> QED BY <1>1, <1>3, <1>4, <1>5, <1>6, <1>7 DEF EsipNext, MainNext, Callback

(* esip.c 141-217: the types, and that the loop runs only with everything   *)
(* its callbacks use in place.                                              *)
THEOREM EsipTypeCorrect == EsipSpec => []EsipTypeOK
  <1>1. EsipInit => MainTypes
    <2>1. 1 \in 0 .. 2
      BY SMT
    <2> QED BY <2>1 DEF EsipInit, MainTypes
  <1>2. TypeOK /\ Cli!TypeOK /\ HeldInv /\ MainTypes => EsipTypeOK
    BY DEF HeldInv, MainTypes, EsipTypeOK, Started
  <1>3. EsipSpec => []TypeOK
    BY CoreHolds, PTL DEF CoreInv
  <1> QED BY <1>1, <1>2, <1>3, HeldHolds, ProgramKeepsCli, MainTypesNext, PTL DEF EsipSpec
==============================================================================
