-------------------------------- MODULE Esip --------------------------------
(***************************************************************************)
(* The whole program: main (src/esip.c) brings the SIP stack and the CLI    *)
(* up, runs the libevent loop until SIGINT and takes them down again.  The  *)
(* loop has two priorities (line 153): the UDP socket and the wake-ups run  *)
(* at 0 and are the actions of EsOsip; the signal, the listener and the     *)
(* exit of the loop have the default, 1.  The listener and the threads it   *)
(* starts are the actions of EsCli, which run while the loop does.          *)
(***************************************************************************)
EXTENDS EsOsip

CONSTANTS Conn, NoConn, MaxSessions, IdleLimit    \* those of EsCli

ASSUME CliAssumption ==
  NoConn \notin Conn /\ MaxSessions \in Nat /\ IdleLimit \in Nat \ {0}

VARIABLES
  at,        \* where main is
  held,      \* the parts main has made and not released
  priorities,  \* event_base.nactivequeues
  sigint,    \* a SIGINT is waiting for the poll
  conn,      \* a connection is waiting for the poll
  prio1,     \* the active queue of priority 1 (its order is left open)
  pass,      \* libevent is running the callbacks of priority 1
  gotterm,   \* event_base.event_gotterm
  thread, open, client, idle, silent, alone, crashed    \* those of EsCli

mainVars == <<at, held, priorities>>
loopVars == <<sigint, conn, prio1, pass, gotterm>>
cliVars == <<thread, open, client, idle, silent, alone, crashed>>
esipVars == <<mainVars, loopVars, cliVars, vars>>

Down == {"osip_stop", "cli_stop", "osip_deinit", "cli_deinit"}

(* What main has done to the CLI: the listener is enabled (es_cli_start),   *)
(* disabled (es_cli_stop) and freed (es_cli_deinit).  ERROR_EXIT does none  *)
(* of the two, whether or not it was enabled.                               *)
CliMain ==
  CASE at \in {"osip_start", "loop", "osip_stop", "cli_stop"} -> "start"
    [] at \in {"osip_deinit", "cli_deinit"} -> "stop"
    [] at \in {"exit", "done"} -> "deinit"
    [] at \in {"error", "failed", "crashed"} -> "start"
    [] OTHER -> "init"

Cli == INSTANCE EsCli WITH main <- CliMain
-----------------------------------------------------------------------------
(* What main makes, one of each; listenFd is the socket of escli.c:282, the *)
(* listener holds the one it made itself.  Wake-ups, transactions, dialogs  *)
(* and sessions are in the variables of EsOsip and EsCli.                   *)
TransportPart == {"transportCtx", "udpSocket"}
OsipPart == TransportPart \cup {"osipCtx", "osip"}
CliPart == {"cliCtx", "cliDef", "listener"}
BasePart == {"cfg", "base", "evsig"}
Resource == BasePart \cup OsipPart \cup CliPart \cup {"udpEvent", "listenFd"}

Up == {"base", "evsig", "osip_init", "cli_init", "cli_start", "osip_start"}

(* Types; the loop runs only when everything its callbacks use is there.    *)
EsipTypeOK ==
  /\ TypeOK /\ Cli!TypeOK
  /\ at \in Up \cup Down \cup {"loop", "exit", "error", "done", "failed", "crashed"}
  /\ held \subseteq Resource
  /\ priorities \in 0 .. 2
  /\ {sigint, conn, pass, gotterm} \subseteq BOOLEAN
  /\ prio1 \subseteq {"evsig", "listener", "loopexit"}
  /\ at = "loop" => held = Resource

EsipInit ==
  /\ Init
  /\ at = "base" /\ held = {} /\ priorities = 1
  /\ Cli!Init
  /\ sigint = FALSE /\ conn = FALSE
  /\ prio1 = {} /\ pass = FALSE /\ gotterm = FALSE
-----------------------------------------------------------------------------
(* One step of main that acquires: a success goes on, a failure goes to     *)
(* ERROR_EXIT with one of the sets its error paths leave behind.            *)
Step(from, to, acquired, leftBehind) ==
  /\ at = from
  /\ \/ at' = to /\ held' = held \cup acquired
     \/ at' = "error" /\ \E r \in leftBehind : held' = held \cup r
  /\ UNCHANGED <<priorities, loopVars, cliVars, vars>>

(* 141-155; event_config_avoid_method is given the configuration unchecked. *)
(* A failure of event_base_priority_init is logged: the base has kept the   *)
(* one queue it was made with, or has freed it before it missed the memory  *)
(* for two.                                                                 *)
CreateBase ==
  /\ at = "base"
  /\ \/ at' = "evsig" /\ held' = {"cfg", "base"} /\ priorities' \in 0 .. 2
     \/ at' = "error" /\ held' = {"cfg"} /\ UNCHANGED priorities
     \/ at' = "crashed" /\ UNCHANGED <<held, priorities>>
  /\ UNCHANGED <<loopVars, cliVars, vars>>

(* 157-166 *)
CreateSignal == Step("evsig", "osip_init", {"evsig"}, {{}, {"evsig"}})

(* es_osip_init: what fails after the transport is made leaves it (135-171) *)
OsipInit == Step("osip_init", "cli_init", OsipPart, {{}, TransportPart})

(* es_cli_init: a failure after cli_init leaves the cli_def (283-302)       *)
CliInit == Step("cli_init", "cli_start", CliPart \cup {"listenFd"}, {{}, {"cliDef"}})

(* es_cli_start enables the listener and cannot fail on a valid context.    *)
CliStart == Step("cli_start", "osip_start", {}, {})

MutantOsipStart ==
  Step("osip_start", "loop", {"udpEvent"}, {{}, {"udpEvent"}})
  \/ Step("osip_start", "loop", {}, {})

(* es_osip_start: bind, event_new, event_add (estransport.c 160-179)        *)
OsipStart == Step("osip_start", "loop", {"udpEvent"}, {{}, {"udpEvent"}})
-----------------------------------------------------------------------------
(* The environment: SIGINT once the signal event is pending, connections    *)
(* once the listener is bound.                                              *)
Sigint ==
  /\ at \notin {"base", "evsig", "exit", "error", "done", "failed", "crashed"}
  /\ sigint' = TRUE
  /\ UNCHANGED <<mainVars, conn, prio1, pass, gotterm, cliVars, vars>>

Connect ==
  /\ at \in {"cli_start", "osip_start", "loop"}
  /\ conn' = TRUE
  /\ UNCHANGED <<mainVars, sigint, prio1, pass, gotterm, cliVars, vars>>

(* The poll takes up what it finds ready. *)
Ready == {e \in {"evsig", "listener"} : IF e = "evsig" THEN sigint ELSE conn}
TakeReady ==
  /\ prio1' = prio1 \cup Ready
  /\ sigint' = FALSE /\ conn' = FALSE

AtPoll == at = "loop" /\ pc = "poll" /\ ~pass /\ ~gotterm

(* The first event that becomes active without a queue to take it kills the *)
(* process, or is never run.                                                *)
NoQueue ==
  /\ priorities = 0
  /\ at' = "crashed"
  /\ UNCHANGED <<held, priorities, loopVars, cliVars, vars>>

(* The socket is readable: with two queues only priority 0 runs.            *)
PollUdp ==
  /\ AtPoll
  /\ \/ NoQueue
     \/ /\ priorities > 0 /\ Poll /\ TakeReady
        /\ UNCHANGED <<mainVars, pass, gotterm, cliVars>>

(* It is not: priority 1 runs.  The poll does not block when prio1 is not   *)
(* empty.                                                                   *)
PollQuiet ==
  /\ AtPoll /\ prio1 \cup Ready # {}
  /\ \/ NoQueue
     \/ /\ priorities > 0 /\ TakeReady
        /\ pass' = TRUE
        /\ UNCHANGED <<mainVars, gotterm, cliVars, vars>>

(* event_base_dispatch fails (191-194), as epoll_wait can.                  *)
DispatchFails ==
  /\ AtPoll
  /\ at' = "error"
  /\ UNCHANGED <<held, priorities, loopVars, cliVars, vars>>

(* The callbacks of priority 0; a single queue is run until it is empty.    *)
RunSip ==
  /\ at = "loop" /\ Run
  /\ priorities = 1 /\ pc = "process" /\ pc' = "poll" => prio1 = {}
  /\ UNCHANGED <<mainVars, loopVars, cliVars>>

(* The callbacks of priority 1, and those of a single queue, run.           *)
Prio1Runs == at = "loop" /\ (pass \/ (priorities = 1 /\ pc = "process"))

MutantSignalAtOnce ==
  /\ at = "loop" /\ (sigint \/ "evsig" \in prio1)
  /\ sigint' = FALSE /\ prio1' = prio1 \ {"evsig"}
  /\ at' = "osip_stop"
  /\ UNCHANGED <<held, priorities, conn, pass, gotterm, cliVars, vars>>

MutantSignalNoExit ==
  /\ Prio1Runs /\ "evsig" \in prio1
  /\ prio1' = prio1 \ {"evsig"}
  /\ UNCHANGED <<mainVars, sigint, conn, pass, gotterm, cliVars, vars>>

(* signal_cb: event_base_loopexit without a delay activates a one-shot      *)
(* event of the default priority.                                           *)
SignalCb ==
  /\ Prio1Runs /\ "evsig" \in prio1
  /\ prio1' = (prio1 \ {"evsig"}) \cup {"loopexit"}
  /\ UNCHANGED <<mainVars, sigint, conn, pass, gotterm, cliVars, vars>>

LoopExitCb ==
  /\ Prio1Runs /\ "loopexit" \in prio1
  /\ prio1' = prio1 \ {"loopexit"}
  /\ gotterm' = TRUE
  /\ UNCHANGED <<mainVars, sigint, conn, pass, cliVars, vars>>

(* The listener accepts what waits, if the client is still there.           *)
ListenerCb ==
  /\ Prio1Runs /\ "listener" \in prio1
  /\ prio1' = prio1 \ {"listener"}
  /\ UNCHANGED <<mainVars, sigint, conn, pass, gotterm, vars>>
  /\ UNCHANGED cliVars \/ \E c \in Conn : Cli!EvConnListener(c)

PassDone ==
  /\ pass /\ prio1 = {}
  /\ pass' = FALSE
  /\ UNCHANGED <<mainVars, sigint, conn, prio1, gotterm, cliVars, vars>>

(* The head of libevent's loop: event_base_dispatch returns 0 (191). *)
LeaveLoop ==
  /\ at = "loop" /\ pc = "poll" /\ ~pass /\ gotterm
  /\ at' = "osip_stop"
  /\ UNCHANGED <<held, priorities, loopVars, cliVars, vars>>

(* The session threads, until the process ends.  They and the loop have     *)
(* nothing in common but the cli_def.                                       *)
SessionStep ==
  /\ at \notin {"done", "failed", "crashed"} /\ pc # "crashed"
  /\ UNCHANGED <<mainVars, loopVars, vars>>
  /\ Cli!Tick \/ \E c \in Conn : Cli!Session(c) \/ Cli!GoSilent(c)
-----------------------------------------------------------------------------
(* Taking down (196-200): the results of the four calls are not looked at.  *)
Release(from, to, released) ==
  /\ at = from
  /\ at' = to /\ held' = held \ released
  /\ UNCHANGED <<priorities, loopVars, cliVars, vars>>

OsipStop == Release("osip_stop", "cli_stop", {"udpEvent"})

MutantNoCliStop == Release("cli_stop", "exit", CliPart)

CliStop == Release("cli_stop", "osip_deinit", {})

MutantOsipDeinit == Release("osip_deinit", "cli_deinit", {"osipCtx", "osip"})

(* es_osip_deinit also frees the events of pendingEv (247), but neither the *)
(* transactions nor the dialogs.                                            *)
OsipDeinit ==
  /\ at = "osip_deinit"
  /\ at' = "cli_deinit" /\ held' = held \ OsipPart
  /\ live' = live \ {pendingEv[i] : i \in DOMAIN pendingEv}
  /\ active' = active \ {pendingEv[i] : i \in DOMAIN pendingEv}
  /\ pendingEv' = <<>>
  /\ UNCHANGED <<priorities, loopVars, cliVars>>
  /\ UNCHANGED <<pc, cur, tstate, req, fifo, sent, osipDialog, stopArg>>

(* es_cli_deinit closes the descriptor of the listener, then frees the      *)
(* listener, which closes it again (LEV_OPT_CLOSE_ON_FREE).                 *)
CliDeinit == Release("cli_deinit", "exit", CliPart)

(* 208-216: the signal event is freed whether or not there is one.  Without *)
(* a base ctx.evsig was never assigned, and what free does to it is open; a *)
(* null one kills the process.                                              *)
Exit ==
  /\ \/ at = "exit" /\ at' = "done"
     \/ at = "error" /\ "evsig" \in held /\ at' = "failed"
     \/ at = "error" /\ "evsig" \notin held /\ at' = "crashed"
     \/ at = "error" /\ "base" \notin held /\ at' = "failed"
  /\ held' = held \ BasePart
  /\ UNCHANGED <<priorities, loopVars, cliVars, vars>>
-----------------------------------------------------------------------------
BringUp == CreateBase \/ CreateSignal \/ OsipInit \/ CliInit \/ CliStart \/ OsipStart
TakeDown == OsipStop \/ CliStop \/ OsipDeinit \/ CliDeinit \/ Exit
Callback == RunSip \/ SignalCb \/ LoopExitCb \/ ListenerCb \/ PassDone \/ LeaveLoop

(* main, the loop's thread; and all of it, until something kills it.        *)
MainNext ==
  \/ BringUp \/ TakeDown \/ Callback
  \/ PollUdp \/ PollQuiet \/ DispatchFails

EsipNext == ~crashed /\ (MainNext \/ SessionStep \/ Sigint \/ Connect)

EsipSpec == EsipInit /\ [][EsipNext]_esipVars

(* main and the callbacks run on. *)
MainFairness == WF_esipVars(~crashed /\ (BringUp \/ TakeDown \/ Callback))
EsipFairSpec == EsipSpec /\ MainFairness
-----------------------------------------------------------------------------
(* SIGINT ends the loop between two requests: every request accepted until  *)
(* then was answered, no wake-up is pending or active, so es_osip_deinit    *)
(* takes nothing away from a callback that is still to run.                 *)
StopsBetweenRequests ==
  at \in Down \cup {"exit", "done"} =>
    /\ pc = "poll" /\ AnsweredAtPoll
    /\ live = {} /\ pendingEv = <<>> /\ active = {}

(* "TODO: free all allocated mem" (line 80).  When main returns it has      *)
(* released the parts it made but for the socket of escli.c:282, and no     *)
(* wake-up is left; what is left is a transaction of each request, a dialog *)
(* of each INVITE, and an open descriptor for each session that was still   *)
(* there or whose thread did not start, no more and no less.                *)
LeftAtExit ==
  at = "done" /\ ~crashed =>
    /\ held = {"listenFd"} /\ live = {}
    /\ Ist \cup Nist = {t \in Tid : req[t] # NoReq}
    /\ ToSet(osipDialog) = Ist
    /\ Cli!DescriptorBalance

(* main and the loop use the CLI as EsCli says: the listener accepts only   *)
(* between es_cli_start and es_cli_stop, and the cli_def is not freed       *)
(* before the listener was stopped.                                         *)
ImplementsCli == Cli!Spec

(* If the poll does not find the socket readable each time, SIGINT ends the *)
(* program.  Without that premise the priorities let traffic put the signal *)
(* off for ever.                                                            *)
SigintEnds ==
  SF_esipVars(PollQuiet) => (sigint ~> at \in {"done", "failed", "crashed"} \/ crashed)
==============================================================================
