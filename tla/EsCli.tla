-------------------------------- MODULE EsCli --------------------------------
(***************************************************************************)
(* The telnet interface of esip (src/cli/escli.c): a libevent listener that *)
(* starts one thread per connection, and all the threads run libcli's       *)
(* cli_loop on the one cli_def of the context.  cli_loop and the fields of  *)
(* cli_def it writes are libcli's, modelled from that use.                  *)
(***************************************************************************)
EXTENDS Naturals, FiniteSets

CONSTANTS
  Conn,         \* the connections, a name for each accepted descriptor
  NoConn,       \* a null cli_def.client
  MaxSessions,  \* bound: the connections operators keep open together
  IdleLimit     \* the idle timeout (30 s), in ticks

ASSUME ConnAssumption == NoConn \notin Conn
ASSUME LimitAssumption == MaxSessions \in Nat /\ IdleLimit \in Nat \ {0}

VARIABLES
  main,      \* what the event-loop thread did last: init, start, stop, deinit
  thread,    \* the thread of each connection
  open,      \* the connections whose descriptor is open
  client,    \* cli_def.client, the stream that cli_print writes to
  idle,      \* the time since cli_def.last_action, up to IdleLimit
  silent,    \* the connections whose operator has stopped typing for good
  alone,     \* no session has started while another was there
  crashed    \* the process was killed by undefined behaviour

vars == <<main, thread, open, client, idle, silent, alone, crashed>>

(*  thread   started by pthread_create, not yet in cli_loop                 *)
(*  loop     in the command loop of cli_loop                                *)
(*  closing  between fclose(cli->client) and cli->client = NULL             *)
(*  returned cli_loop has returned 0                                        *)
(*  ended    returned, its context freed                                    *)
(*  failed   returned at line 127-130, its context and descriptor leaked    *)
(*  unstarted  pthread_create failed (174-177), the same                    *)
(*  refused  malloc failed (166-169), the descriptor leaked                 *)
ThreadState == {"none", "thread", "loop", "closing", "returned", "ended", "failed",
                "unstarted", "refused"}

TypeOK ==
  /\ main \in {"init", "start", "stop", "deinit"}
  /\ thread \in [Conn -> ThreadState]
  /\ open \subseteq {c \in Conn : thread[c] # "none"}
  /\ client \in Conn \cup {NoConn}
  /\ idle \in 0 .. IdleLimit
  /\ silent \subseteq Conn
  /\ alone \in BOOLEAN
  /\ crashed \in BOOLEAN

(* es_cli_init (243-312) has succeeded: the listener is disabled. *)
Init ==
  /\ main = "init"
  /\ thread = [c \in Conn |-> "none"]
  /\ open = {} /\ client = NoConn /\ idle = 0 /\ silent = {}
  /\ alone = TRUE /\ crashed = FALSE

(* The threads that still use the cli_def. *)
Sessions == {c \in Conn : thread[c] \in {"thread", "loop", "closing"}}
threadVars == <<thread, open, client, idle, silent, alone>>
-----------------------------------------------------------------------------
(* The event-loop thread *)

CliStart ==
  /\ ~crashed /\ main = "init"
  /\ main' = "start"
  /\ UNCHANGED <<threadVars, crashed>>

CliStop ==
  /\ ~crashed /\ main = "start"
  /\ main' = "stop"
  /\ UNCHANGED <<threadVars, crashed>>

(* cli_done (364) frees the cli_def whatever threads there are. *)
CliDeinit ==
  /\ ~crashed /\ main = "stop"
  /\ main' = "deinit"
  /\ UNCHANGED <<threadVars, crashed>>

MutantListenerNoStream(c) ==
  /\ ~crashed /\ main = "start"
  /\ thread[c] = "none" /\ Cardinality(Sessions) < MaxSessions
  /\ open' = open \cup {c}
  /\ thread' = [thread EXCEPT ![c] = "loop"]
  /\ alone' = (alone /\ Sessions = {})
  /\ UNCHANGED <<main, client, idle, silent, crashed>>

MutantListenerForgets(c) ==
  /\ ~crashed /\ main = "start"
  /\ thread[c] = "none" /\ Cardinality(Sessions) < MaxSessions
  /\ open' = open \cup {c}
  /\ \E s \in {"thread", "none"} : thread' = [thread EXCEPT ![c] = s]
  /\ alone' = (alone /\ Sessions = {})
  /\ UNCHANGED <<main, client, idle, silent, crashed>>

(* _es_evconnlistener_cb (138-180): a context and a thread, or one of two   *)
(* error returns, both of which keep the descriptor.                        *)
EvConnListener(c) ==
  /\ ~crashed /\ main = "start"
  /\ thread[c] = "none" /\ Cardinality(Sessions) < MaxSessions
  /\ open' = open \cup {c}
  /\ \E s \in {"thread", "unstarted", "refused"} : thread' = [thread EXCEPT ![c] = s]
  /\ alone' = (alone /\ Sessions = {})
  /\ UNCHANGED <<main, client, idle, silent, crashed>>
-----------------------------------------------------------------------------
(* The session threads.  After cli_done they run on freed memory, which     *)
(* kills the process or goes unnoticed.                                     *)
MayCrash == crashed' \in {FALSE, main = "deinit"}

(* cli_loop starts: fdopen gives the cli_def a new stream.  It fails with   *)
(* no memory before that, or with the null that fdopen returned in its      *)
(* place.                                                                   *)
CliLoopStart(c) ==
  /\ ~crashed /\ thread[c] = "thread"
  /\ \/ /\ thread' = [thread EXCEPT ![c] = "loop"]
        /\ client' = c /\ idle' = 0
     \/ /\ thread' = [thread EXCEPT ![c] = "failed"]
        /\ client' \in {client, NoConn} /\ UNCHANGED idle
  /\ MayCrash
  /\ UNCHANGED <<main, open, silent, alone>>

(* The operator types: the time of the last action is the cli_def's. *)
CliInput(c) ==
  /\ ~crashed /\ thread[c] = "loop" /\ c \in open \ silent
  /\ idle' = 0
  /\ MayCrash
  /\ UNCHANGED <<main, thread, open, client, silent, alone>>

(* Time passes; past the limit it makes no difference. *)
Tick ==
  /\ ~crashed /\ idle < IdleLimit
  /\ idle' = idle + 1
  /\ UNCHANGED <<main, thread, open, client, silent, alone, crashed>>

GoSilent(c) ==
  /\ ~crashed /\ c \notin silent
  /\ silent' = silent \cup {c}
  /\ UNCHANGED <<main, thread, open, client, idle, alone, crashed>>

(* The end of cli_loop is fclose(cli->client), whichever stream that is; a  *)
(* null stream, or one closed before, kills the process.                    *)
Fclose(c) ==
  /\ thread' = [thread EXCEPT ![c] = "closing"]
  /\ open' = open \ {client}
  /\ \/ client \in open /\ MayCrash
     \/ client \notin open /\ crashed' = TRUE
  /\ UNCHANGED <<main, client, idle, silent, alone>>

(* The operator quits or hangs up, or the descriptor was closed under the   *)
(* session.                                                                 *)
CliQuit(c) ==
  /\ ~crashed /\ thread[c] = "loop" /\ (c \notin silent \/ c \notin open)
  /\ Fclose(c)

MutantTimeoutStays(c) ==
  /\ ~crashed /\ thread[c] = "loop" /\ idle = IdleLimit
  /\ idle' = 0
  /\ UNCHANGED <<main, thread, open, client, silent, alone, crashed>>

(* _es_cli_timeout_callback returns CLI_QUIT (234-241). *)
CliTimeout(c) ==
  /\ ~crashed /\ thread[c] = "loop" /\ idle = IdleLimit
  /\ Fclose(c)

(* cli_loop calls _es_cli_regular_callback (224-232) now and then while     *)
(* nobody types (274), and it prints to cli->client: to another session's   *)
(* connection, to nobody, or to a stream that was closed.                   *)
CliRegular(c) ==
  /\ ~crashed /\ thread[c] = "loop"
  /\ \/ MayCrash
     \/ client \notin open \cup {NoConn} /\ crashed' = TRUE
  /\ UNCHANGED <<main, thread, open, client, idle, silent, alone>>

(* cli_loop has closed the stream: cli->client = NULL, and it returns 0. *)
CliLoopEnd(c) ==
  /\ ~crashed /\ thread[c] = "closing"
  /\ thread' = [thread EXCEPT ![c] = "returned"]
  /\ client' = NoConn
  /\ MayCrash
  /\ UNCHANGED <<main, open, idle, silent, alone>>

MutantReturnCloses(c) ==
  /\ ~crashed /\ thread[c] = "returned"
  /\ thread' = [thread EXCEPT ![c] = "ended"]
  /\ open' = open \ {c}
  /\ UNCHANGED <<main, client, idle, silent, alone, crashed>>

(* The thread frees its context and ends (132-135); the descriptor was the  *)
(* business of cli_loop.                                                    *)
CliReturn(c) ==
  /\ ~crashed /\ thread[c] = "returned"
  /\ thread' = [thread EXCEPT ![c] = "ended"]
  /\ UNCHANGED <<main, open, client, idle, silent, alone, crashed>>
-----------------------------------------------------------------------------
Session(c) ==
  \/ CliLoopStart(c) \/ CliInput(c) \/ CliRegular(c)
  \/ CliQuit(c) \/ CliTimeout(c) \/ CliLoopEnd(c) \/ CliReturn(c)

Next ==
  \/ CliStart \/ CliStop \/ CliDeinit \/ Tick
  \/ \E c \in Conn : EvConnListener(c) \/ GoSilent(c) \/ Session(c)

Spec == Init /\ [][Next]_vars

(* Time passes, and a thread with something to do does it. *)
FairSpec ==
  /\ Spec /\ WF_vars(Tick)
  /\ \A c \in Conn :
       /\ WF_vars(CliLoopStart(c)) /\ WF_vars(CliTimeout(c))
       /\ WF_vars(CliLoopEnd(c)) /\ WF_vars(CliReturn(c))
-----------------------------------------------------------------------------
(* The connections nobody has answered for yet: their session runs, or it   *)
(* never came to run.                                                       *)
Owed == {c \in Conn : thread[c] \in {"thread", "loop", "failed", "unstarted", "refused"}}

(* Each session that ends closes one connection, and only sessions do: when *)
(* sessions overlap it may be another's, whose own is then left open in its *)
(* place, but as long as nothing has crashed the descriptors neither pile   *)
(* up nor are closed twice, while the shutdown frees the cli_def, too.      *)
DescriptorBalance == ~crashed => Cardinality(open) = Cardinality(Owed)

(* A session prints to its own connection, which is open (the comment at    *)
(* 162: each connection has its own cli_loop).                              *)
OwnStream ==
  main # "deinit" => \A c \in Conn : thread[c] = "loop" => client = c /\ c \in open

(* As long as sessions do not overlap each has its own stream, and one that *)
(* has ended released its descriptor.                                       *)
AloneOwnsStream ==
  alone => OwnStream /\ (main # "deinit" => \A c \in open : thread[c] # "ended")

(* "Close connection for no activity." (239): as long as sessions do not    *)
(* overlap, the connection of an operator that has stopped typing is closed *)
(* while the program runs.  With a second session the shared idle clock     *)
(* can keep it open for ever.                                               *)
AloneSilentIsClosed ==
  \A c \in Conn :
    thread[c] = "loop" /\ c \in silent ~>
      thread[c] # "loop" \/ ~alone \/ crashed \/ main = "deinit"

(* Only sessions that overlap, or the shutdown, which frees the cli_def     *)
(* under them (364), can make a session use a stream that was closed or     *)
(* memory that was freed: one operator at a time is safe.                   *)
CrashNeedsOverlap == crashed => ~alone \/ main = "deinit"
==============================================================================
