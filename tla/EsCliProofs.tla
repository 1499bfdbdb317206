----------------------------- MODULE EsCliProofs -----------------------------
(***************************************************************************)
(* Proofs about EsCli, for any number of connections, sessions and ticks.   *)
(***************************************************************************)
EXTENDS EsCli, FiniteSetTheorems, TLAPS

(* Before the shutdown a session that runs on the cli_def cannot crash. *)
LEMMA MayCrashEffect ==
  ASSUME MayCrash
  PROVE  crashed' \in BOOLEAN /\ (main # "deinit" => ~crashed')
  BY Zenon DEF MayCrash

(* What each action writes has its type. *)
LEMMA TypeNext == TypeOK /\ [Next]_vars => TypeOK'
  <1> SUFFICES ASSUME TypeOK, [Next]_vars PROVE TypeOK'
    OBVIOUS
  <1> USE DEF TypeOK, ThreadState
  <1>1. CASE UNCHANGED vars
    BY <1>1 DEF vars
  <1>2. CASE CliStart \/ CliStop \/ CliDeinit
    BY <1>2 DEF CliStart, CliStop, CliDeinit, threadVars
  <1>3. CASE Tick
    BY <1>3, LimitAssumption DEF LimitAssumption, Tick
  <1>4. ASSUME NEW c \in Conn, EvConnListener(c) PROVE TypeOK'
    BY <1>4 DEF EvConnListener
  <1>5. ASSUME NEW c \in Conn, GoSilent(c) PROVE TypeOK'
    BY <1>5 DEF GoSilent
  <1>6. ASSUME NEW c \in Conn, CliLoopStart(c) PROVE TypeOK'
    BY <1>6, LimitAssumption, MayCrashEffect DEF LimitAssumption, CliLoopStart
  <1>7. ASSUME NEW c \in Conn, CliInput(c) PROVE TypeOK'
    <2>1. crashed' \in BOOLEAN
      BY <1>7, MayCrashEffect DEF CliInput
    <2>2. idle' \in 0 .. IdleLimit
      BY <1>7, LimitAssumption DEF LimitAssumption, CliInput
    <2> QED BY <1>7, <2>1, <2>2 DEF CliInput
  <1>11. ASSUME NEW c \in Conn, CliRegular(c) PROVE TypeOK'
    <2>1. crashed' \in BOOLEAN
      <3>1. CASE MayCrash
        BY <3>1, MayCrashEffect
      <3>2. CASE crashed' = TRUE
        BY <3>2
      <3> QED BY <1>11, <3>1, <3>2 DEF CliRegular
    <2> QED BY <1>11, <2>1 DEF CliRegular
  <1>8. ASSUME NEW c \in Conn, thread[c] = "loop", Fclose(c) PROVE TypeOK'
    BY <1>8, MayCrashEffect DEF Fclose
  <1>9. ASSUME NEW c \in Conn, CliQuit(c) \/ CliTimeout(c) PROVE TypeOK'
    BY <1>8, <1>9 DEF CliQuit, CliTimeout
  <1>10. ASSUME NEW c \in Conn, CliLoopEnd(c) \/ CliReturn(c) PROVE TypeOK'
    BY <1>10, MayCrashEffect DEF CliLoopEnd, CliReturn
  <1> QED
    BY <1>1, <1>2, <1>3, <1>4, <1>5, <1>6, <1>7, <1>9, <1>10, <1>11 DEF Next, Session

(* The types of the CLI. *)
THEOREM TypeCorrect == Spec => []TypeOK
  <1>1. Init => TypeOK
    <2> SUFFICES ASSUME Init PROVE TypeOK
      OBVIOUS
    <2>1. idle \in 0 .. IdleLimit
      BY LimitAssumption DEF LimitAssumption, Init
    <2>2. thread \in [Conn -> ThreadState] /\ alone \in BOOLEAN /\ crashed \in BOOLEAN
      BY DEF Init, ThreadState
    <2> QED BY <2>1, <2>2 DEF Init, TypeOK
  <1> QED BY <1>1, TypeNext, PTL DEF Spec
-----------------------------------------------------------------------------
(* Descriptors.  What is open and what is owed stay finite and equally many *)
(* until something crashes.                                                 *)

BalanceInv == ~crashed =>
  IsFiniteSet(open) /\ IsFiniteSet(Owed) /\ Cardinality(open) = Cardinality(Owed)

(* Another element in each of two sets. *)
LEMMA BothGrow ==
  ASSUME NEW S, NEW T, IsFiniteSet(S), IsFiniteSet(T), Cardinality(S) = Cardinality(T),
         NEW x, NEW y, x \notin S, y \notin T
  PROVE  /\ IsFiniteSet(S \cup {x}) /\ IsFiniteSet(T \cup {y})
         /\ Cardinality(S \cup {x}) = Cardinality(T \cup {y})
  BY FS_AddElement

(* And one less. *)
LEMMA BothShrink ==
  ASSUME NEW S, NEW T, IsFiniteSet(S), IsFiniteSet(T), Cardinality(S) = Cardinality(T),
         NEW x \in S, NEW y \in T
  PROVE  /\ IsFiniteSet(S \ {x}) /\ IsFiniteSet(T \ {y})
         /\ Cardinality(S \ {x}) = Cardinality(T \ {y})
  BY FS_RemoveElement

(* Only the listener and the end of a session change either side. *)
LEMMA BalanceNext == TypeOK /\ BalanceInv /\ [Next]_vars => BalanceInv'
  <1> SUFFICES ASSUME TypeOK, BalanceInv, [Next]_vars, ~crashed' PROVE BalanceInv'
    BY DEF BalanceInv
  <1>1. ASSUME ~crashed, UNCHANGED open, Owed' = Owed PROVE BalanceInv'
    BY <1>1 DEF BalanceInv
  <1>2. CASE UNCHANGED vars \/ CliStart \/ CliStop \/ CliDeinit \/ Tick
    BY <1>1, <1>2 DEF vars, CliStart, CliStop, CliDeinit, Tick, threadVars, Owed
  <1>3. ASSUME NEW c \in Conn, GoSilent(c) \/ CliInput(c) \/ CliRegular(c)
        PROVE  BalanceInv'
    BY <1>1, <1>3 DEF GoSilent, CliInput, CliRegular, Owed
  <1>4. ASSUME NEW c \in Conn, CliLoopStart(c) \/ CliLoopEnd(c) \/ CliReturn(c)
        PROVE  BalanceInv'
    <2>1. /\ ~crashed /\ UNCHANGED open
          /\ \A o \in Conn \ {c} : thread'[o] = thread[o]
          /\ \/ thread[c] = "thread" /\ thread'[c] \in {"loop", "failed"}
             \/ thread[c] = "closing" /\ thread'[c] = "returned"
             \/ thread[c] = "returned" /\ thread'[c] = "ended"
      BY <1>4 DEF CliLoopStart, CliLoopEnd, CliReturn, TypeOK
    <2>2. Owed' = Owed
      BY <2>1 DEF Owed
    <2> QED BY <1>1, <2>1, <2>2
  <1>5. ASSUME NEW c \in Conn, EvConnListener(c) PROVE BalanceInv'
    <2>1. /\ ~crashed /\ open' = open \cup {c} /\ thread[c] = "none"
          /\ thread'[c] \in {"thread", "unstarted", "refused"}
          /\ \A o \in Conn \ {c} : thread'[o] = thread[o]
      BY <1>5 DEF EvConnListener, TypeOK
    <2>2. c \notin open /\ c \notin Owed
      BY <2>1 DEF TypeOK, Owed
    <2>3. Owed' = Owed \cup {c}
      BY <2>1 DEF Owed
    <2> QED BY <2>1, <2>2, <2>3, BothGrow DEF BalanceInv
  <1>6. ASSUME NEW c \in Conn, CliQuit(c) \/ CliTimeout(c) PROVE BalanceInv'
    <2>1. /\ ~crashed /\ thread[c] = "loop" /\ client \in open
          /\ open' = open \ {client} /\ thread'[c] = "closing"
          /\ \A o \in Conn \ {c} : thread'[o] = thread[o]
      BY <1>6 DEF CliQuit, CliTimeout, Fclose, TypeOK
    <2>2. c \in Owed /\ Owed' = Owed \ {c}
      BY <2>1 DEF Owed
    <2> QED BY <2>1, <2>2, BothShrink DEF BalanceInv
  <1> QED
    BY <1>2, <1>3, <1>4, <1>5, <1>6 DEF Next, Session

(* escli.c 127-135, 166-179: until something crashes, the descriptors that  *)
(* are open are as many as the sessions that run and the connections whose  *)
(* start failed, however the sessions overlap and also while the shutdown   *)
(* frees the cli_def: none is left over and none closed twice.              *)
THEOREM DescriptorBalanceHolds == Spec => []DescriptorBalance
  <1>1. Init => BalanceInv
    <2> SUFFICES ASSUME Init PROVE BalanceInv
      OBVIOUS
    <2>1. open = {} /\ Owed = {}
      BY DEF Init, Owed
    <2> QED BY <2>1, FS_EmptySet DEF BalanceInv
  <1>2. BalanceInv => DescriptorBalance
    BY DEF BalanceInv, DescriptorBalance
  <1> QED BY <1>1, <1>2, BalanceNext, TypeCorrect, PTL DEF Spec
-----------------------------------------------------------------------------
(* Sessions that do not overlap.  Neither AloneOwnsStream nor               *)
(* CrashNeedsOverlap is inductive: which descriptors are open, and that     *)
(* there is one session at most, must be known at each step of a session.   *)

SessionInv ==
  alone /\ main # "deinit" =>
    /\ ~crashed
    /\ \A c, d \in Sessions : c = d
    /\ \A c \in Conn : thread[c] = "thread" => c \in open
    /\ \A c \in Conn : thread[c] = "loop" => client = c /\ c \in open
    /\ \A c \in Conn : thread[c] \in {"closing", "returned", "ended"} => c \notin open

(* Every step keeps SessionInv. *)
LEMMA SessionNext == TypeOK /\ SessionInv /\ [Next]_vars => SessionInv'
  <1> SUFFICES ASSUME TypeOK, SessionInv, [Next]_vars, alone', main' # "deinit"
               PROVE  SessionInv'
    BY DEF SessionInv
  <1>1. ASSUME UNCHANGED <<thread, open, client>>, crashed' => crashed,
               alone, main # "deinit"
        PROVE  SessionInv'
    BY <1>1 DEF SessionInv, Sessions
  <1>2. CASE UNCHANGED vars \/ CliStart \/ CliStop \/ CliDeinit \/ Tick
    <2>1. main # "deinit" /\ alone' = alone
      BY <1>2 DEF vars, CliStart, CliStop, CliDeinit, Tick, threadVars
    <2>2. thread' = thread /\ open' = open /\ client' = client /\ crashed' = crashed
      BY <1>2 DEF vars, CliStart, CliStop, CliDeinit, Tick, threadVars
    <2> QED BY <1>1, <2>1, <2>2
  <1>3. ASSUME NEW c \in Conn, GoSilent(c) PROVE SessionInv'
    BY <1>1, <1>3 DEF GoSilent
  <1>4. ASSUME NEW c \in Conn, CliInput(c) PROVE SessionInv'
    <2>1. alone /\ main # "deinit" /\ ~crashed /\ ~crashed'
      BY <1>4, MayCrashEffect DEF CliInput
    <2> QED BY <1>1, <1>4, <2>1 DEF CliInput
  <1>5. ASSUME NEW c \in Conn, CliRegular(c) PROVE SessionInv'
    <2>1. alone /\ main # "deinit" /\ ~crashed /\ thread[c] = "loop"
      BY <1>5 DEF CliRegular
    <2>2. client \in open
      BY <2>1 DEF SessionInv
    <2>3. ~crashed'
      BY <1>5, <2>1, <2>2, MayCrashEffect DEF CliRegular
    <2> QED BY <1>1, <1>5, <2>1, <2>3 DEF CliRegular
  <1>6. ASSUME NEW c \in Conn, EvConnListener(c) PROVE SessionInv'
    <2>1. /\ alone /\ main # "deinit" /\ ~crashed' /\ Sessions = {} /\ client' = client
          /\ open' = open \cup {c} /\ thread[c] = "none"
      BY <1>6 DEF EvConnListener
    <2>2. /\ thread'[c] \in {"thread", "unstarted", "refused"}
          /\ \A o \in Conn \ {c} : thread'[o] = thread[o]
      BY <1>6 DEF EvConnListener, TypeOK
    <2>3. \A o \in Conn \ {c} : thread'[o] \notin {"thread", "loop", "closing"}
      BY <2>1, <2>2 DEF Sessions
    <2> QED BY <2>1, <2>2, <2>3 DEF SessionInv, Sessions
  <1>7. ASSUME NEW c \in Conn, CliLoopStart(c) PROVE SessionInv'
    <2>1. /\ alone /\ main # "deinit" /\ ~crashed' /\ UNCHANGED open
          /\ thread[c] = "thread"
      BY <1>7, MayCrashEffect DEF CliLoopStart
    <2>2. /\ \/ thread'[c] = "loop" /\ client' = c
             \/ thread'[c] = "failed"
          /\ \A o \in Conn \ {c} : thread'[o] = thread[o]
      BY <1>7 DEF CliLoopStart, TypeOK
    <2>3. c \in open /\ \A o \in Conn \ {c} : o \notin Sessions
      BY <2>1 DEF SessionInv, Sessions
    <2> QED BY <2>1, <2>2, <2>3 DEF SessionInv, Sessions
  <1>8. ASSUME NEW c \in Conn, CliQuit(c) \/ CliTimeout(c) PROVE SessionInv'
    <2>1. alone /\ main # "deinit" /\ ~crashed /\ thread[c] = "loop" /\ Fclose(c)
      BY <1>8 DEF CliQuit, CliTimeout, Fclose
    <2>2. client = c /\ c \in open /\ \A o \in Conn \ {c} : o \notin Sessions
      BY <2>1 DEF SessionInv, Sessions
    <2>3. ~crashed' /\ open' = open \ {c} /\ client' = client
      BY <2>1, <2>2, MayCrashEffect DEF Fclose
    <2>4. thread'[c] = "closing" /\ \A o \in Conn \ {c} : thread'[o] = thread[o]
      BY <2>1 DEF Fclose, TypeOK
    <2> QED BY <2>1, <2>2, <2>3, <2>4 DEF SessionInv, Sessions
  <1>9. ASSUME NEW c \in Conn, CliLoopEnd(c) \/ CliReturn(c) PROVE SessionInv'
    <2>1. alone /\ main # "deinit" /\ UNCHANGED open
      BY <1>9 DEF CliLoopEnd, CliReturn
    <2>2. ~crashed'
      BY <1>9, <2>1, MayCrashEffect DEF CliLoopEnd, CliReturn, SessionInv
    <2>3. /\ \A o \in Conn \ {c} : thread'[o] = thread[o]
          /\ \/ thread[c] = "closing" /\ thread'[c] = "returned"
             \/ thread[c] = "returned" /\ thread'[c] = "ended" /\ client' = client
      BY <1>9 DEF CliLoopEnd, CliReturn, TypeOK
    <2>4. c \notin open
      BY <2>1, <2>3 DEF SessionInv
    <2>5. CASE thread[c] = "closing"
      <3>1. \A o \in Conn \ {c} : o \notin Sessions
        BY <2>1, <2>5 DEF SessionInv, Sessions
      <3> QED BY <2>1, <2>2, <2>3, <2>4, <3>1 DEF SessionInv, Sessions
    <2>6. CASE thread[c] = "returned"
      BY <2>1, <2>2, <2>3, <2>4, <2>6 DEF SessionInv, Sessions
    <2> QED BY <2>3, <2>5, <2>6
  <1> QED
    BY <1>2, <1>3, <1>4, <1>5, <1>6, <1>7, <1>8, <1>9 DEF Next, Session

(* Sessions that do not overlap keep their own stream and descriptor.       *)
LEMMA SessionsHold == Spec => []SessionInv
  <1>1. Init => SessionInv
    BY DEF Init, SessionInv, Sessions
  <1> QED BY <1>1, SessionNext, TypeCorrect, PTL DEF Spec

(* escli.c 162-179: as long as sessions do not overlap each prints to its   *)
(* own open connection, and one that ended released its descriptor.         *)
THEOREM AloneOwnsStreamHolds == Spec => []AloneOwnsStream
  <1>1. TypeOK /\ SessionInv => AloneOwnsStream
    BY DEF TypeOK, SessionInv, AloneOwnsStream, OwnStream
  <1> QED BY <1>1, TypeCorrect, SessionsHold, PTL

(* escli.c 229, 364: a session uses a closed stream or freed memory only if *)
(* sessions overlapped or the program was shutting down.                    *)
THEOREM CrashNeedsOverlapHolds == Spec => []CrashNeedsOverlap
  <1>1. SessionInv => CrashNeedsOverlap
    BY DEF SessionInv, CrashNeedsOverlap
  <1> QED BY <1>1, SessionsHold, PTL
==============================================================================
