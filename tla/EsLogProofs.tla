----------------------------- MODULE EsLogProofs -----------------------------
(***************************************************************************)
(* Proofs about EsLog, for any number of threads that log.                  *)
(***************************************************************************)
EXTENDS EsLog, TLAPS

(* What each action writes has its type. *)
LEMMA TypeNext == TypeOK /\ [Next]_vars => TypeOK'
  <1> SUFFICES ASSUME TypeOK, [Next]_vars PROVE TypeOK'
    OBVIOUS
  <1> USE DEF TypeOK
  <1>1. CASE UNCHANGED vars
    BY <1>1 DEF vars
  <1>2. ASSUME NEW th \in Thread, Begin(th) PROVE TypeOK'
    <2>1. PICK l \in Level : /\ level' = [level EXCEPT ![th] = l]
                            /\ colour' = Colour(l)
      BY <1>2 DEF Begin
    <2>2. l \in 0 .. 7 /\ colour' \in {"red", "yellow", "green", "plain"}
      BY <2>1, LevelAssumption DEF Colour
    <2> QED BY <1>2, <2>1, <2>2 DEF Begin
  <1>3. ASSUME NEW th \in Thread, Prefix(th) \/ Where(th) \/ Message(th) \/ End(th)
        PROVE  TypeOK'
    BY <1>3 DEF Prefix, Where, Message, End
  <1> QED BY <1>1, <1>2, <1>3 DEF Next, Trace

(* The types of the log. *)
THEOREM TypeCorrect == Spec => []TypeOK
  <1>1. Init => TypeOK
    BY DEF Init, TypeOK, LogLevel
  <1> QED BY <1>1, TypeNext, PTL DEF Spec

(* The line that a colour belongs to is there as long as the colour is. *)
LEMMA ColourNext == TypeOK /\ ColourHasALine /\ [Next]_vars => ColourHasALine'
  <1> SUFFICES ASSUME TypeOK, ColourHasALine, [Next]_vars PROVE ColourHasALine'
    OBVIOUS
  <1>1. CASE UNCHANGED vars
    BY <1>1 DEF vars, ColourHasALine
  <1>2. ASSUME NEW th \in Thread, Begin(th) PROVE ColourHasALine'
    <2>1. place'[th] = "prefix" /\ colour' = Colour(level'[th])
      BY <1>2 DEF Begin, TypeOK
    <2> QED BY <2>1 DEF ColourHasALine, Colour
  <1>3. ASSUME NEW th \in Thread, Prefix(th) \/ Where(th) \/ Message(th)
        PROVE  ColourHasALine'
    <2>1. UNCHANGED <<level, colour>> /\ place[th] # "idle"
          /\ \A o \in Thread : place[o] # "idle" => place'[o] # "idle"
      BY <1>3 DEF Prefix, Where, Message, TypeOK
    <2> QED BY <2>1 DEF ColourHasALine, Colour
  <1>4. ASSUME NEW th \in Thread, End(th) PROVE ColourHasALine'
    BY <1>4 DEF End, ColourHasALine
  <1> QED BY <1>1, <1>2, <1>3, <1>4 DEF Next, Trace

(* eslog.c 154-183: the colour the terminal writes in is always that of a   *)
(* line that is still being written, however many threads log.              *)
THEOREM ColourHasALineHolds == Spec => []ColourHasALine
  <1>1. Init => ColourHasALine
    BY DEF Init, ColourHasALine
  <1> QED BY <1>1, ColourNext, TypeCorrect, PTL DEF Spec
==============================================================================
