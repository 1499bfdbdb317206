-------------------------------- MODULE EsLog --------------------------------
(***************************************************************************)
(* The log of esip (src/eslog.c): ESIP_TRACE calls es_log_trace with no     *)
(* handler, from the event-loop thread and from every CLI session, and a    *)
(* line is written to the terminal behind stderr with up to five calls of   *)
(* fprintf.  Each call is atomic (stdio locks the stream); the line is not. *)
(***************************************************************************)
EXTENDS Naturals

CONSTANTS
  Thread,     \* the event loop and the CLI sessions
  Level       \* the levels the program logs at: 0 (EMERG) .. 7 (DEBUG)

ASSUME LevelAssumption == Level \subseteq 0 .. 7

VARIABLES
  place,      \* which fprintf of es_log_vprintf a thread is at
  level,      \* the level of its line
  colour      \* the colour the terminal writes in

vars == <<place, level, colour>>

(* 71-78: nothing ever changes the level of the default handler. *)
LogLevel == 7

MutantColourNoDefault(l) ==
  CASE l <= 3 -> "red" [] l = 4 -> "yellow" [] l = 5 -> "green" [] OTHER -> "none"

(* 154-172: an ERROR or worse is red, INFO and DEBUG have no colour.        *)
Colour(l) ==
  CASE l <= 3 -> "red" [] l = 4 -> "yellow" [] l = 5 -> "green" [] OTHER -> "plain"

TypeOK ==
  /\ place \in [Thread -> {"idle", "prefix", "where", "message", "end"}]
  /\ level \in [Thread -> 0 .. 7]
  /\ colour \in {"red", "yellow", "green", "plain"}

Init ==
  /\ place = [th \in Thread |-> "idle"]
  /\ level = [th \in Thread |-> LogLevel]
  /\ colour = "plain"
-----------------------------------------------------------------------------
(* The level is looked at before anything is written (150), then the        *)
(* colour of the level is set (154-172).                                    *)
Begin(th) ==
  /\ place[th] = "idle"
  /\ \E l \in Level :
       /\ l <= LogLevel
       /\ level' = [level EXCEPT ![th] = l]
       /\ colour' = Colour(l)
  /\ place' = [place EXCEPT ![th] = "prefix"]

(* The module and the name of the level (174); a DEBUG line also has the    *)
(* place it comes from (177).                                               *)
Prefix(th) ==
  /\ place[th] = "prefix"
  /\ place' = [place EXCEPT ![th] = IF level[th] = 7 THEN "where" ELSE "message"]
  /\ UNCHANGED <<level, colour>>

Where(th) ==
  /\ place[th] = "where"
  /\ place' = [place EXCEPT ![th] = "message"]
  /\ UNCHANGED <<level, colour>>

Message(th) ==
  /\ place[th] = "message"
  /\ place' = [place EXCEPT ![th] = "end"]
  /\ UNCHANGED <<level, colour>>

MutantEndKeepsColour(th) ==
  /\ place[th] = "end"
  /\ place' = [place EXCEPT ![th] = "idle"]
  /\ UNCHANGED <<level, colour>>

(* The colour is reset and the line ended (182). *)
End(th) ==
  /\ place[th] = "end"
  /\ colour' = "plain"
  /\ place' = [place EXCEPT ![th] = "idle"]
  /\ UNCHANGED level

Trace(th) == Begin(th) \/ Prefix(th) \/ Where(th) \/ Message(th) \/ End(th)

Next == \E th \in Thread : Trace(th)

Spec == Init /\ [][Next]_vars

(* A thread in es_log_vprintf goes on; nothing makes one log. *)
FairSpec ==
  Spec /\ \A th \in Thread :
            WF_vars(Prefix(th) \/ Where(th) \/ Message(th) \/ End(th))
-----------------------------------------------------------------------------
(* A colour on the terminal is that of a line somebody is still writing:    *)
(* however the lines of the threads mix, none is left behind.               *)
ColourHasALine ==
  colour # "plain" =>
    \E th \in Thread : place[th] # "idle" /\ Colour(level[th]) = colour

(* The terminal goes back to its own colour again and again, however many   *)
(* threads log.                                                             *)
ColourIsReset == []<>(colour = "plain")
==============================================================================
