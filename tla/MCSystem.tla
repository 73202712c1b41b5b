------------------------------ MODULE MCSystem ------------------------------
(***************************************************************************)
(* What ed7hook asks the system: both questions of detect.c, asked by the  *)
(* same threads, as jitCreate asks them (a thread is inside one of the     *)
(* functions at a time), and the request of a service.  The two share no   *)
(* state: a behaviour is one of either, and the other stays as it begins.  *)
(***************************************************************************)
EXTENDS DetectVersion, DetectPatch, Messages

VARIABLE part  \* "detect" or "message"

detectVars == <<vars, versionVars>>
systemVars == <<detectVars, messageVars, part>>

SystemInit ==
  /\ Init /\ VersionInit /\ MessageInit
  /\ part \in {"detect", "message"}
  /\ part # "detect" => patched = FALSE /\ kernel = 1
  /\ part # "message" => dispatch = [buffers |-> <<>>, data |-> 7, handles |-> 0, objects |-> 0,
                                     domain |-> FALSE, pid |-> FALSE, pointerSize |-> 0]

AskVersion(t) ==
  /\ part = "detect" /\ at[t] \in {"idle", "done"}
  /\ CallVersion(t) \/ VersionStep(t)
  /\ UNCHANGED <<vars, messageVars, part>>

AskPatch(t) ==
  /\ part = "detect" /\ versionAt[t] = "idle"
  /\ Step(t)
  /\ UNCHANGED <<versionVars, messageVars, part>>

BuildMessage ==
  /\ part = "message" /\ MessageNext
  /\ UNCHANGED <<detectVars, part>>

SystemNext == BuildMessage \/ \E t \in Threads : AskVersion(t) \/ AskPatch(t)

\* A thread inside detectKernelVersion goes on, and takes the mutex when it is free.
SystemSpec ==
  /\ SystemInit /\ [][SystemNext]_systemVars
  /\ \A t \in Threads : WF_systemVars(AskVersion(t) /\ VersionStep(t))
=============================================================================
