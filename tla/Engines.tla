------------------------------ MODULE Engines ------------------------------
(***************************************************************************)
(* The two engines a coding task can run on, of which the configuration    *)
(* names one: the tool loop of our own in a sandbox (DevRunner), or the    *)
(* managed agents of the provider (ManagedAgent).  The setting is read by  *)
(* each run; the two share nothing else, and one at a time is shown.       *)
(***************************************************************************)
EXTENDS DevRunner, ManagedAgent

VARIABLE engine  \* dev_engine

DevEngines == {"e2b", "cma"}

InitEngines ==
  /\ engine \in DevEngines
  /\ Init /\ InitManaged

OwnStep == engine = "e2b" /\ Next /\ UNCHANGED <<engine, mvars>>

ManagedStep == engine = "cma" /\ NextManaged /\ UNCHANGED <<engine, vars>>

NextEngines == OwnStep \/ ManagedStep

EngineSpec == InitEngines /\ [][NextEngines]_<<engine, vars, mvars>>
=============================================================================
