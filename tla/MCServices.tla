----------------------------- MODULE MCServices -----------------------------
(* The small services of the runtime that keep their own state, one at a     *)
(* time: `service` says which one a behaviour is about, the others stay as   *)
(* they start.  Two or three routines for the queue; three coroutines and a  *)
(* pool of one or of four stacks; three lazy objects, two of which need the  *)
(* third; four texts, two of them prefixes of the others, in a pool of two   *)
(* slots that has to grow twice.                                             *)
EXTENDS TaskQueue, Scheduler, LazyLoad, StringPool

ASSUME ConstructorsAcyclic == \A o \in Lazies : Needs(o) \subseteq Lazies \ {o}

VARIABLE service

NeedsThird(o) == IF o = "c" THEN {} ELSE {"c"}

FourTexts == {<<1>>, <<1, 2>>, <<2>>, <<2, 1>>}

\* A hash that tells a text from its prefixes, but not <<1, 2>> from <<2>>,
\* and under which every two texts share a slot at first.
FirstAndLength(text) == 2 * text[1] + 2 * Len(text)

ServicesInit ==
  /\ service \in {"queue", "scheduler", "lazy", "strings"}
  /\ Init /\ SInit /\ LInit /\ PInit
  /\ service # "scheduler" => limit = 2

ServicesNext ==
  /\ UNCHANGED service
  /\ \/ service = "queue" /\ Next /\ UNCHANGED <<svars, lvars, pvars>>
     \/ service = "scheduler" /\ SNext /\ UNCHANGED <<vars, lvars, pvars>>
     \/ service = "lazy" /\ LNext /\ UNCHANGED <<vars, svars, pvars>>
     \/ service = "strings" /\ PNext /\ UNCHANGED <<vars, svars, lvars>>

\* The operating system keeps running a thread that can run; a coroutine
\* yields or ends after a while.
ServicesFairness ==
  /\ WF_vars(service = "queue" /\ Worker)
  /\ \A t \in Routines : WF_vars(service = "queue" /\ PostRoutine(t))
  /\ WF_vars(service = "queue" /\ EndWait)
  /\ WF_svars(service = "scheduler" /\ (Yield \/ SwitchStack))
  /\ \A t \in Loaders : WF_lvars(service = "lazy" /\ LStep(t))

ServicesSpec ==
  /\ ServicesInit
  /\ [][ServicesNext]_<<service, vars, svars, lvars, pvars>>
  /\ ServicesFairness
=============================================================================
