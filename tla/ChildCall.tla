----------------------------- MODULE ChildCall ------------------------------
(***************************************************************************)
(* What recovery relies on when it classifies the child calls (model and   *)
(* tool calls) of a controller run from the events of their streams: the   *)
(* class only moves forward, and the outside world is touched only while   *)
(* the stream says that the outcome is uncertain.  A call that is          *)
(* safe_to_reevaluate has not been made, a terminal one is not repeated.   *)
(***************************************************************************)
EXTENDS Integers

CONSTANT Calls

VARIABLES class,   \* class[c]: ActiveChildClassification of the stream of c
          runs     \* runs[c]: how often the provider or the tool was invoked

vars == <<class, runs>>

Init ==
  /\ class = [c \in Calls |-> "not_started"]
  /\ runs = [c \in Calls |-> 0]

Classify(c, from, to) ==
  /\ class[c] \in from
  /\ class' = [class EXCEPT ![c] = to]
  /\ UNCHANGED runs

Request(c) == Classify(c, {"not_started"}, "safe_to_reevaluate")
Start(c) == Classify(c, {"safe_to_reevaluate"}, "uncertain")
Conclude(c) == Classify(c, {"safe_to_reevaluate", "uncertain"}, "terminal")

(* The provider or the tool is invoked.                                    *)
Run(c) ==
  /\ class[c] = "uncertain"
  /\ runs' = [runs EXCEPT ![c] = @ + 1]
  /\ UNCHANGED class

Next == \E c \in Calls : Request(c) \/ Start(c) \/ Conclude(c) \/ Run(c)

Spec == Init /\ [][Next]_vars
=============================================================================
