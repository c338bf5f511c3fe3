---------------------------- MODULE MCController ----------------------------
(* One task run: rival start calls, an owner who cancels and one who       *)
(* presents the continuation token, sometimes twice.                       *)
EXTENDS Controller

CONSTANTS r1, r2, x1, c1, c2

Meter(provider, tool, steps, repair, verifier) ==
  [m \in Meters |-> CASE m = "provider" -> provider [] m = "tool" -> tool
     [] m = "steps" -> steps [] m = "repair" -> repair [] OTHER -> verifier]

Independent(s) == [steps |-> s, deps |-> [x \in {1, 2, 3} |-> {}]]
Chain(s) == [steps |-> s, deps |-> [x \in {1, 2, 3} |-> {y \in s : y < x}]]

(* Step 1 is a tool, 2 a provider call, 3 another use of the tool.         *)
ToolKinds == <<"tool", "provider", "tool">>
QuietKinds == <<"provider", "verification", "manual">>
OneTool == <<"search", "search", "search">>
TwoTools == <<"search", "search", "edit">>

RacePlans == {Independent({1}), Chain({1, 2}), Chain({1, 2, 3})}
RepairPlans == {Chain({1, 2}), Independent({1}), Independent({2, 3})}
QuietPlans == {Chain({1, 2}), Independent({2, 3})}

RaceBudget == Meter(4, 2, 2, 2, 2)
RepairBudget == Meter(6, 4, 6, 3, 4)
QuietBudget == Meter(3, 2, 3, 1, 1)
=============================================================================
