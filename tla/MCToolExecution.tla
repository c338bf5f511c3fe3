-------------------------- MODULE MCToolExecution ---------------------------
(* Two calls of one task run for a tool that needs approval, and a call of *)
(* another run for one that the policy denies whoever approves.            *)
EXTENDS ToolExecution, TLC

CONSTANTS k1, k2, k3, p1, p2, p3

CallTasks == k1 :> 1 @@ k2 :> 1 @@ k3 :> 2
CallTools == k1 :> "fetch" @@ k2 :> "fetch" @@ k3 :> "wipe"
CallArgs == k1 :> "a" @@ k2 :> "b" @@ k3 :> "a"
Risks == "fetch" :> "R2" @@ "wipe" :> "R3"

(* For all arguments until it expires, for another run, for what is denied. *)
Approvals ==
  {[id |-> p1, decision |-> "allow_for_task", task |-> 1, tool |-> "fetch",
    args |-> "a", expires |-> TRUE],
   [id |-> p2, decision |-> "allow_for_task", task |-> 2, tool |-> "fetch",
    args |-> AnyArgs, expires |-> FALSE],
   [id |-> p3, decision |-> "allow_for_task", task |-> 2, tool |-> "wipe",
    args |-> AnyArgs, expires |-> FALSE]}
=============================================================================
