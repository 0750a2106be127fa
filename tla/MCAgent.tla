------------------------------ MODULE MCAgent ------------------------------
(* Instances of Agent for TLC: the settings the agent is built with.       *)
EXTENDS Agent

Setting(exec, interrupt, mode) ==
    [toolExecution |-> exec, interruptMode |-> interrupt,
     steeringMode |-> mode, followUpMode |-> mode]

(* Every way to execute tools and to interrupt them. *)
ToolModes ==
    {Setting(exec, interrupt, "one-at-a-time") :
        exec \in {"sequential", "parallel"}, interrupt \in {"wait", "immediate"}}

(* Both ways to drain a queue. *)
QueueModes == {Setting("parallel", "wait", "all"), Setting("parallel", "immediate", "one-at-a-time")}
=============================================================================
