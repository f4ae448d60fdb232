------------------------------ MODULE Examples -----------------------------
(***************************************************************************)
(* One process that is either of the two example agents that keep state;   *)
(* both run on the callbacks of Dispatch.                                  *)
(***************************************************************************)
EXTENDS Simple

CONSTANTS
  Agents,                            \* the agents to look at
  CPUs, BootCPUs, States, Columns    \* of SimpleCpu

ASSUME ExamplesAssumption ==
  /\ Agents \subseteq {"simple", "simplecpu"}
  /\ CPUs \subseteq Nat /\ IsFiniteSet(CPUs) /\ BootCPUs \subseteq CPUs
  /\ States \subseteq 0..8
  /\ Columns \subseteq Nat

VARIABLES agent, online, columns, loaded, cpu_info, ticks

cpuVars    == <<online, columns, loaded, cpu_info, ticks>>
simpleVars == <<fileVars, nowVars, timesVars, numfetch, values>>

Cpu == INSTANCE SimpleCpu

\* The variables of the other agent stand still.
ExamplesInit ==
  /\ agent \in Agents
  /\ \/ /\ agent = "simple"
        /\ Init
        /\ online = {} /\ columns = 0 /\ loaded = {} /\ cpu_info = <<>>
        /\ ticks = [id \in {} |-> <<>>]
     \/ /\ agent = "simplecpu"
        /\ Cpu!Init
        /\ conf = NoFile /\ edits = 0
        /\ missed = FALSE /\ statbuf = NoFile /\ reading = "no" /\ line = <<>>
        /\ file_change = 0
        /\ entries = EmptyCache /\ now_domain = [i \in {} |-> ""] /\ clock = 0
        /\ numfetch = 0 /\ oldfetch = 0
        /\ times = [call |-> 0, batch |-> 0] /\ setback = FALSE
        /\ values = [id \in {} |-> <<>>]

ExamplesNext ==
  /\ UNCHANGED agent
  /\ \/ agent = "simple" /\ Next /\ UNCHANGED cpuVars
     \/ agent = "simplecpu" /\ Cpu!Next /\ UNCHANGED simpleVars

allVars == <<agent, vars, cpuVars>>

\* A callback that has started runs on.
CallbackRuns ==
  /\ UNCHANGED agent
  /\ \/ agent = "simple" /\ Run /\ UNCHANGED cpuVars
     \/ agent = "simplecpu" /\ Cpu!Run /\ UNCHANGED simpleVars

ExamplesSpec == ExamplesInit /\ [][ExamplesNext]_allVars /\ WF_allVars(CallbackRuns)

ExamplesTypeOK == IF agent = "simple" THEN TypeOK ELSE Cpu!TypeOK

\* Both agents, driven by their files, CPUs and clients, do only what Dispatch
\* says of an agent: domains that only grow, no exception that carries the
\* positive status of a cache entry, every error answered.
ImplementDispatch ==
  [][IF agent = "simple" THEN DispatchStep ELSE Cpu!DispatchStep]_allVars

\* Every callback of either agent returns: between the agent's state and what
\* Dispatch allows, there is always a step to take.
ExamplesAnswer == pc # "idle" ~> pc = "idle"

\* Every value that simple is asked for is delivered.
SimpleDelivers == [][agent = "simple" => AllDelivered]_allVars

\* In one reply of simplecpu each metric has a line of its own, read just now.
CpuOneLineEach == agent = "simplecpu" => Cpu!OneLineEach

\* With the CPUs it was started with online, simplecpu delivers each CPU's ticks.
CpuTicksOfItsCPU == [][agent = "simplecpu" => Cpu!TicksOfItsCPU]_allVars
=============================================================================
