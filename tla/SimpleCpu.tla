----------------------------- MODULE SimpleCpu -----------------------------
(***************************************************************************)
(* The simplecpu agent of the examples, run by the callbacks of Dispatch:  *)
(* a metric for each line of /proc/stat that begins with "cpu", as counted *)
(* when the agent is constructed, over the columns of that line, as read   *)
(* at each fetch.  CPUs may come and go between the two.                   *)
(*                                                                         *)
(* Abstracted: a line is its label and the fetch it was read in; a value   *)
(* is the line it is from.                                                 *)
(***************************************************************************)
EXTENDS Integers, Sequences, FiniteSets

CONSTANTS
  CPUs,       \* numbers of the CPUs there may be
  BootCPUs,   \* those there are when the agent is constructed
  States,     \* instances of cpu_states, 0 to 8
  Columns,    \* columns a line may have: fewer under an old kernel
  MaxBatch    \* bound: fetches begun

VARIABLES
  pc, request, position, any_stored, applied, batch, todo, atom, delivered,
  rc,         \* of Dispatch
  online,     \* the CPUs there are
  columns,    \* the columns of each line
  loaded,     \* ghost: online as the last load saw it
  cpu_info,   \* the lines read
  ticks       \* id |-> the line its value is from

dispatchVars == <<pc, request, position, any_stored, applied, batch, todo,
                  atom, delivered, rc>>
vars == <<dispatchVars, online, columns, loaded, cpu_info, ticks>>
-----------------------------------------------------------------------------
PM_ERR_NODATA == -12368

Total == -1      \* the label "cpu", of the line that sums up the others

\* get_supported_metrics: an item for each line.
Framework == INSTANCE Dispatch WITH
  PMIDs <- 0..Cardinality(CPUs),
  supported_metrics <- [item \in 0..Cardinality(BootCPUs) |->
                          [domain |-> "cpu_states", storable |-> FALSE]],
  Domains <- {"cpu_states"}, NoDomain <- "NULL",
  live <- [d \in {"cpu_states"} |-> States],
  Instances <- States, PM_INDOM_NULL <- -1,
  AgentCodes <- {PM_ERR_NODATA}, MaxValues <- 1

TypeOK ==
  /\ Framework!TypeOK
  /\ {online, loaded} \subseteq SUBSET CPUs
  /\ columns \in Columns
  /\ cpu_info \in Seq([label : CPUs \cup {Total}, batch : 0..MaxBatch])
  /\ DOMAIN ticks = DOMAIN delivered

\* The lines of /proc/stat: the total, and the CPUs online, in order.
Line(n) ==
  IF n = 1 THEN Total
  ELSE CHOOSE c \in online : Cardinality({d \in online : d < c}) = n - 2

\* Mutant: cpu_info is not cleared first.
LinesAdded(before) ==
  before \o [n \in 1..(Cardinality(online) + 1) |-> [label |-> Line(n), batch |-> batch]]

\* What a load makes of cpu_info.
Lines(before) ==
  [n \in 1..(Cardinality(online) + 1) |-> [label |-> Line(n), batch |-> batch]]

\* The constructor has loaded the lines that the metrics are made from.
Init ==
  /\ online = BootCPUs /\ columns \in Columns /\ loaded = online
  /\ batch = 0 /\ cpu_info = Lines(<<>>)
  /\ ticks = [id \in {} |-> <<>>]
  /\ pc = "idle" /\ request = <<>> /\ position = 1 /\ any_stored = FALSE
  /\ applied = <<>> /\ todo = {} /\ rc = Framework!Pending
  /\ atom = Framework!NoAtom /\ delivered = Framework!NoReply

\* A CPU goes offline or comes online.
Hotplug ==
  /\ \E c \in CPUs : online' = (online \ {c}) \cup ({c} \ online)
  /\ UNCHANGED <<dispatchVars, columns, loaded, cpu_info, ticks>>

OnFetch ==
  /\ Framework!OnFetch
  /\ ticks' = [id \in {} |-> <<>>]
  /\ UNCHANGED <<online, columns, loaded, cpu_info>>

\* begin_fetch_values: load_cpu_ticks reads the lines, or throws.
load_cpu_ticks ==
  /\ \/ /\ cpu_info' = Lines(cpu_info) /\ loaded' = online
        /\ \E i, j \in Framework!Askable : Framework!FetchBegun({i, j})
     \/ /\ cpu_info' = <<>> /\ loaded' = {}
        /\ Framework!BeginThrows([how |-> "pcp", code |-> PM_ERR_NODATA])
  /\ UNCHANGED <<online, columns, ticks>>

\* Mutant: the total is skipped.
LineOf(item) == item + 2

\* Both calls of at: the line of the metric's item, if there is one.
LineFor(item) == item + 1

\* fetch_value, under on_fetch_callback.
fetch_value(id) ==
  /\ IF LineFor(id[1]) <= Len(cpu_info) /\ id[2] < columns
     THEN /\ Framework!FetchTaken(id, Framework!PMDA_FETCH_STATIC)
          /\ ticks' = [i \in DOMAIN ticks \cup {id} |->
                         IF i = id THEN cpu_info[LineFor(id[1])] ELSE ticks[i]]
     ELSE /\ Framework!FetchThrows(id, [how |-> "out_of_range", code |-> 0])
          /\ UNCHANGED ticks
  /\ UNCHANGED <<online, columns, loaded, cpu_info>>

FetchReturns ==
  /\ Framework!FetchReturns
  /\ UNCHANGED <<online, columns, loaded, cpu_info, ticks>>

Run ==
  \/ load_cpu_ticks
  \/ \E id \in Framework!Askable : fetch_value(id)
  \/ FetchReturns

Next == Hotplug \/ OnFetch \/ Run
-----------------------------------------------------------------------------
(* Properties.                                                             *)

\* In one reply every value is from a line read at this fetch, the total from
\* the total, and no two metrics are from the same CPU, even if others than
\* those the metrics were made for are online.
OneLineEach ==
  \A i, j \in DOMAIN ticks :
    /\ ticks[i].batch = batch
    /\ ticks[i].label = Total <=> i[1] = 0
    /\ ticks[i].label = ticks[j].label => i[1] = j[1]

\* The metrics are those of the CPUs they were made for, and all there, at
\* each fetch that finds just these online and all columns there.
TicksOfItsCPU ==
  pc = "fetch" /\ loaded = BootCPUs /\ columns > 8 =>
    /\ todo \ todo' \subseteq DOMAIN delivered'
    /\ \A i \in DOMAIN ticks' : i[1] > 0 =>
         Cardinality({c \in BootCPUs : c < ticks'[i].label}) = i[1] - 1

\* Every step of the agent is a step of Dispatch, or none.
DispatchStep == Framework!Next \/ UNCHANGED Framework!vars
=============================================================================
