# Verification of PMDA++

PMDA++ (`src/include/pcp-cpp/`) is a header-only C++ library for writing
agents (PMDAs) of Performance Co-Pilot. An author derives a class from
`pcp::pmda`, says which metrics there are and how to fetch a value; the library
does the rest: it starts the agent as a daemon or as a DSO inside PMCD,
registers the metrics with the C library `libpcp_pmda`, and answers the
callbacks that library makes.

This directory specifies that behaviour in TLA+, model-checks it with TLC on
small instances, and proves the most important parts with TLAPS for every
value of the constants. Every definition is translated from the headers; what
`libpcp_pmda` does is modelled only as far as the headers depend on it, and is
marked `external` in `PROJECT.json`. Paths below are relative to
`src/include/pcp-cpp/` unless they start with `src/`.

## The system

One thread runs everything. What makes the code hard is not parallelism but
the alternation of four parties on that thread, none of which sees the others'
state: PMCD and its clients, `libpcp_pmda`, the base class `pcp::pmda`, and the
functions the agent overrides, which may throw anything at any call.

    main / PMCD ──> run_daemon, init_dso ──> initialize_pmda ──> pmdaInit
                                                   │ tables, maps
    client ──> PMCD ──> libpcp_pmda ──> on_fetch, on_store, on_text
                             ^               │
                             │ codes, atom   v
                             └─── begin_fetch_values, fetch_value, store_value
                                        (the agent; may use pcp::cache)

| Component | State | Operations | What is hard | What makes it correct |
|---|---|---|---|---|
| Registration (`pmda.hpp:856-930`, `1276-1298`, `1511-1529`) | metric and indom tables, the map `instance_domains`, each domain's PMCD id | `initialize_pmda`, `count_metrics`, `allocate_pmda_indom`, `set_callbacks` | three numberings of the domains (the agent's, the table's, PMCD's), counts taken in another pass, ids narrowed to bit fields | assertions hold; every row names its metric's domain; published ids lead back to the metric; tables are visible only when complete |
| Data callbacks (`1060-1210`, `1545-1563`) | none between calls; `pmdaFetch` keeps one atom for a whole fetch | `on_fetch`, `on_fetch_callback`, `on_store`, `validate_instance` | any exception at any call; a request half done; codes whose sign is a meaning; domains that grow | stores are a prefix of the request and success means all; only storable metrics with a valid instance reach the agent; a delivered value was fetched, for that id, in this fetch |
| Help texts (`1213-1265`) | none | `on_text` | the id taken apart again; two styles with a fallback; the PMDA's number read as a domain's id | a metric gets its own text, and some text if it has one |
| Life cycle (`44-160`, `295-380`, `420-700`, `827-849`) | `instance`, `free_on_destruction`, the pointers in `pmdaInterface` | `init_dso`, both `run_daemon`, both `parse_command_line`, `initialize_dso`, `~pmda` | the C library copies pointers; every step may throw or return early; two builds | pointers live as long as they are used; the agent and its copies are freed, once, on every path; no malformed option ends in success; no callback without an agent |
| Exports (`1300-1509`) | the static `previous_cluster_name` | `export_pmns_data`, `export_help_text`, `export_support_files` | two passes that must agree; state that outlives a file | a namespace file is a tree of all metrics; a help file covers everything |
| Cache wrappers (`cache.hpp`) | the `pmdaCache` of libpcp_pmda | `lookup`, `store`, `purge`, `perform` | a status that is also an exception's code | an inactive entry is never returned as active, a failed call never as a result |
| `simple` example (`src/example/simple/simple.cpp`) | `numfetch`, run times, `file_change`, the cache of time slices and the instances of `simple.now` | `begin_fetch_values`, `fetch_value`, `store_value`, `timenow_check` | caches keyed on a counter that clients may store to; a file that changes, goes and comes back between any two steps; a cache whose calls fail halfway | what is fetched is as new as the fetch; the instances are those the file lists; whatever is asked for is delivered |
| `simplecpu` example (`src/example/simplecpu/simplecpu.cpp`) | the lines of `/proc/stat`, `cpu_info` | `load_cpu_ticks`, `fetch_value` | CPUs that come and go after the metrics have been counted | a metric has one line, read in this fetch |
| Builders (`metric_description.hpp`, `instance_domain.hpp`) | the maps an agent describes itself with, and `most_recent_cluster` | chained functors; copies, moves | an iterator kept between calls and copied with its map | a description is what the calls say: each metric in the cluster named last, what came first is kept |
| Passed-on callbacks, atoms, units, types, configuration, exceptions | none | conversions and one-line forwards | — | covered by the unit tests |

`PROJECT.json` lists the components with their status, the hazards with the
line where each bites, and every definition with the lines it models.

## The modules

**Registration.tla** is `initialize_pmda`. One action per phase, and one
(`Visit(k)`) per turn of the nested loops, so that each `assert` of the code is
a statement about a state (`AssertsHold`). `supported_metrics` maps a key
(cluster, item) to its domain or to `NoDomain`; the loops' order is that of the
two `std::map`s (`Before`). `NumberDomain` is the `insert` that gives a domain
its table position at first use, `Inserted` the `insert` into the member map.
`pmdaInit` is external: it puts the PMDA domain number over each serial and
each PMID. The widths of the bit fields are constants, so that a small instance
meets ids that do not fit.

**Publication.tla** is the abstract specification of registering: the tables
become visible once, in one step, complete and as described. Registration
refines it with `described` read from the published tables
(`PublishesOnce`).

**Help.tla** extends Registration with `on_text`: a request after start-up,
answered from what registration left behind. It therefore sees PMIDs that lost
bits on their way. It has no state of its own: `on_text` is an operator of
the tables, and the `registration` run asks every request of every agent. For
instance domains the requests are those that do arrive, published ids: `on_text`
looks the PMDA's number up among the agent's ids (`pmda.hpp:1234`), and
`IndomTextOfNamesake` says what comes of it, which is nothing, or the text of a
domain that happens to have that number.

**Dispatch.tla** is the data path. The callbacks are split where the agent is
called, because there the agent decides how the call ends (`Thrown`) and may add
instances to its domains (`AgentInserts`, which follows
`instance_domain::operator()`). `pmdaFetch` is external and is
modelled from what the code relies on: it asks for registered metrics only,
gives the callback one `pmAtomValue` that it reuses, and puts that atom in the
reply when the code is positive. A value is modelled by its origin (the id it
was fetched for and in which fetch), which is all that `DeliveredFresh` needs.

**Requests.tla** is the abstract specification of the data path, as those who
send requests see it. Dispatch takes many steps for a request, and the agent
runs in most of them; in Requests, a request is asked and then answered in one
step, with all of its outcome: the first values of a store, all of them exactly
if the status says success; a reply of values that were fetched for it; no
values with an error. What is stored or replied must belong to a registered
metric and to an instance there is. Dispatch refines it (`ServesRequests`): the
outcome is what is in `applied`, `delivered` and `rc` when the callback has
returned, and nothing before.

**Lifecycle.tla** follows one start of one agent to its end. A string is named
after the variable that owns it, `heap` and `frame` are what is alive, `ext`
are the pointers `libpcp_pmda` was given. `Builds` chooses between the Boost
parser and `pmdaGetOpt`. `Unwind` is the exception that reaches `init_dso` or
the static `run_daemon`; it takes the locals with it. It may come from any place
the agent's own code runs in (`NamesThrow`, `InitializeThrows`, …), also through
`pmdaMain` from a callback (`pmdaMainThrows`, as `BeginEscapes` of Dispatch): then
`run_daemon` does not get to the code that frees the tables. `Terminates` is an
exception that no handler catches. The calls of `libpcp_pmda` may fail too; what
they leave in `interface.status` is `status`, at which only `initialize_dso`
looks. Where a call fails without anybody looking (`pmdaDaemonFails`,
`pmdaOpenLog`, `pmdaInitFails`, `pmdaConnectFails`) the start goes on, with
`erred` to remember it.

**Exports.tla** has the files as lists of what they hold. `ListCluster` and
`WriteGroup` are the second and third pass of `export_pmns_data` at a cluster;
the recursive functions `Listed` and `Written` are the passes after so many
clusters. The `previous` of the second pass is static in the code: it starts
from `previous_cluster_name` and survives into the next export.

**Builders.tla** is what comes before registration: `metrics_description` is a
map and an iterator into it (`most_recent_cluster`), filled by chained functors.
Agents return descriptions by value, and `initialize_pmda` assigns the one it
gets (`pmda.hpp:861`); so `Copy`, `Move` and `Destroy` stand beside the functors,
and an iterator says which object it points into. `calls` is a history variable:
the functor calls that an object stems from, by its own or by what it was copied
from; `Described` is the map they mean. An iterator that is dereferenced at an
end, or after its element is gone, sets `undefined`, and nothing follows.

**Cache.tla** has the functions of `pcp::cache`, which keep no state: an
operator takes a cache as a value and says what a call returns or throws. That a
status can be both a result and the code of an exception is the point of it; the
codes it may throw (`LookupCodes`) are what `inactive_fetch` gives Dispatch's
agent to throw. `pmdaCache` is external.

**Simple.tla** is the `simple` agent on the callbacks of Dispatch. Each of its
actions is an effect on the agent's variables and, through an instance of
Dispatch, the step of the callback it happens in; so an action that did what
Dispatch does not expect of an agent would not be one, or would violate
`ImplementDispatch`. `timenow_check` is split where the environment can act:
after `stat`, after the file is opened (`OpenFile`), and after each word
(`TakeWord`); `Edit` replaces, removes or restores the file between any two
steps, with any modification time. Each call of the cache may fail (`ReadFails`,
`CallFails`). `missed` and `setback` are ghosts: the file has changed in a way
its modification time hides, and `numfetch` has gone down since times were read.

**SimpleCpu.tla** is the `simplecpu` agent in the same manner: metrics made from
the lines of `/proc/stat` at start, values taken from the lines at each fetch,
`Hotplug` in between.

**Examples.tla** composes the two: a process is either of them, with the other's
variables standing still, and the properties are stated once for both.

**MCDispatch, MCHelp, MCExamples and MCExports** give the constants of the
runs.

Modules also hold *mutants*: operators that stand beside a definition, take the
same parameters and get it wrong in a plausible way. With a definition
replaced by its mutant, TLC finds the property violated that is paired with it in
`PROJECT.json`; so no property holds by the shape of the model alone.

## What the runs show

| Run | Shows | Instance, and why it is enough |
|---|---|---|
| `registration` | help requests about a metric answered with its own text, what becomes of those about a domain; all assertions;  rows name their domains; PMIDs lead back; ids reach their domains; Publication is implemented, its liveness included | every agent with up to 4 metrics in 2 clusters, 3 domains, ids {0, 1, 5, 15}: equal ids, 5 = 1 modulo the 4 serials, 15 = `PM_INDOM_NULL`; cluster 3 does not fit its one bit and reads back as 1, so that a help request can be mistaken for another's; over four sets of texts, each metric and each instance has all combinations of styles |
| `dispatch` | the seven properties of the data path, among them that it implements Requests | a singular, an array and a read-only metric, an unknown PMID; 2 instances that may appear at any call; stores of up to 2 values (the second is validated after the agent ran for the first); 2 fetches, so that a value of an earlier one could be delivered |
| `lifecycle` | pointers, ownership, what is left allocated, which options can end in success, what it starts as, termination | 3 options from the command line and the file together: enough for a conflict of two and something that stops or fails before it; all failures |
| `exports` | namespace files, whatever was exported before; help files | 3 clusters of at most one metric, 2 names and the unnamed one: the least in which a group is listed, left and met again; 2 exports of any kind |
| `builders` | a description is what the calls say, unless a copy is added to before it names a cluster; iterators point to clusters that exist | 2 objects, 2 clusters, 1 item, 4 calls: enough to name a cluster twice under two names, to come back to it, and to copy or move in between |
| `examples` | instances and times of `simple` are current, its agent always delivers; the lines of `simplecpu`; both implement Dispatch's agent and answer every callback | a file that changes twice, with two modification times (so that one repeats) and two contents (words that do not count, one twice, an empty line); 2 fetches; a 32-bit counter of 3 values, so that it wraps; 3 CPUs, 2 at start. 336,516 states, the largest run |

Six runs look for a counterexample, because the code and what is said of it
disagree; the findings in `PROJECT.json` quote both sides.

* `indom_resolves`: the domain ids an author chooses are *not* free. The metric
  row gets the table position (`pmda.hpp:895`), the indom row the author's id,
  and they agree only if ids count 0, 1, … in order of first use
  (`OrdinalIndomResolves`, in the `registration` run, shows that this suffices).
* `inactive_fetch`: an exception with a positive code, as `cache::lookup` throws
  for an inactive entry, is read as "value found" (`pmda.hpp:1111`) and the
  previous value is delivered. The `dispatch` run has error codes and
  `PMDA_FETCH_NOVALUES` only, and there every value is fresh.
* `dso_pointers`: `initialize_dso` passes `pmdaDSO` a temporary and a local
  (`pmda.hpp:832`).
* `exit_code`: `run_daemon` looks at no status of `libpcp_pmda`. A daemon that
  could not connect (`pmda.hpp:340`) goes on to `pmdaMain`, falls out of it and
  exits with `EXIT_SUCCESS`, against `pmda.hpp:90`. The instance is a daemon built
  with Boost and given no option at all: none is needed. Without Boost, errors
  that `pmdaGetOpt` counts end in `EXIT_SUCCESS` too, by the early return at
  `pmda.hpp:376`, where the Boost parser throws. What does hold of the exit code
  is in the `lifecycle` run: no malformed or unknown option, wherever it stands,
  ends in success, nor, with Boost, do options that contradict each other, unless
  one asks for something else and to stop (`SuccessOnlyAsGiven`).
* `builder_copies`: a copied description keeps the original's iterator. Given a
  metric before a cluster, it does not throw as documented
  (`metric_description.hpp:319`), but dereferences the other object's end, or
  adds to the other object.
* `pmns_twice`: the second namespace file of a process omits the group that the
  first one listed last, if it comes first; that is, if the agent has one group
  only. With more, or none, every file is a tree (`ExportedIsTree`).

Deadlock is not checked where the system really ends: start-up is over, an agent
exits, a process makes a bounded number of exports, the calls of `builders` are
used up, the agent has thrown through `pmdaMain`, or the examples have had their
bounded number of fetches. That nothing stops in the middle is checked by the
liveness properties instead: `PublishesOnce`, `Answered`, `Settles`,
`ExamplesAnswer`.

### Bounds

`MaxValues`, `MaxBatch` (Dispatch), `MaxOptions` (Lifecycle), `MaxClusters`,
`MaxItems`, `MaxExports` (Exports), `MaxCalls` (Builders), `MaxTime`,
`MaxEdits`, `ClientLists`, `StoreIds`, `Values` (Simple) and `MaxBatch` bound counters,
sequences and what clients send. They are constants of the modules; the proofs
hold for all their values.

### Fairness

* Registration: `WF(Next)`. `initialize_pmda` is sequential code that waits for
  nobody.
* Dispatch: `WF(Run)`, where `Run` is what goes on within a callback. The agent's
  functions are taken to return or throw; no request ever *has* to arrive.
* The examples: `WF(CallbackRuns)`, the steps within a callback of either agent.
  The file and the CPUs change without fairness, and so no liveness rests on
  them.
* Lifecycle: `WF(Run)`; `pmdaMainReturns`, `pmdaMainThrows` and `Terminates` are
  not in `Run`, as PMCD may stay connected for ever, and nothing has to throw. A start that has not settled does settle (`Settles`): it
  exits, or serves until PMCD goes.

## What is proved

`Registration_proofs` proves `Ind` inductive for any number of metrics and
domains and any widths: `TypeOK`, and that the counts are right (`CountsRight`),
what the loops have passed at each point (`Progress`), that the local map, the
local vector and the indom table describe one numbering of the domains met so far
(`OneNumbering`), that each metric passed has one row (`OneRowEach`), and what
the rows hold before and after `pmdaInit` (`RowsNumbered`). No assertion of the
code is inductive alone: that a domain's number is below `indom_count` needs
that the domains numbered are those met, and that their number is the count of a
set taken in another pass; hence the lemmas on cardinality. From it follow

* `TypeCorrect`: `Spec => []TypeOK`;
* `AssertionsNeverFail`: `Spec => []AssertsHold`;
* `RowsNameTheirDomains`: `Spec => []RowNamesItsDomain`;
* `PublicationRefined`: every step is a step of Publication or a stutter, if
  there are no more domains than serials.

The assumptions are `RegistrationAssumption` (finitely many metrics and domains,
positive widths, ids are naturals) and `NullIndomAssumption` (the flag bit of
`PM_INDOM_NULL` is above anything `pmdaInit` builds). TLC evaluates both.

A second part of the module adds `IdInv`: the position of a domain in both tables is
its number and its row has its id (`Owners`), each metric row has its metric's
PMID (`Pmids`), and the map holds exactly the domains before `indom_index`, the
first of those that share an id (`Recorded`). Two lemmas on division (`Divided`,
`PmidBack`) take ids apart again for any widths of the bit fields; `PmidCut` says what a PMID keeps of ids that do not fit. It yields
`PmidsLeadBack`, `OrdinalsResolve`, `IdsReach` and `RecordsAreCarried`, that is
all properties of the run that are about ids. `Help_proofs` builds on it:
`MetricTextsAreTheirOwn` and `IndomTextsOfNamesakes`, for any texts, under
`HelpAssumption`. The second needs that no id `pmdaInit` completes is the number of the PMDA
(`DomainOfFixed`), so that this number, which is all that `on_text` looks up, can
only be found as an id the agent gave.

`Dispatch_proofs` proves, for stores and fetches of any length and any agent,
`DispatchTypeCorrect`, `StoresInOrder` and `OnlyStorable`; and for agents whose
exceptions carry errors (negative codes) `StoreSuccess`, `FetchesFresh` and
`RequestsServed`.
`StoreInOrder` alone is inductive with types; that success means all needs
`AnyStoredRight`; freshness needs that a refused id and a thrown code are never
positive, the point at which `inactive_fetch` fails.

`RequestsServed` is the refinement of Requests, `Spec => ServesRequests`. Each step
is a step of Requests or leaves what is seen unchanged (`StepServes`). Besides
the above it needs `OutcomeInv`: that a fetch has stored nothing and a store has
no reply, and that what is in a reply still has its metric and its instance,
because domains only grow (`ThereRemains`). What of it is stored is a prefix by
`StoreInOrder`, and its status is true by `StoreReturnsRight`.

When an agent's exceptions carry errors is known for those of `pcp::cache`:
`LookupsThrowErrors` says of any cache, and of any ids and names looked up with
any flags, that the codes thrown are negative exactly if every entry found is
active. `CachedAgentsServe` puts the two together. Its hypothesis is needed:
`inactive_fetch` is what happens with an inactive entry. Both example agents
meet `NegativeCodes`, as `ImplementDispatch` shows with the codes they throw.

`Builders_proofs` proves, for any number of objects, clusters, items and calls,
`BuildersTypeCorrect` and `DescriptionsRight`. The first half are lemmas on
`Described`: one more call changes it as the functor changes the map
(`ClusterDescribed`, `MetricDescribed`). They need that positions are well
ordered, as what comes first is kept (`FirstOf`), and that no metric precedes
its cluster's name (`NamedFirst`), or naming a cluster would bring old metrics
back. That metrics go where the calls mean them to needs `OwnIterators`: an
iterator that is not borrowed stands at the cluster named last.

`Simple_proofs` proves, for any file contents, any changes of the file and any
sizes, `NowCurrent`, `NowItsSlice`, `AlwaysDelivers`, `TimesAreFresh`,
`TimesOfOneReading`, and `SimpleImplements`: `Spec => Framework!Spec`, the agent
is one that Dispatch is written for. The invariant says at which point of
`timenow_check` which entries of the cache may be active, given what of the line
is still to be read (`FileInv`); that each slice has an id of its own in the cache,
and the domain knows that id under the same name (`CacheInv`); that only what is
active is still to be asked for (`NowInv`); and that `numfetch` is above
`oldfetch` from the moment a fetch has begun until the times are read, unless
`setback` (`TimesInv`).

`SimpleTypeCorrect` comes last, as it needs the rest: an entry of the cache has an
id below 3 as ids are those of a count of at most three slices, and the callbacks keep
their types as only instances of the domain are asked for (`SimpleTypes`).

`Examples_proofs` proves the rest for both agents: `ExamplesTypeCorrect`,
`ExamplesImplement`, `SimpleAlwaysDelivers`, `CpuLinesApart` and `CpuTicksRight`,
for any CPUs that come and go and any number of columns. The lines of
`/proc/stat` are the total and then the CPUs online by rank, and `Line` chooses
the CPU of a rank; that there is exactly one is a lemma on finite sets of numbers
(`EveryRank`). The invariant (`CpuInv`) says that within a fetch `cpu_info` is
what was read at its begin from the CPUs then online (`ReadFrom`), and that each
value is a copy of its metric's line. The assumption is `ExamplesAssumption`:
finitely many CPUs, those of the start among them.

`Lifecycle_proofs` proves, for any set of options, any configuration file and
both builds, `LifecycleTypeCorrect`, `DaemonPointers`, `CopiesOwnedOnce`,
`NothingIsLeft`, `CallbacksHaveAgent`, `SuccessAsGiven` and `StartsAsTold`. The
invariant has four parts: where control is and whether there is an agent
(`ControlInv`); what is allocated is the agent, the copies on the stack, and its
tables, in use or left behind (`HeapInv`); a process that was not told of an error
keeps no tables it does not use (`TablesInv`); and what the interface points to are
run_daemon's locals, `argv` and those copies (`ExtInv`). All the exceptions do the
same to it (`Unwinding`, `UnwindingKeeps`). `ToldInv` and `SuccessInv` add what the
parsers have let through.

`Exports_proofs` proves `HelpFilesCoverAll`: of the metrics with one domain there
is a first in the order of the loops (`FirstMetric`), and it is the one that the
map keeps. `ExportsAreTrees` is about two recursive functions, which the prover
cannot do by induction with an operator for the induction hypothesis; `Counting`
is that induction for a set of numbers, and `Recursion` shows that such functions
exist. With it, after c clusters each pass has listed what those c have to list,
each once (`ListedOnce`, `WrittenOnce`), provided that the name the second pass
starts from is not that of the first group (`NewFirst`). The name is that of the
last group whenever something was exported before (`PreviousIsLast`), so
for clusters of one name that are neighbours it is the first only in an
agent of one group (`FirstIsNew`). `ExportTypes` is the type invariant.

Not proved, only model-checked: liveness under fairness, which the prover cannot
do: `PublishesOnce` in part, `Answered`, `Settles`, `ExamplesAnswer`. All other
properties of the passing runs are stated by a theorem; for `PublishesOnce` that
is its safety part (`PublicationRefined`).

## What is not modelled

* The functors of `instance_domain` but for instances added while the agent runs
  (`AgentInserts` of Dispatch). Registration starts from any map the builders
  could make; that it is one they made is not a refinement yet.
* Atoms, units, types, versions, `config.hpp` and the formatting of all output:
  stateless conversions, which the unit tests go through.
* Callbacks that forward to `libpcp_pmda` in one line.
* The colours `simple` cycles through, which nothing else depends on, and the
  `trivial` example, which keeps no state.
* A second agent in one process (a second `init_dso`), and an agent that
  overrides the callbacks or adds options.
* The files' numbers, the domain header and the root file.
* `PCP_CPP_NO_ID_VALIDITY_CHECKS` and interface versions below 5.

Behaviours met while modelling that no run looks for, of most of which nothing in
the repository says what they should be: a daemon through whose `pmdaMain` an
exception passed, or whose `pmdaInit` failed, does not free its tables
(`pmda.hpp:346-350`; the process is about to end); clusters named a, b, a yield
the group a twice; a positive code thrown by `store_value` reports success; an exported
header has the default domain number whatever `--domain` says; `simple.time.user` is answered with the system time and `simple.time.sys` with the
user time (`src/example/simple/simple.cpp:111`, `FetchTimes` in Simple), against
the comments at lines 102-103; a configuration file of
`simple` that is moved away and back with its old modification time leaves
`simple.now` without instances, as `timenow_check` clears the cache and keeps the
time (`missed` in Simple), and a file that could not be opened is not tried again;
`simplecpu` answers, after a CPU went offline, with the ticks of the CPUs that
moved up (`TicksOfItsCPU` holds with the CPUs of the start only).

## Plan

1. *(done)* Registration and Publication, with the inductive invariant proved.
2. *(done)* Dispatch, Builders, Lifecycle and Help, with safety proved.
3. *(done)* Cache, Simple, SimpleCpu and Examples; safety proved, both agents
   shown to implement Dispatch's agent.
4. *(done)* Proofs for the exports.
5. *(done)* Requests, and the proof that Dispatch implements it.

Left for later:

* the functors of `instance_domain` in Builders, and Builders composed with
  Registration, which starts from any map an agent may have built;
* a second start in one process (`init_dso` twice) in Lifecycle, composed with
  the callbacks of Dispatch;
* liveness (`PublishesOnce` in part, `Answered`, `Settles`, `ExamplesAnswer`),
  which is only model-checked.

## Running

    tlc -config Registration.cfg MCHelp.tla
    tlapm Registration_proofs.tla

The module of each configuration is named in `PROJECT.json`. The largest run
(`examples`) takes about two minutes, the proofs take a few minutes.
