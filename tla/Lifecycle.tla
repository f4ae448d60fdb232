----------------------------- MODULE Lifecycle -----------------------------
(***************************************************************************)
(* The life of an agent object: run_daemon from the command line to the    *)
(* exit code, and init_dso from the call of PMCD until it is served.       *)
(* libpcp_pmda keeps the pointers it is given, so what matters is who owns *)
(* each string and table, and what is still alive when it is used.         *)
(*                                                                         *)
(* A run is sequential, but nearly every step may throw, return early or   *)
(* fail without anybody looking, and each way out frees something else.    *)
(*                                                                         *)
(* Abstracted: an option is given or not, with its value only in its name; *)
(* a string is named after the variable that owns it; the two tables and   *)
(* the instance arrays are one object, allocated and freed together.       *)
(***************************************************************************)
EXTENDS Integers, Sequences, FiniteSets, FiniteSetsExt

CONSTANTS
  Builds,       \* whether Boost.Program_options parses the command line
  Modes,        \* how the agent is started
  MaxOptions    \* bound: options given altogether

ASSUME LifecycleAssumption ==
  Builds \subseteq BOOLEAN /\ Modes \subseteq {"daemon", "dso"} /\ MaxOptions \in Nat

VARIABLES
  boost,            \* built without PCP_CPP_NO_BOOST
  mode,             \* run_daemon or init_dso
  command_line,     \* options given there
  config_file,      \* options given in the configuration file,
  config_opens,     \* and whether it can be opened
  help_path,        \* what get_help_text_pathname returns: a path or ""
  pc,               \* the call control is about to make
  instance,         \* pcp::pmda::instance
  heap, frame,      \* objects and strings that are alive
  free_on_destruction,
  ext,              \* the pmdaInterface and its pmdaExt,
  status,           \* and how libpcp_pmda says its calls have ended
  erred,            \* something went wrong
  exit_code

given == <<boost, mode, command_line, config_file, config_opens, help_path>>
vars == <<given, pc, instance, heap, frame, free_on_destruction, ext, status,
          erred, exit_code>>
-----------------------------------------------------------------------------
Transports == {"inet", "pipe", "unix", "inet6"}
Builtin    == Transports \cup {"debug", "domain", "help-file", "log-file"}

\* "malformed" stands for an option no description names or a value that does
\* not parse, "bad debug" for a debug specification PCP does not know.
Options == Builtin \cup {"malformed", "bad debug", "config", "help", "version", "export"}

Locals == {"program_name", "help_text_pathname", "log_file_pathname"}
Copies == {"help_file", "log_file", "sockname"}
Strings == Locals \cup Copies \cup {"temporary", "argv", "NULL"}

NoInterface == [e_name |-> "NULL", e_helptext |-> "NULL", e_logfile |-> "NULL",
                e_sockname |-> "NULL", e_io |-> "default", e_metrics |-> "NULL",
                callbacks |-> "none"]

\* The library and the arguments of main outlive everything.
Alive == heap \cup frame \cup {"argv", "NULL"}

Pointers == {ext.e_name, ext.e_helptext, ext.e_logfile, ext.e_sockname}

TypeOK ==
  /\ boost \in BOOLEAN
  /\ mode \in {"daemon", "dso"}
  /\ command_line \subseteq Options /\ config_file \subseteq Options
  /\ config_opens \in BOOLEAN /\ help_path \in {"path", ""}
  /\ pc \in {"new", "setup", "parse", "open log", "initialize", "connect", "main",
             "catch", "delete", "exited", "terminated", "serving", "returned"}
  /\ instance \in {"NULL", "agent"}
  /\ heap \subseteq Copies \cup {"agent", "tables"}
  /\ frame \subseteq Locals
  /\ free_on_destruction \in Seq(Copies)
  /\ ext \in [e_name : Strings, e_helptext : Strings, e_logfile : Strings,
              e_sockname : Strings, e_io : Transports \cup {"default"},
              e_metrics : {"NULL", "tables"}, callbacks : {"none", "ours"}]
  /\ status \in {"ok", "error", "not connected"}
  /\ erred \in BOOLEAN
  /\ exit_code \in {"none", "EXIT_SUCCESS", "EXIT_FAILURE"}
  /\ pc = "exited" => exit_code # "none"

\* Options as a user and a configuration file may give them.
GivenOptions ==
  UNION {kSubset(n, Options) \X kSubset(m, Options \ {"config"}) :
           n \in 0..MaxOptions, m \in 0..MaxOptions}

Init ==
  /\ boost \in Builds
  /\ mode \in Modes
  /\ \E o \in GivenOptions : command_line = o[1] /\ config_file = o[2]
  /\ Cardinality(command_line) + Cardinality(config_file) <= MaxOptions
  /\ ~boost => config_file = {}
  /\ mode = "dso" => command_line = {} /\ config_file = {}
  /\ config_opens \in BOOLEAN
  /\ help_path \in {"path", ""}
  /\ pc = "new" /\ instance = "NULL" /\ heap = {} /\ frame = {}
  /\ free_on_destruction = <<>>
  /\ ext = NoInterface /\ status = "ok"
  /\ erred = FALSE /\ exit_code = "none"
-----------------------------------------------------------------------------
(* Both modes.                                                             *)

\* The stack unwinds to init_dso or the static run_daemon.  A daemon's
\* interface goes with it; a DSO's belongs to PMCD.
Unwind ==
  /\ pc' = "catch"
  /\ frame' = {}
  /\ erred' = TRUE
  /\ ext' = IF mode = "daemon" THEN NoInterface ELSE ext

\* set_instance(new Agent).
NewAgent ==
  /\ pc = "new"
  /\ instance' = "agent" /\ heap' = heap \cup {"agent"}
  /\ pc' = "setup"
  /\ UNCHANGED <<given, status, frame, free_on_destruction, ext, erred, exit_code>>

\* The agent's constructor throws, before set_instance is called.
ConstructorThrows ==
  /\ pc = "new"
  /\ Unwind
  /\ UNCHANGED <<given, status, instance, heap, free_on_destruction, exit_code>>

\* Mutant: the agent is only told of its metrics after set_callbacks.
InitializeThrowsLate ==
  /\ pc = "initialize"
  /\ pc' = "catch" /\ frame' = {} /\ erred' = TRUE
  /\ ext' = [ext EXCEPT !.callbacks = "ours"]
  /\ UNCHANGED <<given, status, instance, heap, free_on_destruction, exit_code>>

\* get_supported_metrics throws in initialize_pmda, before anything is made.
InitializeThrows ==
  /\ pc = "initialize"
  /\ Unwind
  /\ UNCHANGED <<given, status, instance, heap, free_on_destruction, exit_code>>

\* initialize_pmda has made the tables and set the callbacks; the DSO's
\* initialize_dso returns and its locals are gone.
Initialized ==
  /\ pc = "initialize"
  /\ heap' = heap \cup {"tables"}
  /\ IF mode = "daemon"
     THEN pc' = "connect" /\ UNCHANGED frame
     ELSE pc' = "serving" /\ frame' = {}
  /\ UNCHANGED <<given, instance, free_on_destruction, exit_code>>

\* pmdaInit takes the tables.
Initialize ==
  /\ Initialized
  /\ ext' = [ext EXCEPT !.callbacks = "ours", !.e_metrics = "tables"]
  /\ UNCHANGED <<status, erred>>

\* pmdaInit fails, with the tables or without them, and nobody looks.
pmdaInitFails ==
  /\ Initialized
  /\ \E tables \in {"NULL", "tables"} :
       ext' = [ext EXCEPT !.callbacks = "ours", !.e_metrics = tables]
  /\ status' = "error" /\ erred' = TRUE

\* The agent throws when it is asked for its name or its files', or for options.
NamesThrow ==
  /\ pc \in {"setup", "parse"}
  /\ Unwind
  /\ UNCHANGED <<given, status, instance, heap, free_on_destruction, exit_code>>

\* Where the agent's own code may be at work, called by the library's or by
\* libpcp_pmda.
InAgent == pc \in {"new", "setup", "parse", "initialize", "main", "serving"}

\* What the handlers do not catch, as it is no std::exception, or what cannot
\* unwind through the C library, ends the process; so may the use of an
\* interface that pmdaDaemon failed to fill in.
Terminates ==
  /\ InAgent \/ (status # "ok" /\ pc \in {"open log", "connect"})
  /\ pc' = "terminated"
  /\ instance' = "NULL" /\ heap' = {} /\ frame' = {} /\ free_on_destruction' = <<>>
  /\ ext' = NoInterface
  /\ erred' = TRUE
  /\ UNCHANGED <<given, status, exit_code>>

(* init_dso.                                                               *)

\* pmdaDSO, and the checks of its outcome that pass.  The name it is given is
\* a temporary, gone when the call returns.
pmdaDSO ==
  /\ mode = "dso" /\ pc = "setup"
  /\ frame' = {"help_text_pathname"}
  /\ ext' = [ext EXCEPT !.e_name = "temporary",
               !.e_helptext = IF help_path = "" THEN "NULL" ELSE "help_text_pathname"]
  /\ pc' = "initialize"
  /\ UNCHANGED <<given, status, instance, heap, free_on_destruction, erred, exit_code>>

\* PMCD only understands an older interface, or pmdaDSO failed.
pmdaDSOFails ==
  /\ mode = "dso" /\ pc = "setup"
  /\ status' \in {"ok", "error"}
  /\ Unwind
  /\ UNCHANGED <<given, instance, heap, free_on_destruction, exit_code>>

(* run_daemon.                                                             *)

\* Mutant: the log file's name is passed to pmdaDaemon as a temporary.
pmdaDaemonTemporary ==
  /\ mode = "daemon" /\ pc = "setup"
  /\ frame' = Locals
  /\ ext' = [ext EXCEPT !.e_name = "program_name", !.e_logfile = "temporary",
               !.e_helptext = IF help_path = "" THEN "NULL" ELSE "help_text_pathname"]
  /\ pc' = "parse"
  /\ UNCHANGED <<given, status, instance, heap, free_on_destruction, erred, exit_code>>

\* The interface as pmdaDaemon fills it in.
Named ==
  [ext EXCEPT !.e_name = "program_name", !.e_logfile = "log_file_pathname",
     !.e_helptext = IF help_path = "" THEN "NULL" ELSE "help_text_pathname"]

\* The local strings, and pmdaDaemon.
pmdaDaemon ==
  /\ mode = "daemon" /\ pc = "setup"
  /\ frame' = Locals
  /\ ext' = Named
  /\ pc' = "parse"
  /\ UNCHANGED <<given, status, instance, heap, free_on_destruction, erred, exit_code>>

\* pmdaDaemon fails, which only its status tells, and run_daemon goes on; how
\* much of the interface it has filled in is the library's affair.
pmdaDaemonFails ==
  /\ mode = "daemon" /\ pc = "setup"
  /\ frame' = Locals
  /\ ext' \in {ext, Named}
  /\ status' = "error" /\ erred' = TRUE
  /\ pc' = "parse"
  /\ UNCHANGED <<given, instance, heap, free_on_destruction, exit_code>>
-----------------------------------------------------------------------------
(* parse_command_line with Boost.                                          *)

\* Command line and configuration file are stored into one map.
Stored == command_line \cup (IF config_opens THEN config_file ELSE {})

\* Mutant: --help and --version are looked for before the options are checked.
StoreThrowsUnlessHelp ==
  /\ Stored \cap {"help", "version"} = {}
  /\ "malformed" \in Stored \/ (~config_opens /\ "config" \in command_line)

\* store throws; or a configuration file was named that does not open.
StoreThrows ==
  \/ "malformed" \in Stored
  \/ ~config_opens /\ "config" \in command_line

\* Mutant: pairs with the IPv6 option are not checked.
ConflictWithoutInet6 == Cardinality(Stored \cap {"inet", "pipe", "unix"}) > 1

\* check_conflicting_options of all pairs, none of which has a default.
Conflict == Cardinality(Stored \cap Transports) > 1

AsksToStop == Stored \cap {"help", "version", "export"} # {}

\* The option whose e_io is assigned last.
LastTransport ==
  IF "inet6" \in Stored THEN "inet6"
  ELSE IF "unix" \in Stored THEN "unix"
  ELSE IF "pipe" \in Stored THEN "pipe"
  ELSE IF "inet" \in Stored THEN "inet" ELSE "default"

ParseThrows ==
  /\ boost /\ pc = "parse"
  /\ \/ StoreThrows
     \/ ~AsksToStop /\ (Conflict \/ "bad debug" \in Stored)
  /\ Unwind
  /\ UNCHANGED <<given, status, instance, heap, free_on_destruction, exit_code>>

\* An export cannot describe the metrics or open its file.
ExportThrows ==
  /\ boost /\ pc = "parse" /\ ~StoreThrows
  /\ "export" \in Stored /\ Stored \cap {"help", "version"} = {}
  /\ Unwind
  /\ UNCHANGED <<given, status, instance, heap, free_on_destruction, exit_code>>

\* The member run_daemon returns: its locals, and the interface, are gone.
ReturnFromDaemon ==
  /\ pc' = "delete"
  /\ frame' = {}
  /\ ext' = NoInterface

\* --help or --version, else every --export-*, and run_daemon returns.
Stop ==
  /\ boost /\ pc = "parse" /\ ~StoreThrows /\ AsksToStop
  /\ ReturnFromDaemon
  /\ UNCHANGED <<given, status, instance, heap, free_on_destruction, erred, exit_code>>

\* strdup, and the copy is pushed to be freed by ~pmda.  The help and log file
\* options have defaults, so they are always copied.
NewCopies == <<"help_file", "log_file">> \o (IF "unix" \in Stored THEN <<"sockname">> ELSE <<>>)

\* Mutant: the socket's name is not pushed.
Apply_Unowned ==
  /\ boost /\ pc = "parse" /\ ~StoreThrows /\ ~AsksToStop
  /\ ~Conflict /\ "bad debug" \notin Stored
  /\ heap' = heap \cup {NewCopies[i] : i \in 1..Len(NewCopies)}
  /\ free_on_destruction' = <<"help_file", "log_file">>
  /\ ext' = [ext EXCEPT !.e_helptext = "help_file", !.e_logfile = "log_file",
                        !.e_sockname = IF "unix" \in Stored THEN "sockname" ELSE @,
                        !.e_io = LastTransport]
  /\ pc' = "open log"
  /\ UNCHANGED <<given, status, instance, frame, erred, exit_code>>

\* Mutant: the second copy is pushed under the first one's pointer.
Apply_PushedTwice ==
  /\ boost /\ pc = "parse" /\ ~StoreThrows /\ ~AsksToStop
  /\ ~Conflict /\ "bad debug" \notin Stored
  /\ heap' = heap \cup {NewCopies[i] : i \in 1..Len(NewCopies)}
  /\ free_on_destruction' = <<"help_file">> \o Tail(NewCopies) \o <<"help_file">>
  /\ ext' = [ext EXCEPT !.e_helptext = "help_file", !.e_logfile = "log_file",
                        !.e_sockname = IF "unix" \in Stored THEN "sockname" ELSE @,
                        !.e_io = LastTransport]
  /\ pc' = "open log"
  /\ UNCHANGED <<given, status, instance, frame, erred, exit_code>>

Apply ==
  /\ boost /\ pc = "parse" /\ ~StoreThrows /\ ~AsksToStop
  /\ ~Conflict /\ "bad debug" \notin Stored
  /\ heap' = heap \cup {NewCopies[i] : i \in 1..Len(NewCopies)}
  /\ free_on_destruction' = free_on_destruction \o NewCopies
  /\ ext' = [ext EXCEPT !.e_helptext = "help_file", !.e_logfile = "log_file",
                        !.e_sockname = IF "unix" \in Stored THEN "sockname" ELSE @,
                        !.e_io = LastTransport]
  /\ pc' = "open log"
  /\ UNCHANGED <<given, status, instance, frame, erred, exit_code>>

(* parse_command_line without Boost: pmdaGetOpt keeps pointers into argv.  *)

\* An option pmdaGetOpt hands back goes to process_command_line_option.
GetOptThrows ==
  /\ ~boost /\ pc = "parse" /\ command_line \ (Builtin \cup {"bad debug"}) # {}
  /\ Unwind
  /\ UNCHANGED <<given, status, instance, heap, free_on_destruction, exit_code>>

\* pmdaGetOpt has counted an error: parse_command_line returns false.
GetOptCountsErrors ==
  /\ ~boost /\ pc = "parse" /\ command_line \subseteq Builtin \cup {"bad debug"}
  /\ "bad debug" \in command_line \/ Cardinality(command_line \cap Transports) > 1
  /\ erred' = TRUE
  /\ ReturnFromDaemon
  /\ UNCHANGED <<given, status, instance, heap, free_on_destruction, exit_code>>

GetOptApplies ==
  /\ ~boost /\ pc = "parse" /\ command_line \subseteq Builtin
  /\ Cardinality(command_line \cap Transports) <= 1
  /\ ext' = [ext EXCEPT !.e_helptext = IF "help-file" \in command_line THEN "argv" ELSE @,
                        !.e_logfile  = IF "log-file" \in command_line THEN "argv" ELSE @,
                        !.e_sockname = IF "unix" \in command_line THEN "argv" ELSE @,
                        !.e_io = LastTransport]
  /\ pc' = "open log"
  /\ UNCHANGED <<given, status, instance, heap, frame, free_on_destruction, erred, exit_code>>
-----------------------------------------------------------------------------
(* run_daemon, continued.                                                  *)

\* The log; whether it could be opened is not looked at.
pmdaOpenLog ==
  /\ pc = "open log"
  /\ pc' = "initialize"
  /\ \/ UNCHANGED <<status, erred>>
     \/ status' = "error" /\ erred' = TRUE
  /\ UNCHANGED <<given, instance, heap, frame, free_on_destruction, ext, exit_code>>

pmdaConnect ==
  /\ pc = "connect"
  /\ pc' = "main"
  /\ UNCHANGED <<given, status, instance, heap, frame, free_on_destruction, ext, erred,
                 exit_code>>

\* There is no PMCD to connect to; run_daemon goes on to pmdaMain.
pmdaConnectFails ==
  /\ pc = "connect"
  /\ pc' = "main"
  /\ status' = "not connected" /\ erred' = TRUE
  /\ UNCHANGED <<given, instance, heap, frame, free_on_destruction, ext, exit_code>>

\* PMCD closes the connection, or there is none; the tables the interface holds
\* are freed and run_daemon returns.
pmdaMainReturns ==
  /\ pc = "main"
  /\ heap' = heap \ {ext.e_metrics}
  /\ ReturnFromDaemon
  /\ UNCHANGED <<given, status, instance, free_on_destruction, erred, exit_code>>

\* A callback throws what on_fetch, or the like, does not catch, and it unwinds
\* through pmdaMain: the tables are not freed.
pmdaMainThrows ==
  /\ pc = "main" /\ status # "not connected"
  /\ Unwind
  /\ UNCHANGED <<given, status, instance, heap, free_on_destruction, exit_code>>

\* delete set_instance(NULL): ~pmda frees what it owns.
DeleteInstance ==
  /\ heap' = heap \ ({instance} \cup {free_on_destruction[i] : i \in 1..Len(free_on_destruction)})
  /\ free_on_destruction' = <<>>
  /\ instance' = "NULL"

\* Mutant: the handler expects an agent.
Catch_WithAgent ==
  /\ pc = "catch" /\ instance # "NULL"
  /\ IF mode = "daemon" THEN pc' = "exited" /\ exit_code' = "EXIT_FAILURE" /\ DeleteInstance
     ELSE pc' = "returned" /\ UNCHANGED <<instance, heap, free_on_destruction, exit_code>>
  /\ UNCHANGED <<given, status, frame, ext, erred>>

\* run_daemon deletes the agent and fails; init_dso logs and returns.
Catch ==
  /\ pc = "catch"
  /\ IF mode = "daemon" THEN pc' = "exited" /\ exit_code' = "EXIT_FAILURE" /\ DeleteInstance
     ELSE pc' = "returned" /\ UNCHANGED <<instance, heap, free_on_destruction, exit_code>>
  /\ UNCHANGED <<given, status, frame, ext, erred>>

\* Mutant: no exit code is set.
Exit_NoCode ==
  /\ pc = "delete"
  /\ DeleteInstance
  /\ pc' = "exited"
  /\ UNCHANGED <<given, status, frame, ext, erred, exit_code>>

Exit ==
  /\ pc = "delete"
  /\ DeleteInstance
  /\ pc' = "exited" /\ exit_code' = "EXIT_SUCCESS"
  /\ UNCHANGED <<given, status, frame, ext, erred>>

\* What goes on by itself, other than the service of PMCD.
Run ==
  \/ NewAgent \/ ConstructorThrows
  \/ Initialize \/ InitializeThrows \/ pmdaInitFails
  \/ NamesThrow
  \/ pmdaDSO \/ pmdaDSOFails
  \/ pmdaDaemon \/ pmdaDaemonFails
  \/ ParseThrows \/ ExportThrows \/ Stop \/ Apply
  \/ GetOptThrows \/ GetOptCountsErrors \/ GetOptApplies
  \/ pmdaOpenLog \/ pmdaConnect \/ pmdaConnectFails
  \/ Catch \/ Exit

Next == Run \/ pmdaMainReturns \/ pmdaMainThrows \/ Terminates

Spec == Init /\ [][Next]_vars

\* Start and end are sequential code that waits for nobody; how long PMCD stays
\* connected is its own affair.
FairSpec == Spec /\ WF_vars(Run)
-----------------------------------------------------------------------------
(* Properties.                                                             *)

\* Control is at, or in, a function of libpcp_pmda that reads the interface.
InLibrary == pc \in {"open log", "initialize", "connect", "main", "serving"}

\* libpcp_pmda copies pointers, not strings: each one it holds is alive for as
\* long as it is at work.
PointersLive == InLibrary => Pointers \subseteq Alive

\* The same of a daemon, whose strings are locals or copies of its own.
DaemonPointersLive == mode = "daemon" => PointersLive

\* ~pmda frees each copy once, and all of them: the copies on the stack are
\* those that are allocated, and each is there only once, until the agent goes.
OwnedOnce ==
  /\ {free_on_destruction[i] : i \in 1..Len(free_on_destruction)} = heap \cap Copies
  /\ \A i, j \in 1..Len(free_on_destruction) :
       free_on_destruction[i] = free_on_destruction[j] => i = j

\* When run_daemon has ended, the agent and its copies are gone, on every path.
\* The tables are left behind only by an exception out of pmdaMain, which ends
\* in EXIT_FAILURE, or by a pmdaInit that failed: a process that succeeded, and
\* was never told of an error, leaves nothing.
NothingLeft ==
  pc = "exited" =>
    /\ instance = "NULL" /\ heap \subseteq {"tables"}
    /\ exit_code = "EXIT_SUCCESS" /\ status = "ok" => heap = {}

\* Once a callback of ours is in the interface, it finds an agent that has
\* described its metrics; an agent that failed to start is never called.
CallbacksFindAgent ==
  ext.callbacks = "ours" =>
    /\ instance = "agent" /\ {"agent", "tables"} \subseteq heap
    /\ pc # "returned"

\* With either parser, a daemon gets as far as its log, its metrics and PMCD
\* only if every option given is known and well formed, none asks it to do
\* something else and stop, and no two name different transports; the one that
\* it connects by is then the one the user gave.
StartsOnlyAsTold ==
  mode = "daemon" /\ InLibrary =>
    LET options == IF boost THEN Stored ELSE command_line
    IN  /\ options \subseteq Builtin \cup {"config"}
        /\ options \cap Transports = (IF ext.e_io = "default" THEN {} ELSE {ext.e_io})
        /\ "config" \in options => boost /\ config_opens

\* Whatever is given together, a process exits in success only if no option,
\* wherever it stands, was malformed or unknown and the file it names could be
\* read; and, with Boost, only if it was to stop, or its debug specification
\* and at most one transport could be applied.
SuccessOnlyAsGiven ==
  pc = "exited" /\ exit_code = "EXIT_SUCCESS" =>
    LET options == command_line \cup (IF config_opens THEN config_file ELSE {})
    IN  IF boost
        THEN /\ "malformed" \notin options
             /\ "config" \in command_line => config_opens
             /\ \/ options \cap {"help", "version", "export"} # {}
                \/ "bad debug" \notin options /\ Cardinality(options \cap Transports) <= 1
        ELSE command_line \subseteq Builtin \cup {"bad debug"}

\* run_daemon returns EXIT_SUCCESS on success and EXIT_FAILURE on error, as its
\* comment says.
ExitCodeTellsErrors ==
  pc = "exited" => (exit_code = "EXIT_FAILURE" <=> erred)

\* Once started, an agent ends up serving or is over, and is soon over once
\* PMCD has let it go or a callback has thrown.
Settled == pc \in {"main", "serving", "returned", "exited", "terminated"}
Settles == ~Settled ~> Settled
=============================================================================
