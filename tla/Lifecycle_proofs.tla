------------------------- MODULE Lifecycle_proofs --------------------------
(***************************************************************************)
(* What holds over the life of an agent however it is started, whatever    *)
(* options it is given and wherever it fails.                              *)
(***************************************************************************)
EXTENDS Lifecycle, FiniteSetTheorems, SequenceTheorems, TLAPS

Owned(stack) == {stack[i] : i \in 1..Len(stack)}

\* What ~pmda may have to free.
Stacks == {<<>>, <<"help_file", "log_file">>, <<"help_file", "log_file", "sockname">>}

\* What is on the stack of copies is owned, each copy once.
LEMMA StackFacts ==
  ASSUME NEW s \in Stacks
  PROVE  /\ Owned(s) \subseteq Copies /\ s \in Seq(Copies)
         /\ s = <<>> => Owned(s) = {}
         /\ \A i, j \in 1..Len(s) : s[i] = s[j] => i = j
<1>1. CASE s = <<>>
  BY <1>1 DEF Owned
<1>2. CASE s = <<"help_file", "log_file">>
  <2>1. Len(s) = 2 /\ s[1] = "help_file" /\ s[2] = "log_file" /\ 1..2 = {1, 2}
    BY <1>2
  <2> QED BY <1>2, <2>1 DEF Owned, Copies
<1>3. CASE s = <<"help_file", "log_file", "sockname">>
  <2>1. /\ Len(s) = 3 /\ s[1] = "help_file" /\ s[2] = "log_file" /\ s[3] = "sockname"
        /\ 1..3 = {1, 2, 3}
    BY <1>3
  <2> QED BY <1>3, <2>1 DEF Owned, Copies
<1> QED BY <1>1, <1>2, <1>3 DEF Stacks

\* The library has been told of our callbacks.
Hooked == pc \in {"connect", "main", "serving"}

\* run_daemon's locals are in scope.
InDaemon == mode = "daemon" /\ pc \in {"parse", "open log", "initialize", "connect", "main"}

Interfaces == [e_name : Strings, e_helptext : Strings, e_logfile : Strings,
               e_sockname : Strings, e_io : Transports \cup {"default"},
               e_metrics : {"NULL", "tables"}, callbacks : {"none", "ours"}]

\* Where control is says which mode it is, and whether there is an agent.
ControlInv ==
  /\ pc \in {"new", "setup", "parse", "open log", "initialize", "connect", "main",
             "catch", "delete", "exited", "terminated", "serving", "returned"}
  /\ mode \in {"daemon", "dso"}
  /\ instance \in {"NULL", "agent"}
  /\ pc \in {"new", "exited", "terminated"} => instance = "NULL"
  /\ pc \notin {"new", "exited", "terminated", "catch", "returned"} => instance = "agent"
  /\ pc \in {"parse", "open log", "connect", "main", "delete", "exited"} => mode = "daemon"
  /\ pc \in {"serving", "returned"} => mode = "dso"
  /\ exit_code \in {"none", "EXIT_SUCCESS", "EXIT_FAILURE"}
  /\ exit_code = "none" <=> pc # "exited"

\* What is allocated is the agent, its tables while they are in use, and the
\* copies on the stack that frees them.  Tables that an exception has passed, or
\* that pmdaInit did not take, stay.
HeapInv ==
  /\ free_on_destruction \in Stacks
  /\ pc \in {"new", "setup", "parse", "exited", "terminated"} => free_on_destruction = <<>>
  /\ heap \ {"tables"} = ({instance} \ {"NULL"}) \cup Owned(free_on_destruction)
  /\ Hooked => "tables" \in heap
  /\ "tables" \in heap =>
       Hooked \/ (mode = "daemon" /\ pc \in {"catch", "delete", "exited"})

\* A process that was not told of an error keeps no tables it does not use.
TablesInv ==
  /\ Hooked /\ status = "ok" => ext.e_metrics = "tables"
  /\ pc \in {"delete", "exited"} /\ exit_code # "EXIT_FAILURE" /\ status = "ok" =>
       "tables" \notin heap

\* What the interface points to.
ExtInv ==
  /\ ext \in Interfaces /\ frame \subseteq Locals
  /\ ext.callbacks = "ours" <=> Hooked
  /\ pc \in {"new", "setup"} => ext = NoInterface
  /\ InDaemon => /\ frame = Locals
                 /\ Pointers \subseteq Locals \cup {"argv", "NULL"} \cup Owned(free_on_destruction)

LifeInv == ControlInv /\ HeapInv /\ ExtInv /\ TablesInv

\* An interface nobody has filled in points to nothing.
LEMMA NoInterfaceFacts ==
  /\ NoInterface \in Interfaces /\ NoInterface.callbacks = "none"
  /\ NoInterface.e_sockname = "NULL" /\ NoInterface.e_helptext = "NULL"
BY DEF NoInterface, Interfaces, Strings, Transports

\* Without copies nothing is owned.
LEMMA EmptyStack == <<>> \in Stacks /\ Owned(<<>>) = {}
BY StackFacts DEF Stacks

\* Nothing is allocated when a start begins.
LEMMA LifeInit == Init => LifeInv
<1> SUFFICES ASSUME Init PROVE LifeInv
  OBVIOUS
<1>1. ControlInv
  BY LifecycleAssumption DEF Init, ControlInv
<1>2. HeapInv
  BY EmptyStack DEF Init, HeapInv, Hooked
<1>3. ExtInv
  BY NoInterfaceFacts DEF Init, ExtInv, Hooked, InDaemon
<1>4. TablesInv
  BY DEF Init, TablesInv, Hooked
<1> QED BY <1>1, <1>2, <1>3, <1>4 DEF LifeInv

\* The steps that throw what a handler catches.
Unwinding ==
  \/ ConstructorThrows \/ NamesThrow \/ InitializeThrows \/ pmdaDSOFails
  \/ ParseThrows \/ ExportThrows \/ GetOptThrows \/ pmdaMainThrows

\* An exception leaves the agent, the heap and the exit code as they are, for
\* the handler to see to; it meets tables only out of pmdaMain.
LEMMA UnwindingKeeps ==
  Unwinding =>
    /\ Unwind /\ UNCHANGED <<given, instance, heap, free_on_destruction, exit_code>>
    /\ pc \in {"new", "setup", "parse", "initialize", "main"}
    /\ pc = "main" => pmdaMainThrows
BY DEF Unwinding, ConstructorThrows, NamesThrow, InitializeThrows, pmdaDSOFails,
       ParseThrows, ExportThrows, GetOptThrows, pmdaMainThrows

\* Command line, file and build stay as they are.
LEMMA GivenIsKept == [Next]_vars => UNCHANGED given
<1>1. Unwinding => UNCHANGED given
  BY UnwindingKeeps
<1> QED
  BY <1>1 DEF Next, Run, Unwinding, vars, NewAgent, Initialize, pmdaInitFails, Initialized,
     pmdaDSO, pmdaDaemon, pmdaDaemonFails, Stop, Apply, GetOptCountsErrors, GetOptApplies,
     pmdaOpenLog, pmdaConnect, pmdaConnectFails, pmdaMainReturns, Catch, Exit, Terminates

\* Every step keeps what is said of control and the agent.
LEMMA ControlStep == ControlInv /\ [Next]_vars => ControlInv'
<1> SUFFICES ASSUME ControlInv, [Next]_vars PROVE ControlInv'
  OBVIOUS
<1> USE DEF ControlInv, given
<1>1. CASE NewAgent \/ pmdaDSO \/ pmdaDaemon \/ pmdaDaemonFails
  BY <1>1 DEF NewAgent, pmdaDSO, pmdaDaemon, pmdaDaemonFails
<1>2. CASE Initialize \/ pmdaInitFails
  BY <1>2 DEF Initialize, pmdaInitFails, Initialized
<1>3. CASE Unwinding
  BY <1>3, UnwindingKeeps DEF Unwind
<1>4. CASE Stop \/ GetOptCountsErrors \/ pmdaMainReturns
  BY <1>4 DEF Stop, GetOptCountsErrors, pmdaMainReturns, ReturnFromDaemon
<1>5. CASE Apply \/ GetOptApplies \/ pmdaOpenLog \/ pmdaConnect \/ pmdaConnectFails
  BY <1>5 DEF Apply, GetOptApplies, pmdaOpenLog, pmdaConnect, pmdaConnectFails
<1>6. CASE Catch \/ Exit
  BY <1>6 DEF Catch, Exit, DeleteInstance
<1>7. CASE Terminates
  BY <1>7 DEF Terminates, InAgent
<1>8. CASE UNCHANGED vars
  BY <1>8 DEF vars
<1> QED
  BY <1>1, <1>2, <1>3, <1>4, <1>5, <1>6, <1>7, <1>8 DEF Next, Run, Unwinding

\* The copies made for the options.
LEMMA Copied == NewCopies \in Stacks /\ <<>> \o NewCopies = NewCopies
<1>1. CASE "unix" \in Stored
  <2>1. NewCopies = <<"help_file", "log_file">> \o <<"sockname">>
    BY <1>1 DEF NewCopies
  <2> DEFINE s == <<"help_file", "log_file">> \o <<"sockname">>
             t == <<"help_file", "log_file", "sockname">>
  <2>2. s \in Seq(Copies) /\ t \in Seq(Copies) /\ Len(s) = 3 /\ Len(t) = 3
    <3>1. <<"help_file", "log_file">> \in Seq(Copies) /\ <<"sockname">> \in Seq(Copies)
      BY DEF Copies
    <3>2. s \in Seq(Copies) /\ Len(s) = 3
      BY <3>1
    <3> QED BY <3>2 DEF Copies
  <2>3. \A i \in {1, 2, 3} : s[i] = t[i]
    OBVIOUS
  <2>4. s = t
    <3>1. \A i \in 1..3 : s[i] = t[i]
      BY <2>3
    <3> HIDE DEF s, t
    <3> QED BY <2>2, <3>1, SeqEqual
  <2> QED BY <2>1, <2>4 DEF Stacks
<1>2. CASE "unix" \notin Stored
  <2>1. NewCopies = <<"help_file", "log_file">> \o <<>>
    BY <1>2 DEF NewCopies
  <2>2. <<"help_file", "log_file">> \o <<>> = <<"help_file", "log_file">>
    OBVIOUS
  <2> QED BY <2>1, <2>2 DEF Stacks
<1> QED BY <1>1, <1>2

\* The copies made for the C library are owned.
LEMMA OwnedCopies ==
  /\ {"help_file", "log_file"} \subseteq Owned(NewCopies)
  /\ "unix" \in Stored => "sockname" \in Owned(NewCopies)
<1>1. Len(NewCopies) = (IF "unix" \in Stored THEN 3 ELSE 2)
  BY DEF NewCopies
<1>2. /\ NewCopies[1] = "help_file" /\ NewCopies[2] = "log_file"
      /\ "unix" \in Stored => NewCopies[3] = "sockname"
  BY DEF NewCopies
<1> QED BY <1>1, <1>2 DEF Owned

\* Every step keeps the heap to what somebody owns.
LEMMA HeapStep == ControlInv /\ HeapInv /\ ExtInv /\ [Next]_vars => HeapInv'
<1> SUFFICES ASSUME ControlInv, HeapInv, ExtInv, [Next]_vars PROVE HeapInv'
  OBVIOUS
<1>1. ControlInv' /\ Owned(free_on_destruction) \subseteq Copies /\ mode' = mode
  BY ControlStep, StackFacts, GivenIsKept DEF HeapInv, given
<1>2. Copies \cap {"agent", "tables", "NULL"} = {}
  BY DEF Copies
<1> USE DEF ControlInv, HeapInv, Hooked
<1>3. CASE NewAgent \/ pmdaDSO \/ pmdaDaemon \/ pmdaDaemonFails
  BY <1>3 DEF NewAgent, pmdaDSO, pmdaDaemon, pmdaDaemonFails
<1>4. CASE Initialize \/ pmdaInitFails
  BY <1>1, <1>2, <1>4 DEF Initialize, pmdaInitFails, Initialized
<1>5. CASE Unwinding
  <2>1. /\ pc' = "catch" /\ UNCHANGED <<instance, heap, free_on_destruction>>
        /\ pc \in {"new", "setup", "parse", "initialize", "main"}
    BY <1>5, UnwindingKeeps DEF Unwind
  <2>2. pc = "main" => mode = "daemon"
    OBVIOUS
  <2> QED BY <1>1, <2>1, <2>2
<1>6. CASE Stop \/ GetOptCountsErrors
  BY <1>6 DEF Stop, GetOptCountsErrors, ReturnFromDaemon
<1>7. CASE pmdaMainReturns
  <2>1. /\ heap' = heap \ {ext.e_metrics} /\ pc' = "delete" /\ pc = "main"
        /\ UNCHANGED <<instance, free_on_destruction>>
    BY <1>7 DEF pmdaMainReturns, ReturnFromDaemon
  <2>2. ext.e_metrics \in {"NULL", "tables"}
    BY DEF ExtInv, Interfaces
  <2>3. heap' \ {"tables"} = heap \ {"tables"}
    BY <1>1, <1>2, <2>1, <2>2
  <2> QED BY <1>1, <2>1, <2>3
<1>8. CASE Apply
  <2>1. free_on_destruction' = NewCopies /\ heap' = heap \cup Owned(NewCopies)
    BY <1>8, Copied DEF Apply, Owned
  <2>2. pc = "parse" /\ pc' = "open log" /\ instance' = instance
    BY <1>8 DEF Apply
  <2>3. "tables" \notin Owned(NewCopies) /\ "tables" \notin heap
    BY <1>2, <2>2, Copied, StackFacts
  <2>4. Owned(free_on_destruction) = {}
    BY <2>2, EmptyStack
  <2> QED BY <1>1, <2>1, <2>2, <2>3, <2>4, Copied
<1>9. CASE GetOptApplies \/ pmdaOpenLog \/ pmdaConnect \/ pmdaConnectFails
  BY <1>9 DEF GetOptApplies, pmdaOpenLog, pmdaConnect, pmdaConnectFails
<1>10. ASSUME DeleteInstance, pc \in {"catch", "delete"}, pc' = "exited" PROVE HeapInv'
  <2>1. heap' \subseteq {"tables"} /\ free_on_destruction' = <<>> /\ instance' = "NULL"
    BY <1>1, <1>10 DEF DeleteInstance, Owned
  <2> QED BY <1>1, <1>10, <2>1, EmptyStack
<1>11. CASE Catch
  <2>1. CASE mode = "daemon"
    BY <1>10, <1>11, <2>1 DEF Catch
  <2>2. CASE mode = "dso"
    BY <1>11, <2>2 DEF Catch
  <2> QED BY <2>1, <2>2
<1>12. CASE Exit
  BY <1>10, <1>12 DEF Exit
<1>13. CASE Terminates
  BY <1>13, EmptyStack DEF Terminates
<1>14. CASE UNCHANGED vars
  BY <1>1, <1>14 DEF vars
<1> QED
  BY <1>3, <1>4, <1>5, <1>6, <1>7, <1>8, <1>9, <1>11, <1>12, <1>13, <1>14
  DEF Next, Run, Unwinding

\* The transport assigned last is one there is.
LEMMA LastType == LastTransport \in Transports \cup {"default"}
BY DEF LastTransport, Transports

\* Every step keeps the library's pointers to what lives as long.
LEMMA ExtStep == LifeInv /\ [Next]_vars => ExtInv'
<1> SUFFICES ASSUME LifeInv, [Next]_vars PROVE ExtInv'
  OBVIOUS
<1>1. ControlInv /\ HeapInv /\ ExtInv /\ ControlInv'
  BY ControlStep DEF LifeInv
<1> USE <1>1, NoInterfaceFacts DEF ControlInv, ExtInv, Hooked, InDaemon
<1>2. ASSUME UNCHANGED <<ext, frame, free_on_destruction, mode>>, Hooked' <=> Hooked,
             InDaemon' => InDaemon, pc' \in {"new", "setup"} => pc \in {"new", "setup"}
      PROVE  ExtInv'
  BY <1>2 DEF Pointers
<1>3. CASE NewAgent \/ pmdaOpenLog \/ pmdaConnect \/ pmdaConnectFails \/ UNCHANGED vars
  BY <1>3 DEF NewAgent, pmdaOpenLog, pmdaConnect, pmdaConnectFails, vars, given, Pointers
<1>4. CASE Unwinding
  <2>1. /\ pc' = "catch" /\ frame' = {}
        /\ ext' = IF mode = "daemon" THEN NoInterface ELSE ext
        /\ pc \in {"new", "setup", "parse", "initialize", "main"}
    BY <1>4, UnwindingKeeps DEF Unwind
  <2> QED BY <2>1
<1>5. CASE Terminates
  BY <1>5 DEF Terminates
<1>7. ASSUME ReturnFromDaemon PROVE ExtInv'
  BY <1>7 DEF ReturnFromDaemon
<1>8. CASE Stop \/ GetOptCountsErrors \/ pmdaMainReturns
  BY <1>7, <1>8 DEF Stop, GetOptCountsErrors, pmdaMainReturns
<1>9. CASE Initialize \/ pmdaInitFails
  <2>1. PICK t \in {"NULL", "tables"} :
          Initialized /\ ext' = [ext EXCEPT !.callbacks = "ours", !.e_metrics = t]
    BY <1>9 DEF Initialize, pmdaInitFails
  <2>2. ext' \in Interfaces /\ ext'.callbacks = "ours" /\ Pointers' = Pointers
    BY <2>1 DEF Interfaces, Pointers
  <2> QED BY <2>1, <2>2 DEF Initialized, given
<1>10. CASE pmdaDSO
  <2>1. /\ ext' = [ext EXCEPT !.e_name = "temporary",
                     !.e_helptext = IF help_path = "" THEN "NULL" ELSE "help_text_pathname"]
        /\ ext = NoInterface /\ pc' = "initialize" /\ mode' = "dso"
        /\ frame' \subseteq Locals
    BY <1>10 DEF pmdaDSO, Locals, given
  <2>2. {"temporary", "NULL", "help_text_pathname"} \subseteq Strings
    BY DEF Strings, Locals
  <2>3. ext' \in Interfaces /\ ext'.callbacks = "none"
    BY <2>1, <2>2 DEF Interfaces
  <2> QED BY <2>1, <2>3
<1>11. CASE pmdaDaemon \/ pmdaDaemonFails
  <2>1. /\ Named \in Interfaces /\ Named.callbacks = "none"
        /\ {Named.e_name, Named.e_helptext, Named.e_logfile, Named.e_sockname}
             \subseteq Locals \cup {"argv", "NULL"}
    <3>1. ext = NoInterface
      BY <1>11 DEF pmdaDaemon, pmdaDaemonFails
    <3>2. {"program_name", "log_file_pathname", "NULL", "help_text_pathname"} \subseteq Strings
      BY DEF Strings, Locals
    <3>3. Named \in Interfaces /\ Named.callbacks = "none"
      BY <3>1, <3>2 DEF Interfaces, Named
    <3> QED BY <3>1, <3>3 DEF Named, Locals, NoInterface
  <2>2. ext' \in {NoInterface, Named} /\ frame' = Locals /\ pc' = "parse" /\ mode' = mode
    BY <1>11 DEF pmdaDaemon, pmdaDaemonFails, given
  <2>3. ext' \in Interfaces /\ ext'.callbacks = "none"
    BY <2>1, <2>2
  <2>4. Pointers' \subseteq Locals \cup {"argv", "NULL"}
    <3>1. CASE ext' = NoInterface
      BY <3>1 DEF Pointers, NoInterface
    <3>2. CASE ext' = Named
      BY <2>1, <3>2 DEF Pointers
    <3> QED BY <2>2, <3>1, <3>2
  <2> QED BY <2>2, <2>3, <2>4
<1>12. CASE Apply
  <2>1. ext' \in Interfaces /\ ext'.callbacks = ext.callbacks
    <3>1. ext' = [ext EXCEPT !.e_helptext = "help_file", !.e_logfile = "log_file",
                    !.e_sockname = IF "unix" \in Stored THEN "sockname" ELSE @,
                    !.e_io = LastTransport]
      BY <1>12 DEF Apply
    <3>2. {"help_file", "log_file", "sockname"} \subseteq Strings
      BY DEF Strings, Copies
    <3> QED BY <3>1, <3>2, LastType DEF Interfaces
  <2>2. free_on_destruction' = NewCopies /\ mode = "daemon" /\ pc = "parse"
    BY <1>12, Copied DEF Apply, HeapInv
  <2>3. /\ ext'.e_helptext \in Owned(NewCopies) /\ ext'.e_logfile \in Owned(NewCopies)
        /\ ext'.e_name = ext.e_name
        /\ ext'.e_sockname \in Owned(NewCopies) \cup {ext.e_sockname}
    BY <1>12, OwnedCopies DEF Apply, Interfaces
  <2>4. Pointers' \subseteq Locals \cup {"argv", "NULL"} \cup Owned(NewCopies)
    BY <2>2, <2>3, EmptyStack DEF Pointers, HeapInv
  <2> QED BY <1>12, <2>1, <2>2, <2>4 DEF Apply, given
<1>13. CASE GetOptApplies
  <2>1. ext' \in Interfaces /\ ext'.callbacks = ext.callbacks
    <3> DEFINE h == IF "help-file" \in command_line THEN "argv" ELSE ext.e_helptext
               l == IF "log-file" \in command_line THEN "argv" ELSE ext.e_logfile
               s == IF "unix" \in command_line THEN "argv" ELSE ext.e_sockname
    <3>1. ext' = [ext EXCEPT !.e_helptext = h, !.e_logfile = l, !.e_sockname = s,
                             !.e_io = LastTransport]
      BY <1>13 DEF GetOptApplies
    <3>2. "argv" \in Strings
      BY DEF Strings
    <3>3. h \in Strings /\ l \in Strings /\ s \in Strings
      BY <3>2 DEF Interfaces
    <3> HIDE DEF h, l, s
    <3> QED BY <3>1, <3>3, LastType DEF Interfaces
  <2>2. Pointers' \subseteq Pointers \cup {"argv"}
    BY <1>13 DEF GetOptApplies, Pointers, Interfaces
  <2> QED BY <1>13, <2>1, <2>2 DEF GetOptApplies, given
<1>14. CASE Catch \/ Exit
  BY <1>14 DEF Catch, Exit, given, Pointers
<1> QED
  BY <1>3, <1>4, <1>5, <1>8, <1>9, <1>10, <1>11, <1>12, <1>13, <1>14 DEF Next, Run, Unwinding

\* Every step keeps what is said of the tables.
LEMMA TablesStep == LifeInv /\ [Next]_vars => TablesInv'
<1> SUFFICES ASSUME LifeInv, [Next]_vars PROVE TablesInv'
  OBVIOUS
<1>1. ControlInv /\ HeapInv /\ TablesInv /\ ControlInv' /\ ext \in Interfaces
  BY ControlStep DEF LifeInv, ExtInv
<1> USE <1>1 DEF ControlInv, TablesInv, Hooked
<1>2. ASSUME ~Hooked', pc' \notin {"delete", "exited"} PROVE TablesInv'
  BY <1>2
<1>3. CASE NewAgent \/ pmdaDSO \/ pmdaDaemon \/ pmdaDaemonFails \/ Apply \/ GetOptApplies
           \/ pmdaOpenLog \/ Terminates
  BY <1>2, <1>3 DEF NewAgent, pmdaDSO, pmdaDaemon, pmdaDaemonFails, Apply, GetOptApplies,
     pmdaOpenLog, Terminates
<1>4. CASE Unwinding
  BY <1>2, <1>4, UnwindingKeeps DEF Unwind
<1>5. CASE Initialize
  BY <1>5 DEF Initialize, Initialized, Interfaces
<1>6. CASE pmdaInitFails
  BY <1>6 DEF pmdaInitFails, Initialized
<1>7. CASE Stop \/ GetOptCountsErrors
  BY <1>7 DEF Stop, GetOptCountsErrors, ReturnFromDaemon, HeapInv
<1>8. CASE pmdaConnect
  BY <1>8 DEF pmdaConnect
<1>9. CASE pmdaConnectFails
  BY <1>9 DEF pmdaConnectFails
<1>10. CASE pmdaMainReturns
  BY <1>10 DEF pmdaMainReturns, ReturnFromDaemon
<1>11. CASE Catch
  BY <1>11 DEF Catch
<1>12. CASE Exit
  BY <1>12 DEF Exit, DeleteInstance
<1>13. CASE UNCHANGED vars
  BY <1>13 DEF vars
<1> QED
  BY <1>3, <1>4, <1>5, <1>6, <1>7, <1>8, <1>9, <1>10, <1>11, <1>12, <1>13
  DEF Next, Run, Unwinding

\* The four parts together are kept.
LEMMA LifeStep == LifeInv /\ [Next]_vars => LifeInv'
BY ControlStep, HeapStep, ExtStep, TablesStep DEF LifeInv

\* Nothing that the library points to is freed or out of scope while a daemon
\* is at work, whatever options it was given.
THEOREM DaemonPointers == Spec => []DaemonPointersLive
<1>1. LifeInv => DaemonPointersLive
  <2> SUFFICES ASSUME LifeInv, mode = "daemon", InLibrary PROVE Pointers \subseteq Alive
    BY DEF DaemonPointersLive, PointersLive
  <2>1. InDaemon
    BY DEF InLibrary, InDaemon, LifeInv, ControlInv
  <2>2. Owned(free_on_destruction) \subseteq heap
    BY DEF LifeInv, HeapInv
  <2> QED BY <2>1, <2>2 DEF LifeInv, ExtInv, Alive
<1> QED BY <1>1, LifeInit, LifeStep, PTL DEF Spec

\* The copies that are allocated are those on the stack, each there once.
THEOREM CopiesOwnedOnce == Spec => []OwnedOnce
<1>1. LifeInv => OwnedOnce
  <2> SUFFICES ASSUME LifeInv PROVE OwnedOnce
    OBVIOUS
  <2>1. heap \cap Copies = Owned(free_on_destruction)
    <3>1. Owned(free_on_destruction) \subseteq Copies
      BY StackFacts DEF LifeInv, HeapInv
    <3>2. Copies \cap {"agent", "tables", "NULL"} = {} /\ instance \in {"agent", "NULL"}
      BY DEF Copies, LifeInv, ControlInv
    <3> QED BY <3>1, <3>2 DEF LifeInv, HeapInv
  <2> QED BY <2>1, StackFacts DEF LifeInv, HeapInv, OwnedOnce, Owned
<1> QED BY <1>1, LifeInit, LifeStep, PTL DEF Spec

\* An exited process has freed its agent and its copies, and its tables unless
\* an exception passed them or pmdaInit failed.
THEOREM NothingIsLeft == Spec => []NothingLeft
<1>1. LifeInv => NothingLeft
  <2> SUFFICES ASSUME LifeInv, pc = "exited"
               PROVE  /\ instance = "NULL" /\ heap \subseteq {"tables"}
                      /\ exit_code = "EXIT_SUCCESS" /\ status = "ok" => heap = {}
    BY DEF NothingLeft
  <2>1. instance = "NULL" /\ free_on_destruction = <<>>
    BY DEF LifeInv, ControlInv, HeapInv
  <2>2. heap \subseteq {"tables"}
    BY <2>1, EmptyStack DEF LifeInv, HeapInv
  <2>3. exit_code = "EXIT_SUCCESS" /\ status = "ok" => "tables" \notin heap
    BY DEF LifeInv, TablesInv
  <2> QED BY <2>1, <2>2, <2>3
<1> QED BY <1>1, LifeInit, LifeStep, PTL DEF Spec

\* Our callbacks are in the interface only while there is an agent for them.
THEOREM CallbacksHaveAgent == Spec => []CallbacksFindAgent
<1>1. LifeInv => CallbacksFindAgent
  <2> SUFFICES ASSUME LifeInv, ext.callbacks = "ours"
               PROVE  instance = "agent" /\ {"agent", "tables"} \subseteq heap /\ pc # "returned"
    BY DEF CallbacksFindAgent
  <2>1. Hooked /\ instance = "agent" /\ pc # "returned"
    BY DEF LifeInv, ExtInv, ControlInv, Hooked
  <2> QED BY <2>1 DEF LifeInv, HeapInv
<1> QED BY <1>1, LifeInit, LifeStep, PTL DEF Spec
-----------------------------------------------------------------------------
(* Options.                                                                *)

\* Past the parser, the options are those of a daemon that is to serve, and
\* the transport is the one they name.
ToldInv ==
  /\ LifeInv
  /\ ~boost => config_file = {}
  /\ command_line \subseteq Options /\ config_file \subseteq Options
  /\ mode = "daemon" /\ pc \in {"open log", "initialize", "connect", "main"} =>
       /\ ext.e_io = LastTransport
       /\ LET options == IF boost THEN Stored ELSE command_line
          IN  /\ options \subseteq Builtin \cup {"config"}
              /\ Cardinality(options \cap Transports) <= 1
              /\ "config" \in options => boost /\ config_opens

\* Nothing has been parsed at first.
LEMMA ToldInit == Init => ToldInv
<1> SUFFICES ASSUME Init PROVE ToldInv
  OBVIOUS
<1>1. command_line \subseteq Options /\ config_file \subseteq Options
  <2>1. PICK o \in GivenOptions : command_line = o[1] /\ config_file = o[2]
    BY DEF Init
  <2>2. PICK n \in 0..MaxOptions, m \in 0..MaxOptions :
          o \in kSubset(n, Options) \X kSubset(m, Options \ {"config"})
    BY <2>1 DEF GivenOptions
  <2>3. o[1] \in kSubset(n, Options) /\ o[2] \in kSubset(m, Options \ {"config"})
    BY <2>2
  <2> QED BY <2>1, <2>3 DEF kSubset
<1> QED BY <1>1, LifeInit DEF Init, ToldInv

\* Transports can be counted.
LEMMA TransportsFinite ==
  ASSUME NEW S
  PROVE  IsFiniteSet(S \cap Transports) /\ Cardinality(S \cap Transports) \in Nat
<1>1. IsFiniteSet({"inet"}) /\ IsFiniteSet({"pipe"})
  BY FS_Singleton
<1>2. IsFiniteSet({"inet", "pipe"})
  BY <1>1, FS_AddElement, {"inet", "pipe"} = {"inet"} \cup {"pipe"}
<1>3. IsFiniteSet({"inet", "pipe", "unix"})
  BY <1>2, FS_AddElement, {"inet", "pipe", "unix"} = {"inet", "pipe"} \cup {"unix"}
<1>4. IsFiniteSet(Transports)
  BY <1>3, FS_AddElement, Transports = {"inet", "pipe", "unix"} \cup {"inet6"} DEF Transports
<1> QED BY <1>4, FS_Subset, FS_CardinalityType

\* At most one transport among those given is the last of them.
LEMMA LastIsOnly ==
  ASSUME Cardinality(Stored \cap Transports) <= 1
  PROVE  Stored \cap Transports = (IF LastTransport = "default" THEN {} ELSE {LastTransport})
<1> DEFINE S == Stored \cap Transports
<1>1. ASSUME NEW x \in S, NEW y \in S PROVE x = y
  <2> SUFFICES ASSUME x # y PROVE FALSE
    OBVIOUS
  <2>1. IsFiniteSet({x}) /\ Cardinality({x}) = 1
    BY FS_Singleton
  <2>2. Cardinality({x} \cup {y}) = 2
    BY <2>1, FS_AddElement
  <2>3. {x} \cup {y} \subseteq S
    OBVIOUS
  <2>4. IsFiniteSet(S) /\ Cardinality(S) \in Nat /\ Cardinality(S) <= 1
    BY TransportsFinite
  <2> HIDE DEF S
  <2>5. Cardinality({x} \cup {y}) <= Cardinality(S)
    BY <2>3, <2>4, FS_Subset
  <2> QED BY <2>2, <2>4, <2>5
<1>2. LastTransport # "default" => LastTransport \in S
  BY DEF LastTransport, Transports
<1>3. LastTransport = "default" => S = {}
  BY DEF LastTransport, Transports
<1> HIDE DEF S
<1>4. S = (IF LastTransport = "default" THEN {} ELSE {LastTransport})
  BY <1>1, <1>2, <1>3
<1> QED BY <1>4 DEF S

\* What the daemon goes by is what was parsed.
LEMMA ToldStep == ToldInv /\ [Next]_vars => ToldInv'
<1> SUFFICES ASSUME ToldInv, [Next]_vars PROVE ToldInv'
  OBVIOUS
<1> DEFINE past == mode = "daemon" /\ pc \in {"open log", "initialize", "connect", "main"}
<1>1. LifeInv' /\ LifeInv /\ ControlInv /\ ExtInv /\ UNCHANGED given
  BY LifeStep, GivenIsKept DEF ToldInv, LifeInv
<1>2. UNCHANGED <<boost, mode, command_line, config_file, config_opens, Stored, LastTransport>>
  BY <1>1 DEF given, Stored, LastTransport
<1>3. Cardinality(Stored \cap Transports) \in Nat
  BY TransportsFinite
<1>4. ASSUME past => ext'.e_io = ext.e_io, past' => past PROVE ToldInv'
  BY <1>1, <1>2, <1>4 DEF ToldInv
<1>5. CASE Apply
  <2>1. ext'.e_io = LastTransport
    BY <1>1, <1>5 DEF Apply, ExtInv, Interfaces
  <2>2. Stored \subseteq Options /\ boost
    BY <1>5 DEF Apply, Stored, ToldInv
  <2>3. /\ {"malformed", "bad debug", "help", "version", "export"} \cap Stored = {}
        /\ ~(Cardinality(Stored \cap Transports) > 1)
        /\ config_opens \/ "config" \notin command_line
    BY <1>5 DEF Apply, StoreThrows, AsksToStop, Conflict
  <2>4. Stored \subseteq Builtin \cup {"config"}
    BY <2>2, <2>3 DEF Options
  <2>5. "config" \in Stored => config_opens
    BY <2>3 DEF Stored
  <2>6. Cardinality(Stored \cap Transports) <= 1
    <3>1. ~(Cardinality(Stored \cap Transports) > 1)
      BY <2>3
    <3>2. \A n \in Nat : ~(n > 1) => n <= 1
      OBVIOUS
    <3> HIDE DEF past
    <3> QED BY <1>3, <3>1, <3>2
  <2> QED BY <1>1, <1>2, <2>1, <2>2, <2>4, <2>5, <2>6 DEF ToldInv
<1>6. CASE GetOptApplies
  <2>1. ext'.e_io = LastTransport
    BY <1>1, <1>6 DEF GetOptApplies, ExtInv, Interfaces
  <2>2. /\ ~boost /\ command_line \subseteq Builtin /\ "config" \notin command_line
        /\ Cardinality(command_line \cap Transports) <= 1
    BY <1>6 DEF GetOptApplies, Builtin, Transports
  <2> QED BY <1>1, <1>2, <2>1, <2>2 DEF ToldInv
<1>7. CASE Initialize \/ pmdaInitFails
  <2>1. ext'.e_io = ext.e_io /\ pc = "initialize"
    BY <1>1, <1>7 DEF Initialize, pmdaInitFails, Initialized, ExtInv, Interfaces
  <2> QED BY <1>2, <1>4, <2>1
<1>8. CASE pmdaOpenLog \/ pmdaConnect \/ pmdaConnectFails \/ UNCHANGED vars
  BY <1>2, <1>4, <1>8 DEF pmdaOpenLog, pmdaConnect, pmdaConnectFails, vars
<1>9. CASE pc' \notin {"open log", "initialize", "connect", "main"} \/ mode = "dso"
  BY <1>1, <1>2, <1>9 DEF ToldInv
<1>10. Unwinding => pc' = "catch"
  BY UnwindingKeeps DEF Unwind
<1> QED
  BY <1>5, <1>6, <1>7, <1>8, <1>9, <1>10 DEF Next, Run, Unwinding, NewAgent, pmdaDSO,
     pmdaDaemon, pmdaDaemonFails, Stop, GetOptCountsErrors, pmdaMainReturns, Catch, Exit,
     Terminates, ReturnFromDaemon

\* However many options are given, in whatever files, a daemon that serves was
\* told to, and connects by the transport it was told.
THEOREM StartsAsTold == Spec => []StartsOnlyAsTold
<1>1. ToldInv => StartsOnlyAsTold
  <2> DEFINE options == IF boost THEN Stored ELSE command_line
  <2> SUFFICES ASSUME ToldInv, mode = "daemon", InLibrary
               PROVE  /\ options \subseteq Builtin \cup {"config"}
                      /\ options \cap Transports =
                           (IF ext.e_io = "default" THEN {} ELSE {ext.e_io})
                      /\ "config" \in options => boost /\ config_opens
    BY DEF StartsOnlyAsTold
  <2>1. pc \in {"open log", "initialize", "connect", "main"}
    BY DEF ToldInv, LifeInv, ControlInv, InLibrary
  <2>2. options = Stored
    BY DEF ToldInv, Stored
  <2>3. /\ ext.e_io = LastTransport
        /\ options \subseteq Builtin \cup {"config"}
        /\ Cardinality(options \cap Transports) <= 1
        /\ "config" \in options => boost /\ config_opens
    BY <2>1 DEF ToldInv
  <2> HIDE DEF options
  <2>4. options \cap Transports = (IF ext.e_io = "default" THEN {} ELSE {ext.e_io})
    BY <2>2, <2>3, LastIsOnly
  <2> QED BY <2>3, <2>4
<1> QED BY <1>1, ToldInit, ToldStep, PTL DEF Spec

\* What is given lets a process end in success.
Acceptable ==
  LET options == command_line \cup (IF config_opens THEN config_file ELSE {})
  IN  IF boost
      THEN /\ "malformed" \notin options
           /\ "config" \in command_line => config_opens
           /\ \/ options \cap {"help", "version", "export"} # {}
              \/ "bad debug" \notin options /\ Cardinality(options \cap Transports) <= 1
      ELSE command_line \subseteq Builtin \cup {"bad debug"}

\* Past the parser, and on the way to success, it is so.
SuccessInv ==
  /\ LifeInv
  /\ \/ mode = "daemon" /\ pc \in {"open log", "initialize", "connect", "main", "delete"}
     \/ exit_code = "EXIT_SUCCESS"
     => Acceptable

\* The parsers let through only what is acceptable.
LEMMA ParsedIsAcceptable ==
  Apply \/ Stop \/ GetOptApplies \/ GetOptCountsErrors => Acceptable
<1>1. ASSUME Apply \/ Stop PROVE Acceptable
  <2>1. boost /\ ~StoreThrows /\ (AsksToStop \/ (~Conflict /\ "bad debug" \notin Stored))
    BY <1>1 DEF Apply, Stop
  <2>2. "malformed" \notin Stored /\ ("config" \in command_line => config_opens)
    BY <2>1 DEF StoreThrows
  <2>3. ~Conflict => Cardinality(Stored \cap Transports) <= 1
    <3>1. Cardinality(Stored \cap Transports) \in Nat
      BY TransportsFinite
    <3>2. \A n \in Nat : ~(n > 1) => n <= 1
      OBVIOUS
    <3> QED BY <3>1, <3>2 DEF Conflict
  <2> QED BY <2>1, <2>2, <2>3 DEF Acceptable, AsksToStop, Stored
<1>2. ASSUME GetOptApplies \/ GetOptCountsErrors PROVE Acceptable
  BY <1>2 DEF GetOptApplies, GetOptCountsErrors, Acceptable
<1> QED BY <1>1, <1>2

\* Nothing has succeeded at first.
LEMMA SuccessInit == Init => SuccessInv
<1> SUFFICES ASSUME Init PROVE SuccessInv
  OBVIOUS
<1>1. pc = "new" /\ exit_code = "none"
  BY DEF Init
<1> QED BY <1>1, LifeInit DEF SuccessInv

\* No step succeeds against what is given.
LEMMA SuccessStep == SuccessInv /\ [Next]_vars => SuccessInv'
<1> SUFFICES ASSUME SuccessInv, [Next]_vars PROVE SuccessInv'
  OBVIOUS
<1> DEFINE past == mode = "daemon" /\ pc \in {"open log", "initialize", "connect", "main", "delete"}
<1>1. LifeInv' /\ ControlInv /\ mode' = mode
  BY LifeStep, GivenIsKept DEF SuccessInv, LifeInv, given
<1>2. Acceptable => Acceptable'
  <2>1. UNCHANGED <<boost, command_line, config_file, config_opens>>
    BY GivenIsKept DEF given
  <2> QED BY <2>1 DEF Acceptable
<1>3. past \/ exit_code = "EXIT_SUCCESS" => Acceptable
  BY DEF SuccessInv
<1>4. past' \/ exit_code' = "EXIT_SUCCESS" => past \/ exit_code = "EXIT_SUCCESS" \/ Acceptable
  <2>1. CASE Apply \/ Stop \/ GetOptApplies \/ GetOptCountsErrors
    BY <2>1, ParsedIsAcceptable
  <2>2. CASE Unwinding
    BY <2>2, UnwindingKeeps DEF Unwind
  <2>3. CASE NewAgent \/ pmdaDSO \/ pmdaDaemon \/ pmdaDaemonFails \/ Terminates
    BY <1>1, <2>3 DEF NewAgent, pmdaDSO, pmdaDaemon, pmdaDaemonFails, Terminates
  <2>4. CASE Initialize \/ pmdaInitFails
    BY <1>1, <2>4 DEF Initialize, pmdaInitFails, Initialized
  <2>5. CASE pmdaOpenLog \/ pmdaConnect \/ pmdaConnectFails \/ pmdaMainReturns
    BY <1>1, <2>5 DEF pmdaOpenLog, pmdaConnect, pmdaConnectFails, pmdaMainReturns
  <2>6. CASE Catch
    BY <2>6 DEF Catch
  <2>7. CASE Exit
    BY <1>1, <2>7 DEF Exit, ControlInv
  <2>8. CASE UNCHANGED vars
    BY <1>1, <2>8 DEF vars
  <2> QED
    BY <2>1, <2>2, <2>3, <2>4, <2>5, <2>6, <2>7, <2>8 DEF Next, Run, Unwinding
<1> QED BY <1>1, <1>2, <1>3, <1>4 DEF SuccessInv

\* However many options are given together, wherever they stand, a process that
\* exits in success was given nothing that should have failed it.
THEOREM SuccessAsGiven == Spec => []SuccessOnlyAsGiven
<1>1. SuccessInv => SuccessOnlyAsGiven
  BY DEF SuccessInv, SuccessOnlyAsGiven, Acceptable
<1> QED BY <1>1, SuccessInit, SuccessStep, PTL DEF Spec

\* The flags that are given or only ever set.
FlagInv ==
  /\ LifeInv
  /\ boost \in BOOLEAN /\ config_opens \in BOOLEAN /\ help_path \in {"path", ""}
  /\ erred \in BOOLEAN /\ status \in {"ok", "error", "not connected"}

\* The first state is well typed.
LEMMA FlagInit == Init => FlagInv
<1> SUFFICES ASSUME Init PROVE FlagInv
  OBVIOUS
<1>1. boost \in BOOLEAN /\ config_opens \in BOOLEAN /\ help_path \in {"path", ""}
  BY LifecycleAssumption DEF Init
<1>2. erred = FALSE /\ status = "ok"
  BY DEF Init
<1> QED BY <1>1, <1>2, LifeInit DEF FlagInv

\* Every step keeps the types.
LEMMA FlagStep == FlagInv /\ [Next]_vars => FlagInv'
<1> SUFFICES ASSUME FlagInv, [Next]_vars PROVE FlagInv'
  OBVIOUS
<1>1. boost' = boost /\ config_opens' = config_opens /\ help_path' = help_path
  BY GivenIsKept DEF given
<1>2. /\ erred' = erred \/ erred' = TRUE
      /\ status' = status \/ status' \in {"ok", "error", "not connected"}
  BY DEF Next, Run, vars, NewAgent, ConstructorThrows, NamesThrow, Initialize, pmdaInitFails,
         Initialized, InitializeThrows, pmdaDSO, pmdaDSOFails, pmdaDaemon, pmdaDaemonFails,
         ParseThrows, ExportThrows, Stop, Apply, GetOptThrows, GetOptCountsErrors,
         GetOptApplies, pmdaOpenLog, pmdaConnect, pmdaConnectFails, pmdaMainReturns,
         pmdaMainThrows, Catch, Exit, Terminates, Unwind, ReturnFromDaemon
<1>3. boost' \in BOOLEAN /\ config_opens' \in BOOLEAN /\ help_path' \in {"path", ""}
  BY <1>1 DEF FlagInv
<1>4. erred' \in BOOLEAN /\ status' \in {"ok", "error", "not connected"}
  BY <1>2 DEF FlagInv
<1> QED BY <1>3, <1>4, LifeStep DEF FlagInv

\* The variables of the life cycle keep to their types.
THEOREM LifecycleTypeCorrect == Spec => []TypeOK
<1>1. FlagInv /\ ToldInv => TypeOK
  <2> SUFFICES ASSUME FlagInv, ToldInv PROVE TypeOK
    OBVIOUS
  <2>1. /\ pc \in {"new", "setup", "parse", "open log", "initialize", "connect", "main",
                   "catch", "delete", "exited", "terminated", "serving", "returned"}
        /\ mode \in {"daemon", "dso"} /\ instance \in {"NULL", "agent"}
    BY DEF FlagInv, LifeInv, ControlInv
  <2>2. free_on_destruction \in Seq(Copies) /\ Owned(free_on_destruction) \subseteq Copies
    BY StackFacts DEF FlagInv, LifeInv, HeapInv
  <2>3. heap \subseteq Copies \cup {"agent", "tables"}
    BY <2>1, <2>2 DEF FlagInv, LifeInv, HeapInv
  <2>4. frame \subseteq Locals
    BY DEF FlagInv, LifeInv, ExtInv
  <2>5. ext \in [e_name : Strings, e_helptext : Strings, e_logfile : Strings,
                 e_sockname : Strings, e_io : Transports \cup {"default"},
                 e_metrics : {"NULL", "tables"}, callbacks : {"none", "ours"}]
    BY DEF FlagInv, LifeInv, ExtInv, Interfaces
  <2>6. /\ boost \in BOOLEAN /\ config_opens \in BOOLEAN /\ help_path \in {"path", ""}
        /\ erred \in BOOLEAN /\ status \in {"ok", "error", "not connected"}
    BY DEF FlagInv
  <2>7. command_line \subseteq Options /\ config_file \subseteq Options
    BY DEF ToldInv
  <2>8. /\ exit_code \in {"none", "EXIT_SUCCESS", "EXIT_FAILURE"}
        /\ pc = "exited" => exit_code # "none"
    BY DEF FlagInv, LifeInv, ControlInv
  <2> QED BY <2>1, <2>2, <2>3, <2>4, <2>5, <2>6, <2>7, <2>8 DEF TypeOK
<1> QED BY <1>1, FlagInit, FlagStep, ToldInit, ToldStep, PTL DEF Spec
=============================================================================
