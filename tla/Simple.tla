------------------------------- MODULE Simple ------------------------------
(***************************************************************************)
(* The simple agent of the examples, run by the callbacks of Dispatch: at  *)
(* each fetch it looks whether its configuration file has changed and, if  *)
(* so, rebuilds the cached instances of simple.now from it; user and sys   *)
(* times are read once in a fetch; a client may store simple.numfetch and  *)
(* simple.color.  Every step is the agent's own effect and the step of     *)
(* Dispatch it happens in.                                                 *)
(*                                                                         *)
(* Abstracted: the colours, which nothing else depends on; a modification  *)
(* time is a number; the line read is a sequence of words; a value fetched *)
(* says what it is the value of and in which fetch it was read.            *)
(***************************************************************************)
EXTENDS Cache, Sequences

CONSTANTS
  Contents,     \* what the configuration file may hold: sequences of words
  FetchSize,    \* number of values of the 32-bit numfetch
  ColorSize,    \* number of values of a colour
  ClientLists,  \* bound: the sets of ids that clients ask for
  StoreIds,     \* bound: the ids that clients store to
  Values,       \* bound: the values they store
  MaxTime,      \* bound: modification times
  MaxEdits,     \* bound: changes of the file
  MaxBatch      \* bound: fetches begun

ASSUME SimpleAssumption ==
  /\ Contents \subseteq Seq(STRING)
  /\ FetchSize \in Nat \ {0, 1} /\ ColorSize \in Nat
  /\ Values \subseteq Int
  /\ MaxTime \in Nat /\ MaxEdits \in Nat /\ MaxBatch \in Nat

VARIABLES
  pc, request, position, any_stored, applied, batch, todo, atom, delivered,
  rc,           \* of Dispatch
  conf,         \* simple.conf as it is: there, its words, its modification time
  edits,        \* number of its changes
  missed,       \* ghost: it has changed in a way timenow_check does not notice
  statbuf,      \* the file as the last stat saw it
  reading,      \* what timenow_init is about: nothing, to open, or the words
  line,         \* the words of the line it has yet to look at
  file_change,  \* modification time at the last reading
  entries,      \* the pmdaCache of now_domain
  now_domain,   \* the instance_domain object: id |-> name
  clock,        \* the fetch whose time the timeslices hold
  numfetch, oldfetch,
  times,        \* usr and sys: which call of which fetch read them
  setback,      \* ghost: numfetch has gone down since times were read
  values        \* id |-> the value delivered in this fetch

dispatchVars == <<pc, request, position, any_stored, applied, batch, todo,
                  atom, delivered, rc>>
fileVars     == <<conf, edits>>
readVars     == <<reading, line>>
nowVars      == <<missed, statbuf, readVars, file_change, entries, now_domain, clock>>
timesVars    == <<oldfetch, times, setback>>
vars == <<dispatchVars, fileVars, nowVars, timesVars, numfetch, values>>
-----------------------------------------------------------------------------
Slices == {"sec", "min", "hour"}
Colors == 0..2

\* get_supported_metrics.
Metrics ==
  [m \in {"numfetch", "color", "user", "sys", "now"} |->
     [domain   |-> CASE m = "color" -> "color_domain"
                     [] m = "now"   -> "now_domain"
                     [] OTHER       -> "NULL",
      storable |-> m \in {"numfetch", "color"}]]

PM_ERR_SIGN  == -12347
PM_ERR_CONV  == -12350
PM_ERR_INDOM == -12360     \* one that pmdaCacheOp and pmdaCacheStore may return
NoInstance   == -1         \* PM_INDOM_NULL

pcp_exception(code) == [how |-> "pcp", code |-> code]

Framework == INSTANCE Dispatch WITH
  PMIDs <- DOMAIN Metrics, supported_metrics <- Metrics,
  Domains <- {"color_domain", "now_domain"}, NoDomain <- "NULL",
  live <- [d \in {"color_domain", "now_domain"} |->
             IF d = "color_domain" THEN Colors ELSE DOMAIN now_domain],
  Instances <- Colors, PM_INDOM_NULL <- NoInstance,
  AgentCodes <- {PM_ERR_SIGN, PM_ERR_CONV, PM_ERR_INDOM}, MaxValues <- 1

ASSUME ClientAssumption == StoreIds \subseteq Framework!Ids

NoFile == [there |-> FALSE, words |-> <<>>, mtime |-> 0]
Files  == [there : {TRUE}, words : Contents, mtime : 1..MaxTime]

\* The slices among some words.
Listed(words) == {words[i] : i \in 1..Len(words)} \cap Slices

TypeOK ==
  /\ Framework!TypeOK
  /\ conf \in Files \cup {NoFile} /\ statbuf \in Files \cup {NoFile}
  /\ edits \in 0..MaxEdits
  /\ missed \in BOOLEAN /\ setback \in BOOLEAN
  /\ reading \in {"no", "open", "words"} /\ line \in Seq(STRING)
  /\ reading # "no" => pc = "begin"
  /\ file_change \in 0..MaxTime
  /\ DOMAIN entries \subseteq Slices
  /\ \A n \in DOMAIN entries : entries[n] \in
       [id : Colors, status : {PMDA_CACHE_ACTIVE, PMDA_CACHE_INACTIVE}, opaque : {n}]
  /\ DOMAIN now_domain \subseteq Colors
  /\ clock \in 0..batch
  /\ numfetch \in 0..(FetchSize - 1) /\ oldfetch \in 0..(FetchSize - 1)
  /\ times \in [call : Nat, batch : 0..batch]
  /\ DOMAIN values = DOMAIN delivered

Init ==
  /\ conf \in Files \cup {NoFile} /\ edits = 0
  /\ missed = FALSE /\ statbuf = NoFile /\ reading = "no" /\ line = <<>>
  /\ file_change = 0
  /\ entries = EmptyCache /\ now_domain = [i \in {} |-> ""] /\ clock = 0
  /\ numfetch = 0 /\ oldfetch = 0
  /\ times = [call |-> 0, batch |-> 0] /\ setback = FALSE
  /\ values = [id \in {} |-> <<>>]
  /\ pc = "idle" /\ request = <<>> /\ position = 1 /\ any_stored = FALSE
  /\ applied = <<>> /\ batch = 0 /\ todo = {} /\ rc = Framework!Pending
  /\ atom = Framework!NoAtom /\ delivered = Framework!NoReply
-----------------------------------------------------------------------------
(* The file may change at any time, with any modification time.            *)

Edit ==
  /\ edits < MaxEdits /\ edits' = edits + 1
  /\ conf' \in (Files \cup {NoFile}) \ {conf}
  /\ missed' = /\ conf'.there
               /\ \/ conf'.mtime = file_change
                  \/ conf'.mtime = statbuf.mtime /\ reading # "no"
  /\ UNCHANGED <<dispatchVars, statbuf, readVars, file_change, entries,
                 now_domain, clock, timesVars, numfetch, values>>
-----------------------------------------------------------------------------
(* begin_fetch_values.                                                     *)

\* What pmdaFetch may ask for: of the cached instances, the active ones.
Lists(cache) ==
  {{id \in list \cap Framework!Askable :
      id[1] = "now" => \E n \in Active(cache) : cache[n].id = id[2]} : list \in ClientLists}

\* Mutant: timenow_refresh is not called.
BegunUnrefreshed(cache) ==
  /\ UNCHANGED clock
  /\ \E list \in Lists(cache) : Framework!FetchBegun(list)

\* timenow_refresh; begin_fetch_values returns.
Begun(cache) ==
  /\ clock' = batch
  /\ \E list \in Lists(cache) : Framework!FetchBegun(list)

\* A call of the cache fails, and the exception ends begin_fetch_values.
CallFails ==
  /\ Framework!BeginThrows(pcp_exception(Checked(PM_ERR_INDOM).code))
  /\ UNCHANGED clock

\* Mutant: the value is not cut to 32 bits.
CountWide(value) == numfetch' = value /\ UNCHANGED setback

\* numfetch takes a new value.
Count(value) ==
  /\ numfetch' = value % FetchSize
  /\ setback' = (setback \/ numfetch' < numfetch)

\* numfetch++, then timenow_check up to timenow_init.
timenow_check ==
  /\ UNCHANGED <<fileVars, missed, line, file_change, now_domain, oldfetch, times, values>>
  /\ pc = "begin" /\ reading = "no"
  /\ Count(numfetch + 1)
  /\ statbuf' = conf
  /\ IF conf.there /\ conf.mtime = file_change
     THEN Begun(entries) /\ UNCHANGED <<entries, reading>>
     ELSE \/ /\ entries' = AllInactive(entries)              \* timenow_clear
             /\ IF conf.there
                THEN reading' = "open" /\ UNCHANGED <<dispatchVars, clock>>
                ELSE Begun(entries') /\ UNCHANGED reading
          \/ CallFails /\ UNCHANGED <<entries, reading>>

\* timenow_init opens the file and reads a line, or cannot.
OpenFile ==
  /\ UNCHANGED <<fileVars, statbuf, entries, now_domain, timesVars, numfetch, values>>
  /\ reading = "open"
  /\ \/ /\ conf.there /\ reading' = "words" /\ line' = conf.words
        /\ missed' = FALSE
        /\ UNCHANGED <<dispatchVars, file_change, clock>>
     \/ /\ reading' = "no" /\ file_change' = statbuf.mtime
        /\ missed' = (conf.mtime = statbuf.mtime)
        /\ Begun(entries)
        /\ UNCHANGED line

\* Mutant: the search for the next comma begins at the last one.
SameWord(words) == words

\* What the loop has left after a word.
NextWord(words) == Tail(words)

\* Mutant: what the cache has stored is not inserted.
InsertedNot(domain, id, name) == domain

\* now_domain(id, name): an instance that is there keeps its name.
Inserted(domain, id, name) ==
  [i \in DOMAIN domain \cup {id} |-> IF i \in DOMAIN domain THEN domain[i] ELSE name]

\* One turn of the loop: a slice is stored, and inserted into the domain.
TakeWord ==
  /\ UNCHANGED <<fileVars, missed, statbuf, reading, file_change, clock, timesVars,
                 numfetch, values>>
  /\ reading = "words" /\ line # <<>>
  /\ line' = NextWord(line)
  /\ \/ /\ Head(line) \notin Slices
        /\ UNCHANGED <<dispatchVars, entries, now_domain>>
     \/ /\ Head(line) \in Slices
        /\ entries' = Stored(entries, Head(line), Head(line))
        /\ now_domain' = Inserted(now_domain, entries'[Head(line)].id, Head(line))
        /\ Framework!AgentInserts

\* Mutant: file_change is set before the file is read.
ReadFailsAfterChange ==
  /\ UNCHANGED <<fileVars, statbuf, entries, now_domain, timesVars, numfetch, values>>
  /\ reading = "words" /\ reading' = "no" /\ line' = <<>>
  /\ line # <<>> => Head(line) \in Slices
  /\ file_change' = statbuf.mtime
  /\ missed' = (missed \/ conf.mtime = file_change)
  /\ CallFails

\* The store of a slice fails, or the last call of the cache does.
ReadFails ==
  /\ UNCHANGED <<fileVars, statbuf, file_change, entries, now_domain, timesVars, numfetch,
                 values>>
  /\ reading = "words" /\ reading' = "no" /\ line' = <<>>
  /\ line # <<>> => Head(line) \in Slices
  /\ missed' = (missed \/ conf.mtime = file_change)
  /\ CallFails

\* No word is left: the rest of timenow_check.
ReadEnds ==
  /\ UNCHANGED <<fileVars, missed, statbuf, line, entries, now_domain, timesVars,
                 numfetch, values>>
  /\ reading = "words" /\ line = <<>> /\ reading' = "no"
  /\ file_change' = statbuf.mtime
  /\ Begun(entries)
-----------------------------------------------------------------------------
(* fetch_value.                                                            *)

\* A value of `of', read by a call, in a fetch.
Gives(id, of, from) ==
  /\ Framework!FetchTaken(id, Framework!PMDA_FETCH_STATIC)
  /\ values' = [i \in DOMAIN values \cup {id} |->
                  IF i = id THEN [of |-> of, from |-> from] ELSE values[i]]

\* Mutant: <= in place of <.
ReadAgain == oldfetch <= numfetch

\* Mutant: the operands are swapped.
ReadSwapped == numfetch < oldfetch

\* oldfetch < numfetch.
ReadDue == oldfetch < numfetch

\* __pmProcessRunTimes is called when it is due; item 3 gets usr.
FetchTimes(id) ==
  /\ IF ReadDue
     THEN /\ times' = [call  |-> IF times.batch = batch THEN times.call + 1 ELSE 1,
                       batch |-> batch]
          /\ oldfetch' = numfetch /\ setback' = FALSE
     ELSE UNCHANGED timesVars
  /\ Gives(id, IF id[1] = "sys" THEN "usr" ELSE "sys", times')

\* The timeslice that the cache has for the instance.
FetchNow(id) ==
  LET found == lookup(entries, id[2], require_active)
  IN  /\ UNCHANGED timesVars
      /\ IF found.thrown
         THEN Framework!FetchThrows(id, pcp_exception(found.code)) /\ UNCHANGED values
         ELSE Gives(id, found.value, [call |-> 0, batch |-> clock])

\* on_fetch_callback for one id of the list.
fetch_value(id) ==
  /\ UNCHANGED <<fileVars, nowVars, numfetch>>
  /\ pc = "fetch" /\ id \in todo
  /\ IF Framework!FetchCheck(id) # 0
     THEN Framework!FetchRefused(id) /\ UNCHANGED <<timesVars, values>>
     ELSE CASE id[1] \in {"user", "sys"} -> FetchTimes(id)
            [] id[1] = "now"             -> FetchNow(id)
            [] OTHER -> /\ Gives(id, id[1], [call |-> 0, batch |-> batch])
                        /\ UNCHANGED timesVars
-----------------------------------------------------------------------------
(* store_value, for an id that passes the checks of on_store.              *)

store_value(value) ==
  /\ UNCHANGED <<fileVars, nowVars, oldfetch, times, values>>
  /\ pc = "store" /\ position <= Len(request)
  /\ IF request[position][1] = "numfetch"
     THEN Framework!StoreTaken /\ Count(value)
     ELSE /\ UNCHANGED <<numfetch, setback>>
          /\ CASE value < 0          -> Framework!StoreThrows(pcp_exception(PM_ERR_SIGN))
               [] value >= ColorSize -> Framework!StoreThrows(pcp_exception(PM_ERR_CONV))
               [] OTHER              -> Framework!StoreTaken

\* The callbacks start and return without the agent.
OnFetch ==
  /\ UNCHANGED <<fileVars, nowVars, timesVars, numfetch>>
  /\ Framework!OnFetch
  /\ values' = [id \in {} |-> <<>>]

OnStore(id) ==
  /\ UNCHANGED <<fileVars, nowVars, timesVars, numfetch>>
  /\ Framework!StoreCheck(id) = 0
  /\ Framework!OnStore(<<id>>)
  /\ values' = [i \in {} |-> <<>>]

Returns ==
  /\ UNCHANGED <<fileVars, missed, readVars, file_change, entries, now_domain,
                 clock, timesVars, numfetch, values>>
  /\ statbuf' = NoFile
  /\ Framework!FetchReturns \/ Framework!StoreReturns

Run ==
  \/ timenow_check
  \/ OpenFile
  \/ TakeWord
  \/ ReadFails
  \/ ReadEnds
  \/ \E id \in Framework!Ids : fetch_value(id)
  \/ \E value \in Values : store_value(value)
  \/ Returns

Next ==
  \/ Edit
  \/ OnFetch
  \/ \E id \in StoreIds : OnStore(id)
  \/ Run

Spec == Init /\ [][Next]_vars
-----------------------------------------------------------------------------
(* Properties.                                                             *)

\* When a fetch has begun, the active instances of simple.now are the slices
\* that the file lists, or none if it is gone: whatever failed at earlier
\* fetches, and however the file changed between its stat and its reading,
\* unless it changed since then or in a way its modification time hides.
NowIsCurrent ==
  pc = "fetch" /\ conf = statbuf /\ ~missed => Active(entries) = Listed(conf.words)

\* An instance of simple.now is the slice its name says, at this fetch's time:
\* the ids of the cache and of the instance domain never part, over any number
\* of rebuilds.
NowIsItsSlice ==
  \A id \in DOMAIN values : id[1] = "now" =>
    values[id] = [of |-> now_domain[id[2]], from |-> [call |-> 0, batch |-> batch]]

\* Times are this fetch's, unless numfetch has gone down since they were last
\* read, for a client stored a smaller one or 32 bits were exceeded.
TimesFresh ==
  \A id \in DOMAIN values :
    id[1] \in {"user", "sys"} => values[id].from.batch = batch \/ setback

\* The two times of one reply come from one call.
OneSnapshot ==
  \A i, j \in DOMAIN values :
    {i[1], j[1]} = {"user", "sys"} => values[i].from = values[j].from

\* Every value pmdaFetch asks this agent for is delivered: no check refuses
\* it and no lookup throws, for the active instances are all in the domain.
AllDelivered == pc = "fetch" => todo \ todo' \subseteq DOMAIN delivered'

\* Every step of the agent is a step of Dispatch, or none.
DispatchStep == Framework!Next \/ UNCHANGED Framework!vars
=============================================================================
