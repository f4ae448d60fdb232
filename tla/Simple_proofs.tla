--------------------------- MODULE Simple_proofs ---------------------------
(***************************************************************************)
(* What the simple agent guarantees for any file, changed at any time, and *)
(* any clients: its steps are steps of Dispatch, and the cached instances, *)
(* the instance domain and the values delivered agree with each other and  *)
(* with the file.                                                          *)
(***************************************************************************)
EXTENDS Simple, FiniteSetTheorems, SequenceTheorems, TLAPS

(* The cache.                                                              *)

Entry(n) == [id : Nat, status : {PMDA_CACHE_ACTIVE, PMDA_CACHE_INACTIVE}, opaque : {n}]

\* Ids are given in order, each to one slice, and the domain object knows
\* every one of them under the name that the cache knows.
CacheInv ==
  /\ DOMAIN entries \subseteq Slices
  /\ \A n \in DOMAIN entries : /\ entries[n] \in Entry(n)
                               /\ entries[n].id < Cardinality(DOMAIN entries)
  /\ \A m, n \in DOMAIN entries : entries[m].id = entries[n].id => m = n
  /\ DOMAIN now_domain \subseteq Colors
  /\ \A i \in DOMAIN now_domain : i < Cardinality(DOMAIN entries)
  /\ \A n \in DOMAIN entries : /\ entries[n].id \in DOMAIN now_domain
                               /\ now_domain[entries[n].id] = n

\* There are no more slices than ids.
LEMMA SlicesFinite == IsFiniteSet(Slices) /\ Cardinality(Slices) = 3
<1>1. IsFiniteSet({}) /\ Cardinality({}) = 0
  BY FS_EmptySet
<1>2. IsFiniteSet({"sec"}) /\ Cardinality({"sec"}) = 1
  BY FS_Singleton
<1>3. IsFiniteSet({"sec"} \cup {"min"}) /\ Cardinality({"sec"} \cup {"min"}) = 2
  BY <1>2, FS_AddElement
<1>4. /\ IsFiniteSet(({"sec"} \cup {"min"}) \cup {"hour"})
      /\ Cardinality(({"sec"} \cup {"min"}) \cup {"hour"}) = 3
  BY <1>3, FS_AddElement
<1>5. Slices = ({"sec"} \cup {"min"}) \cup {"hour"}
  BY DEF Slices
<1> QED BY <1>4, <1>5

\* A slice that the cache does not have is given an id that is free.
LEMMA NewId ==
  ASSUME NEW S \in SUBSET Slices, NEW word \in Slices \ S
  PROVE  /\ Cardinality(S) \in Colors
         /\ Cardinality(S \cup {word}) = Cardinality(S) + 1
<1>1. IsFiniteSet(S) /\ Cardinality(S) \in Nat
  BY SlicesFinite, FS_Subset, FS_CardinalityType
<1>2. IsFiniteSet(S \cup {word}) /\ Cardinality(S \cup {word}) = Cardinality(S) + 1
  BY <1>1, FS_AddElement
<1>3. Cardinality(S \cup {word}) <= 3
  BY SlicesFinite, FS_Subset
<1> QED BY <1>1, <1>2, <1>3 DEF Colors

\* Storing a slice makes it active, and keeps the ids in step with the domain.
LEMMA StoredSlice ==
  ASSUME CacheInv, NEW word \in Slices,
         entries' = Stored(entries, word, word),
         now_domain' = Inserted(now_domain, entries'[word].id, word)
  PROVE  CacheInv' /\ Active(entries') = Active(entries) \cup {word}
<1> DEFINE S == DOMAIN entries
           k == IF word \in S THEN entries[word].id ELSE Cardinality(S)
           e == [id |-> k, status |-> PMDA_CACHE_ACTIVE, opaque |-> word]
<1>1. /\ DOMAIN entries' = S \cup {word}
      /\ entries'[word] = e
      /\ \A n \in S : n # word => entries'[n] = entries[n]
  BY DEF Stored
<1>2. /\ S \subseteq Slices
      /\ Cardinality(S) \in Nat
      /\ Cardinality(S) \in Colors \/ word \in S
      /\ Cardinality(S \cup {word}) = Cardinality(S) + (IF word \in S THEN 0 ELSE 1)
  <2>1. S \subseteq Slices /\ IsFiniteSet(S)
    BY SlicesFinite, FS_Subset DEF CacheInv
  <2>2. Cardinality(S) \in Nat
    BY <2>1, FS_CardinalityType
  <2>3. CASE word \in S
    <3>1. S \cup {word} = S
      BY <2>3
    <3> QED BY <2>1, <2>2, <2>3, <3>1
  <2>4. CASE word \notin S
    BY <2>1, <2>2, <2>4, NewId
  <2> QED BY <2>3, <2>4
<1>3. k \in Nat /\ k \in Colors /\ k < Cardinality(S \cup {word})
  <2>1. CASE word \in S
    BY <2>1, <1>2 DEF CacheInv, Entry
  <2>2. CASE word \notin S
    BY <2>2, <1>2
  <2> QED BY <2>1, <2>2
<1>4. e \in Entry(word) /\ e.id = k /\ e.status = PMDA_CACHE_ACTIVE
  BY <1>3 DEF Entry
<1>5. \A n \in S : n # word => entries[n].id # k
  BY <1>2 DEF CacheInv, Entry
<1> HIDE DEF e, k, S
<1>6. /\ DOMAIN now_domain' = DOMAIN now_domain \cup {k}
      /\ now_domain'[k] = IF k \in DOMAIN now_domain THEN now_domain[k] ELSE word
      /\ \A i \in DOMAIN now_domain : now_domain'[i] = now_domain[i]
  BY <1>1, <1>4 DEF Inserted
<1>7. now_domain'[k] = word
  <2>1. CASE word \in S
    BY <2>1, <1>6 DEF CacheInv, k, S
  <2>2. CASE word \notin S
    <3>1. k \notin DOMAIN now_domain
      BY <2>2, <1>2 DEF CacheInv, k, S, Colors
    <3> QED BY <3>1, <1>6
  <2> QED BY <2>1, <2>2
<1>8. /\ \A n \in DOMAIN entries' : /\ entries'[n] \in Entry(n)
                                  /\ entries'[n].id < Cardinality(DOMAIN entries')
      /\ \A i \in DOMAIN now_domain' : i < Cardinality(DOMAIN entries')
  <2>1. Cardinality(S) <= Cardinality(DOMAIN entries')
    BY <1>1, <1>2
  <2>2. ASSUME NEW n \in S, n # word
        PROVE  entries'[n] \in Entry(n) /\ entries'[n].id < Cardinality(DOMAIN entries')
    BY <2>1, <2>2, <1>1, <1>2 DEF CacheInv, S, Entry
  <2>3. entries'[word] \in Entry(word) /\ entries'[word].id < Cardinality(DOMAIN entries')
    BY <1>1, <1>3, <1>4
  <2>4. ASSUME NEW i \in DOMAIN now_domain PROVE i < Cardinality(DOMAIN entries')
    BY <2>1, <1>2, <1>1 DEF CacheInv, S, Colors
  <2> QED BY <2>2, <2>3, <2>4, <1>1, <1>3, <1>6
<1>9. \A m, n \in DOMAIN entries' : entries'[m].id = entries'[n].id => m = n
  BY <1>1, <1>4, <1>5 DEF CacheInv, S
<1>10. \A n \in DOMAIN entries' : /\ entries'[n].id \in DOMAIN now_domain'
                                /\ now_domain'[entries'[n].id] = n
  BY <1>1, <1>4, <1>6, <1>7 DEF CacheInv, S
<1>11. CacheInv'
  BY <1>1, <1>2, <1>3, <1>6, <1>8, <1>9, <1>10 DEF CacheInv
<1>12. Active(entries') = Active(entries) \cup {word}
  BY <1>1, <1>4 DEF Active, S
<1> QED BY <1>11, <1>12

\* timenow_clear leaves ids and names alone.
LEMMA ClearedSlices ==
  ASSUME CacheInv, entries' = AllInactive(entries), UNCHANGED now_domain
  PROVE  CacheInv' /\ Active(entries') = {}
<1>1. /\ DOMAIN entries' = DOMAIN entries
      /\ \A n \in DOMAIN entries : /\ entries'[n] \in Entry(n)
                                 /\ entries'[n].id = entries[n].id
                                 /\ entries'[n].status = PMDA_CACHE_INACTIVE
  BY DEF AllInactive, CacheInv, Entry
<1>2. CacheInv'
  BY <1>1 DEF CacheInv
<1>3. PMDA_CACHE_INACTIVE # PMDA_CACHE_ACTIVE
  BY DEF PMDA_CACHE_INACTIVE, PMDA_CACHE_ACTIVE
<1> QED BY <1>1, <1>2, <1>3 DEF Active

\* A lookup of the id of an active slice returns that slice.
LEMMA ActiveIsFound ==
  ASSUME CacheInv, NEW i, NEW n \in Active(entries), entries[n].id = i
  PROVE  lookup(entries, i, require_active) = Returned(n) /\ now_domain[i] = n
<1>1. n \in DOMAIN entries /\ entries[n].status = PMDA_CACHE_ACTIVE
  BY DEF Active
<1>2. {m \in DOMAIN entries : entries[m].id = i} = {n}
  BY <1>1 DEF CacheInv
<1>3. entries[n].opaque = n
  BY <1>1 DEF CacheInv, Entry
<1>4. (CHOOSE m \in {n} : TRUE) = n
  OBVIOUS
<1> QED BY <1>1, <1>2, <1>3, <1>4 DEF lookup, LookedUp, CacheInv
-----------------------------------------------------------------------------
(* The file.                                                               *)

FileTypes ==
  /\ conf \in Files \cup {NoFile} /\ statbuf \in Files \cup {NoFile}
  /\ missed \in BOOLEAN
  /\ reading \in {"no", "open", "words"} /\ line \in Seq(STRING)
  /\ reading # "no" => pc = "begin"
  /\ file_change \in Nat

\* What is read and what has been taken make up the file, and the file has
\* been taken whole when its modification time is the last one seen, unless
\* that time hides a change.
FileInv ==
  /\ CacheInv /\ FileTypes
  /\ reading = "no" /\ ~missed /\ conf.there /\ conf.mtime = file_change =>
       Active(entries) = Listed(conf.words)
  /\ reading = "open" => Active(entries) = {}
  /\ reading = "words" /\ ~missed /\ conf.mtime = statbuf.mtime =>
       Active(entries) \cup Listed(line) = Listed(conf.words)
  /\ reading # "no" => statbuf.there
  /\ pc = "fetch" =>
       IF statbuf.there THEN statbuf.mtime = file_change ELSE Active(entries) = {}

\* A file is there exactly when it has a modification time that is not zero.
LEMMA FileFacts ==
  ASSUME NEW f \in Files \cup {NoFile}
  PROVE  /\ f.there \in BOOLEAN /\ f.mtime \in Nat /\ f.words \in Seq(STRING)
         /\ f.there <=> f.mtime # 0
         /\ ~f.there => f.words = <<>>
<1>1. CASE f \in Files
  <2>1. f.there \in {TRUE} /\ f.mtime \in 1..MaxTime /\ f.words \in Contents
    BY <1>1 DEF Files
  <2>2. f.there = TRUE
    BY <2>1
  <2>3. f.mtime \in Nat /\ f.mtime # 0 /\ f.words \in Seq(STRING)
    BY <2>1, SimpleAssumption
  <2> QED BY <2>2, <2>3
<1>2. CASE f = NoFile
  <2>1. f.there = FALSE /\ f.words = <<>> /\ f.mtime = 0
    BY <1>2 DEF NoFile
  <2>2. <<>> \in Seq(STRING)
    OBVIOUS
  <2>3. f.words \in Seq(STRING) /\ f.mtime \in Nat
    BY <2>1, <2>2
  <2> QED BY <2>1, <2>3
<1> QED BY <1>1, <1>2

\* The first word and the others are the words there are.
LEMMA ListedSplit ==
  ASSUME NEW s \in Seq(STRING), s # <<>>
  PROVE  Listed(s) = ({Head(s)} \cap Slices) \cup Listed(Tail(s))
<1>1. /\ Head(s) = s[1] /\ Len(s) \in Nat \ {0} /\ Len(Tail(s)) = Len(s) - 1
      /\ \A i \in 1..Len(Tail(s)) : Tail(s)[i] = s[i + 1]
  OBVIOUS
<1>2. ASSUME NEW x PROVE (\E i \in 1..Len(s) : s[i] = x) <=>
                           (x = s[1] \/ \E i \in 1..Len(Tail(s)) : Tail(s)[i] = x)
  <2>1. ASSUME NEW i \in 1..Len(s), s[i] = x
        PROVE  x = s[1] \/ \E j \in 1..Len(Tail(s)) : Tail(s)[j] = x
    <3>1. i = 1 \/ (i - 1 \in 1..Len(Tail(s)) /\ Tail(s)[i - 1] = s[i])
      BY <1>1
    <3> QED BY <2>1, <3>1
  <2>2. ASSUME NEW j \in 1..Len(Tail(s)), Tail(s)[j] = x
        PROVE  \E i \in 1..Len(s) : s[i] = x
    <3>1. j + 1 \in 1..Len(s) /\ s[j + 1] = x
      BY <1>1, <2>2
    <3> QED BY <3>1
  <2>3. 1 \in 1..Len(s)
    BY <1>1
  <2> QED BY <2>1, <2>2, <2>3
<1>3. /\ {s[i] : i \in 1..Len(s)} = {s[1]} \cup {Tail(s)[i] : i \in 1..Len(Tail(s))}
  BY <1>2
<1> QED BY <1>1, <1>3 DEF Listed

\* An empty line lists no slice.
LEMMA ListedEmpty == Listed(<<>>) = {}
<1>1. Len(<<>>) = 0
  OBVIOUS
<1> QED BY <1>1 DEF Listed

\* What the calls of Dispatch do to the control state.
LEMMA BegunMoves ==
  ASSUME NEW cache, Begun(cache)
  PROVE  /\ pc = "begin" /\ pc' = "fetch" /\ clock' = batch
         /\ UNCHANGED <<request, position, any_stored, applied, batch, atom, delivered, rc>>
         /\ todo' \in Lists(cache)
BY DEF Begun, Framework!FetchBegun, Framework!storeVars

\* What a failed call of the cache leaves alone.
LEMMA CallFailsMoves ==
  ASSUME CallFails
  PROVE  /\ pc = "begin" /\ pc' = "idle"
         /\ UNCHANGED <<clock, request, position, any_stored, applied, batch, todo, atom,
                        delivered>>
BY DEF CallFails, Framework!BeginThrows, Framework!Answer, Framework!storeVars,
       Framework!fetchVars

\* What fetching a value leaves alone.
LEMMA FetchMoves ==
  ASSUME NEW id, fetch_value(id)
  PROVE  /\ pc = "fetch" /\ UNCHANGED <<pc, batch, nowVars, fileVars, numfetch>>
         /\ id \in todo /\ todo' = todo \ {id}
BY DEF fetch_value, FetchTimes, FetchNow, Gives, Framework!FetchRefused, Framework!FetchTaken,
       Framework!FetchThrows, Framework!Deliver

\* What storing a value leaves alone.
LEMMA StoreMoves ==
  ASSUME NEW value, store_value(value)
  PROVE  /\ pc = "store" /\ pc' \in {"store", "idle"}
         /\ UNCHANGED <<batch, nowVars, fileVars, todo, oldfetch, times, values>>
BY DEF store_value, Framework!StoreTaken, Framework!StoreThrows, Framework!Answer,
       Framework!fetchVars

\* What the callbacks' first and last steps leave alone.
LEMMA OtherMoves ==
  /\ OnFetch => /\ pc = "idle" /\ pc' = "begin" /\ batch' = batch + 1 /\ todo' = {}
                /\ UNCHANGED <<nowVars, fileVars, timesVars, numfetch>>
  /\ \A id : OnStore(id) => /\ pc = "idle" /\ pc' = "store" /\ todo' = {}
                            /\ UNCHANGED <<batch, nowVars, fileVars, timesVars, numfetch>>
  /\ Returns => /\ pc \in {"fetch", "store"} /\ pc' = "idle"
                /\ UNCHANGED <<batch, todo>>
BY DEF OnFetch, OnStore, Returns, Framework!OnFetch, Framework!OnStore, Framework!FetchLocals,
       Framework!FetchReturns, Framework!StoreReturns, Framework!Answer, Framework!fetchVars

\* Nothing is active when the agent starts.
LEMMA FileInit == Init => FileInv
<1> SUFFICES ASSUME Init PROVE FileInv
  OBVIOUS
<1>1. DOMAIN entries = {} /\ DOMAIN now_domain = {} /\ Cardinality(DOMAIN entries) = 0
  BY FS_EmptySet DEF Init, EmptyCache
<1>2. CacheInv
  BY <1>1 DEF CacheInv
<1>3. <<>> \in Seq(STRING)
  OBVIOUS
<1>4. FileTypes
  BY <1>3 DEF Init, FileTypes
<1>5. conf.there => conf.mtime # file_change
  BY FileFacts DEF Init
<1> QED BY <1>2, <1>4, <1>5 DEF Init, FileInv

\* Every step keeps the types of what is read from the file.
LEMMA FileTypesStep == FileTypes /\ CacheInv /\ [Next]_vars => FileTypes'
<1> SUFFICES ASSUME FileTypes, CacheInv, [Next]_vars PROVE FileTypes'
  OBVIOUS
<1> USE DEF FileTypes
<1>1. CASE Edit
  <2>1. missed' \in BOOLEAN
    BY <1>1 DEF Edit
  <2> QED BY <1>1, <2>1 DEF Edit, dispatchVars, readVars
<1>2. CASE timenow_check
  BY <1>2, BegunMoves, CallFailsMoves DEF timenow_check, fileVars, dispatchVars
<1>3. CASE OpenFile
  <2>1. statbuf.mtime \in Nat /\ conf.words \in Seq(STRING)
    BY FileFacts
  <2>2. (conf.mtime = statbuf.mtime) \in BOOLEAN
    OBVIOUS
  <2> QED BY <1>3, <2>1, <2>2, BegunMoves DEF OpenFile, fileVars, dispatchVars
<1>4. CASE TakeWord
  <2>1. Tail(line) \in Seq(STRING)
    BY <1>4 DEF TakeWord
  <2>2. pc' = pc
    BY <1>4 DEF TakeWord, Framework!AgentInserts, dispatchVars
  <2> QED BY <1>4, <2>1, <2>2 DEF TakeWord, NextWord, fileVars
<1>5. CASE ReadFails
  <2>1. <<>> \in Seq(STRING) /\ missed' \in BOOLEAN
    BY <1>5 DEF ReadFails
  <2> QED BY <1>5, <2>1, CallFailsMoves DEF ReadFails, fileVars
<1>6. CASE ReadEnds
  <2>1. statbuf.mtime \in Nat
    BY FileFacts
  <2> QED BY <1>6, <2>1, BegunMoves DEF ReadEnds, fileVars
<1>7. ASSUME NEW id, fetch_value(id) PROVE FileTypes'
  BY <1>7, FetchMoves DEF fileVars, nowVars, readVars
<1>8. ASSUME NEW value, store_value(value) PROVE FileTypes'
  BY <1>8, StoreMoves DEF fileVars, nowVars, readVars
<1>9. CASE OnFetch \/ (\E id : OnStore(id))
  BY <1>9, OtherMoves DEF fileVars, nowVars, readVars
<1>10. CASE Returns
  BY <1>10, OtherMoves DEF Returns, fileVars, readVars
<1>11. CASE UNCHANGED vars
  BY <1>11 DEF vars, dispatchVars, fileVars, nowVars, readVars
<1> QED
  BY <1>1, <1>2, <1>3, <1>4, <1>5, <1>6, <1>7, <1>8, <1>9, <1>10, <1>11 DEF Next, Run

\* The last file seen explains the active instances after each step.
LEMMA FileStep == FileInv /\ [Next]_vars => FileInv'
<1> SUFFICES ASSUME FileInv, [Next]_vars PROVE FileInv'
  OBVIOUS
<1>1. CacheInv /\ FileTypes /\ FileTypes'
  BY FileTypesStep DEF FileInv
<1>2. /\ conf.there \in BOOLEAN /\ (conf.there <=> conf.mtime # 0)
      /\ statbuf.there \in BOOLEAN /\ (statbuf.there <=> statbuf.mtime # 0)
      /\ conf'.there \in BOOLEAN /\ (conf'.there <=> conf'.mtime # 0)
  BY <1>1, FileFacts DEF FileTypes
<1>3. CASE /\ UNCHANGED <<conf, missed, reading, line, file_change, entries, now_domain>>
           /\ \/ statbuf' = statbuf
              \/ reading = "no" /\ pc' # "fetch"
           /\ pc' = pc \/ pc' # "fetch"
  <2>1. CacheInv'
    BY <1>1, <1>3 DEF CacheInv
  <2> QED BY <1>1, <1>3, <2>1 DEF FileInv
<1>4. CASE Edit
  <2>1. UNCHANGED <<statbuf, reading, line, file_change, entries, now_domain, pc>>
    BY <1>4 DEF Edit, dispatchVars, readVars
  <2>2. missed' = /\ conf'.there
                  /\ \/ conf'.mtime = file_change
                     \/ conf'.mtime = statbuf.mtime /\ reading # "no"
    BY <1>4 DEF Edit
  <2>3. CacheInv'
    BY <1>1, <2>1 DEF CacheInv
  <2> QED BY <1>1, <1>2, <2>1, <2>2, <2>3 DEF FileInv
<1>5. CASE timenow_check
  <2>1. UNCHANGED <<conf, missed, line, file_change, now_domain>> /\ statbuf' = conf
    BY <1>5 DEF timenow_check, fileVars
  <2>2. CASE UNCHANGED <<entries, reading>> /\ pc' = "idle"
    <3>1. CacheInv'
      BY <1>1, <2>1, <2>2 DEF CacheInv
    <3> QED BY <1>1, <1>5, <2>1, <2>2, <3>1 DEF FileInv, timenow_check
  <2>3. CASE /\ conf.there /\ conf.mtime = file_change
             /\ Begun(entries) /\ UNCHANGED <<entries, reading>>
    <3>1. CacheInv'
      BY <1>1, <2>1, <2>3 DEF CacheInv
    <3> QED BY <1>1, <1>5, <2>1, <2>3, <3>1 DEF FileInv, timenow_check
  <2>4. CASE /\ entries' = AllInactive(entries)
             /\ IF conf.there THEN reading' = "open" /\ UNCHANGED pc
                ELSE Begun(entries') /\ UNCHANGED reading
    <3>1. CacheInv' /\ Active(entries') = {}
      BY <1>1, <2>1, <2>4, ClearedSlices
    <3>2. reading' # "words" /\ (pc' = "fetch" => ~conf.there)
      BY <1>5, <2>4 DEF timenow_check
    <3> QED BY <1>1, <1>2, <1>5, <2>1, <2>4, <3>1, <3>2 DEF FileInv, timenow_check
  <2> QED BY <1>5, <2>2, <2>3, <2>4, CallFailsMoves DEF timenow_check, dispatchVars
<1>6. CASE OpenFile
  <2>1. UNCHANGED <<conf, statbuf, entries, now_domain>> /\ Active(entries) = {}
    BY <1>6 DEF OpenFile, fileVars, FileInv
  <2>2. CacheInv'
    BY <1>1, <2>1 DEF CacheInv
  <2>3. CASE conf.there /\ reading' = "words" /\ line' = conf.words /\ UNCHANGED pc
    BY <1>1, <1>6, <2>1, <2>2, <2>3 DEF FileInv, OpenFile, FileTypes
  <2>4. CASE /\ reading' = "no" /\ file_change' = statbuf.mtime
             /\ missed' = (conf.mtime = statbuf.mtime)
    BY <1>1, <1>6, <2>1, <2>2, <2>4 DEF FileInv, OpenFile
  <2> QED BY <1>6, <2>3, <2>4 DEF OpenFile, dispatchVars
<1>7. CASE TakeWord
  <2> DEFINE word == Head(line)
  <2>1. /\ UNCHANGED <<conf, missed, statbuf, reading, file_change>>
        /\ reading = "words" /\ line # <<>> /\ line' = Tail(line) /\ UNCHANGED pc
        /\ line \in Seq(STRING)
    BY <1>1, <1>7 DEF TakeWord, NextWord, fileVars, FileTypes, Framework!AgentInserts,
       dispatchVars
  <2>2. Listed(line) = ({word} \cap Slices) \cup Listed(line')
    BY <2>1, ListedSplit
  <2>3. CASE word \notin Slices /\ UNCHANGED <<entries, now_domain>>
    <3>1. CacheInv'
      BY <1>1, <2>3 DEF CacheInv
    <3> QED BY <1>1, <2>1, <2>2, <2>3, <3>1 DEF FileInv, FileTypes
  <2>4. CASE /\ word \in Slices /\ entries' = Stored(entries, word, word)
             /\ now_domain' = Inserted(now_domain, entries'[word].id, word)
    <3>1. CacheInv' /\ Active(entries') = Active(entries) \cup {word}
      <4> HIDE DEF word
      <4> QED BY <1>1, <2>4, StoredSlice
    <3>2. Active(entries') \cup Listed(line') = Active(entries) \cup Listed(line)
      BY <2>2, <2>4, <3>1
    <3> QED BY <1>1, <2>1, <3>1, <3>2 DEF FileInv, FileTypes
  <2> QED BY <1>7, <2>3, <2>4 DEF TakeWord
<1>8. CASE ReadFails
  <2>1. /\ UNCHANGED <<conf, statbuf, file_change, entries, now_domain>>
        /\ reading' = "no" /\ pc' = "idle"
    BY <1>8, CallFailsMoves DEF ReadFails, fileVars
  <2>2. CacheInv'
    BY <1>1, <2>1 DEF CacheInv
  <2>3. ~missed' => conf'.mtime # file_change'
    BY <1>8, <2>1 DEF ReadFails
  <2> QED BY <1>1, <2>1, <2>2, <2>3 DEF FileInv
<1>9. CASE ReadEnds
  <2>1. /\ UNCHANGED <<conf, statbuf, missed, entries, now_domain>>
        /\ reading = "words" /\ reading' = "no" /\ file_change' = statbuf.mtime
        /\ line = <<>>
    BY <1>9 DEF ReadEnds, fileVars
  <2>2. CacheInv'
    BY <1>1, <2>1 DEF CacheInv
  <2>3. conf'.mtime = file_change' /\ ~missed' => Active(entries') = Listed(conf'.words)
    <3>1. ASSUME conf.mtime = statbuf.mtime, ~missed
          PROVE  Active(entries) = Listed(conf.words)
      BY <2>1, <3>1, ListedEmpty DEF FileInv
    <3> QED BY <2>1, <3>1
  <2>4. pc' = "fetch" /\ statbuf.there
    BY <1>9, <2>1, BegunMoves DEF ReadEnds, FileInv
  <2> QED BY <1>1, <2>1, <2>2, <2>3, <2>4 DEF FileInv
<1>10. ASSUME NEW id, fetch_value(id) PROVE FileInv'
  <2>1. UNCHANGED <<pc, nowVars, fileVars>>
    BY <1>10, FetchMoves
  <2>2. /\ UNCHANGED <<conf, missed, reading, line, file_change, entries, now_domain>>
        /\ UNCHANGED statbuf /\ UNCHANGED pc
    BY <2>1 DEF fileVars, nowVars, readVars
  <2> QED BY <2>2, <1>3
<1>11. ASSUME NEW value, store_value(value) PROVE FileInv'
  BY <1>11, <1>3, StoreMoves DEF fileVars, nowVars, readVars
<1>12. CASE OnFetch \/ (\E id : OnStore(id))
  BY <1>12, <1>3, OtherMoves DEF fileVars, nowVars, readVars
<1>13. CASE Returns
  <2>1. reading = "no"
    BY <1>1, <1>13, OtherMoves DEF FileTypes
  <2> QED BY <1>13, <2>1, <1>3, OtherMoves DEF Returns, fileVars, readVars
<1>14. CASE UNCHANGED vars
  <2>1. /\ UNCHANGED <<conf, missed, reading, line, file_change, entries, now_domain>>
        /\ UNCHANGED statbuf /\ UNCHANGED pc
    BY <1>14 DEF vars, dispatchVars, fileVars, nowVars, readVars
  <2> QED BY <2>1, <1>3
<1> QED
  BY <1>4, <1>5, <1>6, <1>7, <1>8, <1>9, <1>10, <1>11, <1>12, <1>13, <1>14 DEF Next, Run

\* For any file and any changes of it, the active instances of simple.now are
\* the slices that the file lists, unless its modification time hides a change.
THEOREM NowCurrent == Spec => []NowIsCurrent
<1>1. FileInv => NowIsCurrent
  <2> SUFFICES ASSUME FileInv, pc = "fetch", conf = statbuf, ~missed
               PROVE  Active(entries) = Listed(conf.words)
    BY DEF NowIsCurrent
  <2>1. reading = "no" /\ (~conf.there => conf.words = <<>>)
    BY FileFacts DEF FileInv, FileTypes
  <2> QED BY <2>1, ListedEmpty DEF FileInv
<1> QED BY <1>1, FileInit, FileStep, PTL DEF Spec
-----------------------------------------------------------------------------
(* The values delivered.                                                   *)

ActiveIds(cache) == {cache[n].id : n \in Active(cache)}

\* What pmdaFetch has yet to ask for can be delivered, the time is that of the
\* fetch, and what was delivered is the slice of its name.
NowInv ==
  /\ FileInv
  /\ pc = "fetch" => /\ clock = batch
                     /\ todo \subseteq Framework!Askable
                     /\ \A id \in todo : id[1] = "now" => id[2] \in ActiveIds(entries)
  /\ pc \in {"begin", "store"} => DOMAIN values = {}
  /\ NowIsItsSlice

\* libpcp_pmda asks for active instances only.
LEMMA ListsAreActive ==
  ASSUME NEW cache, NEW list \in Lists(cache)
  PROVE  /\ list \subseteq Framework!Askable
         /\ \A id \in list : id[1] = "now" => id[2] \in ActiveIds(cache)
BY DEF Lists, ActiveIds

\* Before a fetch there are no values.
LEMMA BeforeFetch ==
  ASSUME NowInv, pc = "begin", UNCHANGED values, FileInv',
         \/ pc' \in {"begin", "idle"}
         \/ pc' = "fetch" /\ clock' = batch' /\ todo' \in Lists(entries')
  PROVE  NowInv'
<1>1. DOMAIN values' = {}
  BY DEF NowInv
<1>2. NowIsItsSlice'
  BY <1>1 DEF NowIsItsSlice
<1> QED BY <1>1, <1>2, ListsAreActive DEF NowInv

\* What FetchNow delivers.
LEMMA NowDelivered ==
  ASSUME NowInv, NEW id, id[1] = "now", fetch_value(id), Framework!FetchCheck(id) = 0
  PROVE  Gives(id, now_domain[id[2]], [call |-> 0, batch |-> batch])
<1>1. pc = "fetch" /\ id \in todo /\ id[2] \in ActiveIds(entries) /\ clock = batch
  BY DEF fetch_value, NowInv
<1>2. PICK n \in Active(entries) : entries[n].id = id[2]
  BY <1>1 DEF ActiveIds
<1>3. lookup(entries, id[2], require_active) = Returned(n) /\ now_domain[id[2]] = n
  BY <1>2, ActiveIsFound DEF NowInv, FileInv
<1>4. Returned(n).thrown = FALSE /\ Returned(n).value = n
  BY DEF Returned
<1>5. FetchNow(id)
  BY DEF fetch_value
<1> QED BY <1>1, <1>3, <1>4, <1>5 DEF FetchNow

\* A value that appears in a reply is one that fetch_value gave.
LEMMA FetchGives ==
  ASSUME NowInv, NEW id, fetch_value(id)
  PROVE  \/ UNCHANGED values
         \/ \E of, from : /\ Gives(id, of, from)
                          /\ id[1] = "now" => /\ of = now_domain[id[2]]
                                              /\ from = [call |-> 0, batch |-> batch]
<1>1. CASE Framework!FetchCheck(id) # 0
  BY <1>1 DEF fetch_value
<1>2. CASE Framework!FetchCheck(id) = 0 /\ id[1] = "now"
  BY <1>2, NowDelivered
<1>3. CASE Framework!FetchCheck(id) = 0 /\ id[1] # "now"
  BY <1>3 DEF fetch_value, FetchTimes
<1> QED BY <1>1, <1>2, <1>3

\* No fetch is under way when the agent starts.
LEMMA NowInit == Init => NowInv
<1> SUFFICES ASSUME Init PROVE NowInv
  OBVIOUS
<1>1. DOMAIN values = {} /\ pc = "idle"
  BY DEF Init
<1> QED BY <1>1, FileInit DEF NowInv, NowIsItsSlice

\* While one is, what is still to be asked for stays active.
LEMMA NowStep == NowInv /\ [Next]_vars => NowInv'
<1> SUFFICES ASSUME NowInv, [Next]_vars PROVE NowInv'
  OBVIOUS
<1>1. FileInv /\ FileInv' /\ CacheInv /\ FileTypes
  BY FileStep DEF NowInv, FileInv
<1>2. ASSUME /\ UNCHANGED <<entries, now_domain, clock, batch, values>>
             /\ todo' \subseteq todo
             /\ \/ pc' = pc
                \/ pc' = "idle"
      PROVE  NowInv'
  <2>1. NowIsItsSlice'
    BY <1>2 DEF NowInv, NowIsItsSlice
  <2> QED BY <1>1, <1>2, <2>1 DEF NowInv
<1>3. CASE Edit \/ UNCHANGED vars
  <2>1. UNCHANGED <<entries, now_domain, clock, batch, values, todo, pc>>
    BY <1>3 DEF Edit, vars, dispatchVars, nowVars, fileVars
  <2> QED BY <1>2, <2>1
<1>4. CASE timenow_check \/ OpenFile \/ TakeWord \/ ReadFails \/ ReadEnds
  <2>1. pc = "begin" /\ values' = values
    BY <1>1, <1>4 DEF timenow_check, OpenFile, TakeWord, ReadFails, ReadEnds, FileTypes
  <2>2. \/ pc' \in {"begin", "idle"}
        \/ Begun(entries')
    <3>1. CASE timenow_check
      BY <2>1, <3>1, CallFailsMoves DEF timenow_check, dispatchVars
    <3>2. CASE OpenFile
      BY <2>1, <3>2 DEF OpenFile, dispatchVars
    <3>3. CASE TakeWord
      BY <2>1, <3>3 DEF TakeWord, dispatchVars, Framework!AgentInserts
    <3>4. CASE ReadFails
      BY <2>1, <3>4, CallFailsMoves DEF ReadFails
    <3>5. CASE ReadEnds
      BY <2>1, <3>5 DEF ReadEnds
    <3> QED BY <1>4, <3>1, <3>2, <3>3, <3>4, <3>5
  <2>3. Begun(entries') => pc' = "fetch" /\ clock' = batch' /\ todo' \in Lists(entries')
    BY BegunMoves
  <2> QED BY <1>1, <2>1, <2>2, <2>3, BeforeFetch
<1>5. ASSUME NEW id, fetch_value(id) PROVE NowInv'
  <2>1. /\ UNCHANGED <<entries, now_domain, clock, batch>> /\ pc' = pc
        /\ todo' \subseteq todo /\ pc = "fetch"
    BY <1>5, FetchMoves DEF nowVars
  <2>2. CASE UNCHANGED values
    BY <1>2, <2>1, <2>2
  <2>3. ASSUME NEW of, NEW from, Gives(id, of, from),
               id[1] = "now" => /\ of = now_domain[id[2]]
                                /\ from = [call |-> 0, batch |-> batch]
        PROVE  NowInv'
    <3>1. values' = [i \in DOMAIN values \cup {id} |->
                       IF i = id THEN [of |-> of, from |-> from] ELSE values[i]]
      BY <2>3 DEF Gives
    <3>2. NowIsItsSlice'
      BY <2>1, <2>3, <3>1 DEF NowInv, NowIsItsSlice
    <3> QED BY <1>1, <2>1, <3>2 DEF NowInv
  <2> QED BY <1>5, <2>2, <2>3, FetchGives
<1>6. ASSUME NEW value, store_value(value) PROVE NowInv'
  <2>1. UNCHANGED <<entries, now_domain, clock, batch, values, todo>>
    BY <1>6, StoreMoves DEF nowVars
  <2>2. pc' = pc \/ pc' = "idle"
    BY <1>6, StoreMoves
  <2> QED BY <1>2, <2>1, <2>2
<1>7. CASE OnFetch \/ (\E id : OnStore(id))
  <2>1. DOMAIN values' = {} /\ pc' # "fetch"
    BY <1>7, OtherMoves DEF OnFetch, OnStore
  <2>2. NowIsItsSlice'
    BY <2>1 DEF NowIsItsSlice
  <2> QED BY <1>1, <2>1, <2>2 DEF NowInv
<1>8. CASE Returns
  <2>1. UNCHANGED <<entries, now_domain, clock, batch, values, todo>> /\ pc' = "idle"
    BY <1>8, OtherMoves DEF Returns
  <2> QED BY <1>2, <2>1
<1> QED
  BY <1>3, <1>4, <1>5, <1>6, <1>7, <1>8 DEF Next, Run

\* Over any number of rebuilds of the cache, each instance of simple.now that a
\* client gets is the slice of that name, at the time of its fetch.
THEOREM NowItsSlice == Spec => []NowIsItsSlice
<1>1. NowInv => NowIsItsSlice
  BY DEF NowInv
<1> QED BY <1>1, NowInit, NowStep, PTL DEF Spec
-----------------------------------------------------------------------------
(* The callbacks.                                                          *)

\* What libpcp_pmda asks for passes the checks of on_fetch_callback,
LEMMA AskedIsValid ==
  ASSUME NowInv, pc = "fetch", NEW id \in todo
  PROVE  Framework!FetchCheck(id) = 0
<1>1. /\ id \in Framework!Ids /\ id[1] \in DOMAIN Metrics
      /\ id[2] = NoInstance <=> Metrics[id[1]].domain = "NULL"
      /\ id[1] = "now" => id[2] \in ActiveIds(entries)
  BY DEF NowInv, Framework!Askable
<1>2. DOMAIN Metrics = {"numfetch", "color", "user", "sys", "now"}
  BY DEF Metrics
<1>3. Metrics[id[1]].domain = CASE id[1] = "color" -> "color_domain"
                                [] id[1] = "now"   -> "now_domain"
                                [] OTHER           -> "NULL"
  BY <1>1, <1>2 DEF Metrics
<1>4. CASE id[1] = "color"
  <2>1. Metrics[id[1]].domain = "color_domain" /\ id[2] # NoInstance
    BY <1>1, <1>3, <1>4
  <2>2. id[2] \in Colors
    BY <1>1, <2>1 DEF Framework!Ids
  <2> QED BY <1>1, <2>1, <2>2 DEF Framework!FetchCheck, Framework!validate_instance
<1>5. CASE id[1] = "now"
  <2>1. Metrics[id[1]].domain = "now_domain" /\ id[2] # NoInstance
    BY <1>1, <1>3, <1>5
  <2>2. id[2] \in DOMAIN now_domain
    BY <1>1, <1>5 DEF ActiveIds, Active, NowInv, FileInv, CacheInv
  <2> QED BY <1>1, <2>1, <2>2 DEF Framework!FetchCheck, Framework!validate_instance
<1>6. CASE id[1] # "color" /\ id[1] # "now"
  <2>1. Metrics[id[1]].domain = "NULL" /\ id[2] = NoInstance
    BY <1>1, <1>3, <1>6
  <2> QED BY <1>1, <2>1 DEF Framework!FetchCheck, Framework!validate_instance
<1> QED BY <1>4, <1>5, <1>6

\* and fetch_value has a value for it.
LEMMA AskedIsGiven ==
  ASSUME NowInv, NEW id, fetch_value(id)
  PROVE  \E of, from : Gives(id, of, from)
<1>1. Framework!FetchCheck(id) = 0
  BY AskedIsValid DEF fetch_value
<1>2. CASE id[1] = "now"
  BY <1>1, <1>2, NowDelivered
<1>3. CASE id[1] # "now"
  BY <1>1, <1>3 DEF fetch_value, FetchTimes
<1> QED BY <1>2, <1>3

\* A step of a fetch delivers what it takes from the list.
LEMMA StepDelivers ==
  ASSUME NowInv, [Next]_vars
  PROVE  AllDelivered
<1> SUFFICES ASSUME pc = "fetch" PROVE todo \ todo' \subseteq DOMAIN delivered'
  BY DEF AllDelivered
<1>1. reading = "no"
  BY DEF NowInv, FileInv, FileTypes
<1>2. ASSUME NEW id, fetch_value(id) PROVE todo \ todo' \subseteq DOMAIN delivered'
  <2>1. PICK of, from : Gives(id, of, from)
    BY <1>2, AskedIsGiven
  <2>2. id \in DOMAIN delivered'
    BY <2>1 DEF Gives, Framework!FetchTaken, Framework!Deliver,
                Framework!PMDA_FETCH_STATIC, Framework!PMDA_FETCH_NOVALUES
  <2> QED BY <1>2, <2>2, FetchMoves
<1>3. CASE Edit \/ Returns \/ UNCHANGED vars
  BY <1>3, OtherMoves DEF Edit, vars, dispatchVars
<1> QED BY <1>1, <1>2, <1>3, OtherMoves, StoreMoves DEF Next, Run, timenow_check, OpenFile,
           TakeWord, ReadFails, ReadEnds

\* Whatever a client asks simple for, of what pmdaFetch lets it ask, it gets.
THEOREM AlwaysDelivers == Spec => [][AllDelivered]_vars
<1>1. NowInv /\ [Next]_vars => [AllDelivered]_vars
  BY StepDelivers
<1> QED BY <1>1, NowInit, NowStep, PTL DEF Spec

\* What simple throws is what it is said to throw.
LEMMA SimpleThrows ==
  /\ \A c \in {PM_ERR_SIGN, PM_ERR_CONV, PM_ERR_INDOM} :
       pcp_exception(c) \in Framework!Thrown({PM_ERR_SIGN, PM_ERR_CONV, PM_ERR_INDOM})
  /\ Checked(PM_ERR_INDOM).code = PM_ERR_INDOM
BY DEF Framework!Thrown, pcp_exception, Checked, Throws, PM_ERR_INDOM

\* A fetch that has begun as simple begins one is one of Dispatch's.
LEMMA BegunIsStep ==
  ASSUME NEW cache, Begun(cache)
  PROVE  Framework!Run
<1>1. PICK list \in Lists(cache) : Framework!FetchBegun(list)
  BY DEF Begun
<1>2. list \in SUBSET Framework!Askable
  BY ListsAreActive
<1> QED BY <1>1, <1>2 DEF Framework!Run

\* A failed call of the cache is an exception from begin_fetch_values.
LEMMA CallFailsIsStep == CallFails => Framework!Run
BY SimpleThrows DEF CallFails, Framework!Run

\* Each step of simple is one of Dispatch, or none.
LEMMA SimpleStep ==
  ASSUME NowInv, [Next]_vars
  PROVE  [Framework!Next]_(Framework!vars)
<1>1. CASE UNCHANGED <<dispatchVars, now_domain>>
  BY <1>1 DEF dispatchVars, Framework!vars
<1>2. CASE Framework!Run
  BY <1>2 DEF Framework!Next
<1>3. CASE Edit \/ UNCHANGED vars
  BY <1>1, <1>3 DEF Edit, vars, nowVars
<1>4. CASE timenow_check
  BY <1>1, <1>2, <1>4, BegunIsStep, CallFailsIsStep DEF timenow_check
<1>5. CASE OpenFile
  BY <1>1, <1>2, <1>5, BegunIsStep DEF OpenFile
<1>6. CASE TakeWord
  BY <1>1, <1>6 DEF TakeWord, Framework!Next
<1>7. CASE ReadFails \/ ReadEnds
  BY <1>2, <1>7, BegunIsStep, CallFailsIsStep DEF ReadFails, ReadEnds
<1>8. ASSUME NEW id \in Framework!Ids, fetch_value(id) PROVE Framework!Run
  <2>1. PICK of, from : Gives(id, of, from)
    BY <1>8, AskedIsGiven
  <2> QED BY <2>1 DEF Gives, Framework!Run, Framework!FetchCodes
<1>9. ASSUME NEW value \in Values, store_value(value) PROVE Framework!Run
  BY <1>9, SimpleThrows DEF store_value, Framework!Run
<1>10. CASE OnFetch
  BY <1>10 DEF OnFetch, Framework!Next
<1>11. ASSUME NEW id \in StoreIds, OnStore(id) PROVE Framework!Next
  <2>1. <<id>> \in Framework!StoreRequests
    <3>1. id \in Framework!Ids
      BY ClientAssumption
    <3>2. <<id>> \in [1..1 -> Framework!Ids]
      BY <3>1
    <3> QED BY <3>2 DEF Framework!StoreRequests
  <2>2. Framework!OnStore(<<id>>)
    BY <1>11 DEF OnStore
  <2>3. \E result \in Framework!StoreRequests : Framework!OnStore(result)
    BY <2>1, <2>2
  <2> QED BY <2>3 DEF Framework!Next
<1>12. CASE Returns
  BY <1>2, <1>12 DEF Returns, Framework!Run
<1> QED
  BY <1>2, <1>3, <1>4, <1>5, <1>6, <1>7, <1>8, <1>9, <1>10, <1>11, <1>12 DEF Next, Run

\* simple implements the agent that Dispatch is written for: its domains only
\* grow, it throws nothing but PCP errors, and neither a positive cache status
\* nor an escaping exception ever comes out of it.
THEOREM SimpleImplements == Spec => Framework!Spec
<1>1. Init => Framework!Init
  BY DEF Init, Framework!Init, Colors
<1> QED BY <1>1, NowInit, NowStep, SimpleStep, PTL DEF Spec, Framework!Spec
-----------------------------------------------------------------------------
(* User and system times.                                                  *)

TimeIds == {id \in DOMAIN values : id[1] \in {"user", "sys"}}

\* The times are due, or this fetch's, once numfetch has been counted up; what
\* was delivered is what usr and sys hold, and they are not due again.
TimesInv ==
  /\ NowInv
  /\ numfetch \in 0..(FetchSize - 1) /\ oldfetch \in 0..(FetchSize - 1)
  /\ batch \in Nat /\ setback \in BOOLEAN
  /\ ~setback => oldfetch <= numfetch
  /\ ~setback /\ (pc = "fetch" \/ reading # "no") =>
       oldfetch < numfetch \/ times.batch = batch
  /\ \A id \in TimeIds : values[id].from = times /\ (times.batch = batch \/ setback)
  /\ pc = "fetch" /\ TimeIds # {} => numfetch <= oldfetch

\* Counting up moves ahead, or is seen to have gone down.
LEMMA CountUp ==
  ASSUME numfetch \in 0..(FetchSize - 1), setback \in BOOLEAN, Count(numfetch + 1)
  PROVE  /\ numfetch' \in 0..(FetchSize - 1) /\ setback' \in BOOLEAN
         /\ ~setback' => ~setback /\ numfetch' > numfetch
<1>1. FetchSize \in Nat /\ FetchSize > 1 /\ numfetch \in Nat /\ numfetch + 1 <= FetchSize
  BY SimpleAssumption
<1>2. numfetch' = (numfetch + 1) % FetchSize
  BY DEF Count
<1>3. CASE numfetch + 1 < FetchSize
  <2>1. (numfetch + 1) % FetchSize = numfetch + 1
    BY <1>1, <1>3
  <2> QED BY <1>1, <1>2, <1>3, <2>1 DEF Count
<1>4. CASE numfetch + 1 = FetchSize
  <2>1. FetchSize % FetchSize = 0
    BY <1>1
  <2>2. numfetch' = 0 /\ numfetch' < numfetch
    BY <1>1, <1>2, <1>4, <2>1
  <2>3. setback' = TRUE
    BY <2>2, Zenon DEF Count
  <2> QED BY <1>1, <2>2, <2>3
<1> QED BY <1>1, <1>3, <1>4

\* Whatever is stored to numfetch, it stays within its width.
LEMMA CountAny ==
  ASSUME numfetch \in 0..(FetchSize - 1), setback \in BOOLEAN,
         NEW value \in Int, Count(value)
  PROVE  /\ numfetch' \in 0..(FetchSize - 1) /\ setback' \in BOOLEAN
         /\ ~setback' => ~setback /\ numfetch' >= numfetch
<1>1. FetchSize \in Nat /\ FetchSize > 0
  BY SimpleAssumption
<1>2. value % FetchSize \in 0..(FetchSize - 1)
  BY <1>1
<1>3. numfetch' \in 0..(FetchSize - 1)
  BY <1>2 DEF Count
<1>4. setback' = (setback \/ numfetch' < numfetch)
  BY DEF Count
<1>5. setback' \in BOOLEAN /\ (~setback' => ~setback /\ ~(numfetch' < numfetch))
  BY <1>4, Zenon
<1> QED BY <1>1, <1>3, <1>5

\* Every step keeps the times, and the counters that decide on reading them.
LEMMA TimesStep == TimesInv /\ [Next]_vars => TimesInv'
<1> SUFFICES ASSUME TimesInv, [Next]_vars PROVE TimesInv'
  OBVIOUS
<1>1. NowInv /\ NowInv'
  BY NowStep DEF TimesInv
<1>2. reading # "no" => pc = "begin"
  BY <1>1 DEF NowInv, FileInv, FileTypes
<1>3. pc \in {"begin", "store"} => TimeIds = {}
  BY <1>1 DEF NowInv, TimeIds
<1>4. ASSUME UNCHANGED <<numfetch, oldfetch, setback, times, batch, values>>,
             pc' = "fetch" => pc = "fetch" \/ reading # "no",
             reading' # "no" => reading # "no"
      PROVE  TimesInv'
  <2>1. TimeIds' = TimeIds
    BY <1>4 DEF TimeIds
  <2>2. pc' = "fetch" /\ TimeIds # {} => numfetch <= oldfetch
    BY <1>2, <1>3, <1>4 DEF TimesInv
  <2> QED BY <1>1, <1>4, <2>1, <2>2 DEF TimesInv
<1>5. CASE Edit \/ UNCHANGED vars
  <2>1. UNCHANGED <<numfetch, oldfetch, setback, times, batch, values, pc, reading>>
    BY <1>5 DEF Edit, vars, dispatchVars, nowVars, timesVars, readVars
  <2> QED BY <1>4, <2>1
<1>6. CASE timenow_check
  <2>1. /\ pc = "begin" /\ Count(numfetch + 1)
        /\ UNCHANGED <<oldfetch, times, values>>
    BY <1>6 DEF timenow_check
  <2>2. batch' = batch
    BY <1>6, BegunMoves, CallFailsMoves DEF timenow_check, dispatchVars
  <2>3. /\ numfetch' \in 0..(FetchSize - 1) /\ setback' \in BOOLEAN
        /\ ~setback' => ~setback /\ numfetch' > numfetch
    BY <2>1, CountUp DEF TimesInv
  <2>4. TimeIds' = {}
    BY <1>3, <2>1 DEF TimeIds
  <2> QED BY <1>1, <2>1, <2>2, <2>3, <2>4 DEF TimesInv
<1>7. CASE OpenFile \/ TakeWord \/ ReadFails \/ ReadEnds
  <2>1. UNCHANGED <<numfetch, oldfetch, setback, times, values>> /\ reading # "no"
    BY <1>7 DEF OpenFile, TakeWord, ReadFails, ReadEnds, timesVars
  <2>2. batch' = batch
    BY <1>7, BegunMoves, CallFailsMoves DEF OpenFile, TakeWord, ReadFails, ReadEnds,
       dispatchVars, Framework!AgentInserts, Framework!fetchVars
  <2> QED BY <1>4, <2>1, <2>2
<1>8. ASSUME NEW id, fetch_value(id) PROVE TimesInv'
  <2>1. /\ pc = "fetch" /\ pc' = "fetch" /\ batch' = batch /\ numfetch' = numfetch
        /\ reading = "no" /\ reading' = "no"
    BY <1>2, <1>8, FetchMoves DEF nowVars, readVars
  <2>2. Framework!FetchCheck(id) = 0
    BY <1>1, <1>8, AskedIsValid DEF fetch_value
  <2>3. CASE id[1] \in {"user", "sys"}
    <3>1. FetchTimes(id)
      BY <1>8, <2>2, <2>3 DEF fetch_value
    <3>2. PICK of : values' = [i \in DOMAIN values \cup {id} |->
                                 IF i = id THEN [of |-> of, from |-> times'] ELSE values[i]]
      BY <3>1 DEF FetchTimes, Gives
    <3>3. /\ TimeIds' = TimeIds \cup {id}
          /\ values'[id].from = times'
          /\ \A i \in TimeIds : values'[i].from = times' \/ values'[i] = values[i]
      BY <2>3, <3>2 DEF TimeIds
    <3>4. CASE oldfetch < numfetch
      <4>1. times'.batch = batch /\ oldfetch' = numfetch /\ setback' = FALSE
        BY <3>1, <3>4 DEF FetchTimes, ReadDue
      <4>2. TimeIds = {}
        BY <2>1, <3>4 DEF TimesInv
      <4>3. TimeIds' = {id} /\ values'[id].from = times' /\ times'.batch = batch'
        BY <2>1, <3>3, <4>1, <4>2
      <4>4. setback' \in BOOLEAN /\ oldfetch' = numfetch' /\ numfetch' = numfetch
        BY <2>1, <4>1
      <4> QED BY <1>1, <2>1, <4>3, <4>4 DEF TimesInv
    <3>5. CASE ~(oldfetch < numfetch)
      <4>1. UNCHANGED <<oldfetch, times, setback>>
        BY <3>1, <3>5 DEF FetchTimes, ReadDue, timesVars
      <4>2. times.batch = batch \/ setback
        BY <2>1, <3>5 DEF TimesInv
      <4>3. numfetch <= oldfetch
        BY <3>5 DEF TimesInv
      <4>4. \A i \in TimeIds' : values'[i].from = times
        BY <3>3, <4>1 DEF TimesInv
      <4> QED BY <1>1, <2>1, <4>1, <4>2, <4>3, <4>4 DEF TimesInv
    <3> QED BY <3>4, <3>5
  <2>4. CASE id[1] \notin {"user", "sys"}
    <3>1. UNCHANGED <<oldfetch, times, setback>>
      BY <1>8, <2>2, <2>4 DEF fetch_value, FetchNow, timesVars
    <3>2. PICK of, from : Gives(id, of, from)
      BY <1>1, <1>8, AskedIsGiven
    <3>3. TimeIds' = TimeIds /\ \A i \in TimeIds : values'[i] = values[i]
      BY <2>4, <3>2 DEF Gives, TimeIds
    <3> QED BY <1>1, <2>1, <3>1, <3>3 DEF TimesInv
  <2> QED BY <2>3, <2>4
<1>9. ASSUME NEW value \in Int, store_value(value) PROVE TimesInv'
  <2>1. /\ pc = "store" /\ pc' # "fetch" /\ reading = "no" /\ reading' = "no"
        /\ UNCHANGED <<batch, oldfetch, times, values>>
    BY <1>2, <1>9, StoreMoves DEF nowVars, readVars
  <2>2. Count(value) \/ UNCHANGED <<numfetch, setback>>
    BY <1>9 DEF store_value
  <2>3. /\ numfetch' \in 0..(FetchSize - 1) /\ setback' \in BOOLEAN
        /\ ~setback' => ~setback /\ numfetch' >= numfetch
    BY <2>2, CountAny DEF TimesInv
  <2>4. TimeIds' = {}
    BY <1>3, <2>1 DEF TimeIds
  <2> QED BY <1>1, <2>1, <2>3, <2>4 DEF TimesInv
<1>10. CASE OnFetch \/ (\E id : OnStore(id))
  <2>1. /\ UNCHANGED <<numfetch, oldfetch, setback, times, reading>> /\ pc' # "fetch"
        /\ pc = "idle" /\ batch' \in {batch, batch + 1}
    BY <1>10, OtherMoves DEF timesVars, nowVars, readVars
  <2>2. TimeIds' = {}
    BY <1>10 DEF OnFetch, OnStore, TimeIds
  <2> QED BY <1>1, <1>2, <2>1, <2>2 DEF TimesInv
<1>11. CASE Returns
  <2>1. /\ UNCHANGED <<numfetch, oldfetch, setback, times, batch, values, reading>>
        /\ pc' = "idle"
    BY <1>11, OtherMoves DEF Returns, timesVars, readVars
  <2> QED BY <1>4, <2>1
<1> QED
  BY <1>5, <1>6, <1>7, <1>8, <1>9, <1>10, <1>11, SimpleAssumption DEF Next, Run

\* At the start the two counters are equal.
LEMMA TimesInit == Init => TimesInv
<1> SUFFICES ASSUME Init PROVE TimesInv
  OBVIOUS
<1>1. 0 \in 0..(FetchSize - 1)
  BY SimpleAssumption
<1>2. TimeIds = {}
  BY DEF Init, TimeIds
<1>3. numfetch = 0 /\ oldfetch = 0 /\ batch = 0 /\ pc # "fetch" /\ reading = "no"
  BY DEF Init
<1>4. setback = FALSE
  BY DEF Init
<1>5. /\ numfetch \in 0..(FetchSize - 1) /\ oldfetch \in 0..(FetchSize - 1)
      /\ batch \in Nat /\ oldfetch <= numfetch
  BY <1>1, <1>3
<1>6. setback \in BOOLEAN
  BY <1>4
<1> QED BY <1>2, <1>3, <1>5, <1>6, NowInit DEF TimesInv

\* The times a client gets are of its own fetch, for as long as the counter has
\* not gone down.
THEOREM TimesAreFresh == Spec => []TimesFresh
<1>1. TimesInv => TimesFresh
  BY DEF TimesInv, TimesFresh, TimeIds
<1> QED BY <1>1, TimesInit, TimesStep, PTL DEF Spec

\* Both times of a reply are from the same reading.
THEOREM TimesOfOneReading == Spec => []OneSnapshot
<1>1. TimesInv => OneSnapshot
  BY DEF TimesInv, OneSnapshot, TimeIds
<1> QED BY <1>1, TimesInit, TimesStep, PTL DEF Spec
-----------------------------------------------------------------------------
(* Types.                                                                  *)

Live == [d \in {"color_domain", "now_domain"} |->
           IF d = "color_domain" THEN Colors ELSE DOMAIN now_domain]

\* The values that are kept are those that have been delivered, and what is
\* remembered of a fetch is of this one or an earlier one.
SimpleTypes ==
  /\ TimesInv
  /\ Framework!TypeOK
  /\ edits \in 0..MaxEdits /\ file_change \in 0..MaxTime
  /\ clock \in 0..batch
  /\ times \in [call : Nat, batch : 0..batch]
  /\ DOMAIN values = DOMAIN delivered

\* The invariants tell the type of every variable.
LEMMA TypesOfAll == SimpleTypes => TypeOK
<1> SUFFICES ASSUME SimpleTypes PROVE TypeOK
  OBVIOUS
<1>1. CacheInv /\ FileTypes
  BY DEF SimpleTypes, TimesInv, NowInv, FileInv
<1>2. ASSUME NEW n \in DOMAIN entries
      PROVE  entries[n] \in [id : Colors, status : {PMDA_CACHE_ACTIVE, PMDA_CACHE_INACTIVE},
                             opaque : {n}]
  <2>1. Cardinality(DOMAIN entries) \in Nat /\ Cardinality(DOMAIN entries) <= 3
    BY <1>1, SlicesFinite, FS_Subset, FS_CardinalityType DEF CacheInv
  <2>2. entries[n] \in Entry(n) /\ entries[n].id < Cardinality(DOMAIN entries)
    BY <1>1 DEF CacheInv
  <2>3. entries[n].id \in Nat /\ entries[n].id \in 0..2
    BY <2>1, <2>2 DEF Entry
  <2> QED BY <2>2, <2>3 DEF Entry, Colors
<1> QED BY <1>1, <1>2 DEF SimpleTypes, TimesInv, FileTypes, CacheInv, TypeOK

\* The domains hold what they may hold.
LEMMA LiveTyped ==
  /\ CacheInv => Live \in [{"color_domain", "now_domain"} -> SUBSET Colors]
  /\ CacheInv' => Live' \in [{"color_domain", "now_domain"} -> SUBSET Colors]
BY DEF CacheInv, Live, Colors

\* A step that leaves the calls of Dispatch alone.
LEMMA CallsUntouched ==
  ASSUME SimpleTypes, TimesInv', UNCHANGED dispatchVars, UNCHANGED values,
         clock' \in {clock, batch},
         UNCHANGED times, edits' \in 0..MaxEdits, file_change' \in 0..MaxTime
  PROVE  SimpleTypes'
<1>1. Live' \in [{"color_domain", "now_domain"} -> SUBSET Colors]
  BY LiveTyped DEF TimesInv, NowInv, FileInv
<1>2. Framework!TypeOK'
  BY <1>1 DEF SimpleTypes, Framework!TypeOK, Framework!Ids, dispatchVars, Live
<1>3. batch \in Nat /\ batch' = batch /\ delivered' = delivered
  BY DEF SimpleTypes, TimesInv, dispatchVars
<1> QED BY <1>2, <1>3 DEF SimpleTypes

\* A call of Dispatch that returns from the agent, or goes on in it.
LEMMA CallsMove ==
  ASSUME SimpleTypes, TimesInv',
         pc' \in {"idle", "store", "begin", "fetch", "terminated"},
         UNCHANGED <<request, position, any_stored, applied, batch, atom, delivered, values>>,
         todo' \subseteq Framework!Ids, rc' \in Int,
         clock' \in {clock, batch}, UNCHANGED times,
         edits' \in 0..MaxEdits, file_change' \in 0..MaxTime
  PROVE  SimpleTypes'
<1>1. Live' \in [{"color_domain", "now_domain"} -> SUBSET Colors]
  BY LiveTyped DEF TimesInv, NowInv, FileInv
<1>2. Framework!TypeOK'
  BY <1>1 DEF SimpleTypes, Framework!TypeOK, Framework!Ids, Live
<1>3. batch \in Nat
  BY DEF SimpleTypes, TimesInv
<1> QED BY <1>2, <1>3 DEF SimpleTypes

\* begin_fetch_values goes on, returns or throws.
LEMMA BeginTypes ==
  ASSUME SimpleTypes, TimesInv', UNCHANGED <<edits, times, values>>,
         file_change' \in 0..MaxTime,
         \/ UNCHANGED <<dispatchVars, clock>>
         \/ Framework!AgentInserts /\ UNCHANGED clock
         \/ \E cache : Begun(cache)
         \/ CallFails
  PROVE  SimpleTypes'
<1> USE DEF SimpleTypes
<1>1. CASE UNCHANGED <<dispatchVars, clock>>
  BY <1>1, CallsUntouched
<1>2. CASE Framework!AgentInserts /\ UNCHANGED clock
  <2>1. UNCHANGED dispatchVars
    BY <1>2 DEF Framework!AgentInserts, Framework!storeVars, Framework!fetchVars, dispatchVars
  <2> QED BY <1>2, <2>1, CallsUntouched
<1>3. ASSUME NEW cache, Begun(cache) PROVE SimpleTypes'
  <2>1. todo' \subseteq Framework!Ids
    BY <1>3, BegunMoves, ListsAreActive DEF Framework!Askable
  <2>2. rc' \in Int
    BY <1>3, BegunMoves DEF Framework!TypeOK
  <2> QED BY <1>3, <2>1, <2>2, BegunMoves, CallsMove
<1>4. CASE CallFails
  <2>1. rc' \in Int
    BY <1>4, SimpleThrows DEF CallFails, Framework!BeginThrows, Framework!Answer,
       pcp_exception, PM_ERR_INDOM
  <2>2. todo' \subseteq Framework!Ids
    BY <1>4, CallFailsMoves DEF Framework!TypeOK
  <2> QED BY <1>4, <2>1, <2>2, CallFailsMoves, CallsMove
<1> QED BY <1>1, <1>2, <1>3, <1>4

\* Every step keeps the types.
LEMMA SimpleTypesStep == SimpleTypes /\ [Next]_vars => SimpleTypes'
<1> SUFFICES ASSUME SimpleTypes, [Next]_vars PROVE SimpleTypes'
  OBVIOUS
<1>1. TimesInv /\ TimesInv' /\ Framework!TypeOK /\ NowInv /\ FileTypes /\ batch \in Nat
  BY TimesStep DEF SimpleTypes, TimesInv, NowInv, FileInv
<1>2. Live' \in [{"color_domain", "now_domain"} -> SUBSET Colors]
  BY <1>1, LiveTyped DEF TimesInv, NowInv, FileInv
<1>3. statbuf.mtime \in 0..MaxTime
  <2>1. 0 \in 0..MaxTime /\ NoFile.mtime = 0
    BY SimpleAssumption DEF NoFile
  <2>2. \A f \in Files : f.mtime \in 1..MaxTime
    BY DEF Files
  <2>3. 1..MaxTime \subseteq 0..MaxTime
    BY SimpleAssumption
  <2> QED BY <1>1, <2>1, <2>2, <2>3 DEF FileTypes
<1>4. edits \in 0..MaxEdits /\ file_change \in 0..MaxTime
  BY DEF SimpleTypes
<1>5. CASE Edit
  <2>1. edits' \in 0..MaxEdits
    BY <1>4, <1>5, SimpleAssumption DEF Edit
  <2> QED BY <1>1, <1>4, <1>5, <2>1, CallsUntouched DEF Edit, timesVars
<1>6. CASE timenow_check \/ OpenFile \/ TakeWord \/ ReadFails \/ ReadEnds
  <2>1. UNCHANGED <<edits, times, values>> /\ file_change' \in {file_change, statbuf.mtime}
    BY <1>6 DEF timenow_check, OpenFile, TakeWord, ReadFails, ReadEnds, fileVars, timesVars
  <2>2. \/ UNCHANGED <<dispatchVars, clock>>
        \/ Framework!AgentInserts /\ UNCHANGED clock
        \/ \E cache : Begun(cache)
        \/ CallFails
    BY <1>6 DEF timenow_check, OpenFile, TakeWord, ReadFails, ReadEnds
  <2> QED BY <1>1, <1>3, <1>4, <2>1, <2>2, BeginTypes
<1>7. ASSUME NEW id \in Framework!Ids, fetch_value(id) PROVE SimpleTypes'
  <2>1. PICK of, from : Gives(id, of, from)
    BY <1>1, <1>7, AskedIsGiven
  <2>2. /\ UNCHANGED <<pc, batch, edits, file_change, clock>>
        /\ todo' \subseteq todo
        /\ UNCHANGED <<request, position, any_stored, applied, rc>>
        /\ atom' = [id |-> id, batch |-> batch]
        /\ DOMAIN delivered' = DOMAIN delivered \cup {id}
        /\ DOMAIN values' = DOMAIN values \cup {id}
    BY <1>7, <2>1, FetchMoves DEF fileVars, nowVars, Gives, Framework!FetchTaken,
       Framework!Deliver, Framework!storeVars, Framework!PMDA_FETCH_STATIC,
       Framework!PMDA_FETCH_NOVALUES
  <2>3. Framework!TypeOK'
    <3>1. atom' \in [id : Framework!Ids, batch : 0..MaxBatch]
      BY <1>1, <2>2 DEF Framework!TypeOK
    <3> QED BY <1>1, <1>2, <2>2, <3>1 DEF Framework!TypeOK, Framework!Ids, Live
  <2>4. times' \in [call : Nat, batch : 0..batch]
    <3>1. CASE UNCHANGED times
      BY <3>1 DEF SimpleTypes
    <3>2. CASE times' = [call |-> IF times.batch = batch THEN times.call + 1 ELSE 1,
                         batch |-> batch]
      <4>1. times.call \in Nat
        BY DEF SimpleTypes
      <4>2. batch \in 0..batch
        BY <1>1
      <4> QED BY <3>2, <4>1, <4>2
    <3> QED BY <1>7, <3>1, <3>2 DEF fetch_value, FetchTimes, FetchNow, timesVars
  <2> QED BY <1>1, <2>2, <2>3, <2>4 DEF SimpleTypes
<1>8. ASSUME NEW value \in Int, store_value(value) PROVE SimpleTypes'
  <2>1. /\ UNCHANGED <<batch, edits, file_change, clock, todo, times, values>>
        /\ pc' \in {"store", "idle"}
        /\ UNCHANGED <<request, atom, delivered>>
    BY <1>8, StoreMoves DEF fileVars, nowVars, store_value, Framework!StoreTaken,
       Framework!StoreThrows, Framework!storeVars, Framework!fetchVars
  <2>2. CASE Framework!StoreTaken
    <3>1. request \in Seq(Framework!Ids) /\ position \in 1..(Len(request) + 1)
          /\ applied \in Seq(Framework!Ids)
      BY <1>1 DEF Framework!TypeOK
    <3>2. position <= Len(request) /\ position' = position + 1 /\ any_stored' = TRUE
          /\ applied' = Append(applied, request[position]) /\ rc' = rc
      BY <2>2 DEF Framework!StoreTaken
    <3>3. request[position] \in Framework!Ids /\ position' \in 1..(Len(request) + 1)
      BY <3>1, <3>2
    <3>4. applied' \in Seq(Framework!Ids)
      BY <3>1, <3>2, <3>3
    <3>5. Framework!TypeOK'
      BY <1>1, <1>2, <2>1, <3>2, <3>3, <3>4 DEF Framework!TypeOK, Framework!Ids, Live
    <3> QED BY <1>1, <2>1, <3>5 DEF SimpleTypes
  <2>3. ASSUME NEW c \in {PM_ERR_SIGN, PM_ERR_CONV}, Framework!StoreThrows(pcp_exception(c))
        PROVE  SimpleTypes'
    <3>1. rc' \in Int
      BY <2>3 DEF Framework!StoreThrows, Framework!Answer, Framework!CodeOf, pcp_exception,
         PM_ERR_SIGN, PM_ERR_CONV
    <3>2. UNCHANGED <<position, any_stored, applied>> /\ todo' \subseteq Framework!Ids
      BY <1>1, <2>1, <2>3 DEF Framework!StoreThrows, Framework!storeVars, Framework!TypeOK
    <3> QED BY <1>1, <1>4, <2>1, <3>1, <3>2, CallsMove
  <2> QED BY <1>8, <2>2, <2>3 DEF store_value
<1>9. ASSUME NEW s \in Seq(Framework!Ids),
             /\ Framework!StoreLocals(s) /\ Framework!FetchLocals
             /\ batch' \in {batch, batch + 1} /\ batch' <= MaxBatch
             /\ pc' \in {"store", "begin"} /\ rc' = rc
             /\ values' = [id \in {} |-> <<>>]
             /\ UNCHANGED <<edits, file_change, clock, times>>
      PROVE  SimpleTypes'
  <2>1. /\ request' = s /\ position' = 1 /\ any_stored' = FALSE /\ applied' = <<>>
        /\ todo' = {} /\ atom' = Framework!NoAtom /\ delivered' = Framework!NoReply
    BY <1>9 DEF Framework!StoreLocals, Framework!FetchLocals
  <2>2. 1 \in 1..(Len(s) + 1) /\ <<>> \in Seq(Framework!Ids)
    OBVIOUS
  <2>3. DOMAIN delivered' = {} /\ DOMAIN values' = {}
    BY <1>9, <2>1 DEF Framework!NoReply
  <2>4. batch' \in 0..MaxBatch
    BY <1>1, <1>9, SimpleAssumption
  <2>5. Framework!TypeOK'
    BY <1>1, <1>2, <1>9, <2>1, <2>2, <2>3, <2>4
    DEF Framework!TypeOK, Framework!Ids, Framework!NoAtom, Live
  <2>6. 0..batch \subseteq 0..batch'
    BY <1>1, <1>9
  <2> QED BY <1>1, <1>9, <2>3, <2>5, <2>6 DEF SimpleTypes
<1>10. CASE OnFetch
  <2>1. <<>> \in Seq(Framework!Ids)
    OBVIOUS
  <2>2. batch' = batch + 1 /\ batch < MaxBatch
    BY <1>10 DEF OnFetch, Framework!OnFetch
  <2>3. batch' <= MaxBatch
    BY <1>1, <2>2, SimpleAssumption
  <2> QED BY <1>9, <1>10, <2>1, <2>2, <2>3 DEF OnFetch, Framework!OnFetch, fileVars, nowVars,
      timesVars
<1>11. ASSUME NEW id \in StoreIds, OnStore(id) PROVE SimpleTypes'
  <2>1. id \in Framework!Ids
    BY ClientAssumption
  <2>2. <<id>> \in Seq(Framework!Ids)
    BY <2>1
  <2>3. batch' = batch /\ batch <= MaxBatch
    BY <1>1, <1>11, SimpleAssumption DEF OnStore, Framework!OnStore, Framework!TypeOK
  <2> QED BY <1>9, <1>11, <2>2, <2>3 DEF OnStore, Framework!OnStore, fileVars, nowVars,
      timesVars
<1>12. CASE Returns
  <2>1. /\ UNCHANGED <<edits, file_change, clock, times, values>>
        /\ UNCHANGED <<request, position, any_stored, applied, batch, todo, atom, delivered>>
        /\ pc' = "idle" /\ rc' \in Int
    BY <1>12 DEF Returns, fileVars, timesVars, Framework!FetchReturns, Framework!StoreReturns,
       Framework!Answer, Framework!storeVars, Framework!fetchVars, Framework!PM_ERR_PERMISSION
  <2>2. todo' \subseteq Framework!Ids
    BY <1>1, <2>1 DEF Framework!TypeOK
  <2> QED BY <1>1, <1>4, <2>1, <2>2, CallsMove
<1>13. CASE UNCHANGED vars
  <2>1. UNCHANGED <<dispatchVars, values, clock, times, edits, file_change>>
    BY <1>13 DEF vars, nowVars, fileVars, timesVars
  <2> QED BY <1>1, <1>4, <2>1, CallsUntouched
<1> QED
  BY <1>5, <1>6, <1>7, <1>8, <1>10, <1>11, <1>12, <1>13, SimpleAssumption DEF Next, Run

\* The first state is well typed.
LEMMA SimpleTypesInit == Init => SimpleTypes
<1> SUFFICES ASSUME Init PROVE SimpleTypes
  OBVIOUS
<1>1. Live \in [{"color_domain", "now_domain"} -> SUBSET Colors]
  BY FileInit, LiveTyped DEF FileInv
<1>2. <<>> \in Seq(Framework!Ids) /\ Len(<<>>) = 0
  OBVIOUS
<1>3. 0 \in 0..MaxBatch /\ 0 \in 0..MaxEdits /\ 0 \in 0..MaxTime /\ 1 \in 1..(0 + 1)
  BY SimpleAssumption
<1>4. DOMAIN delivered = {} /\ DOMAIN values = {}
  BY DEF Init, Framework!NoReply
<1>5. Framework!TypeOK
  <2>1. /\ pc = "idle" /\ request = <<>> /\ position = 1 /\ any_stored = FALSE
        /\ applied = <<>> /\ batch = 0 /\ todo = {} /\ rc = -1
        /\ atom = Framework!NoAtom
    BY DEF Init, Framework!Pending
  <2>2. any_stored \in BOOLEAN /\ rc \in Int
    <3>1. any_stored = FALSE
      BY DEF Init
    <3>2. rc = -1
      BY DEF Init, Framework!Pending
    <3>3. any_stored \in BOOLEAN
      BY <3>1
    <3>4. rc \in Int
      BY <3>2
    <3> QED BY <3>3, <3>4
  <2>3. Len(request) = 0
    BY <1>2, <2>1
  <2>4. position \in 1..(Len(request) + 1)
    BY <1>3, <2>1, <2>3
  <2> QED BY <1>1, <1>2, <1>3, <1>4, <2>1, <2>2, <2>4
      DEF Live, Framework!TypeOK, Framework!Ids, Framework!NoAtom
<1>6. 0 \in 0..0 /\ times \in [call : Nat, batch : 0..0]
  BY DEF Init
<1>7. edits \in 0..MaxEdits /\ file_change \in 0..MaxTime /\ clock \in 0..batch
      /\ times \in [call : Nat, batch : 0..batch]
  BY <1>3, <1>6 DEF Init
<1> QED BY <1>4, <1>5, <1>7, TimesInit DEF SimpleTypes

\* Every variable of the simple agent keeps to its type, and the callbacks' do.
THEOREM SimpleTypeCorrect == Spec => []TypeOK
BY TypesOfAll, SimpleTypesInit, SimpleTypesStep, PTL DEF Spec
=============================================================================
