--------------------------- MODULE Examples_proofs --------------------------
(***************************************************************************)
(* What either example agent guarantees, as one process that is one of     *)
(* them: the simple agent by the invariants of Simple_proofs, simplecpu,   *)
(* for any CPUs that come and go, by the lines it has read.                *)
(***************************************************************************)
EXTENDS Examples, Simple_proofs

(* The lines of /proc/stat.                                                *)

\* Both modules count in the same way.
LEMMA SameCount == ASSUME NEW S PROVE Cpu!Cardinality(S) = Cardinality(S)
BY DEF Cpu!Cardinality, Cardinality

Below(S, c) == {d \in S : d < c}

\* Of a set of numbers there is one with any number of others below it.
LEMMA EveryRank ==
  ASSUME NEW S \in SUBSET Nat, IsFiniteSet(S), NEW k \in Nat, k < Cardinality(S)
  PROVE  \E c \in S : Cardinality(Below(S, c)) = k
<1> DEFINE f == [c \in S |-> Cardinality(Below(S, c))]
           T == 0..(Cardinality(S) - 1)
<1>1. Cardinality(S) \in Nat /\ k \in T
  BY FS_CardinalityType
<1>2. IsFiniteSet(T) /\ Cardinality(T) = Cardinality(S)
  <2>1. Cardinality(S) - 1 \in Int /\ 0 \in Int
    BY <1>1
  <2>2. /\ IsFiniteSet(T)
        /\ Cardinality(T) = IF 0 > Cardinality(S) - 1 THEN 0 ELSE (Cardinality(S) - 1) - 0 + 1
    BY <2>1, FS_Interval
  <2> QED BY <1>1, <2>2
<1>3. ASSUME NEW c \in S, NEW d \in S, c < d
      PROVE  Cardinality(Below(S, c)) < Cardinality(Below(S, d))
  <2>1. /\ IsFiniteSet(Below(S, d)) /\ Below(S, c) \in SUBSET Below(S, d)
        /\ Below(S, c) # Below(S, d)
    <3>1. Below(S, d) \in SUBSET S
      BY DEF Below
    <3>2. c \in Below(S, d) /\ c \notin Below(S, c)
      BY <1>3 DEF Below
    <3>3. ASSUME NEW e \in Below(S, c) PROVE e \in Below(S, d)
      <4>1. e \in Nat /\ c \in Nat /\ d \in Nat /\ e < c
        BY DEF Below
      <4>2. e < d
        BY <1>3, <4>1
      <4> QED BY <4>2 DEF Below
    <3> QED BY <3>1, <3>2, <3>3, FS_Subset
  <2>2. IsFiniteSet(Below(S, c)) /\ Cardinality(Below(S, c)) <= Cardinality(Below(S, d))
        /\ Cardinality(Below(S, d)) # Cardinality(Below(S, c))
    BY <2>1, FS_Subset
  <2>3. Cardinality(Below(S, c)) \in Nat /\ Cardinality(Below(S, d)) \in Nat
    BY <2>1, <2>2, FS_CardinalityType
  <2> QED BY <2>2, <2>3
<1>4. ASSUME NEW c \in S PROVE Cardinality(Below(S, c)) \in T
  <2>1. Below(S, c) \in SUBSET S /\ c \notin Below(S, c)
    BY DEF Below
  <2>2. /\ IsFiniteSet(Below(S, c)) /\ Cardinality(Below(S, c)) <= Cardinality(S)
        /\ Cardinality(S) # Cardinality(Below(S, c))
    BY <2>1, FS_Subset
  <2>3. Cardinality(Below(S, c)) \in Nat
    BY <2>2, FS_CardinalityType
  <2> QED BY <1>1, <2>2, <2>3
<1>5. f \in Injection(S, T)
  <2>1. f \in [S -> T]
    BY <1>4
  <2>2. ASSUME NEW c \in S, NEW d \in S, f[c] = f[d] PROVE c = d
    <3>1. c \in Nat /\ d \in Nat
      OBVIOUS
    <3>2. ~(c < d) /\ ~(d < c)
      <4>1. Cardinality(Below(S, c)) = Cardinality(Below(S, d))
            /\ Cardinality(Below(S, c)) \in Nat
        BY <1>1, <1>4, <2>2
      <4> QED BY <1>3, <4>1
    <3> QED BY <3>1, <3>2
  <2> QED BY <2>1, <2>2 DEF Injection, IsInjective
<1>6. f \in Surjection(S, T)
  BY <1>2, <1>5, FS_Injection
<1>7. PICK c \in S : f[c] = k
  BY <1>1, <1>6 DEF Surjection
<1> QED BY <1>7

\* Lines read in a fetch when these CPUs were online: the first is the total,
\* each other that of the CPU with as many below it as there are CPUs' lines
\* before.
ReadFrom(lines, S, fetch) ==
  /\ Len(lines) = Cardinality(S) + 1
  /\ \A n \in 1..Len(lines) :
       /\ lines[n].batch = fetch
       /\ n = 1 => lines[n].label = Cpu!Total
       /\ n # 1 => /\ lines[n].label \in S
                   /\ Cardinality(Below(S, lines[n].label)) = n - 2

\* A line of /proc/stat is the total, or that of a CPU that is online.
LEMMA LineIs ==
  ASSUME online \subseteq CPUs, NEW n \in 1..(Cardinality(online) + 1)
  PROVE  /\ n = 1 => Cpu!Line(n) = Cpu!Total
         /\ n # 1 => /\ Cpu!Line(n) \in online
                     /\ Cardinality(Below(online, Cpu!Line(n))) = n - 2
<1>1. online \in SUBSET Nat /\ IsFiniteSet(online) /\ Cardinality(online) \in Nat
  BY ExamplesAssumption, FS_Subset, FS_CardinalityType
<1>2. CASE n = 1
  BY <1>2 DEF Cpu!Line
<1>3. CASE n # 1
  <2> DEFINE Rank(c) == Cpu!Cardinality({d \in online : d < c})
  <2>1. n - 2 \in Nat /\ n - 2 < Cardinality(online)
    BY <1>1, <1>3
  <2>2. PICK c \in online : Cardinality(Below(online, c)) = n - 2
    BY <1>1, <2>1, EveryRank
  <2>3. \A d : Rank(d) = Cardinality(Below(online, d))
    BY SameCount DEF Below
  <2>4. Cpu!Line(n) = CHOOSE d \in online : Rank(d) = n - 2
    BY <1>3 DEF Cpu!Line
  <2> HIDE DEF Rank
  <2>5. Cpu!Line(n) \in online /\ Rank(Cpu!Line(n)) = n - 2
    BY <2>2, <2>3, <2>4
  <2> QED BY <1>3, <2>3, <2>5
<1> QED BY <1>2, <1>3

LineRecords == [label : CPUs \cup {Cpu!Total}, batch : 0..MaxBatch]

\* What a load makes of cpu_info, with these CPUs online.
LEMMA LoadedLines ==
  ASSUME online \subseteq CPUs, batch \in 0..MaxBatch, NEW before
  PROVE  /\ Cpu!Lines(before) \in Seq(LineRecords)
         /\ ReadFrom(Cpu!Lines(before), online, batch)
<1> DEFINE lines == Cpu!Lines(before)
           N == Cardinality(online) + 1
<1>1. Cardinality(online) \in Nat
  BY ExamplesAssumption, FS_Subset, FS_CardinalityType
<1>2. lines = [n \in 1..N |-> [label |-> Cpu!Line(n), batch |-> batch]]
  BY SameCount DEF Cpu!Lines
<1>3. N \in Nat
  BY <1>1
<1> HIDE DEF lines
<1>4. ASSUME NEW n \in 1..N
      PROVE  /\ lines[n].label = Cpu!Line(n) /\ lines[n].batch = batch
             /\ lines[n] \in LineRecords
  <2>1. lines[n] = [label |-> Cpu!Line(n), batch |-> batch]
    BY <1>2
  <2>2. Cpu!Line(n) \in CPUs \cup {Cpu!Total}
    BY LineIs
  <2> QED BY <2>1, <2>2 DEF LineRecords
<1> HIDE DEF N
<1>5. lines \in [1..N -> LineRecords]
  BY <1>2, <1>4
<1>6. lines \in Seq(LineRecords) /\ Len(lines) = N
  BY <1>3, <1>5
<1>7. ReadFrom(lines, online, batch)
  BY <1>4, <1>6, LineIs DEF ReadFrom, N
<1> QED BY <1>6, <1>7 DEF lines
-----------------------------------------------------------------------------
(* simplecpu.                                                              *)

\* Values are copies of the lines read at this fetch, each of the line of its
\* metric; a fetch goes on only after a load that went through.
CpuInv ==
  /\ Cpu!TypeOK
  /\ pc = "begin" => DOMAIN ticks = {}
  /\ pc = "fetch" => todo \subseteq Cpu!Framework!Askable
  /\ pc = "fetch" \/ DOMAIN ticks # {} => ReadFrom(cpu_info, loaded, batch)
  /\ \A i \in DOMAIN ticks :
       i[1] \in Nat /\ i[1] + 1 <= Len(cpu_info) /\ ticks[i] = cpu_info[i[1] + 1]

\* What the invariant says of each variable's type.
LEMMA CpuTypes ==
  ASSUME CpuInv
  PROVE  /\ batch \in 0..MaxBatch /\ batch \in Nat
         /\ online \subseteq CPUs /\ loaded \subseteq CPUs /\ columns \in Columns
         /\ cpu_info \in Seq(LineRecords)
         /\ DOMAIN ticks = DOMAIN delivered
         /\ todo \subseteq Cpu!Framework!Ids
BY DEF CpuInv, Cpu!TypeOK, Cpu!Framework!TypeOK, LineRecords

\* A step of Dispatch that leaves the values, and the request there is not.
LEMMA CpuCalls ==
  ASSUME CpuInv, pc' \in {"idle", "begin", "fetch"},
         UNCHANGED <<request, position, any_stored, applied, batch, atom, delivered>>,
         todo' \subseteq Cpu!Framework!Ids, rc' \in Int
  PROVE  Cpu!Framework!TypeOK'
BY DEF CpuInv, Cpu!TypeOK, Cpu!Framework!TypeOK, Cpu!Framework!Ids

\* It holds when simplecpu starts.
LEMMA CpuInit == ExamplesInit /\ agent = "simplecpu" => CpuInv
<1> SUFFICES ASSUME Cpu!Init PROVE CpuInv
  BY DEF ExamplesInit
<1>1. /\ online \subseteq CPUs /\ loaded \subseteq CPUs /\ columns \in Columns
      /\ DOMAIN ticks = {} /\ DOMAIN delivered = {}
  BY ExamplesAssumption DEF Cpu!Init, Cpu!Framework!NoReply
<1>2. batch = 0 /\ batch \in 0..MaxBatch
  BY SimpleAssumption DEF Cpu!Init
<1>3. cpu_info \in Seq(LineRecords)
  <2>1. cpu_info = Cpu!Lines(<<>>)
    BY DEF Cpu!Init
  <2> QED BY <1>1, <1>2, <2>1, LoadedLines
<1>4. Cpu!Framework!TypeOK
  <2>1. <<>> \in Seq(Cpu!Framework!Ids) /\ Len(<<>>) = 0
    OBVIOUS
  <2>2. position \in 1..(Len(request) + 1)
    <3>1. 1 \in 1..(0 + 1)
      OBVIOUS
    <3>2. position = 1 /\ Len(request) = 0
      BY <2>1 DEF Cpu!Init
    <3> QED BY <3>1, <3>2
  <2>3. any_stored \in BOOLEAN
    BY DEF Cpu!Init
  <2>4. rc \in Int
    <3>1. rc = -1
      BY DEF Cpu!Init, Cpu!Framework!Pending
    <3> QED BY <3>1
  <2>5. /\ pc = "idle" /\ request = <<>> /\ applied = <<>> /\ todo = {}
        /\ atom = Cpu!Framework!NoAtom
    BY DEF Cpu!Init
  <2> QED BY <1>1, <1>2, <2>1, <2>2, <2>3, <2>4, <2>5 DEF Cpu!Framework!TypeOK, Cpu!Framework!Ids
<1>5. pc = "idle"
  BY DEF Cpu!Init
<1> QED BY <1>1, <1>3, <1>4, <1>5 DEF CpuInv, Cpu!TypeOK, LineRecords

\* What fetch_value does where there is a line and a column, and where not.
LEMMA CpuFetch ==
  ASSUME CpuInv, NEW id \in Cpu!Framework!Askable, Cpu!fetch_value(id)
  PROVE  /\ pc = "fetch" /\ id \in todo /\ todo' = todo \ {id}
         /\ UNCHANGED <<pc, batch, online, columns, loaded, cpu_info, request, position,
                        any_stored, applied, rc>>
         /\ id \in Cpu!Framework!Ids /\ id[1] \in Nat
         /\ IF id[1] + 1 <= Len(cpu_info) /\ id[2] < columns
            THEN /\ DOMAIN delivered' = DOMAIN delivered \cup {id}
                 /\ atom' = [id |-> id, batch |-> batch]
                 /\ ticks' = [i \in DOMAIN ticks \cup {id} |->
                                IF i = id THEN cpu_info[id[1] + 1] ELSE ticks[i]]
            ELSE UNCHANGED <<delivered, atom, ticks>>
<1>1. id \in Cpu!Framework!Ids /\ id[1] \in Nat
  BY DEF Cpu!Framework!Askable, Cpu!Framework!Ids
<1>2. CASE id[1] + 1 <= Len(cpu_info) /\ id[2] < columns
  BY <1>1, <1>2 DEF Cpu!fetch_value, Cpu!LineFor, Cpu!Framework!FetchTaken,
     Cpu!Framework!Deliver, Cpu!Framework!storeVars, Cpu!Framework!PMDA_FETCH_STATIC,
     Cpu!Framework!PMDA_FETCH_NOVALUES
<1>3. CASE ~(id[1] + 1 <= Len(cpu_info) /\ id[2] < columns)
  <2>1. Cpu!Framework!FetchThrows(id, [how |-> "out_of_range", code |-> 0])
        /\ UNCHANGED <<ticks, online, columns, loaded, cpu_info>>
    BY <1>3 DEF Cpu!fetch_value, Cpu!LineFor
  <2>2. Cpu!Framework!CodeOf([how |-> "out_of_range", code |-> 0]) = -12357
    BY DEF Cpu!Framework!CodeOf, Cpu!Framework!PM_ERR_PMID
  <2> QED BY <1>1, <1>3, <2>1, <2>2 DEF Cpu!Framework!FetchThrows, Cpu!Framework!Deliver,
          Cpu!Framework!storeVars, Cpu!Framework!PMDA_FETCH_NOVALUES
<1> QED BY <1>2, <1>3

\* The values after a fetch_value.
LEMMA CpuFetchStep ==
  ASSUME CpuInv, NEW id \in Cpu!Framework!Askable, Cpu!fetch_value(id)
  PROVE  CpuInv'
<1>1. /\ batch \in Nat /\ loaded \subseteq CPUs /\ cpu_info \in Seq(LineRecords)
      /\ DOMAIN ticks = DOMAIN delivered /\ todo \subseteq Cpu!Framework!Askable
      /\ ReadFrom(cpu_info, loaded, batch)
      /\ Len(cpu_info) \in Nat
  <2>1. pc = "fetch"
    BY CpuFetch
  <2>2. todo \subseteq Cpu!Framework!Askable /\ ReadFrom(cpu_info, loaded, batch)
    BY <2>1 DEF CpuInv
  <2>3. Len(cpu_info) \in Nat
    BY CpuTypes, LenProperties
  <2> QED BY <2>2, <2>3, CpuTypes
<1>2. /\ pc = "fetch" /\ todo' \subseteq todo
      /\ UNCHANGED <<pc, batch, online, columns, loaded, cpu_info, request, position,
                     any_stored, applied, rc>>
      /\ id \in Cpu!Framework!Ids /\ id[1] \in Nat
  BY CpuFetch
<1>3. /\ ReadFrom(cpu_info, loaded, batch)'
      /\ todo' \subseteq Cpu!Framework!Askable
  BY <1>1, <1>2 DEF ReadFrom
<1>4. CASE id[1] + 1 <= Len(cpu_info) /\ id[2] < columns
  <2>1. /\ DOMAIN delivered' = DOMAIN delivered \cup {id}
        /\ atom' = [id |-> id, batch |-> batch]
        /\ DOMAIN ticks' = DOMAIN ticks \cup {id}
        /\ ticks'[id] = cpu_info[id[1] + 1]
        /\ \A i \in DOMAIN ticks : i # id => ticks'[i] = ticks[i]
    BY <1>4, CpuFetch
  <2>2. atom' \in [id : Cpu!Framework!Ids, batch : 0..MaxBatch]
    BY <1>2, <2>1, CpuTypes
  <2>3. Cpu!Framework!TypeOK'
    BY <1>2, <2>1, <2>2, CpuTypes
    DEF CpuInv, Cpu!TypeOK, Cpu!Framework!TypeOK, Cpu!Framework!Ids
  <2>4. Cpu!TypeOK'
    BY <1>1, <1>2, <2>1, <2>3 DEF CpuInv, Cpu!TypeOK
  <2>5. ASSUME NEW i \in DOMAIN ticks'
        PROVE  i[1] \in Nat /\ i[1] + 1 <= Len(cpu_info') /\ ticks'[i] = cpu_info'[i[1] + 1]
    BY <1>2, <1>4, <2>1 DEF CpuInv
  <2> QED BY <1>2, <1>3, <2>4, <2>5 DEF CpuInv
<1>5. CASE ~(id[1] + 1 <= Len(cpu_info) /\ id[2] < columns)
  <2>1. UNCHANGED <<delivered, atom, ticks>>
    BY <1>5, CpuFetch
  <2>2. Cpu!Framework!TypeOK'
    <3>1. pc' \in {"idle", "begin", "fetch"} /\ rc' \in Int /\ todo' \subseteq Cpu!Framework!Ids
      BY <1>2, CpuTypes DEF CpuInv, Cpu!TypeOK, Cpu!Framework!TypeOK
    <3> QED BY <1>2, <2>1, <3>1, CpuCalls
  <2>3. Cpu!TypeOK'
    BY <1>1, <1>2, <2>1, <2>2 DEF CpuInv, Cpu!TypeOK
  <2> QED BY <1>2, <1>3, <2>1, <2>3 DEF CpuInv
<1> QED BY <1>4, <1>5

\* A value of the total is the total's, a value of another metric that of the
\* CPU with as many below it as metrics come before.
LEMMA LineOfMetric ==
  ASSUME CpuInv, ReadFrom(cpu_info, loaded, batch), NEW k \in DOMAIN ticks
  PROVE  /\ k[1] \in Nat /\ ticks[k].batch = batch
         /\ k[1] = 0 => ticks[k].label = Cpu!Total
         /\ k[1] # 0 => /\ ticks[k].label # Cpu!Total
                        /\ Cardinality(Below(loaded, ticks[k].label)) = k[1] - 1
<1>1. k[1] \in Nat /\ k[1] + 1 <= Len(cpu_info) /\ ticks[k] = cpu_info[k[1] + 1]
  BY DEF CpuInv
<1>2. Len(cpu_info) \in Nat
  BY CpuTypes, LenProperties
<1> DEFINE n == k[1] + 1
<1>3. n \in 1..Len(cpu_info) /\ (n = 1 <=> k[1] = 0) /\ n - 2 = k[1] - 1
  BY <1>1, <1>2
<1> HIDE DEF n
<1>4. /\ ticks[k].batch = batch
      /\ n = 1 => ticks[k].label = Cpu!Total
      /\ n # 1 => /\ ticks[k].label \in loaded
                  /\ Cardinality(Below(loaded, ticks[k].label)) = n - 2
  BY <1>1, <1>3 DEF ReadFrom, n
<1>5. Cpu!Total \notin loaded
  <2>1. loaded \subseteq Nat
    BY CpuTypes, ExamplesAssumption
  <2>2. -1 \notin Nat
    OBVIOUS
  <2> QED BY <2>1, <2>2 DEF Cpu!Total
<1> QED BY <1>1, <1>3, <1>4, <1>5

\* Every step of simplecpu keeps the invariant.
LEMMA CpuStep == CpuInv /\ [Cpu!Next]_(Cpu!vars) => CpuInv'
<1> SUFFICES ASSUME CpuInv, [Cpu!Next]_(Cpu!vars) PROVE CpuInv'
  OBVIOUS
<1>1. /\ batch \in 0..MaxBatch /\ batch \in Nat
      /\ online \subseteq CPUs /\ loaded \subseteq CPUs /\ columns \in Columns
      /\ cpu_info \in Seq(LineRecords)
      /\ DOMAIN ticks = DOMAIN delivered
      /\ todo \subseteq Cpu!Framework!Ids
  BY CpuTypes
<1>2. CASE Cpu!Hotplug
  <2>1. /\ UNCHANGED <<pc, request, position, any_stored, applied, batch, todo, atom,
                       delivered, rc, columns, loaded, cpu_info, ticks>>
        /\ online' \subseteq CPUs
    BY <1>1, <1>2 DEF Cpu!Hotplug, Cpu!dispatchVars
  <2>2. Cpu!Framework!TypeOK'
    BY <2>1 DEF CpuInv, Cpu!TypeOK, Cpu!Framework!TypeOK, Cpu!Framework!Ids
  <2>3. Cpu!TypeOK'
    BY <1>1, <2>1, <2>2 DEF CpuInv, Cpu!TypeOK
  <2>4. ReadFrom(cpu_info, loaded, batch)' <=> ReadFrom(cpu_info, loaded, batch)
    BY <2>1 DEF ReadFrom
  <2> QED BY <2>1, <2>3, <2>4 DEF CpuInv
<1>3. CASE Cpu!OnFetch
  <2>1. /\ pc' = "begin" /\ request' = <<>> /\ position' = 1 /\ any_stored' = FALSE
        /\ applied' = <<>> /\ todo' = {} /\ atom' = Cpu!Framework!NoAtom
        /\ batch < MaxBatch /\ batch' = batch + 1 /\ rc' = rc
        /\ DOMAIN delivered' = {} /\ DOMAIN ticks' = {}
        /\ UNCHANGED <<online, columns, loaded, cpu_info>>
    BY <1>3 DEF Cpu!OnFetch, Cpu!Framework!OnFetch, Cpu!Framework!StoreLocals,
       Cpu!Framework!FetchLocals, Cpu!Framework!NoReply
  <2>2. batch' \in 0..MaxBatch
    BY <1>1, <2>1, SimpleAssumption
  <2>3. 1 \in 1..(Len(<<>>) + 1) /\ <<>> \in Seq(Cpu!Framework!Ids) /\ FALSE \in BOOLEAN
    OBVIOUS
  <2>4. Cpu!Framework!TypeOK'
    BY <2>1, <2>2, <2>3
    DEF CpuInv, Cpu!TypeOK, Cpu!Framework!TypeOK, Cpu!Framework!Ids, Cpu!Framework!NoAtom
  <2>5. Cpu!TypeOK'
    BY <1>1, <2>1, <2>4 DEF CpuInv, Cpu!TypeOK
  <2> QED BY <2>1, <2>5 DEF CpuInv
<1>4. CASE Cpu!load_cpu_ticks
  <2>1. /\ UNCHANGED <<online, columns, ticks, request, position, any_stored, applied,
                       batch, atom, delivered>>
        /\ DOMAIN ticks = {}
    BY <1>4 DEF CpuInv, Cpu!load_cpu_ticks, Cpu!Framework!FetchBegun, Cpu!Framework!BeginThrows,
       Cpu!Framework!storeVars, Cpu!Framework!fetchVars
  <2>2. CASE /\ cpu_info' = Cpu!Lines(cpu_info) /\ loaded' = online
             /\ \E i, j \in Cpu!Framework!Askable : Cpu!Framework!FetchBegun({i, j})
    <3>1. /\ pc' = "fetch" /\ rc' = rc /\ todo' \subseteq Cpu!Framework!Askable
      BY <2>2 DEF Cpu!Framework!FetchBegun
    <3>2. cpu_info' \in Seq(LineRecords) /\ ReadFrom(cpu_info', online, batch)
      BY <1>1, <2>2, LoadedLines
    <3>3. ReadFrom(cpu_info, loaded, batch)'
      BY <2>1, <2>2, <3>2 DEF ReadFrom
    <3>4. todo' \subseteq Cpu!Framework!Ids /\ rc' \in Int
      BY <3>1 DEF Cpu!Framework!Askable, CpuInv, Cpu!TypeOK, Cpu!Framework!TypeOK
    <3>5. Cpu!TypeOK'
      BY <1>1, <2>1, <2>2, <3>1, <3>2, <3>4, CpuCalls DEF Cpu!TypeOK, LineRecords
    <3> QED BY <2>1, <3>1, <3>3, <3>5 DEF CpuInv
  <2>3. CASE /\ cpu_info' = <<>> /\ loaded' = {}
             /\ Cpu!Framework!BeginThrows([how |-> "pcp", code |-> Cpu!PM_ERR_NODATA])
    <3>1. pc' = "idle" /\ rc' \in Int /\ todo' = todo
      BY <2>3 DEF Cpu!Framework!BeginThrows, Cpu!Framework!Answer, Cpu!Framework!fetchVars,
         Cpu!PM_ERR_NODATA
    <3>2. cpu_info' \in Seq(LineRecords)
      BY <2>3
    <3>3. Cpu!TypeOK'
      BY <1>1, <2>1, <2>3, <3>1, <3>2, CpuCalls DEF Cpu!TypeOK, LineRecords
    <3> QED BY <2>1, <3>1, <3>3 DEF CpuInv
  <2> QED BY <1>4, <2>2, <2>3 DEF Cpu!load_cpu_ticks
<1>5. ASSUME NEW id \in Cpu!Framework!Askable, Cpu!fetch_value(id) PROVE CpuInv'
  BY <1>5, CpuFetchStep
<1>6. CASE Cpu!FetchReturns
  <2>1. /\ UNCHANGED <<request, position, any_stored, applied, batch, todo, atom, delivered,
                       online, columns, loaded, cpu_info, ticks>>
        /\ pc' = "idle" /\ rc' \in Int
    BY <1>6 DEF Cpu!FetchReturns, Cpu!Framework!FetchReturns, Cpu!Framework!Answer,
       Cpu!Framework!storeVars, Cpu!Framework!fetchVars
  <2>2. Cpu!TypeOK'
    BY <1>1, <2>1, CpuCalls DEF Cpu!TypeOK, LineRecords
  <2>3. ReadFrom(cpu_info, loaded, batch)' <=> ReadFrom(cpu_info, loaded, batch)
    BY <2>1 DEF ReadFrom
  <2> QED BY <2>1, <2>2, <2>3 DEF CpuInv
<1>7. CASE UNCHANGED Cpu!vars
  <2>1. UNCHANGED <<pc, request, position, any_stored, applied, batch, todo, atom, delivered,
                    rc, online, columns, loaded, cpu_info, ticks>>
    BY <1>7 DEF Cpu!vars, Cpu!dispatchVars
  <2>2. Cpu!Framework!TypeOK'
    BY <2>1 DEF CpuInv, Cpu!TypeOK, Cpu!Framework!TypeOK, Cpu!Framework!Ids
  <2>3. Cpu!TypeOK'
    BY <1>1, <2>1, <2>2 DEF CpuInv, Cpu!TypeOK
  <2>4. ReadFrom(cpu_info, loaded, batch)' <=> ReadFrom(cpu_info, loaded, batch)
    BY <2>1 DEF ReadFrom
  <2> QED BY <2>1, <2>3, <2>4 DEF CpuInv
<1> QED BY <1>2, <1>3, <1>4, <1>5, <1>6, <1>7 DEF Cpu!Next, Cpu!Run

\* Each step of simplecpu is one of Dispatch, or none: its instances never
\* change, and all it throws is the exception of a load and std::out_of_range.
LEMMA CpuImplements == [Cpu!Next]_(Cpu!vars) => Cpu!DispatchStep
<1> SUFFICES ASSUME [Cpu!Next]_(Cpu!vars) PROVE Cpu!DispatchStep
  OBVIOUS
<1>1. CASE Cpu!Hotplug \/ UNCHANGED Cpu!vars
  BY <1>1 DEF Cpu!Hotplug, Cpu!vars, Cpu!dispatchVars, Cpu!Framework!vars, Cpu!DispatchStep
<1>2. CASE Cpu!OnFetch
  BY <1>2 DEF Cpu!OnFetch, Cpu!Framework!Next, Cpu!DispatchStep
<1>3. CASE Cpu!Framework!Run
  BY <1>3 DEF Cpu!Framework!Next, Cpu!DispatchStep
<1>4. CASE Cpu!load_cpu_ticks
  <2>1. CASE \E i, j \in Cpu!Framework!Askable : Cpu!Framework!FetchBegun({i, j})
    BY <1>3, <2>1 DEF Cpu!Framework!Run
  <2>2. CASE Cpu!Framework!BeginThrows([how |-> "pcp", code |-> Cpu!PM_ERR_NODATA])
    <3>1. [how |-> "pcp", code |-> Cpu!PM_ERR_NODATA]
            \in Cpu!Framework!Thrown({Cpu!PM_ERR_NODATA})
      BY DEF Cpu!Framework!Thrown
    <3> QED BY <1>3, <2>2, <3>1 DEF Cpu!Framework!Run
  <2> QED BY <1>4, <2>1, <2>2 DEF Cpu!load_cpu_ticks
<1>5. ASSUME NEW id \in Cpu!Framework!Askable, Cpu!fetch_value(id) PROVE Cpu!Framework!Run
  <2>1. id \in Cpu!Framework!Ids
    BY DEF Cpu!Framework!Askable
  <2>2. CASE Cpu!Framework!FetchTaken(id, Cpu!Framework!PMDA_FETCH_STATIC)
    BY <2>1, <2>2 DEF Cpu!Framework!Run, Cpu!Framework!FetchCodes
  <2>3. CASE Cpu!Framework!FetchThrows(id, [how |-> "out_of_range", code |-> 0])
    <3>1. [how |-> "out_of_range", code |-> 0]
            \in Cpu!Framework!Thrown(Cpu!Framework!ValueCodes)
      BY DEF Cpu!Framework!Thrown
    <3> QED BY <2>1, <2>3, <3>1 DEF Cpu!Framework!Run
  <2> QED BY <1>5, <2>2, <2>3 DEF Cpu!fetch_value
<1>6. CASE Cpu!FetchReturns
  BY <1>3, <1>6 DEF Cpu!FetchReturns, Cpu!Framework!Run
<1> QED BY <1>1, <1>2, <1>3, <1>4, <1>5, <1>6 DEF Cpu!Next, Cpu!Run
-----------------------------------------------------------------------------
(* Either agent.                                                           *)

\* The process is one agent for good, and keeps what that agent keeps.
ExamplesInv ==
  /\ agent \in {"simple", "simplecpu"}
  /\ agent = "simple" => SimpleTypes
  /\ agent = "simplecpu" => CpuInv

\* A step of the process is one of its agent.
LEMMA AgentSteps ==
  ASSUME [ExamplesNext]_allVars
  PROVE  /\ UNCHANGED agent
         /\ agent = "simple" => [Next]_vars
         /\ agent = "simplecpu" => [Cpu!Next]_(Cpu!vars)
<1>1. CASE ExamplesNext
  <2>1. "simple" # "simplecpu"
    OBVIOUS
  <2> QED BY <1>1, <2>1 DEF ExamplesNext
<1>2. CASE UNCHANGED allVars
  <2>1. UNCHANGED <<agent, vars, cpuVars>>
    BY <1>2 DEF allVars
  <2>2. UNCHANGED Cpu!vars
    BY <2>1 DEF vars, dispatchVars, cpuVars, Cpu!vars, Cpu!dispatchVars
  <2> QED BY <2>1, <2>2
<1> QED BY <1>1, <1>2

\* The invariant of either agent holds at its start,
LEMMA ExamplesInvInit == ExamplesInit => ExamplesInv
BY SimpleTypesInit, CpuInit DEF ExamplesInit, ExamplesInv

\* and after each of its steps, which leave the other's variables alone.
LEMMA ExamplesInvStep == ExamplesInv /\ [ExamplesNext]_allVars => ExamplesInv'
<1> SUFFICES ASSUME ExamplesInv, [ExamplesNext]_allVars PROVE ExamplesInv'
  OBVIOUS
<1>1. CASE agent = "simple"
  BY <1>1, AgentSteps, SimpleTypesStep DEF ExamplesInv
<1>2. CASE agent = "simplecpu"
  BY <1>2, AgentSteps, CpuStep DEF ExamplesInv
<1> QED BY <1>1, <1>2 DEF ExamplesInv

\* Whichever agent it is, its variables and those of the callbacks it runs on
\* keep to their types.
THEOREM ExamplesTypeCorrect == ExamplesSpec => []ExamplesTypeOK
<1>1. ExamplesInv => ExamplesTypeOK
  BY TypesOfAll DEF ExamplesInv, ExamplesTypeOK, CpuInv
<1> QED BY <1>1, ExamplesInvInit, ExamplesInvStep, PTL DEF ExamplesSpec

\* Both agents do only what Dispatch says of an agent.
THEOREM ExamplesImplement == ExamplesSpec => ImplementDispatch
<1>1. ExamplesInv /\ [ExamplesNext]_allVars =>
        [IF agent = "simple" THEN DispatchStep ELSE Cpu!DispatchStep]_allVars
  <2> SUFFICES ASSUME ExamplesInv, [ExamplesNext]_allVars
               PROVE  IF agent = "simple" THEN DispatchStep ELSE Cpu!DispatchStep
    OBVIOUS
  <2>1. CASE agent = "simple"
    <3>1. NowInv
      BY <2>1 DEF ExamplesInv, SimpleTypes, TimesInv
    <3> QED BY <2>1, <3>1, AgentSteps, SimpleStep DEF DispatchStep
  <2>2. CASE agent # "simple"
    BY <2>2, AgentSteps, CpuImplements DEF ExamplesInv
  <2> QED BY <2>1, <2>2
<1> QED BY <1>1, ExamplesInvInit, ExamplesInvStep, PTL DEF ExamplesSpec, ImplementDispatch

\* Whatever a client asks simple for, of what pmdaFetch lets it ask, it gets.
THEOREM SimpleAlwaysDelivers == ExamplesSpec => SimpleDelivers
<1>1. ExamplesInv /\ [ExamplesNext]_allVars => [agent = "simple" => AllDelivered]_allVars
  <2> SUFFICES ASSUME ExamplesInv, [ExamplesNext]_allVars, agent = "simple"
               PROVE  AllDelivered
    OBVIOUS
  <2>1. NowInv
    BY DEF ExamplesInv, SimpleTypes, TimesInv
  <2> QED BY <2>1, AgentSteps, StepDelivers
<1> QED BY <1>1, ExamplesInvInit, ExamplesInvStep, PTL DEF ExamplesSpec, SimpleDelivers

\* Whatever CPUs come and go, in one reply of simplecpu no two metrics have
\* the same line, the total is the total, and all are from this fetch.
THEOREM CpuLinesApart == ExamplesSpec => []CpuOneLineEach
<1>1. CpuInv => Cpu!OneLineEach
  <2> SUFFICES ASSUME CpuInv, NEW i \in DOMAIN ticks, NEW j \in DOMAIN ticks
               PROVE  /\ ticks[i].batch = batch
                      /\ ticks[i].label = Cpu!Total <=> i[1] = 0
                      /\ ticks[i].label = ticks[j].label => i[1] = j[1]
    BY DEF Cpu!OneLineEach
  <2>1. ReadFrom(cpu_info, loaded, batch) /\ Len(cpu_info) \in Nat
    <3>1. DOMAIN ticks # {}
      OBVIOUS
    <3>2. ReadFrom(cpu_info, loaded, batch)
      BY <3>1 DEF CpuInv
    <3> QED BY <3>2, CpuTypes, LenProperties
  <2>2. ASSUME NEW k \in DOMAIN ticks
        PROVE  /\ k[1] \in Nat /\ ticks[k].batch = batch
               /\ k[1] = 0 => ticks[k].label = Cpu!Total
               /\ k[1] # 0 => /\ ticks[k].label # Cpu!Total
                              /\ Cardinality(Below(loaded, ticks[k].label)) = k[1] - 1
    BY <2>1, LineOfMetric
  <2> QED BY <2>2
<1>2. ExamplesInv => CpuOneLineEach
  BY <1>1 DEF ExamplesInv, CpuOneLineEach
<1> QED BY <1>2, ExamplesInvInit, ExamplesInvStep, PTL DEF ExamplesSpec

\* With the CPUs online that there were at start, a step of a fetch delivers
\* what it takes from the list, from the line of the metric's own CPU.
LEMMA CpuTicks == CpuInv /\ [Cpu!Next]_(Cpu!vars) => Cpu!TicksOfItsCPU
<1> SUFFICES ASSUME CpuInv, [Cpu!Next]_(Cpu!vars),
                    pc = "fetch", loaded = BootCPUs, columns > 8
             PROVE  /\ todo \ todo' \subseteq DOMAIN delivered'
                    /\ \A i \in DOMAIN ticks' : i[1] > 0 =>
                         Cpu!Cardinality({c \in BootCPUs : c < ticks'[i].label}) = i[1] - 1
  BY DEF Cpu!TicksOfItsCPU
<1>1. /\ ReadFrom(cpu_info, loaded, batch)
      /\ Len(cpu_info) = Cardinality(BootCPUs) + 1 /\ Cardinality(BootCPUs) \in Nat
      /\ columns \in Nat
  <2>1. ReadFrom(cpu_info, loaded, batch)
    BY DEF CpuInv
  <2>2. Cardinality(BootCPUs) \in Nat
    BY ExamplesAssumption, FS_Subset, FS_CardinalityType
  <2> QED BY <2>1, <2>2, CpuTypes, ExamplesAssumption DEF ReadFrom
<1>2. ASSUME NEW i \in DOMAIN ticks, i[1] > 0
      PROVE  Cardinality(Below(BootCPUs, ticks[i].label)) = i[1] - 1
  BY <1>1, <1>2, LineOfMetric
<1>3. \A l : Cpu!Cardinality({c \in BootCPUs : c < l}) = Cardinality(Below(BootCPUs, l))
  BY SameCount DEF Below
<1>4. ASSUME NEW id \in Cpu!Framework!Askable, Cpu!fetch_value(id)
      PROVE  /\ todo \ todo' \subseteq DOMAIN delivered'
             /\ \A i \in DOMAIN ticks' : i[1] > 0 =>
                  Cardinality(Below(BootCPUs, ticks'[i].label)) = i[1] - 1
  <2>1. id[1] \in 0..Cardinality(BootCPUs) /\ id[2] \in 0..8
    BY ExamplesAssumption, SameCount DEF Cpu!Framework!Askable, Cpu!Framework!Ids
  <2>2. id[1] + 1 <= Len(cpu_info) /\ id[2] < columns /\ id[1] \in Nat
    BY <1>1, <2>1
  <2>3. /\ todo' = todo \ {id} /\ DOMAIN delivered' = DOMAIN delivered \cup {id}
        /\ DOMAIN ticks' = DOMAIN ticks \cup {id}
        /\ ticks'[id] = cpu_info[id[1] + 1]
        /\ \A i \in DOMAIN ticks : i # id => ticks'[i] = ticks[i]
    BY <1>4, <2>2, CpuFetch
  <2>4. ASSUME id[1] > 0
        PROVE  Cardinality(Below(BootCPUs, ticks'[id].label)) = id[1] - 1
    <3> DEFINE n == id[1] + 1
    <3>1. n \in 1..Len(cpu_info) /\ n # 1 /\ n - 2 = id[1] - 1
      BY <1>1, <2>2, <2>4
    <3> HIDE DEF n
    <3>2. Cardinality(Below(BootCPUs, cpu_info[n].label)) = n - 2
      BY <1>1, <3>1 DEF ReadFrom
    <3> QED BY <2>3, <3>1, <3>2 DEF n
  <2> QED BY <1>2, <2>3, <2>4
<1>5. CASE Cpu!Hotplug \/ Cpu!FetchReturns \/ UNCHANGED Cpu!vars
  <2>1. todo' = todo /\ ticks' = ticks
    BY <1>5 DEF Cpu!Hotplug, Cpu!FetchReturns, Cpu!Framework!FetchReturns,
       Cpu!Framework!fetchVars, Cpu!vars, Cpu!dispatchVars
  <2> QED BY <1>2, <1>3, <2>1
<1>6. ~Cpu!OnFetch /\ ~Cpu!load_cpu_ticks
  BY DEF Cpu!OnFetch, Cpu!Framework!OnFetch, Cpu!load_cpu_ticks, Cpu!Framework!FetchBegun,
     Cpu!Framework!BeginThrows
<1> QED BY <1>3, <1>4, <1>5, <1>6 DEF Cpu!Next, Cpu!Run

\* With the CPUs it was started with online, simplecpu delivers all that is
\* asked of it, for each CPU its own ticks.
THEOREM CpuTicksRight == ExamplesSpec => CpuTicksOfItsCPU
<1>1. ExamplesInv /\ [ExamplesNext]_allVars =>
        [agent = "simplecpu" => Cpu!TicksOfItsCPU]_allVars
  BY AgentSteps, CpuTicks DEF ExamplesInv
<1> QED BY <1>1, ExamplesInvInit, ExamplesInvStep, PTL DEF ExamplesSpec, CpuTicksOfItsCPU
=============================================================================
