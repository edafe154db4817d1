-------------------------- MODULE Migrations_proofs --------------------------
(***************************************************************************)
(* For every number of Python and Rust processes that start together, die  *)
(* and start again, on an empty database or an older release's: the        *)
(* version never goes back, what is recorded is applied, and a process     *)
(* that is up finds what it needs.                                         *)
(*                                                                         *)
(* The schema only grows, but for the constraint that allows the status    *)
(* 'expired'.  So a process keeps what it found or made (Sound), and the   *)
(* version it read once stands for the features of that version (Done).    *)
(***************************************************************************)
EXTENDS Migrations, FiniteSetTheorems, TLAPS

\* The features of the migrations up to v, but for the one that is taken back.
Done(v) ==
  /\ v >= 1 => {"priority", "ttl"} \subseteq schema
  /\ v >= 4 => "retry" \in schema
  /\ v >= 5 => "users" \in schema

Migrating == {"migrate", "record"}
Ending == {"exists", "insert", "up"}

\* What process p relies on at the call it is at.
Sound(p) ==
  /\ proc[p].pc \in {"notify", "select", "zero"} \cup Migrating \cup Ending =>
       {"tasks", "priority"} \subseteq schema
  /\ p \in Pythons /\ proc[p].pc \in {"select", "zero"} \cup Migrating \cup Ending =>
       "trigger" \in schema
  /\ proc[p].pc \in Migrating => versions # {} /\ proc[p].version \in 1 .. LastVersion(p)
  /\ At(p, "migrate") => Done(proc[p].version - 1)
  /\ At(p, "record") => Done(proc[p].version)
  /\ proc[p].pc \in Ending => Done(LastVersion(p))
  /\ At(p, "up") /\ p \in Pythons => admin

\* Version 3 is recorded, or was applied by a process that will record it.
ThreeClaimed == 3 \in versions \/ \E q \in Processes : At(q, "record") /\ proc[q].version = 3

MInv ==
  /\ TypeOK
  /\ \A v \in versions : Done(v)
  /\ versions # {} => 0 \in versions \/ 1 \in versions
  /\ \A p \in Processes : Sound(p)
  /\ ThreeClaimed /\ ~torn => \/ "expiry" \in schema
                              \/ \E p \in Processes : BetweenConstraints(p)


-----------------------------------------------------------------------------
(* The operators                                                           *)

\* The highest of a set of versions.
LEMMA MaxOfVersions ==
  ASSUME NEW V \in SUBSET (0 .. 5)
  PROVE  /\ Max(V \cup {0}) \in V \cup {0} /\ Max(V \cup {0}) \in 0 .. 5
         /\ \A v \in V : v <= Max(V \cup {0})
<1>1. \E m \in V \cup {0} : \A v \in V \cup {0} : m >= v
  <2>1. CASE 5 \in V
    BY <2>1
  <2>2. CASE 5 \notin V /\ 4 \in V
    BY <2>2
  <2>3. CASE 5 \notin V /\ 4 \notin V /\ 3 \in V
    BY <2>3
  <2>4. CASE 5 \notin V /\ 4 \notin V /\ 3 \notin V /\ 2 \in V
    BY <2>4
  <2>5. CASE 5 \notin V /\ 4 \notin V /\ 3 \notin V /\ 2 \notin V /\ 1 \in V
    BY <2>5
  <2>6. CASE V \subseteq {0}
    BY <2>6
  <2> QED  BY <2>1, <2>2, <2>3, <2>4, <2>5, <2>6
<1>2. /\ Max(V \cup {0}) \in V \cup {0}
      /\ \A v \in V \cup {0} : Max(V \cup {0}) >= v
  BY <1>1 DEF Max
<1> DEFINE m == Max(V \cup {0})
<1> HIDE DEF m
<1>3. m \in V \cup {0} /\ \A v \in V \cup {0} : m >= v
  BY <1>2 DEF m
<1>4. m \in V \cup {0} /\ m \in 0 .. 5 /\ \A v \in V : v <= m
  BY <1>3
<1> QED  BY <1>4 DEF m

\* A set of versions with two members has more than one.
LEMMA OneVersion ==
  ASSUME NEW V \in SUBSET (0 .. 5), ~(Cardinality(V) > 1), NEW a \in V, NEW b \in V
  PROVE  a = b
<1> SUFFICES ASSUME a # b PROVE FALSE
  OBVIOUS
<1>1. IsFiniteSet(0 .. 5)
  BY FS_Interval, 0 \in Int, 5 \in Int, Zenon
<1>2. IsFiniteSet(V) /\ Cardinality(V) \in Nat
  BY <1>1, FS_Subset, FS_CardinalityType
<1>3. Cardinality({a}) = 1 /\ IsFiniteSet({a})
  BY FS_Singleton
<1>4. Cardinality({a} \cup {b}) = 2
  BY <1>3, FS_AddElement
<1>5. Cardinality({a} \cup {b}) <= Cardinality(V)
  BY <1>2, FS_Subset
<1> QED  BY <1>2, <1>4, <1>5

\* What each migration does: features are added, and version 2 takes one back.
LEMMA MigratedFacts ==
  ASSUME NEW v \in 1 .. 5, NEW S \in SUBSET Features
  PROVE  /\ Migrated(v, S) \subseteq Features
         /\ S \ {"expiry"} \subseteq Migrated(v, S)
         /\ "expiry" \in S /\ v # 2 => "expiry" \in Migrated(v, S)
         /\ v = 1 => {"priority", "ttl"} \subseteq Migrated(v, S)
         /\ v = 3 => "expiry" \in Migrated(v, S)
         /\ v = 4 => "retry" \in Migrated(v, S)
         /\ v = 5 => "users" \in Migrated(v, S)
<1>1. CASE v = 1
  BY <1>1 DEF Migrated, Features
<1>2. CASE v = 2
  BY <1>2 DEF Migrated, Features
<1>3. CASE v = 3
  BY <1>3 DEF Migrated, Features
<1>4. CASE v = 4
  BY <1>4 DEF Migrated, Features
<1>5. CASE v = 5
  BY <1>5 DEF Migrated, Features
<1> QED  BY <1>1, <1>2, <1>3, <1>4, <1>5

\* Processes are of one kind, and their last version is one of the five.
LEMMA Kinds ==
  ASSUME NEW p \in Processes
  PROVE  /\ p \in Pythons => LastVersion(p) = 5 /\ p \notin Rusts
         /\ p \notin Pythons => LastVersion(p) = 1 /\ p \in Rusts
         /\ LastVersion(p) \in 1 .. 5
BY MigrationsAssumption DEF Processes, LastVersion

\* What is recorded of earlier versions is implied by later ones.
LEMMA DoneBelow ==
  ASSUME NEW v \in Nat, NEW w \in Nat, w <= v, Done(v)
  PROVE  Done(w)
BY DEF Done

-----------------------------------------------------------------------------
(* One call of execute                                                     *)

\* The features but "expiry" stay.
SchemaGrows == schema \ {"expiry"} \subseteq schema'

\* A grown schema has the features it had.
LEMMA DoneStays ==
  ASSUME SchemaGrows, NEW v, Done(v)
  PROVE  Done(v)'
BY DEF SchemaGrows, Done

\* What the call of process p does to the schema.
LEMMA EffectOnSchema ==
  ASSUME MInv, NEW p \in Processes, proc[p].pc \in Working, Effect(p)
  PROVE  /\ SchemaGrows /\ schema' \subseteq Features
         /\ At(p, "schema") => {"tasks", "priority"} \subseteq schema'
         /\ At(p, "notify") => "trigger" \in schema'
         /\ At(p, "migrate") => \A v \in 1 .. 5 : v = proc[p].version => Done(v)'
         /\ "expiry" \in schema /\ "expiry" \notin schema' => At(p, "migrate") /\ proc[p].version = 2
         /\ At(p, "migrate") /\ proc[p].version = 3 => "expiry" \in schema'
<1>0. schema \subseteq Features /\ Sound(p)
  BY DEF MInv, TypeOK
<1>1. CASE At(p, "schema")
  <2>1. schema' = Created(schema) /\ "priority" \in Created(schema)
    BY <1>1 DEF Effect, Rejected, At
  <2> QED  BY <1>0, <1>1, <2>1 DEF Created, SchemaGrows, Features, At
<1>2. CASE At(p, "notify")
  <2>1. schema' = schema \cup {"trigger"}
    BY <1>2 DEF Effect, At
  <2> QED  BY <1>0, <1>2, <2>1 DEF SchemaGrows, Features, At
<1>3. CASE At(p, "migrate")
  <2> DEFINE v == proc[p].version
  <2>1. schema' = Migrated(v, schema)
    BY <1>3 DEF Effect, At
  <2>2. v \in 1 .. LastVersion(p) /\ Done(v - 1)
    BY <1>0, <1>3 DEF Sound, At, Migrating
  <2>3. v \in 1 .. 5
    BY <2>2, Kinds
  <2>4. /\ schema' \subseteq Features /\ schema \ {"expiry"} \subseteq schema'
        /\ "expiry" \in schema /\ v # 2 => "expiry" \in schema'
        /\ v = 1 => {"priority", "ttl"} \subseteq schema'
        /\ v = 3 => "expiry" \in schema'
        /\ v = 4 => "retry" \in schema'
        /\ v = 5 => "users" \in schema'
    BY <1>0, <2>1, <2>3, MigratedFacts
  <2>5. ASSUME NEW w \in 1 .. 5, w = v PROVE Done(w)'
    BY <2>2, <2>4, <2>5 DEF Done
  <2> QED  BY <1>3, <2>4, <2>5 DEF SchemaGrows, At
<1>4. CASE ~At(p, "schema") /\ ~At(p, "notify") /\ ~At(p, "migrate")
  <2>1. schema' = schema
    BY <1>4 DEF Effect, At
  <2> QED  BY <1>0, <1>4, <2>1 DEF SchemaGrows
<1> QED  BY <1>1, <1>2, <1>3, <1>4


\* What the call of process p does to the version rows: none is lost but for a
\* higher one, and what is recorded is applied.
LEMMA EffectOnVersions ==
  ASSUME MInv, NEW p \in Processes, proc[p].pc \in Working, Effect(p)
  PROVE  /\ versions' \subseteq 0 .. 5
         /\ versions # {} \/ At(p, "zero") => versions' # {}
         /\ versions' # {} => 0 \in versions' \/ 1 \in versions'
         /\ \A v \in versions : \E w \in versions' : w >= v
         /\ \A v \in versions' : Done(v)'
         /\ 3 \in versions' => 3 \in versions \/ (At(p, "record") /\ proc[p].version = 3)
<1>0. /\ versions \subseteq 0 .. 5 /\ Sound(p) /\ \A v \in versions : Done(v)
      /\ versions # {} => 0 \in versions \/ 1 \in versions
  BY DEF MInv, TypeOK
<1>a. SchemaGrows
  BY EffectOnSchema
<1>b. \A v \in versions : Done(v)'
  BY <1>0, <1>a, DoneStays
<1>c. \A v \in versions : v >= v
  BY <1>0
<1>1. CASE At(p, "zero")
  <2>1. versions' = versions \cup {0}
    BY <1>1 DEF Effect, At
  <2>2. Done(0)'
    BY DEF Done
  <2> QED  BY <1>0, <1>1, <1>b, <1>c, <2>1, <2>2
<1>2. CASE At(p, "record")
  <2>1. PICK v \in 1 .. 5 : v = proc[p].version /\ v <= LastVersion(p)
    BY <1>0, <1>2, Kinds DEF Sound, Migrating, At
  <2>2. versions # {} /\ Done(v)
    BY <1>0, <1>2, <2>1 DEF Sound, Migrating, At
  <2>3. Done(v)'
    BY <1>a, <2>2, DoneStays
  <2>4. CASE p \in Pythons
    <3>1. versions' = versions \cup {v}
      BY <1>2, <2>1, <2>4 DEF Effect, RecordVersion, At
    <3>2. \A w \in versions' : Done(w)'
      BY <1>b, <2>3, <3>1
    <3>3. \A u \in versions : \E w \in versions' : w >= u
      BY <1>c, <3>1
    <3>4. 3 \in versions' => 3 \in versions \/ (At(p, "record") /\ proc[p].version = 3)
      BY <1>2, <2>1, <3>1
    <3> QED  BY <1>0, <2>2, <3>1, <3>2, <3>3, <3>4
  <2>5. CASE p \notin Pythons
    <3>1. v = 1 /\ p \in Rusts
      BY <2>1, <2>5, Kinds
    <3>2. versions' = {1}
      BY <1>2, <2>1, <2>2, <2>5, <3>1 DEF Effect, RecordVersion, RowsSetTo, At
    <3>3. ~(Cardinality(versions) > 1)
      BY <1>2, <3>1 DEF Effect, Rejected, At
    <3>4. \A w \in versions : w \in {0, 1}
      BY <1>0, <2>2, <3>3, OneVersion
    <3>5. \A w \in versions : 1 >= w
      BY <3>4
    <3> QED  BY <2>3, <3>1, <3>2, <3>5
  <2> QED  BY <2>4, <2>5
<1>3. CASE ~At(p, "zero") /\ ~At(p, "record")
  <2>1. versions' = versions
    BY <1>3 DEF Effect, At
  <2> QED  BY <1>0, <1>3, <1>b, <1>c, <2>1
<1> QED  BY <1>1, <1>2, <1>3

\* What it does to the users: the default admin is never removed.
LEMMA EffectOnAdmin ==
  ASSUME MInv, NEW p \in Processes, Effect(p)
  PROVE  /\ admin' \in BOOLEAN /\ expired' = expired
         /\ admin => admin'
         /\ At(p, "insert") => admin'
BY DEF Effect, At

\* What a step of one process keeps for all of them.
Kept ==
  /\ SchemaGrows /\ schema' \subseteq Features /\ versions' \subseteq 0 .. 5
  /\ versions # {} => versions' # {}
  /\ versions' # {} => 0 \in versions' \/ 1 \in versions'
  /\ \A v \in versions : \E w \in versions' : w >= v
  /\ \A v \in versions' : Done(v)'
  /\ {admin', expired'} \subseteq BOOLEAN
  /\ admin => admin'

\* A call that succeeds, or none at all, keeps it.
LEMMA EffectKeeps ==
  ASSUME MInv, NEW p \in Processes,
         (proc[p].pc \in Working /\ Effect(p)) \/ UNCHANGED dbVars
  PROVE  Kept
<1>0. TypeOK
  BY DEF MInv
<1>1. CASE proc[p].pc \in Working /\ Effect(p)
  <2>1. SchemaGrows /\ schema' \subseteq Features
    BY <1>1, EffectOnSchema
  <2>2. /\ versions' \subseteq 0 .. 5
        /\ versions # {} => versions' # {}
        /\ versions' # {} => 0 \in versions' \/ 1 \in versions'
        /\ \A v \in versions : \E w \in versions' : w >= v
        /\ \A v \in versions' : Done(v)'
    BY <1>1, EffectOnVersions
  <2>3. {admin', expired'} \subseteq BOOLEAN /\ (admin => admin')
    BY <1>0, <1>1, EffectOnAdmin DEF TypeOK
  <2> QED  BY <2>1, <2>2, <2>3 DEF Kept
<1>2. CASE UNCHANGED dbVars
  <2>1. UNCHANGED schema /\ UNCHANGED versions /\ UNCHANGED admin /\ UNCHANGED expired
    BY <1>2 DEF dbVars
  <2>2. SchemaGrows
    BY <2>1 DEF SchemaGrows
  <2>3. \A v \in versions' : Done(v)'
    BY <2>1, <2>2, DoneStays DEF MInv
  <2>4. \A v \in versions : v >= v
    BY <1>0 DEF TypeOK
  <2>5. schema \subseteq Features /\ versions \subseteq 0 .. 5 /\ {admin, expired} \subseteq BOOLEAN
    BY <1>0 DEF TypeOK
  <2>6. versions # {} => 0 \in versions \/ 1 \in versions
    BY DEF MInv
  <2> QED  BY <2>1, <2>2, <2>3, <2>4, <2>5, <2>6 DEF Kept
<1> QED  BY <1>1, <1>2

\* A process that does not move keeps what it relies on.
LEMMA OthersSound ==
  ASSUME Kept, NEW q \in Processes, Sound(q), proc'[q] = proc[q]
  PROVE  Sound(q)'
<1>1. SchemaGrows
  BY DEF Kept
<1>2. At(q, "migrate") => \A v : v = proc[q].version - 1 => Done(v)'
  BY <1>1, DoneStays DEF Sound
<1>3. At(q, "record") => \A v : v = proc[q].version => Done(v)'
  BY <1>1, DoneStays DEF Sound
<1>4. proc[q].pc \in Ending => Done(LastVersion(q))'
  <2>1. PICK v : v = LastVersion(q)
    OBVIOUS
  <2> QED  BY <1>1, <2>1, DoneStays DEF Sound
<1> QED  BY <1>2, <1>3, <1>4 DEF Sound, Kept, SchemaGrows, At


-----------------------------------------------------------------------------
(* The steps of a process                                                  *)

\* What is to be shown of a step of process p, but for version 3.
Advanced(p) ==
  /\ Kept
  /\ proc' \in [Processes -> Process]
  /\ \A q \in Processes : q # p => proc'[q] = proc[q]
  /\ Sound(p)'

\* The types of the process that moves.
LEMMA ProcTypes ==
  ASSUME TypeOK, NEW p \in Processes, NEW x \in Process, proc' = [proc EXCEPT ![p] = x]
  PROVE  /\ proc' \in [Processes -> Process]
         /\ \A q \in Processes : q # p => proc'[q] = proc[q]
         /\ proc'[p] = x
BY DEF TypeOK

\* A process that is not at a call relies on nothing.
LEMMA IdleIsSound ==
  ASSUME NEW p \in Processes, proc'[p].pc \in {"down", "failed", "schema"}
  PROVE  Sound(p)'
BY DEF Sound, Migrating, Ending, At

\* Goto moves the program counter and nothing else.
LEMMA GotoFacts ==
  ASSUME TypeOK, NEW p \in Processes, NEW pc \in Working \cup {"down", "failed", "up"},
         Goto(p, pc)
  PROVE  /\ proc' \in [Processes -> Process]
         /\ \A q \in Processes : q # p => proc'[q] = proc[q]
         /\ proc'[p].pc = pc /\ proc'[p].version = proc[p].version
<1>1. proc[p] \in Process
  BY DEF TypeOK
<1>2. [proc[p] EXCEPT !.pc = pc] \in Process
  BY <1>1 DEF Process
<1>3. proc' = [proc EXCEPT ![p] = [proc[p] EXCEPT !.pc = pc]]
  BY DEF Goto
<1>4. [proc[p] EXCEPT !.pc = pc].pc = pc /\ [proc[p] EXCEPT !.pc = pc].version = proc[p].version
  BY <1>1 DEF Process
<1> QED  BY <1>2, <1>3, <1>4, ProcTypes

\* After version v the process goes on with the next, or is done with them.
LEMMA VersionAfterFacts ==
  ASSUME TypeOK, NEW p \in Processes, NEW v \in 0 .. 5, GotoVersionAfter(p, v)
  PROVE  /\ proc' \in [Processes -> Process]
         /\ \A q \in Processes : q # p => proc'[q] = proc[q]
         /\ proc'[p].version = v + 1
         /\ v < LastVersion(p) => proc'[p].pc = "migrate"
         /\ v >= LastVersion(p) => proc'[p].pc = IF p \in Pythons THEN "exists" ELSE "up"
<1> DEFINE pc == IF v < LastVersion(p) THEN "migrate"
                 ELSE IF p \in Pythons THEN "exists" ELSE "up"
           x == [proc[p] EXCEPT !.version = v + 1, !.pc = pc]
<1>1. proc[p] \in Process /\ LastVersion(p) \in 1 .. 5
  BY Kinds DEF TypeOK
<1>2. pc \in Working \cup {"down", "failed", "up"} /\ v + 1 \in 0 .. 6
  BY DEF Working
<1>3. x \in Process /\ x.version = v + 1 /\ x.pc = pc
  BY <1>1, <1>2 DEF Process
<1>4. proc' = [proc EXCEPT ![p] = x]
  BY <1>1 DEF GotoVersionAfter, TypeOK
<1>5. /\ proc' \in [Processes -> Process]
      /\ \A q \in Processes : q # p => proc'[q] = proc[q]
      /\ proc'[p] = x
  BY <1>3, <1>4, ProcTypes
<1>6. v < LastVersion(p) \/ v >= LastVersion(p)
  BY <1>1
<1> QED  BY <1>1, <1>3, <1>5, <1>6

\* The exception and the loss of a process.
LEMMA RaisedFacts ==
  ASSUME TypeOK, NEW p \in Processes
  PROVE  /\ Down \in Process /\ Down.pc = "down"
         /\ [Down EXCEPT !.pc = "schema"] \in Process
         /\ [Down EXCEPT !.pc = "schema"].pc = "schema"
         /\ Raised(proc[p], p) \in Process
         /\ Raised(proc[p], p).pc \in {"failed", "schema"}
<1>1. proc[p] \in Process /\ 0 \in 0 .. MaxTries - 1 /\ 0 \in 0 .. 6
  BY MigrationsAssumption DEF TypeOK
<1>2. /\ Down \in Process /\ Down.pc = "down"
      /\ [Down EXCEPT !.pc = "schema"] \in Process
      /\ [Down EXCEPT !.pc = "schema"].pc = "schema"
  BY <1>1 DEF Down, Process, Working
<1>3. CASE p \in Pythons /\ proc[p].tries + 1 < MaxTries
  <2>1. proc[p].tries + 1 \in 0 .. MaxTries - 1
    BY <1>1, <1>3, MigrationsAssumption DEF Process
  <2>2. /\ [Down EXCEPT !.pc = "schema", !.tries = proc[p].tries + 1] \in Process
        /\ [Down EXCEPT !.pc = "schema", !.tries = proc[p].tries + 1].pc = "schema"
    BY <1>1, <2>1 DEF Down, Process, Working
  <2> QED  BY <1>2, <1>3, <2>2 DEF Raised
<1>4. CASE ~(p \in Pythons /\ proc[p].tries + 1 < MaxTries)
  <2>1. [proc[p] EXCEPT !.pc = "failed"] \in Process /\ [proc[p] EXCEPT !.pc = "failed"].pc = "failed"
    BY <1>1 DEF Process
  <2> QED  BY <1>2, <1>4, <2>1 DEF Raised
<1> QED  BY <1>3, <1>4

\* A process that goes on after version v relies on what is done up to v.
LEMMA VersionAfterSound ==
  ASSUME MInv, Kept, NEW p \in Processes, NEW v \in 0 .. 5, GotoVersionAfter(p, v),
         Done(v)', v < LastVersion(p) => versions' # {},
         {"tasks", "priority"} \subseteq schema, p \in Pythons => "trigger" \in schema
  PROVE  Advanced(p)
<1>0. TypeOK /\ LastVersion(p) \in 1 .. 5
  BY Kinds DEF MInv
<1>1. /\ proc' \in [Processes -> Process]
      /\ \A q \in Processes : q # p => proc'[q] = proc[q]
      /\ proc'[p].version = v + 1
      /\ v < LastVersion(p) => proc'[p].pc = "migrate"
      /\ v >= LastVersion(p) => proc'[p].pc = IF p \in Pythons THEN "exists" ELSE "up"
  BY <1>0, VersionAfterFacts
<1>2. {"tasks", "priority"} \subseteq schema' /\ (p \in Pythons => "trigger" \in schema')
  BY DEF Kept, SchemaGrows
<1>3. CASE v < LastVersion(p)
  <2>1. proc'[p].pc = "migrate" /\ proc'[p].version \in 1 .. LastVersion(p)
    BY <1>0, <1>1, <1>3
  <2>2. v = proc'[p].version - 1
    BY <1>1
  <2>3. Sound(p)'
    BY <1>2, <1>3, <2>1, <2>2 DEF Sound, Migrating, Ending, At
  <2> QED  BY <1>1, <2>3 DEF Advanced
<1>4. CASE v >= LastVersion(p)
  <2>1. proc'[p].pc = (IF p \in Pythons THEN "exists" ELSE "up")
    BY <1>1, <1>4
  <2>2. PICK w \in 1 .. 5 : w = LastVersion(p)
    BY <1>0
  <2>3. Done(w)'
    BY <1>4, <2>2 DEF Done
  <2>4. Sound(p)'
    BY <1>2, <2>1, <2>2, <2>3 DEF Sound, Migrating, Ending, At
  <2> QED  BY <1>1, <2>4 DEF Advanced
<1> QED  BY <1>0, <1>3, <1>4

\* Start and Stop leave the database alone, and the process relies on nothing.
LEMMA StartStopAdvance ==
  ASSUME MInv, NEW p \in Processes, Start(p) \/ Stop(p)
  PROVE  Advanced(p)
<1>0. TypeOK
  BY DEF MInv
<1>1. Kept
  BY EffectKeeps DEF Start, Stop
<1>2. PICK x \in Process : x.pc \in {"down", "schema"} /\ proc' = [proc EXCEPT ![p] = x]
  BY <1>0, RaisedFacts DEF Start, Stop
<1>3. /\ proc' \in [Processes -> Process]
      /\ \A q \in Processes : q # p => proc'[q] = proc[q]
      /\ proc'[p] = x
  BY <1>0, <1>2, ProcTypes
<1> QED  BY <1>1, <1>2, <1>3, IdleIsSound DEF Advanced

\* An exception or a loss, with the call done or not.
LEMMA RaisedAdvance ==
  ASSUME MInv, NEW p \in Processes, Reject(p) \/ Fault(p)
  PROVE  Advanced(p)
<1>0. TypeOK
  BY DEF MInv
<1>1. Kept
  BY EffectKeeps DEF Reject, Fault
<1>2. PICK x \in {Down, Raised(proc[p], p)} : proc' = [proc EXCEPT ![p] = x]
  <2>1. CASE Reject(p)
    BY <2>1 DEF Reject
  <2>2. CASE Fault(p)
    BY <2>2 DEF Fault
  <2> QED  BY <2>1, <2>2
<1>3. x \in Process /\ x.pc \in {"down", "failed", "schema"}
  BY <1>0, <1>2, RaisedFacts
<1>4. /\ proc' \in [Processes -> Process]
      /\ \A q \in Processes : q # p => proc'[q] = proc[q]
      /\ proc'[p] = x
  BY <1>0, <1>2, <1>3, ProcTypes
<1> QED  BY <1>1, <1>3, <1>4, IdleIsSound DEF Advanced

\* The calls before the migrations, and those after them.
LEMMA CallsAdvance ==
  ASSUME MInv, NEW p \in Processes,
         CreateSchema(p) \/ CreateTrigger(p) \/ FindUser(p) \/ InsertAdmin(p)
  PROVE  Advanced(p)
<1>0. TypeOK /\ Sound(p) /\ LastVersion(p) \in 1 .. 5
  BY Kinds DEF MInv
<1>1. CASE CreateSchema(p)
  <2> DEFINE pc == IF p \in Pythons THEN "notify" ELSE "select"
  <2>1. At(p, "schema") /\ proc[p].pc \in Working /\ Effect(p) /\ Goto(p, pc)
    BY <1>1 DEF CreateSchema, At, Working
  <2>2. Kept /\ {"tasks", "priority"} \subseteq schema'
    BY <2>1, EffectKeeps, EffectOnSchema
  <2>3. /\ proc' \in [Processes -> Process]
        /\ \A q \in Processes : q # p => proc'[q] = proc[q]
        /\ proc'[p].pc = pc
    BY <1>0, <2>1, GotoFacts DEF Working
  <2>4. Sound(p)'
    BY <2>2, <2>3 DEF Sound, Migrating, Ending, At
  <2> QED  BY <2>2, <2>3, <2>4 DEF Advanced
<1>2. CASE CreateTrigger(p)
  <2>1. At(p, "notify") /\ proc[p].pc \in Working /\ Effect(p) /\ Goto(p, "select")
    BY <1>2 DEF CreateTrigger, At, Working
  <2>2. Kept /\ "trigger" \in schema'
    BY <2>1, EffectKeeps, EffectOnSchema
  <2>3. /\ proc' \in [Processes -> Process]
        /\ \A q \in Processes : q # p => proc'[q] = proc[q]
        /\ proc'[p].pc = "select"
    BY <1>0, <2>1, GotoFacts DEF Working
  <2>4. {"tasks", "priority"} \subseteq schema'
    BY <1>0, <2>1, <2>2 DEF Sound, Kept, SchemaGrows, At
  <2>5. Sound(p)'
    BY <2>2, <2>3, <2>4 DEF Sound, Migrating, Ending, At
  <2> QED  BY <2>2, <2>3, <2>5 DEF Advanced
<1>3. CASE FindUser(p) \/ InsertAdmin(p)
  <2>1. PICK pc \in {"insert", "up"} : Goto(p, pc)
    BY <1>3 DEF FindUser, InsertAdmin
  <2>2. proc[p].pc \in {"exists", "insert"} /\ proc[p].pc \in Working
    BY <1>3 DEF FindUser, InsertAdmin, At, Working
  <2>3. Kept
    BY <1>3, <2>2, EffectKeeps DEF FindUser, InsertAdmin
  <2>4. /\ proc' \in [Processes -> Process]
        /\ \A q \in Processes : q # p => proc'[q] = proc[q]
        /\ proc'[p].pc = pc
    BY <1>0, <2>1, GotoFacts DEF Working
  <2>5. proc'[p].pc = "up" => admin'
    <3>1. CASE FindUser(p)
      <4>1. Goto(p, IF admin THEN "up" ELSE "insert") /\ UNCHANGED dbVars
        BY <3>1 DEF FindUser
      <4>2. proc'[p].pc = IF admin THEN "up" ELSE "insert"
        BY <1>0, <4>1, GotoFacts DEF Working
      <4> QED  BY <4>1, <4>2 DEF dbVars
    <3>2. CASE InsertAdmin(p)
      BY <3>2, EffectOnAdmin DEF InsertAdmin
    <3> QED  BY <1>3, <3>1, <3>2
  <2>6. PICK w : w = LastVersion(p)
    OBVIOUS
  <2>7. Done(w)'
    BY <1>0, <2>2, <2>3, <2>6, DoneStays DEF Sound, Ending, Kept
  <2>8. {"tasks", "priority"} \subseteq schema' /\ (p \in Pythons => "trigger" \in schema')
    BY <1>0, <2>2, <2>3 DEF Sound, Kept, SchemaGrows, Ending
  <2>9. Sound(p)'
    BY <2>4, <2>5, <2>6, <2>7, <2>8 DEF Sound, Migrating, Ending, At
  <2> QED  BY <2>3, <2>4, <2>9 DEF Advanced
<1> QED  BY <1>1, <1>2, <1>3

\* Reading the version: what is recorded is done.
LEMMA ReadAdvances ==
  ASSUME MInv, NEW p \in Processes, ReadVersion(p)
  PROVE  Advanced(p)
<1>0. /\ TypeOK /\ Sound(p) /\ At(p, "select") /\ UNCHANGED dbVars
      /\ \A v \in versions : Done(v)
  BY DEF MInv, ReadVersion
<1>1. Kept
  BY <1>0, EffectKeeps
<1>2. {"tasks", "priority"} \subseteq schema /\ (p \in Pythons => "trigger" \in schema)
  BY <1>0 DEF Sound, At
<1>3. CASE Goto(p, "zero")
  <2>1. /\ proc' \in [Processes -> Process]
        /\ \A q \in Processes : q # p => proc'[q] = proc[q]
        /\ proc'[p].pc = "zero"
    BY <1>0, <1>3, GotoFacts DEF Working
  <2>2. Sound(p)'
    BY <1>0, <1>2, <2>1 DEF Sound, Migrating, Ending, At, dbVars
  <2> QED  BY <1>1, <2>1, <2>2 DEF Advanced
<1>4. CASE MaxVersion > 0 /\ GotoVersionAfter(p, MaxVersion)
  <2>1. versions \in SUBSET (0 .. 5)
    BY <1>0 DEF TypeOK
  <2>2. PICK v \in 0 .. 5 : v = MaxVersion /\ v \in versions \cup {0}
    BY <2>1, MaxOfVersions DEF MaxVersion
  <2>3. v \in versions
    BY <1>4, <2>2
  <2>4. Done(v)'
    BY <1>0, <1>1, <2>3, DoneStays DEF Kept
  <2>5. versions' # {}
    BY <1>1, <2>3 DEF Kept
  <2> QED  BY <1>1, <1>2, <1>4, <2>2, <2>4, <2>5, VersionAfterSound
<1> QED  BY <1>3, <1>4 DEF ReadVersion

\* The migrations: each is applied, then recorded.
LEMMA MigrationsAdvance ==
  ASSUME MInv, NEW p \in Processes, InsertZero(p) \/ Migrate(p) \/ Record(p)
  PROVE  Advanced(p)
<1>0. /\ TypeOK /\ Sound(p) /\ Effect(p) /\ proc[p].pc \in {"zero", "migrate", "record"}
      /\ proc[p].pc \in Working
  BY DEF MInv, InsertZero, Migrate, Record, At, Working
<1>1. Kept
  BY <1>0, EffectKeeps
<1>2. {"tasks", "priority"} \subseteq schema /\ (p \in Pythons => "trigger" \in schema)
  BY <1>0 DEF Sound, Migrating
<1>3. CASE InsertZero(p)
  <2>1. At(p, "zero") /\ GotoVersionAfter(p, 0) /\ 0 \in 0 .. 5
    BY <1>3 DEF InsertZero
  <2>2. Done(0)'
    BY DEF Done
  <2>3. versions' # {}
    BY <1>0, <2>1, EffectOnVersions
  <2> QED  BY <1>1, <1>2, <2>1, <2>2, <2>3, VersionAfterSound
<1>4. CASE Migrate(p)
  <2>1. At(p, "migrate") /\ Goto(p, "record")
    BY <1>4 DEF Migrate
  <2>2. /\ proc' \in [Processes -> Process]
        /\ \A q \in Processes : q # p => proc'[q] = proc[q]
        /\ proc'[p].pc = "record" /\ proc'[p].version = proc[p].version
    BY <1>0, <2>1, GotoFacts DEF Working
  <2>3. PICK v \in 1 .. 5 : v = proc[p].version /\ v \in 1 .. LastVersion(p)
    BY <1>0, <2>1, Kinds DEF Sound, Migrating, At
  <2>4. Done(v)'
    BY <1>0, <2>1, <2>3, EffectOnSchema
  <2>5. versions' # {}
    BY <1>0, <1>1, <2>1 DEF Sound, Kept, Migrating, At
  <2>6. {"tasks", "priority"} \subseteq schema' /\ (p \in Pythons => "trigger" \in schema')
    BY <1>1, <1>2 DEF Kept, SchemaGrows
  <2>7. Sound(p)'
    BY <2>2, <2>3, <2>4, <2>5, <2>6 DEF Sound, Migrating, Ending, At
  <2> QED  BY <1>1, <2>2, <2>7 DEF Advanced
<1>5. CASE Record(p)
  <2>1. At(p, "record") /\ GotoVersionAfter(p, proc[p].version)
    BY <1>5 DEF Record
  <2>2. PICK v \in 1 .. 5 : v = proc[p].version
    BY <1>0, <2>1, Kinds DEF Sound, Migrating, At
  <2>3. Done(v)'
    BY <1>0, <1>1, <2>1, <2>2, DoneStays DEF Sound, Kept
  <2>4. versions' # {} /\ v \in 0 .. 5
    BY <1>0, <1>1, <2>1 DEF Sound, Kept, Migrating, At
  <2>5. GotoVersionAfter(p, v)
    BY <2>1, <2>2
  <2> QED  BY <1>1, <1>2, <2>3, <2>4, <2>5, VersionAfterSound
<1> QED  BY <1>3, <1>4, <1>5

-----------------------------------------------------------------------------
(* Version 3                                                               *)

\* The clause of MInv about the constraint that version 2 takes back.
ThreeKept ==
  ThreeClaimed /\ ~torn => \/ "expiry" \in schema
                           \/ \E q \in Processes : BetweenConstraints(q)

\* A process that is between the two versions, or comes there, is a server.
LEMMA BetweenIsPython ==
  ASSUME MInv, NEW p \in Processes, proc[p].pc \in Migrating, proc[p].version >= 2
  PROVE  p \in Pythons /\ LastVersion(p) = 5 /\ p \notin Rusts
<1>1. Sound(p) /\ LastVersion(p) \in 1 .. 5
  BY Kinds DEF MInv
<1>2. proc[p].version \in 1 .. LastVersion(p)
  BY <1>1 DEF Sound
<1>3. LastVersion(p) # 1
  BY <1>1, <1>2
<1> QED  BY <1>3, Kinds

\* A process that does not move stays where it is.
LEMMA BetweenStays ==
  ASSUME NEW q \in Processes, proc'[q] = proc[q], BetweenConstraints(q)
  PROVE  BetweenConstraints(q)'
BY DEF BetweenConstraints, At

\* A step of p that neither loses p between the versions nor takes the
\* constraint back keeps the clause, if it claims nothing new.
LEMMA ThreeStays ==
  ASSUME MInv, NEW p \in Processes, Advanced(p),
         ThreeClaimed' => ThreeClaimed, ~torn' => ~torn,
         "expiry" \in schema => "expiry" \in schema',
         BetweenConstraints(p) => BetweenConstraints(p)' \/ "expiry" \in schema'
  PROVE  ThreeKept'
<1> SUFFICES ASSUME ThreeClaimed', ~torn'
             PROVE  "expiry" \in schema' \/ \E q \in Processes : BetweenConstraints(q)'
  BY DEF ThreeKept
<1>1. "expiry" \in schema \/ \E q \in Processes : BetweenConstraints(q)
  BY DEF MInv
<1>2. CASE "expiry" \in schema
  BY <1>2
<1>3. ASSUME NEW q \in Processes, BetweenConstraints(q)
      PROVE  "expiry" \in schema' \/ \E r \in Processes : BetweenConstraints(r)'
  <2>1. CASE q = p
    BY <1>3, <2>1
  <2>2. CASE q # p
    <3>1. proc'[q] = proc[q]
      BY <2>2 DEF Advanced
    <3>2. BetweenConstraints(q)'
      BY <1>3, <3>1, BetweenStays
    <3> QED  BY <3>2
  <2> QED  BY <2>1, <2>2
<1> QED  BY <1>1, <1>2, <1>3

\* Version 3 is claimed by what is recorded and by the processes at "record".
LEMMA ClaimsComeFromRecord ==
  ASSUME MInv, NEW p \in Processes, Advanced(p),
         (proc[p].pc \in Working /\ Effect(p)) \/ UNCHANGED dbVars,
         ~(proc'[p].pc = "record" /\ proc'[p].version = 3)
  PROVE  ThreeClaimed' => ThreeClaimed
<1> SUFFICES ASSUME ThreeClaimed' PROVE ThreeClaimed
  OBVIOUS
<1>1. CASE 3 \in versions'
  <2>1. 3 \in versions \/ (At(p, "record") /\ proc[p].version = 3)
    BY <1>1, EffectOnVersions DEF dbVars
  <2> QED  BY <2>1 DEF ThreeClaimed
<1>2. ASSUME NEW q \in Processes, proc'[q].pc = "record", proc'[q].version = 3
      PROVE  ThreeClaimed
  <2>1. q # p
    BY <1>2
  <2>2. proc'[q] = proc[q]
    BY <2>1 DEF Advanced
  <2> QED  BY <1>2, <2>2 DEF ThreeClaimed, At
<1> QED  BY <1>1, <1>2 DEF ThreeClaimed, At

\* The steps before and after versions 2 and 3.
LEMMA ThreeElsewhere ==
  ASSUME MInv, NEW p \in Processes, Advanced(p), UNCHANGED torn,
         (proc[p].pc \in Working /\ Effect(p)) \/ UNCHANGED dbVars,
         ~(At(p, "migrate") /\ proc[p].version = 2 /\ Effect(p)),
         ~BetweenConstraints(p),
         ~(proc'[p].pc = "record" /\ proc'[p].version = 3)
  PROVE  ThreeKept'
<1>1. ThreeClaimed' => ThreeClaimed
  BY ClaimsComeFromRecord
<1>2. "expiry" \in schema => "expiry" \in schema'
  BY EffectOnSchema DEF dbVars
<1> QED  BY <1>1, <1>2, ThreeStays

\* The steps of the migrations themselves.
LEMMA ThreeAtMigrations ==
  ASSUME MInv, NEW p \in Processes, Advanced(p), UNCHANGED torn, Migrate(p) \/ Record(p)
  PROVE  ThreeKept'
<1>0. /\ TypeOK /\ Sound(p) /\ Effect(p) /\ proc[p].pc \in Migrating
      /\ proc[p].pc \in Working
  BY DEF MInv, Migrate, Record, At, Working, Migrating
<1>1. PICK v \in 1 .. 5 : v = proc[p].version /\ v \in 1 .. LastVersion(p)
  BY <1>0, Kinds DEF Sound, Migrating
<1>2. CASE Migrate(p)
  <2>1. At(p, "migrate") /\ Goto(p, "record")
    BY <1>2 DEF Migrate
  <2>2. proc'[p].pc = "record" /\ proc'[p].version = v
    BY <1>0, <1>1, <2>1, GotoFacts DEF Working
  <2>3. CASE v = 2
    BY <2>2, <2>3 DEF ThreeKept, BetweenConstraints, At
  <2>4. CASE v = 3
    <3>1. "expiry" \in schema'
      BY <1>0, <1>1, <2>1, <2>4, EffectOnSchema
    <3> QED  BY <3>1 DEF ThreeKept
  <2>5. CASE v # 2 /\ v # 3
    <3>1. ~BetweenConstraints(p)
      BY <1>1, <2>1, <2>5 DEF BetweenConstraints, At
    <3> QED  BY <1>0, <1>1, <2>1, <2>2, <2>5, <3>1, ThreeElsewhere
  <2> QED  BY <2>3, <2>4, <2>5
<1>3. CASE Record(p)
  <2>1. At(p, "record") /\ GotoVersionAfter(p, v)
    BY <1>1, <1>3 DEF Record
  <2>2. v \in 0 .. 5
    OBVIOUS
  <2>3. /\ proc'[p].version = v + 1
        /\ v < LastVersion(p) => proc'[p].pc = "migrate"
        /\ v >= LastVersion(p) => proc'[p].pc = IF p \in Pythons THEN "exists" ELSE "up"
    BY <1>0, <2>1, <2>2, VersionAfterFacts
  <2>4. CASE v = 2
    <3>0. proc[p].version >= 2
      BY <1>1, <2>4
    <3>1. LastVersion(p) = 5
      BY <1>0, <3>0, BetweenIsPython
    <3>2. proc'[p].pc = "migrate" /\ proc'[p].version = 3
      BY <2>3, <2>4, <3>1
    <3> QED  BY <3>2 DEF ThreeKept, BetweenConstraints, At
  <2>5. CASE v # 2
    <3>1. ~BetweenConstraints(p) /\ ~At(p, "migrate")
      BY <1>1, <2>1, <2>5 DEF BetweenConstraints, At
    <3>2. proc'[p].pc # "record"
      BY <2>3, Kinds, <1>1
    <3> QED  BY <1>0, <3>1, <3>2, ThreeElsewhere
  <2> QED  BY <2>4, <2>5
<1> QED  BY <1>2, <1>3

\* No call of a process between the two versions is rejected.
LEMMA BetweenIsNotRejected ==
  ASSUME MInv, NEW p \in Processes, BetweenConstraints(p)
  PROVE  ~Rejected(p)
<1>1. CASE At(p, "record") /\ proc[p].version = 2
  <2>1. p \notin Rusts
    BY <1>1, BetweenIsPython DEF At, Migrating
  <2> QED  BY <1>1, <2>1 DEF Rejected, At
<1>2. CASE At(p, "migrate") /\ proc[p].version = 3
  BY <1>2 DEF Rejected, At
<1> QED  BY <1>1, <1>2 DEF BetweenConstraints

\* A loss between the two versions is torn, if version 3 is claimed.
LEMMA ThreeAtFault ==
  ASSUME MInv, NEW p \in Processes, Advanced(p), Fault(p)
  PROVE  ThreeKept'
<1>0. TypeOK
  BY DEF MInv
<1> SUFFICES ASSUME ~torn', "expiry" \notin schema' PROVE ThreeKept'
  BY DEF ThreeKept
<1>1. /\ (proc[p].pc \in Working /\ Effect(p)) \/ UNCHANGED dbVars
      /\ torn' = (torn \/ LeavesConstraint(p))
  BY DEF Fault
<1>2. ~torn /\ ~LeavesConstraint(p)
  BY <1>1
<1>3. PICK x \in {Down, Raised(proc[p], p)} : proc' = [proc EXCEPT ![p] = x]
  BY DEF Fault
<1>4. x \in Process /\ x.pc \in {"down", "failed", "schema"}
  BY <1>0, <1>3, RaisedFacts
<1>5. proc'[p] = x
  BY <1>0, <1>3, <1>4, ProcTypes
<1>6. ThreeClaimed' => ThreeClaimed
  BY <1>1, <1>4, <1>5, ClaimsComeFromRecord
<1>7. CASE ~ThreeClaimed
  BY <1>6, <1>7 DEF ThreeKept
<1>8. CASE ThreeClaimed
  <2>1. ~BetweenConstraints(p) /\ ~(At(p, "migrate") /\ proc[p].version = 2)
    BY <1>2, <1>8 DEF LeavesConstraint, ThreeClaimed
  <2>2. "expiry" \in schema => "expiry" \in schema'
    BY <1>1, <2>1, EffectOnSchema DEF dbVars
  <2> QED  BY <1>2, <1>6, <2>1, <2>2, ThreeStays
<1> QED  BY <1>7, <1>8

-----------------------------------------------------------------------------
(* The invariant                                                           *)

\* A step of a process advances it and keeps what is recorded of the others.
LEMMA AdvancedKeeps ==
  ASSUME MInv, NEW p \in Processes, Advanced(p), ThreeKept',
         torn' \in BOOLEAN, faults' \in 0 .. MaxFaults
  PROVE  MInv'
<1>1. ASSUME NEW q \in Processes PROVE Sound(q)'
  <2>1. CASE q = p
    BY <2>1 DEF Advanced
  <2>2. CASE q # p
    <3>1. Sound(q) /\ proc'[q] = proc[q] /\ Kept
      BY <2>2 DEF MInv, Advanced
    <3> QED  BY <3>1, OthersSound
  <2> QED  BY <2>1, <2>2
<1>2. TypeOK'
  BY DEF TypeOK, Advanced, Kept
<1>3. /\ \A v \in versions' : Done(v)'
      /\ versions' # {} => 0 \in versions' \/ 1 \in versions'
  BY DEF Advanced, Kept
<1> QED  BY <1>1, <1>2, <1>3 DEF MInv, ThreeKept

\* The server that is up and finds expired tasks.
LEMMA CleanupKeeps ==
  ASSUME MInv, Cleanup
  PROVE  MInv'
<1>1. UNCHANGED <<schema, versions, admin, proc, torn, faults>> /\ expired' = TRUE
  BY DEF Cleanup
<1>2. TypeOK'
  BY <1>1 DEF MInv, TypeOK
<1>3. ASSUME NEW v, Done(v) PROVE Done(v)'
  BY <1>1, <1>3 DEF Done
<1>4. \A v \in versions' : Done(v)'
  BY <1>1, <1>3 DEF MInv
<1>5. ASSUME NEW p \in Processes PROVE Sound(p)'
  <2>1. Sound(p)
    BY DEF MInv
  <2> QED  BY <1>1, <2>1 DEF Sound, Done, At
<1>6. ThreeKept'
  BY <1>1 DEF MInv, ThreeKept, ThreeClaimed, BetweenConstraints, At
<1> QED  BY <1>1, <1>2, <1>4, <1>5, <1>6 DEF MInv, ThreeKept

\* What an older release has left: the features of its versions.
LEMMA OldSchemaFacts ==
  ASSUME NEW v \in 0 .. 4
  PROVE  /\ OldSchema(v) \subseteq Features
         /\ v >= 1 => {"priority", "ttl"} \subseteq OldSchema(v)
         /\ v >= 3 => "expiry" \in OldSchema(v)
         /\ v >= 4 => "retry" \in OldSchema(v)
<1>1. DOMAIN Since = {"tasks", "priority", "ttl", "expiry", "retry", "users"}
  BY DEF Since
<1>2. Since["priority"] = 1 /\ Since["ttl"] = 1 /\ Since["expiry"] = 3 /\ Since["retry"] = 4
  BY DEF Since
<1>3. OldSchema(v) \subseteq Features
  BY <1>1 DEF OldSchema, Features
<1> QED  BY <1>1, <1>2, <1>3 DEF OldSchema

\* An empty database and those of the older releases are sound.
LEMMA InitMInv ==
  ASSUME Init
  PROVE  MInv
<1>1. /\ schema \subseteq Features /\ versions \subseteq 0 .. 5
      /\ \A v \in versions : Done(v)
      /\ versions # {} => 0 \in versions \/ 1 \in versions
      /\ 3 \in versions => "expiry" \in schema
  <2>1. CASE versions = {} /\ (schema = {} \/ schema = OldSchema(0))
    <3>1. OldSchema(0) \subseteq Features
      BY OldSchemaFacts
    <3> QED  BY <2>1, <3>1
  <2>2. ASSUME NEW v \in 1 .. 4, schema = OldSchema(v), versions = 0 .. v
        PROVE  /\ schema \subseteq Features /\ versions \subseteq 0 .. 5
               /\ \A w \in versions : Done(w)
               /\ 0 \in versions
               /\ 3 \in versions => "expiry" \in schema
    <3>1. /\ OldSchema(v) \subseteq Features
          /\ {"priority", "ttl"} \subseteq OldSchema(v)
          /\ v >= 3 => "expiry" \in OldSchema(v)
          /\ v >= 4 => "retry" \in OldSchema(v)
      BY OldSchemaFacts
    <3>2. ASSUME NEW w \in versions PROVE Done(w)
      BY <2>2, <3>1 DEF Done
    <3> QED  BY <2>2, <3>1, <3>2
  <2> QED  BY <2>1, <2>2 DEF Init
<1>2. proc = [p \in Processes |-> Down] /\ Down.pc = "down" /\ Down \in Process
  <2>1. 0 \in 0 .. MaxTries - 1 /\ 0 \in 0 .. 6
    BY MigrationsAssumption
  <2> QED  BY <2>1 DEF Init, Down, Process
<1>3. TypeOK
  <2>1. proc \in [Processes -> Process]
    BY <1>2
  <2>2. faults \in 0 .. MaxFaults
    BY MigrationsAssumption DEF Init
  <2>3. admin = FALSE /\ expired = FALSE /\ torn = FALSE
    BY DEF Init
  <2> QED  BY <1>1, <2>1, <2>2, <2>3 DEF TypeOK
<1>4. \A p \in Processes : proc[p].pc = "down"
  BY <1>2
<1>5. \A p \in Processes : Sound(p)
  BY <1>4 DEF Sound, Migrating, Ending, At
<1>6. ThreeClaimed => "expiry" \in schema
  BY <1>1, <1>4 DEF ThreeClaimed, At
<1> QED  BY <1>1, <1>3, <1>5, <1>6 DEF MInv

\* What one step does: the invariant and the version rows.
LEMMA ProcessStep ==
  ASSUME MInv, NEW p \in Processes, Start(p) \/ Step(p) \/ Fault(p) \/ Stop(p)
  PROVE  MInv' /\ Kept
<1>0. torn \in BOOLEAN /\ faults \in 0 .. MaxFaults
  BY DEF MInv, TypeOK
<1>1. CASE Start(p) \/ Stop(p)
  <2>1. Advanced(p)
    BY <1>1, StartStopAdvance
  <2>2. UNCHANGED dbVars /\ UNCHANGED torn /\ UNCHANGED faults
    BY <1>1 DEF Start, Stop
  <2>3. ~BetweenConstraints(p) /\ ~At(p, "migrate")
    BY <1>1 DEF Start, Stop, BetweenConstraints, At
  <2>4. proc'[p].pc # "record"
    <3>1. TypeOK
      BY DEF MInv
    <3>2. PICK x \in Process : x.pc \in {"down", "schema"} /\ proc' = [proc EXCEPT ![p] = x]
      BY <1>1, <3>1, RaisedFacts DEF Start, Stop
    <3> QED  BY <3>1, <3>2, ProcTypes
  <2>5. ThreeKept'
    BY <2>1, <2>2, <2>3, <2>4, ThreeElsewhere
  <2> QED  BY <1>0, <2>1, <2>2, <2>5, AdvancedKeeps DEF Advanced
<1>2. CASE Fault(p)
  <2>1. Advanced(p) /\ ThreeKept'
    BY <1>2, RaisedAdvance, ThreeAtFault
  <2>2. torn' \in BOOLEAN /\ faults' \in 0 .. MaxFaults
    BY <1>0, <1>2, MigrationsAssumption DEF Fault
  <2> QED  BY <2>1, <2>2, AdvancedKeeps DEF Advanced
<1>3. CASE Step(p)
  <2>0. UNCHANGED torn /\ UNCHANGED faults /\ TypeOK
    BY <1>3 DEF Step, MInv
  <2>1. CASE CreateSchema(p) \/ CreateTrigger(p) \/ FindUser(p) \/ InsertAdmin(p)
    <3>1. Advanced(p)
      BY <2>1, CallsAdvance
    <3>2. (proc[p].pc \in Working /\ Effect(p)) \/ UNCHANGED dbVars
      BY <2>1 DEF CreateSchema, CreateTrigger, FindUser, InsertAdmin, At, Working
    <3>3. ~BetweenConstraints(p) /\ ~At(p, "migrate")
      BY <2>1 DEF CreateSchema, CreateTrigger, FindUser, InsertAdmin, BetweenConstraints, At
    <3>4. PICK pc \in {"notify", "select", "insert", "up"} : Goto(p, pc)
      BY <2>1 DEF CreateSchema, CreateTrigger, FindUser, InsertAdmin
    <3>5. proc'[p].pc # "record"
      BY <2>0, <3>4, GotoFacts DEF Working
    <3>6. ThreeKept'
      BY <2>0, <3>1, <3>2, <3>3, <3>5, ThreeElsewhere
    <3> QED  BY <1>0, <2>0, <3>1, <3>6, AdvancedKeeps DEF Advanced
  <2>2. CASE ReadVersion(p) \/ InsertZero(p)
    <3>1. Advanced(p)
      BY <2>2, ReadAdvances, MigrationsAdvance
    <3>2. (proc[p].pc \in Working /\ Effect(p)) \/ UNCHANGED dbVars
      BY <2>2 DEF ReadVersion, InsertZero, At, Working
    <3>3. ~BetweenConstraints(p) /\ ~At(p, "migrate")
      BY <2>2 DEF ReadVersion, InsertZero, BetweenConstraints, At
    <3>4. proc'[p].pc # "record"
      <4>1. CASE Goto(p, "zero")
        BY <2>0, <4>1, GotoFacts DEF Working
      <4>2. ASSUME NEW v \in 0 .. 5, GotoVersionAfter(p, v) PROVE proc'[p].pc # "record"
        <5>1. LastVersion(p) \in 1 .. 5
          BY Kinds
        <5>2. v < LastVersion(p) \/ v >= LastVersion(p)
          BY <5>1
        <5> QED  BY <2>0, <4>2, <5>2, VersionAfterFacts
      <4>3. versions \in SUBSET (0 .. 5)
        BY <2>0 DEF TypeOK
      <4>4. MaxVersion \in 0 .. 5 /\ 0 \in 0 .. 5
        BY <4>3, MaxOfVersions DEF MaxVersion
      <4> QED  BY <2>2, <4>1, <4>2, <4>4 DEF ReadVersion, InsertZero
    <3>5. ThreeKept'
      BY <2>0, <3>1, <3>2, <3>3, <3>4, ThreeElsewhere
    <3> QED  BY <1>0, <2>0, <3>1, <3>5, AdvancedKeeps DEF Advanced
  <2>3. CASE Migrate(p) \/ Record(p)
    <3>1. Advanced(p)
      BY <2>3, MigrationsAdvance
    <3>2. ThreeKept'
      BY <2>0, <2>3, <3>1, ThreeAtMigrations
    <3> QED  BY <1>0, <2>0, <3>1, <3>2, AdvancedKeeps DEF Advanced
  <2>4. CASE Reject(p)
    <3>1. Advanced(p) /\ UNCHANGED dbVars
      BY <2>4, RaisedAdvance DEF Reject
    <3>2. ~BetweenConstraints(p)
      BY <2>4, BetweenIsNotRejected DEF Reject
    <3>3. ~Effect(p)
      BY <2>4 DEF Reject, Effect
    <3>4. proc'[p].pc # "record"
      <4>1. Raised(proc[p], p) \in Process /\ Raised(proc[p], p).pc \in {"failed", "schema"}
        BY <2>0, RaisedFacts
      <4>2. proc' = [proc EXCEPT ![p] = Raised(proc[p], p)]
        BY <2>4 DEF Reject
      <4>3. proc'[p] = Raised(proc[p], p)
        BY <2>0, <4>1, <4>2, ProcTypes
      <4> QED  BY <4>1, <4>3
    <3>5. ThreeKept'
      BY <2>0, <3>1, <3>2, <3>3, <3>4, ThreeElsewhere
    <3> QED  BY <1>0, <2>0, <3>1, <3>5, AdvancedKeeps DEF Advanced
  <2> QED  BY <1>3, <2>1, <2>2, <2>3, <2>4 DEF Step
<1> QED  BY <1>1, <1>2, <1>3

\* No version row is lost but for a higher one.
RowsRise == versions' \subseteq 0 .. 5 /\ \A v \in versions : \E w \in versions' : w >= v

\* MInv is inductive, and every step raises the version rows or leaves them.
LEMMA NextMInv ==
  ASSUME MInv, [Next]_vars
  PROVE  MInv' /\ RowsRise
<1>0. versions \subseteq 0 .. 5 /\ \A v \in versions : v >= v
  BY DEF MInv, TypeOK
<1>1. ASSUME NEW p \in Processes, Start(p) \/ Step(p) \/ Fault(p) \/ Stop(p)
      PROVE  MInv' /\ RowsRise
  BY <1>1, ProcessStep DEF Kept, RowsRise
<1>2. CASE Cleanup
  BY <1>0, <1>2, CleanupKeeps DEF Cleanup, RowsRise
<1>3. CASE UNCHANGED vars
  <2>1. /\ UNCHANGED <<schema, versions, admin, expired>>
        /\ UNCHANGED <<proc, torn, faults>>
    BY <1>3 DEF vars
  <2> QED  BY <1>0, <2>1 DEF MInv, TypeOK, Done, Sound, ThreeClaimed, BetweenConstraints, At, RowsRise
<1> QED  BY <1>1, <1>2, <1>3 DEF Next

\* MInv holds in every reachable state.
LEMMA MInvAlways == Spec => []MInv
<1>1. Init => MInv
  BY InitMInv
<1>2. MInv /\ [Next]_vars => MInv'
  BY NextMInv
<1> QED  BY <1>1, <1>2, PTL DEF Spec

\* Type correctness, for every number of processes, tries and faults.
THEOREM MigrationsTypeOK == Spec => []TypeOK
<1>1. MInv => TypeOK
  BY DEF MInv
<1> QED  BY <1>1, MInvAlways, PTL

\* A process that is up finds every column, table and trigger its statements
\* use, and a server a user: however many processes of either kind start at
\* once, die and start again.
THEOREM UpIsAlwaysComplete == Spec => []UpIsComplete
<1>1. MInv => UpIsComplete
  <2> SUFFICES ASSUME MInv PROVE UpIsComplete
    OBVIOUS
  <2>1. ASSUME NEW p \in Pythons, At(p, "up")
        PROVE  admin /\ Features \ {"expiry"} \subseteq schema
    <3>1. p \in Processes /\ Sound(p) /\ LastVersion(p) = 5
      BY Kinds DEF MInv, Processes
    <3>2. Done(5)
      BY <2>1, <3>1 DEF Sound, Ending, At
    <3> QED  BY <2>1, <3>1, <3>2 DEF Sound, Ending, At, Done, Features
  <2>2. ASSUME NEW p \in Rusts, At(p, "up")
        PROVE  {"tasks", "priority", "ttl"} \subseteq schema
    <3>1. p \in Processes /\ Sound(p) /\ LastVersion(p) = 1
      BY MigrationsAssumption, Kinds DEF MInv, Processes
    <3>2. Done(1)
      BY <2>2, <3>1 DEF Sound, Ending, At
    <3> QED  BY <2>2, <3>1, <3>2 DEF Sound, Ending, At, Done
  <2> QED  BY <2>1, <2>2 DEF UpIsComplete
<1> QED  BY <1>1, MInvAlways, PTL

\* What is recorded is applied, and version 3 is undone by a late version 2 only
\* while a process is between the two, or was lost there.
THEOREM RecordedIsAlwaysApplied == Spec => []RecordedIsApplied
<1>1. MInv => RecordedIsApplied
  <2> SUFFICES ASSUME MInv PROVE RecordedIsApplied
    OBVIOUS
  <2>1. ASSUME NEW v \in versions \ {0, 2, 3} PROVE Migrated(v, schema) = schema
    <3>1. v \in {1, 4, 5} /\ Done(v)
      BY DEF MInv, TypeOK
    <3>2. CASE v = 1
      BY <3>1, <3>2 DEF Migrated, Done
    <3>3. CASE v = 4
      BY <3>1, <3>3 DEF Migrated, Done
    <3>4. CASE v = 5
      BY <3>1, <3>4 DEF Migrated, Done
    <3> QED  BY <3>1, <3>2, <3>3, <3>4
  <2>2. 3 \in versions /\ ~torn => "expiry" \in schema \/ \E p \in Processes : BetweenConstraints(p)
    BY DEF MInv, ThreeClaimed
  <2> QED  BY <2>1, <2>2 DEF RecordedIsApplied
<1> QED  BY <1>1, MInvAlways, PTL

\* The recorded version never goes back, although the UPDATE of the Rust workers
\* writes 1 to every row whatever a server has recorded meanwhile.
THEOREM VersionIsNeverLowered == Spec => VersionNeverLowered
<1>1. MInv /\ [Next]_vars => [MaxVersion' >= MaxVersion]_vars
  <2> SUFFICES ASSUME MInv, [Next]_vars PROVE MaxVersion' >= MaxVersion
    OBVIOUS
  <2>1. versions \in SUBSET (0 .. 5) /\ RowsRise
    BY NextMInv DEF MInv, TypeOK
  <2>2. PICK m \in 0 .. 5 : m = MaxVersion /\ m \in versions \cup {0}
    BY <2>1, MaxOfVersions DEF MaxVersion
  <2>3. versions' \in SUBSET (0 .. 5)
    BY <2>1 DEF RowsRise
  <2>4. PICK n \in 0 .. 5 : n = MaxVersion' /\ \A w \in versions' : w <= n
    BY <2>3, MaxOfVersions DEF MaxVersion
  <2>5. m = 0 \/ \E w \in versions' : w >= m
    BY <2>1, <2>2 DEF RowsRise
  <2>6. n >= m
    BY <2>3, <2>4, <2>5
  <2> QED  BY <2>2, <2>4, <2>6
<1> QED  BY <1>1, MInvAlways, PTL DEF Spec, VersionNeverLowered
=============================================================================
