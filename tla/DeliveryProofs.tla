--------------------------- MODULE DeliveryProofs ---------------------------
(***************************************************************************)
(* Proofs about Delivery: types, versions, and the promise that a stored   *)
(* checkpoint never hides a change, for sources whose executions do not    *)
(* overlap and whose feed gives each version an ETag of its own.           *)
(***************************************************************************)
EXTENDS Delivery, TLAPS

RunsTyped == /\ run \in [Executions -> RunStates]
             /\ \A e \in Executions : Buffered(run[e])

\* One execution moves to a state of the right type and shape.
LEMMA RunMoves ==
    ASSUME RunsTyped, NEW e \in Executions, NEW state \in RunStates,
           Buffered(state), run' = [run EXCEPT ![e] = state]
    PROVE  RunsTyped'
<1>1. run' \in [Executions -> RunStates]
  BY DEF RunsTyped
<1>2. \A f \in Executions : run'[f] = IF f = e THEN state ELSE run[f]
  BY DEF RunsTyped
<1>3. \A f \in Executions : Buffered(run'[f])
  BY <1>2 DEF RunsTyped
<1> QED
  BY <1>1, <1>3 DEF RunsTyped, Buffered

LEMMA IdleType == Idle \in RunStates /\ Buffered(Idle)
  BY DeliveryAssumption DEF Idle, At, RunStates, Optional, Buffered

\* The state an execution is put in has the fields it was given.
LEMMA AtType ==
    ASSUME NEW pc \in {"idle", "loaded", "writing"},
           NEW tag \in Optional(Validators), NEW version \in 0..LastVersion,
           NEW left \in SUBSET Items,
           pc # "writing" => left = {},
           left # {} => version # 0 /\ left \subseteq DOMAIN Feed[version]
    PROVE  At(pc, tag, version, left) \in RunStates
           /\ Buffered(At(pc, tag, version, left))
  BY DEF At, RunStates, Buffered, Optional

\* A batch, once written, leaves every row and every version of its type.
LEMMA FlushTypes ==
    ASSUME TypeOK, NEW e \in Executions, Flush(e)
    PROVE  /\ resources' \in [Items -> Optional(Contents)]
           /\ resource_versions' \in [Items -> SUBSET Contents]
<1>0. PICK batch : batch = run[e].records
  OBVIOUS
<1>1. batch \subseteq Items /\ run[e].version # 0
         /\ batch \subseteq DOMAIN Feed[run[e].version]
  BY <1>0 DEF Flush, TypeOK, Buffered, RunStates
<1>2. run[e].version \in Versions
  BY <1>1, DeliveryAssumption DEF TypeOK, Versions, RunStates
<1>3. \A i \in batch : Feed[run[e].version][i] \in Contents
  BY <1>1, <1>2, DeliveryAssumption
<1> QED
  BY <1>0, <1>1, <1>3 DEF Flush, TypeOK, VersionsWith, Optional

\* Every step keeps every variable in its type.
LEMMA TypeStep ==
    ASSUME TypeOK, [Next]_vars
    PROVE  TypeOK'
<1> USE DEF RunsTyped
<1>0. RunsTyped /\ \A e \in Executions : run[e] \in RunStates
  BY DEF TypeOK
<1>1. CASE Publish
  BY <1>1, DeliveryAssumption DEF Publish, TypeOK, Versions, Buffered, tables
<1>2. ASSUME NEW e \in Executions, Execute(e)
      PROVE  TypeOK'
  <2>1. At("loaded", etag, 0, {}) \in RunStates
        /\ Buffered(At("loaded", etag, 0, {}))
    BY AtType, DeliveryAssumption DEF TypeOK
  <2>2. RunsTyped'
    BY <1>0, <1>2, <2>1, RunMoves DEF Execute
  <2> QED
    BY <1>2, <2>2 DEF Execute, TypeOK, tables
<1>3. ASSUME NEW e \in Executions, FetchNotModified(e)
      PROVE  TypeOK'
  <2>1. run[e].etag \in Optional(Validators)
    BY <1>0 DEF RunStates
  <2>2. At("writing", run[e].etag, 0, {}) \in RunStates
        /\ Buffered(At("writing", run[e].etag, 0, {}))
    BY <2>1, AtType, DeliveryAssumption
  <2>3. RunsTyped'
    BY <1>0, <1>3, <2>2, RunMoves DEF FetchNotModified
  <2> QED
    BY <1>3, <2>3 DEF FetchNotModified, TypeOK, tables
<1>4. ASSUME NEW e \in Executions, FetchModified(e)
      PROVE  TypeOK'
  <2> DEFINE tag == Coalesce(Validator[upstream], run[e].etag)
  <2>1. upstream \in Versions /\ upstream \in 0..LastVersion /\ upstream # 0
    BY DeliveryAssumption DEF TypeOK, Versions
  <2>2. DOMAIN Feed[upstream] \in SUBSET Items
    BY <2>1, DeliveryAssumption
  <2>3. tag \in Optional(Validators)
    BY <1>0, <2>1 DEF Coalesce, Optional, Validators, RunStates
  <2>4. At("writing", tag, upstream, DOMAIN Feed[upstream]) \in RunStates
        /\ Buffered(At("writing", tag, upstream, DOMAIN Feed[upstream]))
    BY <2>1, <2>2, <2>3, AtType
  <2>5. RunsTyped'
    BY <1>0, <1>4, <2>4, RunMoves DEF FetchModified
  <2> QED
    BY <1>4, <2>5 DEF FetchModified, TypeOK, tables
<1>5. ASSUME NEW e \in Executions, NEW i \in Items, Emit(e, i)
      PROVE  TypeOK'
  <2> DEFINE state ==
          [run[e] EXCEPT !.left = run[e].left \ {i},
                         !.records = run[e].records \cup {i},
                         !.current = IF i \in DOMAIN Media[run[e].version]
                                     THEN i ELSE NULL]
  <2>1. state \in RunStates
    BY <1>0 DEF RunStates, Optional
  <2>2. Buffered(state)
    BY <1>0, <1>5 DEF RunStates, Buffered, Emit
  <2>3. RunsTyped'
    BY <1>0, <1>5, <2>1, <2>2, RunMoves DEF Emit
  <2> QED
    BY <1>5, <2>3 DEF Emit, TypeOK, tables
<1>6. ASSUME NEW e \in Executions, Flush(e)
      PROVE  TypeOK'
  <2> DEFINE state == [run[e] EXCEPT !.records = {}]
  <2>1. state \in RunStates /\ Buffered(state)
    BY <1>0 DEF RunStates, Buffered
  <2>2. RunsTyped'
    BY <1>0, <1>6, <2>1, RunMoves DEF Flush
  <2> QED
    BY <1>6, <2>2, FlushTypes DEF Flush, TypeOK
<1>7. ASSUME NEW e \in Executions, StoreAsset(e)
      PROVE  TypeOK'
  <2>0. PICK i : i = run[e].current
    OBVIOUS
  <2>1. i \in Items /\ Media[upstream][i] \in Optional(Bytes)
    BY <1>0, <1>7, <2>0, DeliveryAssumption
       DEF StoreAsset, RunStates, Optional, TypeOK
  <2> DEFINE state == [run[e] EXCEPT !.current = NULL,
                                     !.assets[i] = Media[upstream][i]]
  <2>2. state \in RunStates /\ Buffered(state)
    BY <1>0, <2>1 DEF RunStates, Buffered, Optional
  <2>3. RunsTyped'
    BY <1>0, <1>7, <2>0, <2>2, RunMoves DEF StoreAsset
  <2> QED
    BY <1>7, <2>0, <2>1, <2>3 DEF StoreAsset, TypeOK, tables
<1>8. ASSUME NEW e \in Executions, WriteAssets(e)
      PROVE  TypeOK'
  <2> DEFINE state == [run[e] EXCEPT !.assets = [i \in Items |-> NULL]]
  <2>1. state \in RunStates /\ Buffered(state)
    BY <1>0 DEF RunStates, Buffered, Optional
  <2>2. RunsTyped'
    BY <1>0, <1>8, <2>1, RunMoves DEF WriteAssets
  <2>3. resource_assets' \in [Items -> Optional(Bytes)]
    BY <1>0, <1>8 DEF WriteAssets, TypeOK, AssetRow, RunStates
  <2> QED
    BY <1>8, <2>2, <2>3 DEF WriteAssets, TypeOK
<1>9. ASSUME NEW e \in Executions, SaveCheckpoint(e)
      PROVE  TypeOK'
  <2>1. etag' \in Optional(Validators)
    BY <1>0, <1>9 DEF SaveCheckpoint, TypeOK, Coalesce, RunStates
  <2>2. RunsTyped'
    BY <1>0, <1>9, IdleType, RunMoves DEF SaveCheckpoint
  <2> QED
    BY <1>9, <2>1, <2>2 DEF SaveCheckpoint, TypeOK
<1>10. ASSUME NEW e \in Executions, Fail(e)
       PROVE  TypeOK'
  <2>1. RunsTyped'
    BY <1>0, <1>10, IdleType, RunMoves DEF Fail, Ended
  <2> QED
    BY <1>10, <2>1 DEF Fail, TypeOK, tables
<1>11. CASE UNCHANGED vars
  BY <1>11 DEF vars, tables, TypeOK, Buffered
<1> QED
  BY <1>1, <1>2, <1>3, <1>4, <1>5, <1>6, <1>7, <1>8, <1>9, <1>10, <1>11 DEF Next

\* Every reachable state is well typed, for every feed and whether executions
\* overlap or not.
THEOREM TypeCorrect == Spec => []TypeOK
<1>1. Init => TypeOK
  BY IdleType, DeliveryAssumption DEF Init, TypeOK, Optional, Versions
<1>2. TypeOK /\ [Next]_vars => TypeOK'
  BY TypeStep
<1> QED
  BY <1>1, <1>2, PTL DEF Spec

-----------------------------------------------------------------------------
(* Versions *)

LEMMA TraceableStep ==
    ASSUME VersionsAreTraceable, [Next]_vars
    PROVE  VersionsAreTraceable'
<1>1. ASSUME NEW e \in Executions, Flush(e)
      PROVE  VersionsAreTraceable'
  <2>0. PICK batch, content :
            batch = run[e].records /\ content = Feed[run[e].version]
    OBVIOUS
  <2>1. /\ resources' = [i \in Items |->
               IF i \in batch THEN content[i] ELSE resources[i]]
        /\ resource_versions' = [i \in Items |->
               IF i \in batch THEN VersionsWith(i, content[i])
               ELSE resource_versions[i]]
    BY <1>1, <2>0 DEF Flush
  <2>2. ASSUME NEW i \in Items, resources'[i] # NULL
        PROVE  resources'[i] \in resource_versions'[i]
    <3>1. CASE i \in batch
      BY <2>1, <2>2, <3>1 DEF VersionsAreTraceable, VersionsWith
    <3>2. CASE i \notin batch
      BY <2>1, <2>2, <3>2 DEF VersionsAreTraceable
    <3> QED
      BY <3>1, <3>2
  <2> QED
    BY <2>2 DEF VersionsAreTraceable
<1>2. CASE UNCHANGED <<resources, resource_versions>>
  BY <1>2 DEF VersionsAreTraceable
<1>3. ASSUME NEW e \in Executions,
             \/ Execute(e) \/ FetchNotModified(e) \/ FetchModified(e)
             \/ StoreAsset(e) \/ WriteAssets(e) \/ SaveCheckpoint(e)
             \/ Fail(e)
      PROVE  UNCHANGED <<resources, resource_versions>>
  BY <1>3 DEF Execute, FetchNotModified, FetchModified, StoreAsset,
              WriteAssets, SaveCheckpoint, Fail, tables
<1>4. ASSUME NEW e \in Executions, NEW i \in Items, Emit(e, i)
      PROVE  UNCHANGED <<resources, resource_versions>>
  BY <1>4 DEF Emit, tables
<1>5. Publish \/ UNCHANGED vars => UNCHANGED <<resources, resource_versions>>
  BY DEF Publish, vars, tables
<1> QED
  BY <1>1, <1>2, <1>3, <1>4, <1>5 DEF Next

\* The content shown for an item is always one of its kept versions, however
\* many executions of the source overlap.
THEOREM Traceable == Spec => []VersionsAreTraceable
<1>1. Init => VersionsAreTraceable
  BY DEF Init, VersionsAreTraceable
<1> QED
  BY <1>1, TraceableStep, PTL DEF Spec

-----------------------------------------------------------------------------
(* Checkpoints *)

\* No version returns under the ETag of an earlier one.
DistinctValidators ==
    \A v, w \in Versions :
        Validator[v] # NULL /\ Validator[v] = Validator[w] => v = w

OneAtATime ==
    \A e, f \in Executions :
        run[e].pc # "idle" /\ run[f].pc # "idle" => e = f

\* The ETag is that of version v or of an earlier one.
From(tag, v) == tag # NULL => \E w \in 1..v : Validator[w] = tag

\* What an execution that fetched version v has no more to write is stored.
Recorded(e, v) ==
    \A i \in DOMAIN Feed[v] \ (run[e].left \cup run[e].records) :
        resources[i] = Feed[v][i]

\* The file of an enclosure it is done with is there, and the row as well
\* unless the buffer still has it.
Kept(e, v) ==
    \A i \in DOMAIN Media[v] \ run[e].left :
        i # run[e].current =>
            /\ files[i] = Media[v][i]
            /\ \/ run[e].assets[i] = Media[v][i]
               \/ run[e].assets[i] = NULL /\ resource_assets[i] = Media[v][i]

\* An execution that fetched version v: its next checkpoint is v's, the stored
\* one is older, and what it is done with is stored; an enclosure only while v
\* is served, for it is downloaded as it is by then.
Writing(e, v) ==
    /\ v \in 1..upstream
    /\ run[e].etag = Coalesce(Validator[v], etag)
    /\ From(etag, v)
    /\ etag # NULL => etag # Validator[v]
    /\ Recorded(e, v)
    /\ v = upstream => Kept(e, v)

\* An execution that fetched nothing has nothing to write.
Empty(state) ==
    /\ state.left = {} /\ state.records = {} /\ state.current = NULL
    /\ \A i \in Items : state.assets[i] = NULL

ExecutionInv(e) ==
    /\ run[e].pc = "loaded" => run[e].etag = etag
    /\ run[e].pc = "writing" =>
           \/ run[e].version = 0 /\ run[e].etag = etag /\ Empty(run[e])
           \/ run[e].version # 0 /\ Writing(e, run[e].version)

Honest == etag # NULL /\ etag = Validator[upstream] => UpToDate

HonestInv ==
    /\ OneAtATime
    /\ From(etag, upstream)
    /\ \A e \in Executions : ExecutionInv(e)
    /\ Honest

\* Only execution e moves, and it alone is not idle before or after: what
\* holds of the executions together follows from what holds of e.
LEMMA OneMoves ==
    ASSUME TypeOK, OneAtATime, NEW e \in Executions, NEW state,
           \A f \in Executions \ {e} : run[f].pc = "idle",
           run' = [run EXCEPT ![e] = state]
    PROVE  /\ OneAtATime'
           /\ run'[e] = state
           /\ \A f \in Executions \ {e} : ExecutionInv(f)'
<1>1. \A f \in Executions : run'[f] = IF f = e THEN state ELSE run[f]
  BY DEF TypeOK
<1>2. \A f \in Executions \ {e} : run'[f].pc = "idle"
  BY <1>1
<1> QED
  BY <1>1, <1>2 DEF OneAtATime, ExecutionInv

LEMMA HonestInvInit == Init => HonestInv
<1> SUFFICES ASSUME Init PROVE HonestInv
  OBVIOUS
<1>1. \A e \in Executions : run[e].pc = "idle"
  BY DEF Init, Idle, At
<1> QED
  BY <1>1 DEF Init, HonestInv, OneAtATime, From, ExecutionInv, Honest

\* A version published later has an ETag that is not stored yet.
LEMMA PublishIsNoticed ==
    ASSUME DistinctValidators, TypeOK, HonestInv, Publish
    PROVE  HonestInv'
<1>1. upstream \in 1..LastVersion /\ upstream' = upstream + 1
      /\ upstream' \in 1..LastVersion
  BY DeliveryAssumption DEF TypeOK, Versions, Publish
<1>2. \A v : v \in 1..upstream => v \in 1..upstream'
  BY <1>1
<1>3. From(etag, upstream)'
  BY <1>2 DEF HonestInv, From, Publish, tables
<1>4. OneAtATime' /\ \A e \in Executions : ExecutionInv(e)'
  <2>1. OneAtATime'
    BY DEF HonestInv, OneAtATime, Publish
  <2>2. ASSUME NEW e \in Executions, NEW v, Writing(e, v)
        PROVE  Writing(e, v)'
    <3>1. v \in 1..upstream' /\ v # upstream'
      BY <1>1, <2>2 DEF Writing
    <3>2. Recorded(e, v)'
      BY <2>2 DEF Writing, Recorded, Publish, tables
    <3> QED
      BY <2>2, <3>1, <3>2 DEF Writing, From, Publish, tables
  <2>3. ASSUME NEW e \in Executions
        PROVE  ExecutionInv(e)'
    BY <2>2 DEF HonestInv, ExecutionInv, Publish, tables
  <2> QED
    BY <2>1, <2>3
<1>5. etag # NULL => etag # Validator[upstream']
  <2>1. ASSUME etag # NULL, etag = Validator[upstream']
        PROVE  FALSE
    <3>1. PICK w \in 1..upstream : Validator[w] = etag
      BY <2>1 DEF HonestInv, From
    <3>2. w \in Versions /\ upstream' \in Versions /\ w # upstream'
      BY <1>1, DeliveryAssumption DEF Versions
    <3> QED
      BY <2>1, <3>1, <3>2 DEF DistinctValidators
  <2> QED
    BY <2>1
<1> QED
  BY <1>3, <1>4, <1>5 DEF HonestInv, Honest, Publish, tables

LEMMA ExecuteStep ==
    ASSUME Exclusive, TypeOK, HonestInv, NEW e \in Executions, Execute(e)
    PROVE  HonestInv'
<1>1. /\ OneAtATime' /\ run'[e] = At("loaded", etag, 0, {})
      /\ \A f \in Executions \ {e} : ExecutionInv(f)'
  BY OneMoves DEF HonestInv, Execute
<1>2. ExecutionInv(e)'
  BY <1>1 DEF ExecutionInv, At, Execute, tables
<1> QED
  BY <1>1, <1>2 DEF HonestInv, From, Honest, UpToDate, Execute, tables

LEMMA FetchStep ==
    ASSUME TypeOK, HonestInv, NEW e \in Executions,
           FetchNotModified(e) \/ FetchModified(e)
    PROVE  HonestInv'
<1>1. run[e].pc = "loaded" /\ run[e].etag = etag
  BY DEF FetchNotModified, FetchModified, HonestInv, ExecutionInv
<1>2. \A f \in Executions \ {e} : run[f].pc = "idle"
  BY <1>1 DEF HonestInv, OneAtATime
<1>3. CASE FetchNotModified(e)
  <2>1. /\ OneAtATime' /\ run'[e] = At("writing", etag, 0, {})
        /\ \A f \in Executions \ {e} : ExecutionInv(f)'
    BY <1>1, <1>2, <1>3, OneMoves DEF HonestInv, FetchNotModified
  <2>2. ExecutionInv(e)'
    BY <1>3, <2>1 DEF ExecutionInv, At, Empty, FetchNotModified, tables
  <2> QED
    BY <1>3, <2>1, <2>2
       DEF HonestInv, From, Honest, UpToDate, FetchNotModified, tables
<1>4. CASE FetchModified(e)
  <2> DEFINE state == At("writing", Coalesce(Validator[upstream], etag),
                         upstream, DOMAIN Feed[upstream])
  <2>1. /\ OneAtATime' /\ run'[e] = state
        /\ \A f \in Executions \ {e} : ExecutionInv(f)'
    BY <1>1, <1>2, <1>4, OneMoves DEF HonestInv, FetchModified
  <2>2. /\ state.pc = "writing" /\ state.version = upstream
        /\ state.etag = Coalesce(Validator[upstream], etag)
        /\ state.left = DOMAIN Feed[upstream]
    BY DEF At
  <2>7. DOMAIN Media[upstream] \subseteq DOMAIN Feed[upstream]
    BY DeliveryAssumption DEF TypeOK
  <2>8. (Recorded(e, upstream) /\ Kept(e, upstream))'
    BY <1>4, <2>1, <2>2, <2>7 DEF Recorded, Kept, FetchModified
  <2>3. upstream \in 1..upstream /\ upstream # 0
    BY DeliveryAssumption DEF TypeOK, Versions
  <2>4. etag # NULL => etag # Validator[upstream]
    BY <1>1, <1>4 DEF FetchModified, NotModified
  <2>5. Writing(e, upstream)'
    BY <1>4, <2>1, <2>2, <2>3, <2>4, <2>8
       DEF Writing, HonestInv, From, FetchModified, Coalesce, tables
  <2>6. ExecutionInv(e)'
    BY <1>4, <2>1, <2>2, <2>3, <2>5 DEF ExecutionInv, FetchModified
  <2> QED
    BY <1>4, <2>1, <2>6
       DEF HonestInv, From, Honest, UpToDate, FetchModified, tables
<1> QED
  BY <1>3, <1>4

\* The stored ETag is not that of the present version while something is
\* written, so a batch can hide nothing.
LEMMA WritingIsNotHidden ==
    ASSUME DistinctValidators, TypeOK, HonestInv, NEW e \in Executions,
           run[e].pc = "writing", run[e].version # 0
    PROVE  etag # NULL => etag # Validator[upstream]
<1> DEFINE v == run[e].version
<1>1. Writing(e, v)
  BY DEF HonestInv, ExecutionInv
<1>2. upstream \in 1..LastVersion /\ v \in 1..upstream
  BY <1>1 DEF TypeOK, Versions, Writing
<1>3. CASE v = upstream
  BY <1>1, <1>3 DEF Writing
<1>4. ASSUME v # upstream, etag # NULL, etag = Validator[upstream]
      PROVE  FALSE
  <2>1. PICK w \in 1..v : Validator[w] = etag
    BY <1>1, <1>4 DEF Writing, From
  <2>2. w \in Versions /\ upstream \in Versions /\ w # upstream
    BY <1>2, <1>4, DeliveryAssumption DEF Versions
  <2> QED
    BY <1>4, <2>1, <2>2 DEF DistinctValidators
<1> QED
  BY <1>3, <1>4

\* A step of the execution that writes version v, by which it alone moves and
\* what it is done with stays stored.
LEMMA WriteStep ==
    ASSUME DistinctValidators, TypeOK, HonestInv, NEW e \in Executions,
           NEW state, run' = [run EXCEPT ![e] = state],
           UNCHANGED <<upstream, etag>>,
           NEW v, v = run[e].version, v # 0, run[e].pc = "writing",
           state.pc = "writing", state.version = v, state.etag = run[e].etag,
           Recorded(e, v)', Kept(e, v) => Kept(e, v)' \/ v # upstream
    PROVE  HonestInv'
<1>1. Writing(e, v)
  BY DEF HonestInv, ExecutionInv
<1>2. \A f \in Executions \ {e} : run[f].pc = "idle"
  BY DEF HonestInv, OneAtATime
<1>3. /\ OneAtATime' /\ run'[e] = state
      /\ \A f \in Executions \ {e} : ExecutionInv(f)'
  BY <1>2, OneMoves DEF HonestInv
<1>4. v' = v
  OBVIOUS
<1>5. Writing(e, v)'
  BY <1>1, <1>3 DEF Writing, From, Coalesce
<1>6. ExecutionInv(e)'
  BY <1>3, <1>5 DEF ExecutionInv
<1>7. Honest'
  BY WritingIsNotHidden DEF Honest
<1> QED
  BY <1>3, <1>6, <1>7 DEF HonestInv, From

\* An execution that has something to write fetched a version.
LEMMA WriterFetched ==
    ASSUME TypeOK, HonestInv, NEW e \in Executions, run[e].pc = "writing",
           ~Empty(run[e])
    PROVE  run[e].version # 0 /\ Writing(e, run[e].version)
  BY DEF HonestInv, ExecutionInv

LEMMA EmitStep ==
    ASSUME DistinctValidators, TypeOK, HonestInv, NEW e \in Executions,
           NEW i \in Items, Emit(e, i)
    PROVE  HonestInv'
<1>0. PICK v : v = run[e].version
  OBVIOUS
<1> DEFINE state ==
        [run[e] EXCEPT !.left = run[e].left \ {i},
                       !.records = run[e].records \cup {i},
                       !.current = IF i \in DOMAIN Media[v] THEN i ELSE NULL]
<1>1. run[e] \in RunStates /\ run[e].pc = "writing" /\ i \in run[e].left
      /\ run[e].current = NULL /\ run' = [run EXCEPT ![e] = state]
  BY <1>0 DEF Emit, TypeOK
<1>2. v # 0 /\ Writing(e, v)
  BY <1>0, <1>1, WriterFetched DEF Empty
<1>3. run'[e] = state /\ UNCHANGED <<upstream, tables, files>>
  BY <1>1 DEF Emit, TypeOK
<1>4. /\ state.pc = "writing" /\ state.version = v /\ state.etag = run[e].etag
      /\ state.left = run[e].left \ {i} /\ state.records = run[e].records \cup {i}
      /\ state.current = IF i \in DOMAIN Media[v] THEN i ELSE NULL
      /\ state.assets = run[e].assets
  BY <1>0, <1>1 DEF RunStates
<1>5. Recorded(e, v)'
  BY <1>2, <1>3, <1>4 DEF Writing, Recorded, tables
<1>6. Kept(e, v) => Kept(e, v)'
  <2> SUFFICES ASSUME Kept(e, v), NEW j \in DOMAIN Media[v] \ state.left,
                      j # state.current
               PROVE  /\ files[j] = Media[v][j]
                      /\ \/ run[e].assets[j] = Media[v][j]
                         \/ /\ run[e].assets[j] = NULL
                            /\ resource_assets[j] = Media[v][j]
    BY <1>3, <1>4 DEF Kept, tables
  <2>1. j # i /\ j \notin run[e].left
    BY <1>4
  <2>2. j # NULL
    BY <1>2, DeliveryAssumption DEF Writing, TypeOK, Versions
  <2> QED
    BY <1>1, <2>1, <2>2 DEF Kept
<1> QED
  BY <1>0, <1>1, <1>2, <1>3, <1>4, <1>5, <1>6, WriteStep DEF tables

LEMMA FlushStep ==
    ASSUME DistinctValidators, TypeOK, HonestInv, NEW e \in Executions, Flush(e)
    PROVE  HonestInv'
<1>0. PICK v, batch : v = run[e].version /\ batch = run[e].records
  OBVIOUS
<1> DEFINE state == [run[e] EXCEPT !.records = {}]
<1>1. run[e] \in RunStates /\ run[e].pc = "writing" /\ batch # {}
      /\ run' = [run EXCEPT ![e] = state]
  BY <1>0 DEF Flush, TypeOK
<1>2. v # 0 /\ Writing(e, v)
  BY <1>0, <1>1, WriterFetched DEF Empty
<1>3. /\ run'[e] = state
      /\ UNCHANGED <<upstream, etag, resource_assets, files>>
      /\ resources' = [i \in Items |->
             IF i \in batch THEN Feed[v][i] ELSE resources[i]]
  BY <1>0, <1>1 DEF Flush, TypeOK
<1>4. /\ state.pc = "writing" /\ state.version = v /\ state.etag = run[e].etag
      /\ state.left = run[e].left /\ state.records = {}
      /\ state.current = run[e].current /\ state.assets = run[e].assets
  BY <1>0, <1>1 DEF RunStates
<1>5. DOMAIN Feed[v] \subseteq Items
  BY <1>2, DeliveryAssumption DEF Writing, TypeOK, Versions
<1>6. Recorded(e, v)'
  BY <1>0, <1>2, <1>3, <1>4, <1>5 DEF Writing, Recorded
<1>7. Kept(e, v) => Kept(e, v)'
  BY <1>3, <1>4 DEF Kept
<1> QED
  BY <1>0, <1>1, <1>2, <1>3, <1>4, <1>6, <1>7, WriteStep

\* While version v is served the enclosure that is downloaded is v's.
LEMMA StoreStep ==
    ASSUME DistinctValidators, TypeOK, HonestInv, NEW e \in Executions,
           StoreAsset(e)
    PROVE  HonestInv'
<1>0. PICK v, i : v = run[e].version /\ i = run[e].current
  OBVIOUS
<1> DEFINE bytes == Media[upstream][i]
           state == [run[e] EXCEPT !.current = NULL, !.assets[i] = bytes]
<1>1. run[e] \in RunStates /\ run[e].pc = "writing" /\ i \in Items
      /\ run[e].current # NULL
      /\ run' = [run EXCEPT ![e] = state]
  BY <1>0 DEF StoreAsset, TypeOK, RunStates, Optional
<1>2. v # 0 /\ Writing(e, v)
  BY <1>0, <1>1, WriterFetched DEF Empty
<1>3. /\ run'[e] = state /\ UNCHANGED <<upstream, tables>>
      /\ files' = [files EXCEPT ![i] = bytes]
  BY <1>0, <1>1 DEF StoreAsset, TypeOK
<1>4. /\ state.pc = "writing" /\ state.version = v /\ state.etag = run[e].etag
      /\ state.left = run[e].left /\ state.records = run[e].records
      /\ state.assets = [run[e].assets EXCEPT ![i] = bytes]
  BY <1>0, <1>1 DEF RunStates
<1>5. Recorded(e, v)'
  BY <1>2, <1>3, <1>4 DEF Writing, Recorded, tables
<1>6. ASSUME Kept(e, v), v = upstream
      PROVE  Kept(e, v)'
  <2> SUFFICES ASSUME NEW j \in DOMAIN Media[v] \ run[e].left
               PROVE  /\ files'[j] = Media[v][j]
                      /\ \/ state.assets[j] = Media[v][j]
                         \/ /\ state.assets[j] = NULL
                            /\ resource_assets[j] = Media[v][j]
    BY <1>3, <1>4 DEF Kept, tables
  <2>1. j \in Items
    BY <1>2, DeliveryAssumption DEF Writing, TypeOK, Versions
  <2>2. CASE j = i
    BY <1>1, <1>3, <1>4, <1>6, <2>1, <2>2 DEF TypeOK, RunStates
  <2>3. CASE j # i
    <3>1. j # run[e].current
      BY <1>0, <2>3
    <3>2. files'[j] = files[j] /\ state.assets[j] = run[e].assets[j]
      BY <1>1, <1>3, <1>4, <2>1, <2>3 DEF TypeOK, RunStates
    <3> QED
      BY <1>6, <3>1, <3>2 DEF Kept
  <2> QED
    BY <2>2, <2>3
<1> QED
  BY <1>0, <1>1, <1>2, <1>3, <1>4, <1>5, <1>6, WriteStep DEF tables

LEMMA WriteAssetsStep ==
    ASSUME DistinctValidators, TypeOK, HonestInv, NEW e \in Executions,
           WriteAssets(e)
    PROVE  HonestInv'
<1>0. PICK v, rows : v = run[e].version /\ rows = run[e].assets
  OBVIOUS
<1> DEFINE state == [run[e] EXCEPT !.assets = [i \in Items |-> NULL]]
<1>1. run[e] \in RunStates /\ run[e].pc = "writing"
      /\ (\E i \in Items : rows[i] # NULL)
      /\ run' = [run EXCEPT ![e] = state]
  BY <1>0 DEF WriteAssets, InBuffer, TypeOK
<1>2. v # 0 /\ Writing(e, v)
  BY <1>0, <1>1, WriterFetched DEF Empty
<1>3. /\ run'[e] = state
      /\ UNCHANGED <<upstream, etag, resources, files>>
      /\ resource_assets' = [i \in Items |->
             IF rows[i] # NULL THEN rows[i] ELSE resource_assets[i]]
  BY <1>0, <1>1 DEF WriteAssets, InBuffer, AssetRow, TypeOK
<1>4. /\ state.pc = "writing" /\ state.version = v /\ state.etag = run[e].etag
      /\ state.left = run[e].left /\ state.records = run[e].records
      /\ state.current = run[e].current
      /\ state.assets = [i \in Items |-> NULL]
  BY <1>0, <1>1 DEF RunStates
<1>5. Recorded(e, v)'
  BY <1>2, <1>3, <1>4 DEF Writing, Recorded
<1>6. DOMAIN Media[v] \subseteq Items
      /\ \A i \in DOMAIN Media[v] : Media[v][i] # NULL
  BY <1>2, DeliveryAssumption DEF Writing, TypeOK, Versions
<1>7. Kept(e, v) => Kept(e, v)'
  BY <1>0, <1>3, <1>4, <1>6 DEF Kept
<1> QED
  BY <1>0, <1>1, <1>2, <1>3, <1>4, <1>5, <1>7, WriteStep

LEMMA SaveStep ==
    ASSUME DistinctValidators, TypeOK, HonestInv, NEW e \in Executions,
           SaveCheckpoint(e)
    PROVE  HonestInv'
<1> DEFINE v == run[e].version
<1>1. /\ run[e].pc = "writing" /\ run[e].left = {} /\ run[e].records = {}
      /\ run[e].current = NULL /\ \A i \in Items : run[e].assets[i] = NULL
  BY DEF SaveCheckpoint, Written, Emitted, InBuffer
<1>2. \A f \in Executions \ {e} : run[f].pc = "idle"
  BY <1>1 DEF HonestInv, OneAtATime
<1>3. /\ OneAtATime' /\ run'[e] = Idle
      /\ \A f \in Executions \ {e} : ExecutionInv(f)'
  BY <1>2, OneMoves DEF HonestInv, SaveCheckpoint
<1>4. ExecutionInv(e)'
  BY <1>3 DEF ExecutionInv, Idle, At
<1>5. /\ etag' = Coalesce(run[e].etag, etag)
      /\ UNCHANGED <<upstream, resources, resource_assets, files>>
  BY DEF SaveCheckpoint
<1>6. CASE etag' = etag
  BY <1>3, <1>4, <1>5, <1>6 DEF HonestInv, From, Honest, UpToDate
<1>7. ASSUME etag' # etag PROVE HonestInv'
  <2>1. v # 0 /\ Writing(e, v)
    BY <1>1, <1>5, <1>7 DEF HonestInv, ExecutionInv, Coalesce
  <2>2. etag' = Validator[v] /\ etag' # NULL
    BY <1>5, <1>7, <2>1 DEF Writing, Coalesce
  <2>3. upstream \in 1..LastVersion /\ v \in 1..upstream
    BY <2>1 DEF TypeOK, Versions, Writing
  <2>4. From(etag, upstream)'
    BY <1>5, <2>2, <2>3 DEF From
  <2>5. etag' = Validator[upstream] => v = upstream
    <3>1. v \in Versions /\ upstream \in Versions
      BY <2>3, DeliveryAssumption DEF Versions
    <3> QED
      BY <2>2, <3>1 DEF DistinctValidators
  <2>6. ASSUME v = upstream PROVE UpToDate'
    <3>1. \A i \in DOMAIN Feed[v] : resources[i] = Feed[v][i]
      BY <1>1, <2>1 DEF Writing, Recorded
    <3>2. \A i \in DOMAIN Media[v] : i # NULL /\ i \in Items
                                       /\ Media[v][i] # NULL
      BY <2>3, DeliveryAssumption DEF Versions
    <3>3. \A i \in DOMAIN Media[v] : /\ files[i] = Media[v][i]
                                    /\ resource_assets[i] = Media[v][i]
      BY <1>1, <2>1, <2>6, <3>2 DEF Writing, Kept
    <3> QED
      BY <1>5, <2>6, <3>1, <3>3 DEF UpToDate
  <2>7. Honest'
    BY <1>5, <2>5, <2>6 DEF Honest
  <2> QED
    BY <1>3, <1>4, <2>4, <2>7 DEF HonestInv
<1> QED
  BY <1>6, <1>7

LEMMA FailStep ==
    ASSUME TypeOK, HonestInv, NEW e \in Executions, Fail(e)
    PROVE  HonestInv'
<1>1. \A f \in Executions \ {e} : run[f].pc = "idle"
  BY DEF HonestInv, OneAtATime, Fail
<1>2. /\ OneAtATime' /\ run'[e] = Idle
      /\ \A f \in Executions \ {e} : ExecutionInv(f)'
  BY <1>1, OneMoves DEF HonestInv, Fail, Ended
<1>3. ExecutionInv(e)'
  BY <1>2 DEF ExecutionInv, Idle, At
<1> QED
  BY <1>2, <1>3 DEF HonestInv, From, Honest, UpToDate, Fail, tables

\* Where the executions of a source do not overlap and no version returns
\* under an earlier one's ETag, a "not modified" hides nothing, whatever fails
\* and when, for every feed and every batch size.
THEOREM Honesty ==
    ASSUME Exclusive, DistinctValidators
    PROVE  Spec => []NotModifiedIsHonest
<1>1. TypeOK /\ HonestInv /\ [Next]_vars => HonestInv'
  <2>1. ASSUME TypeOK, HonestInv, UNCHANGED vars PROVE HonestInv'
    BY <2>1 DEF vars, tables, HonestInv, OneAtATime, From, ExecutionInv,
                Writing, Recorded, Kept, Honest, UpToDate
  <2> QED
    BY <2>1, PublishIsNoticed, ExecuteStep, FetchStep, EmitStep, FlushStep,
       StoreStep, WriteAssetsStep, SaveStep, FailStep DEF Next
<1>2. HonestInv => NotModifiedIsHonest
  BY DEF HonestInv, Honest, NotModifiedIsHonest
<1> QED
  BY HonestInvInit, TypeCorrect, <1>1, <1>2, PTL DEF Spec
=============================================================================
