------------------------------ MODULE Delivery ------------------------------
(***************************************************************************)
(* The way of a feed's records and enclosures into the database and the    *)
(* asset store: TaskExecutor.execute (services/worker, executor.py), the   *)
(* PostgresSink it writes to (sink.py), LocalAssetStore (assets.py) and    *)
(* the conditional request of the built-in RSS fetcher.  The upstream feed *)
(* moves through its versions meanwhile, and an execution may fail or be   *)
(* killed between any two of its transactions and files.                   *)
(*                                                                         *)
(* The state is that of one source.  A record's content stands for all     *)
(* that _content_hash covers, the bytes of an asset for their checksum.    *)
(* An item has at most one enclosure, which keeps its URL.                 *)
(***************************************************************************)
EXTENDS Integers, FiniteSets

CONSTANTS
    Items,          \* external ids
    Contents,
    Feed,           \* Feed[v]: the contents of the items that version v lists
    Media,          \* Media[v]: the bytes served for the items' enclosures
    Bytes,
    Validator,      \* the ETag served with each version, NULL if none
    LastVersion,
    BatchSize,      \* 100 records, 100 assets
    Executions,     \* children that may execute the source at the same time
    Exclusive,      \* the source's tasks never overlap
    NULL

VARIABLES
    upstream,           \* the version the feed serves
    resources,          \* current content by external id, NULL without a row
    resource_versions,  \* the contents kept of each item
    etag,               \* fetch_states.etag
    files,              \* the asset store: the bytes at each item's path
    resource_assets,    \* the bytes whose checksum the asset's row has
    run                 \* the state of each execution

tables == <<resources, resource_versions, etag, resource_assets>>
vars == <<upstream, tables, files, run>>

Versions == 1..LastVersion

ASSUME DeliveryAssumption ==
    /\ LastVersion \in Nat \ {0} /\ BatchSize \in Nat \ {0}
    /\ Exclusive \in BOOLEAN
    /\ NULL \notin Contents \cup Bytes \cup Items
    /\ \A v \in Versions : DOMAIN Feed[v] \subseteq Items
                           /\ \A i \in DOMAIN Feed[v] : Feed[v][i] \in Contents
    /\ \A v \in Versions : DOMAIN Media[v] \subseteq DOMAIN Feed[v]
                           /\ \A i \in DOMAIN Media[v] : Media[v][i] \in Bytes
    /\ DOMAIN Validator = Versions

Optional(S) == S \cup {NULL}
Validators == {Validator[v] : v \in Versions}

Coalesce(x, y) == IF x # NULL THEN x ELSE y

\* Where an execution is, the ETag of its checkpoint, the version it fetched,
\* the items the fetcher has not emitted yet, the records in the buffer, the
\* item whose enclosure is being downloaded and the assets in their buffer.
At(pc, tag, version, left) ==
    [pc |-> pc, etag |-> tag, version |-> version, left |-> left,
     records |-> {}, current |-> NULL, assets |-> [i \in Items |-> NULL]]

Idle == At("idle", NULL, 0, {})

-----------------------------------------------------------------------------
(* The fetch *)

\* load_checkpoint, at the head of an execution.
Execute(e) ==
    /\ run[e].pc = "idle"
    /\ Exclusive => \A f \in Executions : run[f].pc = "idle"
    /\ run' = [run EXCEPT ![e] = At("loaded", etag, 0, {})]
    /\ UNCHANGED <<upstream, tables, files>>

\* The server answers 304 to the validator that was loaded.
NotModified(e) == run[e].etag # NULL /\ run[e].etag = Validator[upstream]

\* 304: nothing is emitted and the checkpoint stays what it was.
FetchNotModified(e) ==
    /\ run[e].pc = "loaded" /\ NotModified(e)
    /\ run' = [run EXCEPT ![e] = At("writing", run[e].etag, 0, {})]
    /\ UNCHANGED <<upstream, tables, files>>

\* 200: the items of the present version are to be emitted, and the next
\* checkpoint has its ETag, or the old one if it has none.
FetchModified(e) ==
    /\ run[e].pc = "loaded" /\ ~NotModified(e)
    /\ run' = [run EXCEPT ![e] =
           At("writing", Coalesce(Validator[upstream], run[e].etag),
              upstream, DOMAIN Feed[upstream])]
    /\ UNCHANGED <<upstream, tables, files>>

-----------------------------------------------------------------------------
(* The buffers *)

InBuffer(e) == {i \in Items : run[e].assets[i] # NULL}
FullRecords(e) == Cardinality(run[e].records) >= BatchSize
FullAssets(e) == Cardinality(InBuffer(e)) >= BatchSize

Emitted(e) == run[e].left = {} /\ run[e].current = NULL

\* emit_record, unless a full buffer is to be written first.
Emit(e, i) ==
    /\ run[e].pc = "writing" /\ run[e].current = NULL /\ i \in run[e].left
    /\ ~FullRecords(e) /\ ~FullAssets(e)
    /\ run' = [run EXCEPT ![e] =
           [@ EXCEPT !.left = run[e].left \ {i},
                     !.records = run[e].records \cup {i},
                     !.current = IF i \in DOMAIN Media[run[e].version] THEN i
                                 ELSE NULL]]
    /\ UNCHANGED <<upstream, tables, files>>

\* Mutant: only an update keeps a version.
VersionsOfUpdates(i, content) ==
    IF resources[i] = NULL THEN {} ELSE resource_versions[i] \cup {content}

\* INSERT INTO resource_versions ... ON CONFLICT DO NOTHING
VersionsWith(i, content) ==
    IF resources[i] = content THEN resource_versions[i]
    ELSE resource_versions[i] \cup {content}

\* flush_records and write_records: one transaction, at the full buffer and
\* after the last record.
Flush(e) ==
    LET content == Feed[run[e].version]
        batch == run[e].records IN
    /\ run[e].pc = "writing" /\ batch # {}
    /\ FullRecords(e) \/ (Emitted(e) /\ ~FullAssets(e))
    /\ resources' = [i \in Items |->
           IF i \in batch THEN content[i] ELSE resources[i]]
    /\ resource_versions' = [i \in Items |->
           IF i \in batch THEN VersionsWith(i, content[i])
           ELSE resource_versions[i]]
    /\ run' = [run EXCEPT ![e] = [@ EXCEPT !.records = {}]]
    /\ UNCHANGED <<upstream, etag, resource_assets, files>>

\* emit_asset: the enclosure is downloaded as it is served by now, and its
\* file written over the one of the same item.
StoreAsset(e) ==
    LET i == run[e].current IN
    /\ run[e].pc = "writing" /\ i # NULL /\ ~FullRecords(e)
    /\ i \in DOMAIN Media[upstream]
    /\ files' = [files EXCEPT ![i] = Media[upstream][i]]
    /\ run' = [run EXCEPT ![e] =
           [@ EXCEPT !.current = NULL, !.assets[i] = Media[upstream][i]]]
    /\ UNCHANGED <<upstream, tables>>

\* Mutant: a row that exists keeps its checksum.
FirstChecksum(i, bytes) ==
    IF resource_assets[i] = NULL THEN bytes ELSE resource_assets[i]

\* INSERT INTO resource_assets ... ON CONFLICT DO UPDATE
AssetRow(i, bytes) == bytes

\* write_assets: one transaction, at the full buffer and at the end.
WriteAssets(e) ==
    /\ run[e].pc = "writing" /\ InBuffer(e) # {}
    /\ FullAssets(e) \/ (Emitted(e) /\ run[e].records = {})
    /\ resource_assets' = [i \in Items |->
           IF i \in InBuffer(e) THEN AssetRow(i, run[e].assets[i])
           ELSE resource_assets[i]]
    /\ run' = [run EXCEPT ![e] = [@ EXCEPT !.assets = [i \in Items |-> NULL]]]
    /\ UNCHANGED <<upstream, resources, resource_versions, etag, files>>

-----------------------------------------------------------------------------
(* The end *)

\* Mutant: the checkpoint does not wait for the assets.
RecordsWritten(e) ==
    run[e].pc = "writing" /\ run[e].left = {} /\ run[e].records = {}

\* The last batches are written.
Written(e) == /\ run[e].pc = "writing" /\ Emitted(e)
              /\ run[e].records = {} /\ InBuffer(e) = {}

\* save_checkpoint keeps the stored ETag when it is given none.
SaveCheckpoint(e) ==
    /\ Written(e)
    /\ etag' = Coalesce(run[e].etag, etag)
    /\ run' = [run EXCEPT ![e] = Idle]
    /\ UNCHANGED <<upstream, resources, resource_versions, resource_assets,
                   files>>

\* The buffers die with the execution.
Ended(e) == Idle

\* A request, a download, a write or the whole process fails; what was written
\* stays, an asset's file without its row as well.
Fail(e) ==
    /\ run[e].pc # "idle"
    /\ run' = [run EXCEPT ![e] = Ended(e)]
    /\ UNCHANGED <<upstream, tables, files>>

\* The feed's owner publishes.
Publish ==
    /\ upstream < LastVersion
    /\ upstream' = upstream + 1
    /\ UNCHANGED <<tables, files, run>>

-----------------------------------------------------------------------------
Init ==
    /\ upstream = 1 /\ etag = NULL
    /\ resources = [i \in Items |-> NULL]
    /\ resource_versions = [i \in Items |-> {}]
    /\ files = [i \in Items |-> NULL]
    /\ resource_assets = [i \in Items |-> NULL]
    /\ run = [e \in Executions |-> Idle]

Next ==
    \/ Publish
    \/ \E e \in Executions :
           \/ Execute(e) \/ FetchNotModified(e) \/ FetchModified(e)
           \/ \E i \in Items : Emit(e, i)
           \/ Flush(e) \/ StoreAsset(e) \/ WriteAssets(e)
           \/ SaveCheckpoint(e)
           \/ Fail(e)

Spec == Init /\ [][Next]_vars

-----------------------------------------------------------------------------
(* What the collector promises of a source *)

RunStates == [pc: {"idle", "loaded", "writing"}, etag: Optional(Validators),
              version: 0..LastVersion, left: SUBSET Items,
              records: SUBSET Items, current: Optional(Items),
              assets: [Items -> Optional(Bytes)]]

\* What is left to write comes from the version that was fetched.
Buffered(state) ==
    /\ state.pc # "writing" => state.left = {} /\ state.records = {}
    /\ state.left \cup state.records # {} =>
           /\ state.version # 0
           /\ state.left \cup state.records \subseteq DOMAIN Feed[state.version]

\* Every variable keeps its type; an execution that ended holds nothing back.
TypeOK ==
    /\ upstream \in Versions
    /\ resources \in [Items -> Optional(Contents)]
    /\ resource_versions \in [Items -> SUBSET Contents]
    /\ etag \in Optional(Validators)
    /\ files \in [Items -> Optional(Bytes)]
    /\ resource_assets \in [Items -> Optional(Bytes)]
    /\ run \in [Executions -> RunStates]
    /\ \A e \in Executions : Buffered(run[e])

\* The content shown for an item is one of its kept versions, through updates,
\* returns to an earlier content and interrupted executions.
VersionsAreTraceable ==
    \A i \in Items : resources[i] # NULL => resources[i] \in resource_versions[i]

UpToDate ==
    /\ \A i \in DOMAIN Feed[upstream] : resources[i] = Feed[upstream][i]
    /\ \A i \in DOMAIN Media[upstream] :
           /\ files[i] = Media[upstream][i]
           /\ resource_assets[i] = Media[upstream][i]

AtRest == \A e \in Executions : run[e].pc = "idle"

\* Between executions, when the server would answer "not modified" to the
\* stored checkpoint, every item it would have served is stored as it is, and
\* every enclosure, in its row and in its file: the checkpoint moves only after
\* the records and assets it covers, and nothing older is written over them.
NotModifiedIsHonest ==
    AtRest /\ etag # NULL /\ etag = Validator[upstream] => UpToDate

\* If executions keep coming to their end, the stored items and enclosures are
\* those of the feed's last version from some moment on.
EventuallyUpToDate ==
    []<><<\E e \in Executions : SaveCheckpoint(e)>>_vars => <>[]UpToDate
=============================================================================
