------------------------------ MODULE RootSchema ------------------------------
(***************************************************************************)
(* The root catalog of sekas (server/src/root/schema.rs).  The catalog is  *)
(* a flat key-value store (RootStore) holding system collections: meta     *)
(* counters, databases, collections, nodes, groups and replica states.     *)
(* Every public method of Schema is a sequence of awaits on the store;     *)
(* concurrent root RPC handlers (Procs) run these methods interleaved,     *)
(* one store call per step.  A store write may fail without applying.      *)
(***************************************************************************)
EXTENDS Naturals, FiniteSets, TLC

CONSTANTS
    Procs,        \* concurrent root handlers calling Schema methods
    Names,        \* database and collection names
    ClusterIds,   \* cluster ids passed to try_bootstrap
    Ops,          \* Schema methods the handlers call
    MaxCalls      \* bound on the number of calls in a behaviour

(* Ids fixed by bootstrap.rs (not under src/).  Only their distinctness   *)
(* from allocated ids matters: each counter starts one above them.        *)
RootSuperCollectionId == 0
RootGroupId == 0
RootShardId == 0
FirstNodeId == 0
FirstReplicaId == 0
SystemDatabaseId == 1

(* The six system collections and their ids, ROOT_SUPER_COLLECTION_ID + 1.. *)
SystemCollectionOffset == [collection |-> 1, database |-> 2, meta |-> 3,
                           node |-> 4, group |-> 5, replica_state |-> 6]
SystemCollectionId(n) == RootSuperCollectionId + SystemCollectionOffset[n]

(* A catalog key: data_key(collection, key).  The key bytes are kept as  *)
(* <<layout, u64, u64, string>>: a name (as_bytes), an id (to_le_bytes),  *)
(* collection_key (id then name) or replica_key (two ids).  Byte strings *)
(* of different layouts differ, so no two layouts collide.               *)
Key(c, k) == [c |-> c, k |-> k]
NameBytes(n) == <<"str", 0, 0, n>>
IdBytes(i) == <<"u64", i, 0, "">>
collection_key(databaseId, name) == <<"u64+str", databaseId, 0, name>>
replica_key(groupId, replicaId) == <<"u64+u64", groupId, replicaId, "">>

VARIABLES
    store,      \* RootStore: catalog key -> value
    created,    \* shards created on groups by RootStore::create_shard
    pc,         \* per handler: the await it is at
    loc,        \* per handler: the locals of the running method
    calls,      \* number of calls started (bounded by MaxCalls)
    dbDeleted,  \* names whose delete_database returned Ok (history)
    lastEvents  \* the last list_all_events result and the catalog it read

vars == <<store, created, pc, loc, calls, dbDeleted, lastEvents>>

NoLoc == [op |-> "none", name |-> "none", idType |-> "none", id |-> 0,
          ret |-> "none", collId |-> 0, parent |-> 0, group |-> 0, shards |-> {}]

-----------------------------------------------------------------------------
(* Store helpers: PutBatchBuilder batches applied by RootStore::batch_write *)

Put(st, batch) == [x \in DOMAIN st \cup DOMAIN batch |->
                      IF x \in DOMAIN batch THEN batch[x] ELSE st[x]]
Delete(st, key) == [x \in DOMAIN st \ {key} |-> st[x]]
KeysOf(c) == {x \in DOMAIN store : x.c = c}

put_meta(k, v) == Key("meta", NameBytes(k)) :> v
put_database(d) == Key("database", NameBytes(d.name)) :> d
put_collection_by_id(d) == Key("collection", collection_key(d.id, d.name)) :> d
put_collection(d) == Key("collection", collection_key(d.parent, d.name)) :> d
put_node(d) == Key("node", IdBytes(d.id)) :> d
put_group(d) == Key("group", IdBytes(d.id)) :> d
put_replica_state(g, r) == Key("replica_state", replica_key(g, r)) :> "Leader"

(* init_system_collections: puts the six system collection descriptors   *)
(* and returns the first id left for user collections.                   *)
InitSystemCollections ==
    [x \in {Key("collection", collection_key(SystemDatabaseId, n))
              : n \in DOMAIN SystemCollectionOffset} |->
        [id |-> SystemCollectionId(x.k[4]), name |-> x.k[4], parent |-> SystemDatabaseId]]
InitSystemCollectionsNextIdOffByOne ==
    SystemCollectionId("replica_state")
InitSystemCollectionsNextId ==
    SystemCollectionId("replica_state") + 1

(* init_meta_collection: the cluster id and the first free id of each kind. *)
InitMetaCollection(cid) ==
    put_meta("cluster_id", cid)
      @@ put_meta("database_id", SystemDatabaseId + 1)
      @@ put_meta("collection_id", InitSystemCollectionsNextId)
      @@ put_meta("group_id", RootGroupId + 1)
      @@ put_meta("node_id", FirstNodeId + 1)
      @@ put_meta("replica_id", FirstReplicaId + 1)
      @@ put_meta("shard_id", RootShardId + 1)

(* The whole batch written by try_bootstrap. *)
BootstrapBatch(cid) ==
    InitSystemCollections
      @@ InitMetaCollection(cid)
      @@ put_database([id |-> SystemDatabaseId, name |-> "__system__"])
      @@ put_node([id |-> FirstNodeId])
      @@ put_group([id |-> RootGroupId, shards |-> {RootShardId}])
      @@ put_replica_state(RootGroupId, FirstReplicaId)

-----------------------------------------------------------------------------
(* Handler steps.  Idle handlers start a call; every other step is one    *)
(* await of the running method on the store.                              *)

Idle(p) == pc[p] = "idle"
Return(p) == pc' = [pc EXCEPT ![p] = "idle"] /\ loc' = [loc EXCEPT ![p] = NoLoc]
Goto(p, l) == pc' = [pc EXCEPT ![p] = l]
(* A method that is a single store call: the call and the await are one step. *)
StartAtomic(p, o) ==
    /\ Idle(p) /\ o \in Ops /\ calls < MaxCalls
    /\ calls' = calls + 1
    /\ UNCHANGED <<pc, loc>>
Start(p, o, l, locals) ==
    /\ Idle(p) /\ o \in Ops /\ calls < MaxCalls
    /\ calls' = calls + 1
    /\ Goto(p, l)
    /\ loc' = [loc EXCEPT ![p] = locals @@ [NoLoc EXCEPT !.op = o]]

(* next_id(id_type): get_meta, then a batch write of the counter plus one; *)
(* the caller continues at loc.ret with the id in loc.id.                  *)
NextIdRead(p) ==
    LET k == Key("meta", NameBytes(loc[p].idType)) IN
    /\ pc[p] = "next_read"
    /\ \/ /\ k \notin DOMAIN store                 \* InvalidData: no counter
          /\ Return(p)
       \/ /\ k \in DOMAIN store
          /\ Goto(p, "next_write")
          /\ loc' = [loc EXCEPT ![p].id = store[k]]
    /\ UNCHANGED <<store, created, calls, dbDeleted, lastEvents>>

NextIdWrite(p) ==
    put_meta(loc[p].idType, loc[p].id + 1)

NextIdPut(p) ==
    /\ pc[p] = "next_write"
    /\ \/ /\ store' = Put(store, NextIdWrite(p))
          /\ Goto(p, loc[p].ret)
          /\ UNCHANGED loc
       \/ /\ Return(p) /\ UNCHANGED store          \* batch_write failed
    /\ UNCHANGED <<created, calls, dbDeleted, lastEvents>>

(* create_database: next_id, then put the descriptor under its name. *)
CreateDatabase(p) ==
    \E n \in Names :
        /\ Start(p, "CreateDatabase", "next_read",
                 [name |-> n, idType |-> "database_id", ret |-> "db_put"])
        /\ UNCHANGED <<store, created, dbDeleted, lastEvents>>

DatabasePut(p) ==
    /\ pc[p] = "db_put"
    /\ \/ /\ store' = Put(store, put_database([id |-> loc[p].id, name |-> loc[p].name]))
          /\ dbDeleted' = dbDeleted \ {loc[p].name}
       \/ UNCHANGED <<store, dbDeleted>>
    /\ Return(p)
    /\ UNCHANGED <<created, calls, lastEvents>>

(* delete_database: get_database by name, then delete the key id.to_le_bytes(). *)
DeleteDatabase(p) ==
    \E n \in Names :
        /\ Start(p, "DeleteDatabase", "dbdel_get", [name |-> n])
        /\ UNCHANGED <<store, created, dbDeleted, lastEvents>>

DatabaseDeleteGet(p) ==
    LET k == Key("database", NameBytes(loc[p].name)) IN
    /\ pc[p] = "dbdel_get"
    /\ \/ /\ k \notin DOMAIN store /\ Return(p)    \* DatabaseNotFound
       \/ /\ k \in DOMAIN store
          /\ Goto(p, "dbdel_delete")
          /\ loc' = [loc EXCEPT ![p].id = store[k].id]
    /\ UNCHANGED <<store, created, calls, dbDeleted, lastEvents>>

DatabaseDelete(p) ==
    /\ pc[p] = "dbdel_delete"
    /\ \/ /\ store' = Delete(store, Key("database", IdBytes(loc[p].id)))
          /\ dbDeleted' = dbDeleted \cup {loc[p].name}
       \/ UNCHANGED <<store, dbDeleted>>
    /\ Return(p)
    /\ UNCHANGED <<created, calls, lastEvents>>

(* add_node: next_id, then put the node descriptor under its id. *)
AddNode(p) ==
    /\ Start(p, "AddNode", "next_read", [idType |-> "node_id", ret |-> "node_put"])
    /\ UNCHANGED <<store, created, dbDeleted, lastEvents>>

NodePut(p) ==
    /\ pc[p] = "node_put"
    /\ \/ store' = Put(store, put_node([id |-> loc[p].id]))
       \/ UNCHANGED store
    /\ Return(p)
    /\ UNCHANGED <<created, calls, dbDeleted, lastEvents>>

(* create_collection: next_id for the collection; create_collection_shard *)
(* (next_id for the shard, RootStore::create_shard); get_group of the     *)
(* group holding the shard, extended by the shard; one batch write of the *)
(* collection and the group descriptors.                                  *)
CreateCollection(p) ==
    \E n \in Names, d \in {store[k].id : k \in KeysOf("database")} :
        /\ Start(p, "CreateCollection", "next_read",
                 [name |-> n, parent |-> d, idType |-> "collection_id", ret |-> "coll_shard_id"])
        /\ UNCHANGED <<store, created, dbDeleted, lastEvents>>

CollectionShardId(p) ==
    /\ pc[p] = "coll_shard_id"
    /\ Goto(p, "next_read")
    /\ loc' = [loc EXCEPT ![p].collId = loc[p].id, ![p].idType = "shard_id",
                          ![p].ret = "coll_create_shard"]
    /\ UNCHANGED <<store, created, calls, dbDeleted, lastEvents>>

(* RootStore::create_shard places the shard on a group of the catalog. *)
CollectionCreateShard(p) ==
    /\ pc[p] = "coll_create_shard"
    /\ \/ \E k \in KeysOf("group") :
             /\ created' = created \cup {[id |-> loc[p].id, parent |-> loc[p].collId, group |-> k.k[2]]}
             /\ Goto(p, "coll_get_group")
             /\ loc' = [loc EXCEPT ![p].group = k.k[2]]
       \/ /\ Return(p) /\ UNCHANGED created
    /\ UNCHANGED <<store, calls, dbDeleted, lastEvents>>

CollectionGetGroupDropShard(p) ==
    store[Key("group", IdBytes(loc[p].group))].shards
CollectionGetGroup(p) ==
    store[Key("group", IdBytes(loc[p].group))].shards \cup {loc[p].id}

(* get_group(group_id).await?.unwrap(): the handler panics if the group  *)
(* is no longer in the catalog.                                           *)
CollectionGroupRead(p) ==
    /\ pc[p] = "coll_get_group"
    /\ IF Key("group", IdBytes(loc[p].group)) \in DOMAIN store
       THEN /\ Goto(p, "coll_write")
            /\ loc' = [loc EXCEPT ![p].shards = CollectionGetGroup(p)]
       ELSE /\ Goto(p, "panicked")
            /\ UNCHANGED loc
    /\ UNCHANGED <<store, created, calls, dbDeleted, lastEvents>>

CollectionWrite(p) ==
    LET d == [id |-> loc[p].collId, name |-> loc[p].name, parent |-> loc[p].parent] IN
    /\ pc[p] = "coll_write"
    /\ \/ store' = Put(store, put_collection(d)
                            @@ put_group([id |-> loc[p].group, shards |-> loc[p].shards]))
       \/ UNCHANGED store
    /\ Return(p)
    /\ UNCHANGED <<created, calls, dbDeleted, lastEvents>>

(* delete_collection(desc): deletes the key collection.id.to_le_bytes(). *)
DeleteCollection(p) ==
    \E k \in KeysOf("collection") :
        /\ StartAtomic(p, "DeleteCollection")
        /\ \/ store' = Delete(store, Key("collection", IdBytes(store[k].id)))
           \/ UNCHANGED store
        /\ UNCHANGED <<created, dbDeleted, lastEvents>>

(* delete_node(id): deletes the node descriptor under id.to_le_bytes(). *)
DeleteNode(p) ==
    \E k \in KeysOf("node") :
        /\ StartAtomic(p, "DeleteNode")
        /\ \/ store' = Delete(store, Key("node", IdBytes(store[k].id)))
           \/ UNCHANGED store
        /\ UNCHANGED <<created, dbDeleted, lastEvents>>

(* delete_group(id): deletes the group descriptor; the replica states of  *)
(* the group stay (TODO in the code).                                     *)
DeleteGroup(p) ==
    \E k \in KeysOf("group") :
        /\ StartAtomic(p, "DeleteGroup")
        /\ \/ store' = Delete(store, Key("group", IdBytes(store[k].id)))
           \/ UNCHANGED store
        /\ UNCHANGED <<created, dbDeleted, lastEvents>>

(* The list_* reads of list_all_events, each a store list of one system  *)
(* collection decoded as its descriptor type.                             *)
ListDatabase == {store[k] : k \in KeysOf("database")}

(* list_collection lists SYSTEM_DATABASE_COLLECTION_ID and decodes each  *)
(* value as a CollectionDesc: the DatabaseDesc fields id and name decode  *)
(* into the same fields, parent_id is absent (0).                         *)
ListCollectionDescs ==
    {[id |-> store[k].id, name |-> store[k].name, parent |-> 0] : k \in KeysOf("database")}

ListGroup == {store[k] : k \in KeysOf("group")}

(* list_group_state folds the replica states into one GroupState per     *)
(* group id found among them.                                            *)
ListGroupStateGroups == {k.k[2] : k \in KeysOf("replica_state")}

(* list_all_events: the Database, Collection, Group and GroupState events *)
(* a new watcher receives.  Its four store lists are one step: the runs   *)
(* that call it have a single handler, so no write falls between them.    *)
ListAllEvents(p) ==
    /\ StartAtomic(p, "ListAllEvents")
    /\ lastEvents' = [databases   |-> ListDatabase,
                      got         |-> ListCollectionDescs,
                      stored      |-> {store[k] : k \in KeysOf("collection")},
                      groups      |-> {g.id : g \in ListGroup},
                      stateGroups |-> ListGroupStateGroups]
    /\ UNCHANGED <<store, created, dbDeleted>>

(* try_bootstrap: cluster_id, then the whole bootstrap batch if absent. *)
TryBootstrap(p) ==
    \E c \in ClusterIds :
        /\ Start(p, "TryBootstrap", "boot_check", [name |-> c])
        /\ UNCHANGED <<store, created, dbDeleted, lastEvents>>

BootstrapCheck(p) ==
    LET k == Key("meta", NameBytes("cluster_id")) IN
    /\ pc[p] = "boot_check"
    /\ \/ /\ k \in DOMAIN store /\ Return(p)   \* Ok, or ClusterNotMatch
       \/ /\ k \notin DOMAIN store /\ Goto(p, "boot_write") /\ UNCHANGED loc
    /\ UNCHANGED <<store, created, calls, dbDeleted, lastEvents>>

BootstrapWrite(p) ==
    /\ pc[p] = "boot_write"
    /\ \/ store' = Put(store, BootstrapBatch(loc[p].name))
       \/ UNCHANGED store
    /\ Return(p)
    /\ UNCHANGED <<created, calls, dbDeleted, lastEvents>>

-----------------------------------------------------------------------------
Init ==
    /\ store = <<>>
    /\ created = {}
    /\ pc = [p \in Procs |-> "idle"]
    /\ loc = [p \in Procs |-> NoLoc]
    /\ calls = 0
    /\ dbDeleted = {}
    /\ lastEvents = [databases |-> {}, got |-> {}, stored |-> {}, groups |-> {},
                    stateGroups |-> {}]

Call(p) ==
    \/ TryBootstrap(p) \/ CreateDatabase(p) \/ DeleteDatabase(p) \/ AddNode(p)
    \/ CreateCollection(p) \/ DeleteCollection(p) \/ ListAllEvents(p)
    \/ DeleteNode(p) \/ DeleteGroup(p)

Await(p) ==
    \/ NextIdRead(p) \/ NextIdPut(p) \/ DatabasePut(p) \/ DatabaseDeleteGet(p)
    \/ DatabaseDelete(p) \/ NodePut(p) \/ CollectionShardId(p)
    \/ CollectionCreateShard(p) \/ CollectionGroupRead(p) \/ CollectionWrite(p)
    \/ BootstrapCheck(p) \/ BootstrapWrite(p)

Next == \E p \in Procs : Call(p) \/ Await(p)

Spec == Init /\ [][Next]_vars /\ \A p \in Procs : WF_vars(Await(p))

-----------------------------------------------------------------------------
(* Properties *)

Labels == {"idle", "next_read", "next_write", "db_put", "dbdel_get", "dbdel_delete",
           "node_put", "coll_shard_id", "coll_create_shard", "coll_get_group",
           "coll_write", "boot_check", "boot_write", "panicked"}

TypeOK ==
    /\ pc \in [Procs -> Labels]
    /\ \A p \in Procs : loc[p].id \in Nat /\ loc[p].shards \subseteq Nat
    /\ \A k \in DOMAIN store : k.c \in DOMAIN SystemCollectionOffset
    \* every descriptor is stored under the key its put_* derives from it
    /\ \A k \in KeysOf("database") : k.k = NameBytes(store[k].name)
    /\ \A k \in KeysOf("collection") : k.k = collection_key(store[k].parent, store[k].name)
    /\ \A k \in KeysOf("node") \cup KeysOf("group") : k.k = IdBytes(store[k].id)
    /\ calls \in 0..MaxCalls
    /\ dbDeleted \subseteq Names
    /\ \A s \in created : s.id \in Nat /\ s.parent \in Nat

(* Ids allocated by next_id never collide with each other nor with the    *)
(* ids try_bootstrap gives the system database, collections, root node   *)
(* and root shard: stored descriptors of one kind have distinct ids, and  *)
(* RootStore::create_shard never receives an id twice.                   *)
IdsUnique ==
    /\ \A c \in {"database", "collection", "node"} :
         \A k1, k2 \in KeysOf(c) : k1 # k2 => store[k1].id # store[k2].id
    /\ \A s1, s2 \in created : s1 # s2 => s1.id # s2.id
    /\ \A s \in created : s.id # RootShardId

StoredCollectionIds == {store[k].id : k \in KeysOf("collection")}

(* Once create_collection has written a collection, the group descriptor *)
(* in the catalog, while the group is there, lists the shard              *)
(* create_collection_shard made for it (the get_group / extend /          *)
(* put_group of create_collection).                                       *)
CollectionShardsRecorded ==
    \A s \in created :
        LET g == Key("group", IdBytes(s.group)) IN
        s.parent \in StoredCollectionIds /\ g \in DOMAIN store => s.id \in store[g].shards

(* A delete reaches what it deletes: after delete_database(name)        *)
(* returns Ok, and until create_database(name) writes it again, the      *)
(* database cannot be read back under its name (get_database, which      *)
(* list_all_events and create_collection rely on).                        *)
DeletedDatabaseGone ==
    \A n \in dbDeleted : Key("database", NameBytes(n)) \notin DOMAIN store

====
