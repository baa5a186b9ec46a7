---------------------------- MODULE SnapshotCreate ----------------------------
(***************************************************************************)
(* Creation of a raft snapshot on disk (server/src/raftgroup/snap/        *)
(* create.rs) under crashes.  create_snapshot checkpoints the state       *)
(* machine into DATA of a fresh snapshot directory, then                  *)
(* stable_snapshot_meta writes META through a temporary file: write TEMP, *)
(* sync it, rename it to META, sync the directory; only then is the       *)
(* snapshot installed in the SnapManager, after which raft may use it in  *)
(* place of the log it covers.                                            *)
(*                                                                         *)
(* The file system keeps a cached and a durable view of each directory:   *)
(* its entries (name -> inode) and the contents of its inodes.  sync_all  *)
(* of a file makes its inode durable, sync_all of the directory makes its *)
(* entries durable.  A crash keeps the durable view, plus any subset of   *)
(* the cached changes not yet synced, a file's contents possibly torn.    *)
(***************************************************************************)
EXTENDS Naturals, FiniteSets

CONSTANTS
    Dirs,       \* snapshot directories SnapManager::create hands out
    MaxCrashes  \* bound on crashes in a behaviour

Names == {"data", "temp", "meta"}        \* SNAP_DATA, SNAP_TEMP, SNAP_META
Inodes == {"dataIno", "metaIno"}          \* the checkpoint and the meta file
NoInode == "none"
Contents == {"empty", "torn", "full"}

VARIABLES
    pc,         \* step of the running create_snapshot task
    dir,        \* its snapshot directory
    entC, entD, \* per directory: cached and durable entries, name -> inode
    inoC, inoD, \* per directory: cached and durable inode contents
    installed,  \* directories installed by SnapManager::install
    crashes     \* crashes so far

vars == <<pc, dir, entC, entD, inoC, inoD, installed, crashes>>

NoEntries == [n \in Names |-> NoInode]
NoInodes == [i \in Inodes |-> "empty"]

Used == {d \in Dirs : entC[d] # NoEntries \/ d \in installed}

SetEntry(d, n, i) == entC' = [entC EXCEPT ![d][n] = i]
SetInode(d, i, c) == inoC' = [inoC EXCEPT ![d][i] = c]

-----------------------------------------------------------------------------
(* dispatch_creating_snap_task spawns create_snapshot; snap_mgr.create    *)
(* gives a new directory.                                                 *)
CreateSnapshot ==
    /\ pc = "idle"
    /\ \E d \in Dirs \ Used :
        /\ dir' = d
        /\ pc' = "checkpoint"
    /\ UNCHANGED <<entC, entD, inoC, inoD, installed, crashes>>

(* builder.checkpoint(&data): the state machine writes DATA and makes it  *)
(* durable (the checkpoint is not under src/); then the files of DATA are *)
(* read for their size and crc32 (read_file_meta).                        *)
Checkpoint ==
    /\ pc = "checkpoint"
    /\ entC' = [entC EXCEPT ![dir]["data"] = "dataIno"]
    /\ entD' = [entD EXCEPT ![dir]["data"] = "dataIno"]
    /\ inoC' = [inoC EXCEPT ![dir]["dataIno"] = "full"]
    /\ inoD' = [inoD EXCEPT ![dir]["dataIno"] = "full"]
    /\ pc' = "write_temp"
    /\ UNCHANGED <<dir, installed, crashes>>

(* A step of stable_snapshot_meta that returns an io error: the task      *)
(* logs it and sends CreateSnapshotFinished; the directory is left as is. *)
StepFails ==
    /\ pc \in {"checkpoint", "write_temp", "sync_temp", "rename", "sync_dir"}
    /\ pc' = "idle"
    /\ UNCHANGED <<dir, entC, entD, inoC, inoD, installed, crashes>>

(* open(TEMP, create, truncate) and write_all(content). *)
WriteTemp ==
    /\ pc = "write_temp"
    /\ SetEntry(dir, "temp", "metaIno")
    /\ SetInode(dir, "metaIno", "full")
    /\ pc' = "sync_temp"
    /\ UNCHANGED <<dir, entD, inoD, installed, crashes>>

(* file.sync_all(): the contents of TEMP are durable. *)
SyncTempSkipped ==
    /\ UNCHANGED inoD
SyncTemp ==
    /\ inoD' = [inoD EXCEPT ![dir]["metaIno"] = inoC[dir]["metaIno"]]

SyncTempStep ==
    /\ pc = "sync_temp"
    /\ SyncTemp
    /\ pc' = "rename"
    /\ UNCHANGED <<dir, entC, entD, inoC, installed, crashes>>

(* std::fs::rename(tmp, meta). *)
RenameEntriesAsCopy(e) == [e EXCEPT !["meta"] = e["temp"]]
RenameEntries(e) == [e EXCEPT !["meta"] = e["temp"], !["temp"] = NoInode]

Rename ==
    /\ pc = "rename"
    /\ entC' = [entC EXCEPT ![dir] = RenameEntries(@)]
    /\ pc' = "sync_dir"
    /\ UNCHANGED <<dir, entD, inoC, inoD, installed, crashes>>

(* File::open(base_dir)?.sync_all(): the entries of the directory are durable. *)
SyncDirSkipped ==
    /\ UNCHANGED entD
SyncDir ==
    /\ entD' = [entD EXCEPT ![dir] = entC[dir]]

SyncDirStep ==
    /\ pc = "sync_dir"
    /\ SyncDir
    /\ pc' = "install"
    /\ UNCHANGED <<dir, entC, inoC, inoD, installed, crashes>>

(* snap_mgr.install: the snapshot becomes visible to raft. *)
Install ==
    /\ pc = "install"
    /\ installed' = installed \cup {dir}
    /\ pc' = "idle"
    /\ UNCHANGED <<dir, entC, entD, inoC, inoD, crashes>>

(* A crash and restart.  Each cached entry not yet durable may or may not *)
(* have reached the disk; so may each cached inode, possibly torn.  The   *)
(* running task is gone; the disk is what the restarted node sees.        *)
Persisted(cached, durable, values) ==
    {f \in [DOMAIN cached -> values] :
        \A x \in DOMAIN cached : f[x] \in {cached[x], durable[x]}}
TornPersisted(cached, durable) ==
    {f \in [DOMAIN cached -> Contents] :
        \A x \in DOMAIN cached :
            f[x] \in IF cached[x] = durable[x] THEN {durable[x]}
                     ELSE {cached[x], durable[x], "torn"}}

Crash ==
    /\ crashes < MaxCrashes
    /\ crashes' = crashes + 1
    /\ \E e \in [Dirs -> [Names -> Inodes \cup {NoInode}]],
          i \in [Dirs -> [Inodes -> Contents]] :
        /\ \A d \in Dirs : e[d] \in Persisted(entC[d], entD[d], Inodes \cup {NoInode})
                        /\ i[d] \in TornPersisted(inoC[d], inoD[d])
        /\ entD' = e /\ entC' = e
        /\ inoD' = i /\ inoC' = i
    /\ pc' = "idle"
    /\ UNCHANGED <<dir, installed>>

-----------------------------------------------------------------------------
Init ==
    /\ pc = "idle"
    /\ dir = CHOOSE d \in Dirs : TRUE
    /\ entC = [d \in Dirs |-> NoEntries]
    /\ entD = [d \in Dirs |-> NoEntries]
    /\ inoC = [d \in Dirs |-> NoInodes]
    /\ inoD = [d \in Dirs |-> NoInodes]
    /\ installed = {}
    /\ crashes = 0

Next ==
    \/ CreateSnapshot \/ Checkpoint \/ StepFails \/ WriteTemp \/ SyncTempStep
    \/ Rename \/ SyncDirStep \/ Install \/ Crash

Spec == Init /\ [][Next]_vars

-----------------------------------------------------------------------------
(* Properties *)

TypeOK ==
    /\ pc \in {"idle", "checkpoint", "write_temp", "sync_temp", "rename", "sync_dir", "install"}
    /\ dir \in Dirs
    /\ entC \in [Dirs -> [Names -> Inodes \cup {NoInode}]]
    /\ entD \in [Dirs -> [Names -> Inodes \cup {NoInode}]]
    /\ inoC \in [Dirs -> [Inodes -> Contents]]
    /\ inoD \in [Dirs -> [Inodes -> Contents]]
    /\ installed \subseteq Dirs
    /\ crashes \in 0..MaxCrashes
    \* a rename moves the inode: no two names of a directory share one
    /\ \A d \in Dirs, n1, n2 \in Names :
         n1 # n2 /\ entC[d][n1] # NoInode => entC[d][n1] # entC[d][n2]

(* Whatever a crash leaves, a META found on disk is complete and its DATA *)
(* is there: the write-temp / sync / rename order of stable_snapshot_meta *)
(* never exposes a torn or empty META under its final name.               *)
MetaOnDiskComplete ==
    \A d \in Dirs :
        entD[d]["meta"] # NoInode =>
            /\ inoD[d][entD[d]["meta"]] = "full"
            /\ entD[d]["data"] = "dataIno" /\ inoD[d]["dataIno"] = "full"

(* A snapshot, once installed (raft may then drop the log it covers),    *)
(* keeps its META on disk across any crash: the directory sync of        *)
(* stable_snapshot_meta precedes SnapManager::install.                   *)
InstalledSnapshotDurable ==
    \A d \in installed : entD[d]["meta"] = "metaIno" /\ inoD[d]["metaIno"] = "full"

====
