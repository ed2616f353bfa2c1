------------------------------- MODULE SysMgr -------------------------------
(***************************************************************************)
(* sysmgr's firmware commands: download_ftp_file, firmware_update and      *)
(* get_fmw_version for the backup system, with the scripts they run.       *)
(*                                                                         *)
(* The request thread answers get_fmw_version itself, by running           *)
(* "brdskmgr -b" when the version is not cached.  The worker thread takes  *)
(* the queued downloads and updates one at a time (TaskWorker shows that   *)
(* it does).  So a "brdskmgr -b" and an update can be at work on the other *)
(* root partition together, each mounting it on a directory of its own and *)
(* unmounting it by the name of the device.                                *)
(*                                                                         *)
(* Images are numbered by age.  A client is a user of xmproxy's fmw_update *)
(* or of the command line: a download, then, if that was accepted, an      *)
(* update from the file the download writes.                               *)
(***************************************************************************)
EXTENDS Naturals, Sequences

CONSTANTS
    Client,         \* those who ask for an update, once each
    MaxImage,       \* bound on the images published: the newest one
    MaxReads        \* bound on the runs of "brdskmgr -b"

ASSUME SysMgrAssumption == MaxImage \in Nat \ {0} /\ MaxReads \in Nat

VARIABLES
    newest,         \* the image the download URL leads to
    file,           \* the image in /tmp/uBrBoxRoot.uimg, or NoImage
    work_chain,     \* tasks waiting for the worker
    wrk_pc, task,   \* what the worker is doing, and its task
    image, sts,     \* the update's image, and the exit status it is heading for
    tar_to,         \* where tar is writing
    root,           \* the other root partition: its version, and is it whole
    mounts,         \* who has it mounted
    req_pc,         \* what the request thread is doing
    boot_ver,       \* the version "brdskmgr -b" read, or NoImage
    reads,          \* runs of "brdskmgr -b" so far
    bkup_fmwver_updated,    \* the flag in each SysRpc object
    bkup_fmwver,    \* the cached version, one for all objects (pDataCache)
    client,         \* how far each client has come
    asked,          \* the newest image when the client asked
    got,            \* the image its successful update installed
    kept,           \* those whose download failed and left an earlier file
    clashed,        \* an update and a "brdskmgr -b" had it mounted together
    stale           \* an update reformatted it after the cached version was read

filesVars == <<newest, file>>
wrkVars == <<wrk_pc, task, image, sts, tar_to>>
reqVars == <<req_pc, boot_ver, reads, bkup_fmwver>>
cltVars == <<client, asked, got, kept>>
vars == <<filesVars, work_chain, wrkVars, root, mounts, reqVars,
          bkup_fmwver_updated, cltVars, clashed, stale>>

NoImage == 0        \* no file, or one mkimage -l rejects
Image   == 1..MaxImage
Empty   == [ver |-> NoImage, whole |-> FALSE]
Root    == [ver : Image \cup {NoImage}, whole : BOOLEAN]
NoTask  == [cmd |-> "none"]
Task    == [cmd : {"download", "update"}, client : Client]

\* The SysRpc objects in the order main.cpp attaches them, each with its
\* position in ADJsonRpcMgr's list (the eight NetRpc objects come first).
rpclist ==
    [i \in 8..17 |->
        <<"LoadInfoGet", "MemInfoGet", "CpuInfoGet", "DevOpGet", "DevOpSet",
          "FmwVerGet", "BootSysGet", "FmwUpdateSet", "TftpGet", "FtpGet">>[i - 7]]
SysRpc == {rpclist[i] : i \in 8..17}

\* The position of a command in EJSON_SYSMGR_RPC_TYPES.
EJSON_SYSMGR_RPC_SET_FMWUPDATE == 11

\* The object that runs a queued command: the list is indexed by the command.
getRpcHandler(cmd) == rpclist[cmd]

TypeOK ==
    /\ newest \in Image
    /\ file \in Image \cup {NoImage}
    /\ work_chain \in Seq(Task)
    /\ wrk_pc \in {"idle", "wget", "check", "mkfs", "mkfs_run", "mount", "tar",
                   "tar_run", "sync", "umount", "rm", "flip", "return"}
    /\ task \in Task \cup {NoTask}
    /\ wrk_pc # "idle" => task \in Task
    /\ image \in Image \cup {NoImage}
    /\ sts \in {"ok", "error"}
    /\ tar_to \in {"partition", "directory", "holes"}
    /\ root \in Root
    /\ mounts \in SUBSET {"update", "brdskmgr"}
    /\ req_pc \in {"idle", "read", "umount", "rm", "return"}
    /\ boot_ver \in Image \cup {NoImage}
    /\ reads \in 0..MaxReads
    /\ bkup_fmwver_updated \in [SysRpc -> BOOLEAN]
    /\ bkup_fmwver \in Image \cup {NoImage}
    /\ client \in [Client -> {"idle", "download", "update", "ok", "error", "refused"}]
    /\ asked \in [Client -> Image \cup {NoImage}]
    /\ got \in [Client -> Image \cup {NoImage}]
    /\ kept \subseteq Client
    /\ clashed \in BOOLEAN /\ stale \in BOOLEAN

\* sysmgr has just started; the other partition holds a complete old system.
Init ==
    /\ newest = 1
    /\ file = NoImage
    /\ work_chain = <<>>
    /\ wrk_pc = "idle" /\ task = NoTask
    /\ image = NoImage /\ sts = "ok" /\ tar_to = "directory"
    /\ root = [ver |-> 1, whole |-> TRUE]
    /\ mounts = {}
    /\ req_pc = "idle" /\ boot_ver = NoImage /\ reads = 0
    /\ bkup_fmwver_updated = [o \in SysRpc |-> FALSE]
    /\ bkup_fmwver = NoImage
    /\ client = [c \in Client |-> "idle"]
    /\ asked = [c \in Client |-> NoImage]
    /\ got = [c \in Client |-> NoImage]
    /\ kept = {}
    /\ clashed = FALSE /\ stale = FALSE
-----------------------------------------------------------------------------
(* Plausible mistakes in the code below, each put in the place of one      *)
(* action to see that a property notices.  No specification uses them.     *)

\* An update does not wait behind the downloads.
process_set_fmwupdateFirst(c) ==
    /\ req_pc = "idle"
    /\ client[c] = "download"
    /\ client' = [client EXCEPT ![c] = "update"]
    /\ work_chain' = <<[cmd |-> "update", client |-> c]>> \o work_chain
    /\ UNCHANGED <<filesVars, wrkVars, root, mounts, reqVars,
                   bkup_fmwver_updated, asked, got, kept, clashed, stale>>

\* The update removes its mount point without umount.
UmountRootForgotten ==
    /\ wrk_pc = "umount"
    /\ wrk_pc' = "rm"
    /\ UNCHANGED <<filesVars, work_chain, task, image, sts, tar_to, root,
                   mounts, reqVars, bkup_fmwver_updated, cltVars, clashed,
                   stale>>

\* The version counts as cached as soon as it is asked for.
MountDeviceCachesFirst ==
    /\ req_pc = "idle"
    /\ ~bkup_fmwver_updated["FmwVerGet"]
    /\ reads < MaxReads
    /\ reads' = reads + 1
    /\ bkup_fmwver_updated' = [bkup_fmwver_updated EXCEPT !["FmwVerGet"] = TRUE]
    /\ IF wrk_pc = "mkfs_run"
       THEN UNCHANGED <<req_pc, mounts, clashed>>
       ELSE /\ req_pc' = "read"
            /\ mounts' = mounts \cup {"brdskmgr"}
            /\ clashed' = (clashed \/ "update" \in mounts)
    /\ UNCHANGED <<filesVars, work_chain, wrkVars, root, boot_ver,
                   bkup_fmwver, cltVars, stale>>
-----------------------------------------------------------------------------
(* The clients and the server they download from                           *)

PublishImage ==
    /\ newest < MaxImage
    /\ newest' = newest + 1
    /\ UNCHANGED <<file, work_chain, wrkVars, root, mounts, reqVars,
                   bkup_fmwver_updated, cltVars, clashed, stale>>

\* process_download_file: the task is queued and the answer is IN_PROG.
process_download_file(c) ==
    /\ req_pc = "idle"
    /\ client[c] = "idle"
    /\ client' = [client EXCEPT ![c] = "download"]
    /\ asked' = [asked EXCEPT ![c] = newest]
    /\ work_chain' = Append(work_chain, [cmd |-> "download", client |-> c])
    /\ UNCHANGED <<filesVars, wrkVars, root, mounts, reqVars,
                   bkup_fmwver_updated, got, kept, clashed, stale>>

\* process_set_fmwupdate, asked for on the download's IN_PROG: whether the
\* download has run, or will succeed, is not known yet.
process_set_fmwupdate(c) ==
    /\ req_pc = "idle"
    /\ client[c] = "download"
    /\ client' = [client EXCEPT ![c] = "update"]
    /\ work_chain' = Append(work_chain, [cmd |-> "update", client |-> c])
    /\ UNCHANGED <<filesVars, wrkVars, root, mounts, reqVars,
                   bkup_fmwver_updated, asked, got, kept, clashed, stale>>

\* PushAsyncTask fails in either: no IN_PROG, and the client gives up.
PushAsyncTaskFails(c) ==
    /\ req_pc = "idle"
    /\ client[c] \in {"idle", "download"}
    /\ client' = [client EXCEPT ![c] = "refused"]
    /\ UNCHANGED <<filesVars, work_chain, wrkVars, root, mounts, reqVars,
                   bkup_fmwver_updated, asked, got, kept, clashed, stale>>
-----------------------------------------------------------------------------
(* The worker thread: one task at a time, each command of the scripts a    *)
(* step                                                                    *)

\* AsyncTaskWork on the task at the head of the queue.
ProcessWorkAsync ==
    /\ wrk_pc = "idle"
    /\ work_chain # <<>>
    /\ task' = Head(work_chain)
    /\ work_chain' = Tail(work_chain)
    /\ wrk_pc' = IF Head(work_chain).cmd = "download" THEN "wget" ELSE "check"
    /\ UNCHANGED <<filesVars, image, sts, tar_to, root, mounts, reqVars,
                   bkup_fmwver_updated, cltVars, clashed, stale>>

\* BusyBox's wget opens its -O file when the server has answered with a good
\* status: a download that fails before leaves the file as it was, one that
\* fails later leaves a part of an image, which mkimage -l rejects.
process_async_download_file ==
    /\ wrk_pc = "wget"
    /\ \/ file' \in {newest, NoImage} /\ UNCHANGED kept
       \/ UNCHANGED file /\ kept' = kept \cup {task.client}
    /\ wrk_pc' = "idle"
    /\ UNCHANGED <<newest, work_chain, task, image, sts, tar_to, root, mounts,
                   reqVars, bkup_fmwver_updated, client, asked, got, clashed, stale>>

\* The update goes on to command c, with status s for its end.
Command(c, s) ==
    /\ wrk_pc' = c
    /\ sts' = s
    /\ UNCHANGED <<filesVars, work_chain, task, reqVars, bkup_fmwver_updated,
                   cltVars, stale>>

\* ProcessUpdate: mkimage -l checks the file's checksum; the image can be of
\* another board's type, or the room to unpack it can be missing.
CheckImage ==
    /\ wrk_pc = "check"
    /\ \/ Command("return", "error")
       \/ file # NoImage /\ Command("mkfs", "ok")
    /\ image' = file
    /\ UNCHANGED <<tar_to, root, mounts, clashed>>

\* mkfs.ext3 -F does not touch a mounted partition; it writes to no other
\* partition, and until it has ended nobody can mount this one.
Mkfs ==
    /\ wrk_pc = "mkfs"
    /\ mounts = {}
    /\ wrk_pc' = "mkfs_run"
    /\ root' = Empty
    /\ stale' = (stale \/ bkup_fmwver_updated["FmwVerGet"]
                       \/ req_pc \in {"umount", "rm", "return"})
    /\ UNCHANGED <<filesVars, work_chain, task, image, sts, tar_to, mounts,
                   reqVars, bkup_fmwver_updated, cltVars, clashed>>

MkfsRefused ==
    /\ wrk_pc = "mkfs"
    /\ mounts # {}
    /\ Command("return", "error")
    /\ UNCHANGED <<image, tar_to, root, mounts, clashed>>

MkfsEnds ==
    /\ wrk_pc = "mkfs_run"
    /\ Command("mount", "ok") \/ Command("return", "error")
    /\ UNCHANGED <<image, tar_to, root, mounts, clashed>>

\* A failed mount removes its empty directory and ends the update.
MountRoot ==
    /\ wrk_pc = "mount"
    /\ \/ /\ Command("tar", "ok")
          /\ mounts' = mounts \cup {"update"}
          /\ clashed' = (clashed \/ "brdskmgr" \in mounts)
       \/ /\ Command("return", "error")
          /\ UNCHANGED <<mounts, clashed>>
    /\ UNCHANGED <<image, tar_to, root>>

\* tar enters $TEMP_MOUNT_POINT: the partition, if it is still mounted there.
\* The version file can be among the first files written or the last.
TarStarts ==
    /\ wrk_pc = "tar"
    /\ Command("tar_run", "ok")
    /\ tar_to' = IF "update" \in mounts THEN "partition" ELSE "directory"
    /\ IF "update" \in mounts
       THEN \E v \in {NoImage, image} : root' = [ver |-> v, whole |-> FALSE]
       ELSE root' = root
    /\ UNCHANGED <<image, mounts, clashed>>

TarEnds ==
    /\ wrk_pc = "tar_run"
    /\ Command("sync", "ok")
    /\ root' = CASE tar_to = "partition" -> [ver |-> image, whole |-> TRUE]
                 [] tar_to = "holes"     -> [root EXCEPT !.ver = image]
                 [] OTHER                -> root
    /\ UNCHANGED <<image, tar_to, mounts, clashed>>

TarFails ==
    /\ wrk_pc = "tar_run"
    /\ Command("umount", "error")
    /\ UNCHANGED <<image, tar_to, root, mounts, clashed>>

\* sync, mount of the boot partition, copy of the kernel (see AbUpdate).
CopyKernel ==
    /\ wrk_pc = "sync"
    /\ \E s \in {"ok", "error"} : Command("umount", s)
    /\ UNCHANGED <<image, tar_to, root, mounts, clashed>>

\* "umount /dev/..." undoes one of the mounts of the device, not always the
\* caller's; it fails when that one is in use or when there is not just one.
umount(busy) ==
    \/ \E m \in mounts \ busy : mounts' = mounts \ {m}
    \/ /\ mounts \subseteq busy \/ \E m, n \in mounts : m # n
       /\ UNCHANGED mounts

UmountRoot ==
    /\ wrk_pc = "umount"
    /\ Command("rm", sts)
    /\ umount({})
    /\ UNCHANGED <<image, tar_to, root, clashed>>

\* "rm -r" of a directory on which the partition is still mounted removes the
\* files of the partition.
RmMountPoint ==
    /\ wrk_pc = "rm"
    /\ Command(IF sts = "ok" THEN "flip" ELSE "return", sts)
    /\ root' = IF "update" \in mounts THEN Empty ELSE root
    /\ UNCHANGED <<image, tar_to, mounts, clashed>>

\* "brdskmgr -f" (see AbUpdate).
FlipBootMarker ==
    /\ wrk_pc = "flip"
    /\ \E s \in {"ok", "error"} : Command("return", s)
    /\ UNCHANGED <<image, tar_to, root, mounts, clashed>>

\* process_async_set_fmwupdate after the script: the flag it clears is a
\* member of the object that runs the task.
process_async_set_fmwupdate ==
    /\ wrk_pc = "return"
    /\ wrk_pc' = "idle"
    /\ bkup_fmwver_updated' =
          [bkup_fmwver_updated EXCEPT
              ![getRpcHandler(EJSON_SYSMGR_RPC_SET_FMWUPDATE)] = FALSE]
    /\ client' = [client EXCEPT ![task.client] = sts]
    /\ got' = [got EXCEPT ![task.client] = IF sts = "ok" THEN image ELSE NoImage]
    /\ UNCHANGED <<filesVars, work_chain, task, image, sts, tar_to, root,
                   mounts, reqVars, asked, kept, clashed, stale>>
-----------------------------------------------------------------------------
(* The request thread: get_fmw_version, backup.  The cached version is     *)
(* answered without any change of state.                                   *)

\* ReadBkBootVersion's MountDevice.  A mount that fails (the partition is busy
\* or damaged) ends the command: FILE_OPEN_ERR.
MountDevice ==
    /\ req_pc = "idle"
    /\ ~bkup_fmwver_updated["FmwVerGet"]
    /\ reads < MaxReads
    /\ reads' = reads + 1
    /\ \/ UNCHANGED <<req_pc, mounts, clashed>>
       \/ /\ wrk_pc # "mkfs_run"
          /\ req_pc' = "read"
          /\ mounts' = mounts \cup {"brdskmgr"}
          /\ clashed' = (clashed \/ "update" \in mounts)
    /\ UNCHANGED <<filesVars, work_chain, wrkVars, root, boot_ver,
                   bkup_fmwver, bkup_fmwver_updated, cltVars, stale>>

ReadBootVersion ==
    /\ req_pc = "read"
    /\ req_pc' = "umount"
    /\ boot_ver' = IF "brdskmgr" \in mounts THEN root.ver ELSE NoImage
    /\ UNCHANGED <<filesVars, work_chain, wrkVars, root, mounts, reads,
                   bkup_fmwver, bkup_fmwver_updated, cltVars, clashed, stale>>

UmountDevice ==
    /\ req_pc = "umount"
    /\ req_pc' = "rm"
    /\ umount(IF wrk_pc = "tar_run" /\ tar_to # "directory" THEN {"update"} ELSE {})
    /\ UNCHANGED <<filesVars, work_chain, wrkVars, root, boot_ver, reads,
                   bkup_fmwver, bkup_fmwver_updated, cltVars, clashed, stale>>

RmMountDir ==
    /\ req_pc = "rm"
    /\ req_pc' = "return"
    /\ IF "brdskmgr" \in mounts
       THEN /\ root' = Empty
            /\ tar_to' = IF tar_to = "partition" THEN "holes" ELSE tar_to
       ELSE UNCHANGED <<root, tar_to>>
    /\ UNCHANGED <<filesVars, work_chain, wrk_pc, task, image, sts, mounts,
                   boot_ver, reads, bkup_fmwver, bkup_fmwver_updated, cltVars,
                   clashed, stale>>

\* process_get_fmwver: a version that was read is cached, no version is an
\* error.
process_get_fmwver ==
    /\ req_pc = "return"
    /\ req_pc' = "idle"
    /\ boot_ver' = NoImage
    /\ IF boot_ver = NoImage
       THEN UNCHANGED <<bkup_fmwver, bkup_fmwver_updated>>
       ELSE /\ bkup_fmwver' = boot_ver
            /\ bkup_fmwver_updated' =
                  [bkup_fmwver_updated EXCEPT !["FmwVerGet"] = TRUE]
    /\ UNCHANGED <<filesVars, work_chain, wrkVars, root, mounts, reads,
                   cltVars, clashed, stale>>
-----------------------------------------------------------------------------
Worker ==
    \/ ProcessWorkAsync \/ process_async_download_file \/ CheckImage \/ Mkfs
    \/ MkfsRefused \/ MkfsEnds \/ MountRoot \/ TarStarts \/ TarEnds \/ TarFails
    \/ CopyKernel \/ UmountRoot \/ RmMountPoint \/ FlipBootMarker
    \/ process_async_set_fmwupdate

GetFmwVersion ==
    ReadBootVersion \/ UmountDevice \/ RmMountDir \/ process_get_fmwver

Next ==
    \/ PublishImage
    \/ \E c \in Client :
          \/ process_download_file(c)
          \/ process_set_fmwupdate(c)
          \/ PushAsyncTaskFails(c)
    \/ Worker
    \/ MountDevice
    \/ GetFmwVersion

Spec == Init /\ [][Next]_vars

\* The scripts end, so neither thread stops inside a command.
FairSpec == Spec /\ WF_vars(Worker) /\ WF_vars(GetFmwVersion)
-----------------------------------------------------------------------------
(* Properties.  They hold as long as no update and "brdskmgr -b" had the  *)
(* partition mounted together (clashed); NoOlderImage holds regardless.    *)

\* An update that reports success has put the whole image it checked on the
\* other partition: it was tar'ed there, and neither umount and rm -r of the
\* update nor those of "brdskmgr -b" took it away again.
UpdateInstalls ==
    wrk_pc = "return" /\ sts = "ok" /\ ~clashed =>
        root = [ver |-> image, whole |-> TRUE]

\* The update of fmw_update is queued before its download has run, and all
\* downloads write one file.  Still, whatever downloads fail or overwrite one
\* another, an update that succeeds installs an image no older than the one
\* on offer when its user asked, unless that user's own download failed before
\* it touched the file of an earlier one.
NoOlderImage ==
    \A c \in Client : client[c] = "ok" /\ c \notin kept => got[c] >= asked[c]

\* Until an update reformats the partition, the cached backup version is the
\* one on it: "brdskmgr -b" leaves the system as it found it, and no version
\* is cached that was read while an update was writing.
CachedIsOnDisk ==
    bkup_fmwver_updated["FmwVerGet"] /\ ~stale /\ ~clashed =>
        bkup_fmwver = root.ver

\* SysRpc.cpp:710, "re-read bkup-fmw-version when fmw-version-rpc is called":
\* at the end of an update the version is no longer taken for cached.
BackupVersionReRead ==
    [][process_async_set_fmwupdate => ~bkup_fmwver_updated'["FmwVerGet"]]_vars

\* What makes the invariants inductive.  Without a clash a mount is its owner's, and
\* is undone by its owner:
Mounted ==
    ~clashed =>
        /\ "update" \in mounts <=> wrk_pc \in {"tar", "tar_run", "sync", "umount"}
        /\ "brdskmgr" \in mounts <=> req_pc \in {"read", "umount"}
        /\ ~("update" \in mounts /\ "brdskmgr" \in mounts)

\* an update's commands work on what the one before has left:
Installed ==
    /\ wrk_pc \in {"mkfs_run", "mount", "tar"} => root = Empty
    /\ wrk_pc \in {"sync", "flip"} => sts = "ok"
    /\ ~clashed /\ wrk_pc = "tar_run" => tar_to = "partition"
    /\ ~clashed /\ sts = "ok" /\ wrk_pc \in {"sync", "umount", "rm", "flip", "return"} =>
          root = [ver |-> image, whole |-> TRUE]

\* a version is read and cached only while no update is writing:
Writing == wrk_pc \in {"mkfs_run", "mount", "tar", "tar_run", "sync", "umount"}
Cached ==
    /\ req_pc \in {"idle", "read"} => boot_ver = NoImage
    /\ ~stale /\ ~clashed =>
          /\ bkup_fmwver_updated["FmwVerGet"] => bkup_fmwver = root.ver /\ ~Writing
          /\ boot_ver # NoImage => boot_ver = root.ver /\ ~Writing

\* and a client's download runs before its update, after which the file, whoever
\* writes it, is no older than what the client asked for, or was kept.
Download(c) == [cmd |-> "download", client |-> c]
Update(c)   == [cmd |-> "update", client |-> c]
NotOlder(c) == file \in Image /\ c \notin kept => file >= asked[c]
AskedKnown == \A c \in Client : asked[c] <= newest
Served ==
    \A c \in Client : client[c] \in {"download", "update", "ok", "error"} =>
        \/ NotOlder(c)
        \/ wrk_pc = "wget" /\ task = Download(c)
        \/ \E i \in 1..Len(work_chain) : work_chain[i] = Download(c)
InOrder ==
    \A c \in Client, i \in 1..Len(work_chain) :
        /\ work_chain[i] = Download(c) => client[c] # "idle"
        /\ work_chain[i] = Update(c) =>
              /\ client[c] \in {"update", "ok", "error"}
              /\ \A j \in i..Len(work_chain) : work_chain[j] # Download(c)
ForClient ==
    /\ wrk_pc # "idle" => client[task.client] # "idle"
    /\ wrk_pc \notin {"idle", "wget"} =>
          client[task.client] \in {"update", "ok", "error"}
    /\ wrk_pc = "wget" => task = Download(task.client)
    /\ wrk_pc = "check" => NotOlder(task.client)
    /\ wrk_pc \notin {"idle", "wget", "check"} =>
          \/ image >= asked[task.client] \/ task.client \in kept
          \/ wrk_pc = "return" /\ sts = "error"

IInv == TypeOK /\ Mounted /\ Installed /\ Cached
QInv == TypeOK /\ AskedKnown /\ Served /\ InOrder /\ ForClient /\ NoOlderImage
=============================================================================
