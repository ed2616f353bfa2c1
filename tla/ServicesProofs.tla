--------------------------- MODULE ServicesProofs ---------------------------
(***************************************************************************)
(* What sysmgr's updates install and its backup version says: IInv of      *)
(* SysMgr is inductive, for any clients, images and reads; what the script *)
(* of an update leaves on the card, power cuts included; and which thread  *)
(* of dispsrv can use a deleted display: DispIInv of DispSrv is inductive, *)
(* however often the display is plugged and however many requests and      *)
(* ticks come.                                                             *)
(***************************************************************************)
EXTENDS SysMgr, AbUpdate, DispSrv, TLAPS

\* The provers that every leaf is given to.
USE ZenonT(1), SMTT(20), Zenon
-----------------------------------------------------------------------------
(* System manager                                                          *)

USE SysMgrAssumption DEF NoImage, filesVars, wrkVars, reqVars, cltVars

\* The tasks of a client, and the contents of the partition, are well-formed.
LEMMA Tasks == \A c \in Client : Download(c) \in Task /\ Update(c) \in Task
  BY DEF Download, Update, Task

\* A task is its client's download or update.
LEMMA TaskFields ==
    \A t \in Task : /\ t.client \in Client
                    /\ t.cmd = "download" => t = Download(t.client)
                    /\ t.cmd # "download" => t = Update(t.client)
  BY DEF Download, Update, Task

\* A download is no update.
LEMMA Kinds == \A c, d : Download(c) # Update(d) /\ Download(c).cmd = "download"
                         /\ Update(c).cmd = "update"
  BY DEF Download, Update

\* A task has one client.
LEMMA Same == \A c, d : /\ Download(c) = Download(d) => c = d
                        /\ Update(c) = Update(d) => c = d
<1>1. \A c : Download(c).client = c /\ Update(c).client = c
  BY DEF Download, Update
<1> QED
  BY <1>1

\* The contents of the partition before and after a command are contents.
LEMMA Roots ==
    /\ Empty \in Root /\ Empty.ver = NoImage
    /\ \A v \in Image \cup {NoImage}, w \in BOOLEAN : [ver |-> v, whole |-> w] \in Root
    /\ \A r \in Root : r.ver \in Image \cup {NoImage}
    /\ \A r \in Root, v \in Image \cup {NoImage} : [r EXCEPT !.ver = v] \in Root
  BY DEF Root, Empty

\* The flag process_get_fmwver tests is one of the objects'.
LEMMA FmwVerGet == "FmwVerGet" \in SysRpc
<1>1. 13 \in 8..17 /\ rpclist[13] = "FmwVerGet"
  BY DEF rpclist
<1> QED
  BY <1>1 DEF SysRpc

\* umount takes away a mount at most, and the only one there is if it can.
LEMMA UmountSubset ==
    ASSUME NEW busy, umount(busy) PROVE mounts' \subseteq mounts
  BY DEF umount

\* With one mount, umount undoes that one.
LEMMA UmountOnly ==
    ASSUME NEW busy, NEW m, mounts = {m}, m \notin busy, umount(busy)
    PROVE  mounts' = {}
  BY DEF umount

\* sysmgr as it starts satisfies the invariant.
LEMMA IInvInit == Init => IInv
<1> SUFFICES ASSUME Init PROVE IInv
  OBVIOUS
<1>1. TypeOK
  <2>0. 1 \in Image /\ 0 \in 0..MaxReads
    BY DEF Image
  <2>1. root \in Root
    BY <2>0, Roots, Zenon DEF Init
  <2>2. <<>> \in Seq(Task)
    OBVIOUS
  <2>3. bkup_fmwver_updated \in [SysRpc -> BOOLEAN]
    BY DEF Init
  <2>4. /\ client \in [Client -> {"idle", "download", "update", "ok", "error", "refused"}]
        /\ asked \in [Client -> Image \cup {NoImage}]
        /\ got \in [Client -> Image \cup {NoImage}]
    BY DEF Init
  <2> QED
    BY <2>0, <2>1, <2>2, <2>3, <2>4, Zenon DEF Init, TypeOK
<1>2. Mounted /\ Installed
  BY DEF Init, Mounted, Installed
<1>3. Cached
  BY FmwVerGet DEF Init, Cached
<1> QED
  BY <1>1, <1>2, <1>3 DEF IInv

\* The variables keep their types.
LEMMA TypeStep == TypeOK /\ [Next]_vars => TypeOK'
<1> SUFFICES ASSUME TypeOK, [Next]_vars PROVE TypeOK'
  OBVIOUS
<1>1. CASE PublishImage
  <2>1. newest' \in Image
    BY <1>1 DEF PublishImage, TypeOK, Image
  <2> QED
    BY <1>1, <2>1 DEF PublishImage, TypeOK
<1>2. CASE \E c \in Client : process_download_file(c)
  <2>1. PICK c \in Client : process_download_file(c)
    BY <1>2
  <2>2. work_chain' \in Seq(Task)
    BY <2>1, Tasks DEF process_download_file, Download, TypeOK
  <2>3. client' \in [Client -> {"idle", "download", "update", "ok", "error", "refused"}]
    BY <2>1 DEF process_download_file, TypeOK
  <2>4. asked' \in [Client -> Image \cup {NoImage}]
    BY <2>1 DEF process_download_file, TypeOK
  <2> QED
    BY <2>1, <2>2, <2>3, <2>4 DEF process_download_file, TypeOK
<1>3. CASE \E c \in Client : process_set_fmwupdate(c)
  <2>1. PICK c \in Client : process_set_fmwupdate(c)
    BY <1>3
  <2>2. work_chain' \in Seq(Task)
    BY <2>1, Tasks DEF process_set_fmwupdate, Update, TypeOK
  <2>3. client' \in [Client -> {"idle", "download", "update", "ok", "error", "refused"}]
    BY <2>1 DEF process_set_fmwupdate, TypeOK
  <2> QED
    BY <2>1, <2>2, <2>3 DEF process_set_fmwupdate, TypeOK
<1>4. CASE \E c \in Client : PushAsyncTaskFails(c)
  <2>1. PICK c \in Client : PushAsyncTaskFails(c)
    BY <1>4
  <2>2. client' \in [Client -> {"idle", "download", "update", "ok", "error", "refused"}]
    BY <2>1 DEF PushAsyncTaskFails, TypeOK
  <2> QED
    BY <2>1, <2>2 DEF PushAsyncTaskFails, TypeOK
<1>5. CASE ProcessWorkAsync
  <2>1. task' \in Task /\ work_chain' \in Seq(Task)
    BY <1>5 DEF ProcessWorkAsync, TypeOK
  <2> QED
    BY <1>5, <2>1 DEF ProcessWorkAsync, TypeOK
<1>6. CASE process_async_download_file
  <2>1. kept' \subseteq Client
    BY <1>6, TaskFields DEF process_async_download_file, TypeOK
  <2> QED
    BY <1>6, <2>1 DEF process_async_download_file, TypeOK
<1>7. CASE CheckImage
  BY <1>7 DEF CheckImage, Command, TypeOK
<1>8. CASE Mkfs
  <2>1. root' \in Root
    BY <1>8, Roots DEF Mkfs, TypeOK
  <2>2. stale' \in BOOLEAN
    BY <1>8 DEF Mkfs
  <2> QED
    BY <1>8, <2>1, <2>2 DEF Mkfs, TypeOK
<1>9. CASE MkfsRefused
  BY <1>9 DEF MkfsRefused, Command, TypeOK
<1>10. CASE MkfsEnds
  BY <1>10 DEF MkfsEnds, Command, TypeOK
<1>11. CASE MountRoot
  <2>1. mounts' \in SUBSET {"update", "brdskmgr"}
    BY <1>11, Zenon DEF MountRoot, TypeOK
  <2>2. clashed' \in BOOLEAN
    BY <1>11, Zenon DEF MountRoot, TypeOK
  <2> QED
    BY <1>11, <2>1, <2>2 DEF MountRoot, Command, TypeOK
<1>12. CASE TarStarts
  <2>1. CASE "update" \in mounts
    <3>1. PICK v \in {NoImage, image} : root' = [ver |-> v, whole |-> FALSE]
      BY <1>12, <2>1 DEF TarStarts
    <3>2. root' \in Root
      BY <3>1, Roots, Zenon DEF TypeOK
    <3> QED
      BY <1>12, <2>1, <3>2 DEF TarStarts, Command, TypeOK
  <2>2. CASE "update" \notin mounts
    BY <1>12, <2>2 DEF TarStarts, Command, TypeOK
  <2> QED
    BY <2>1, <2>2
<1>13. CASE TarEnds
  <2>1. root' \in Root
    BY <1>13, Roots, Zenon DEF TarEnds, TypeOK
  <2> QED
    BY <1>13, <2>1 DEF TarEnds, Command, TypeOK
<1>14. CASE TarFails
  BY <1>14 DEF TarFails, Command, TypeOK
<1>15. CASE CopyKernel
  BY <1>15 DEF CopyKernel, Command, TypeOK
<1>16. CASE UmountRoot
  <2>1. mounts' \in SUBSET {"update", "brdskmgr"}
    BY <1>16, UmountSubset, Zenon DEF UmountRoot, TypeOK
  <2> QED
    BY <1>16, <2>1 DEF UmountRoot, Command, TypeOK
<1>17. CASE RmMountPoint
  <2>1. root' \in Root
    BY <1>17, Roots DEF RmMountPoint, TypeOK
  <2> QED
    BY <1>17, <2>1 DEF RmMountPoint, Command, TypeOK
<1>18. CASE FlipBootMarker
  BY <1>18 DEF FlipBootMarker, Command, TypeOK
<1>19. CASE process_async_set_fmwupdate
  <2>1. client' \in [Client -> {"idle", "download", "update", "ok", "error", "refused"}]
    BY <1>19, Zenon DEF process_async_set_fmwupdate, TypeOK
  <2>2. got' \in [Client -> Image \cup {NoImage}]
    BY <1>19, Zenon DEF process_async_set_fmwupdate, TypeOK
  <2>3. bkup_fmwver_updated' \in [SysRpc -> BOOLEAN]
    BY <1>19, Zenon DEF process_async_set_fmwupdate, TypeOK
  <2> QED
    BY <1>19, <2>1, <2>2, <2>3 DEF process_async_set_fmwupdate, TypeOK
<1>20. CASE MountDevice
  <2>1. mounts' \in SUBSET {"update", "brdskmgr"}
    BY <1>20, Zenon DEF MountDevice, TypeOK
  <2>2. clashed' \in BOOLEAN
    BY <1>20, Zenon DEF MountDevice, TypeOK
  <2>3. reads' \in 0..MaxReads
    BY <1>20 DEF MountDevice, TypeOK
  <2>4. req_pc' \in {"idle", "read", "umount", "rm", "return"}
    BY <1>20 DEF MountDevice, TypeOK
  <2> QED
    BY <1>20, <2>1, <2>2, <2>3, <2>4 DEF MountDevice, TypeOK
<1>21. CASE ReadBootVersion
  <2>1. boot_ver' \in Image \cup {NoImage}
    BY <1>21, Roots DEF ReadBootVersion, TypeOK
  <2> QED
    BY <1>21, <2>1 DEF ReadBootVersion, TypeOK
<1>22. CASE UmountDevice
  <2>1. mounts' \in SUBSET {"update", "brdskmgr"}
    BY <1>22, UmountSubset, Zenon DEF UmountDevice, TypeOK
  <2> QED
    BY <1>22, <2>1 DEF UmountDevice, TypeOK
<1>23. CASE RmMountDir
  <2>1. root' \in Root
    BY <1>23, Roots DEF RmMountDir, TypeOK
  <2> QED
    BY <1>23, <2>1 DEF RmMountDir, TypeOK
<1>24. CASE process_get_fmwver
  <2>1. bkup_fmwver_updated' \in [SysRpc -> BOOLEAN]
    BY <1>24, Zenon DEF process_get_fmwver, TypeOK
  <2> QED
    BY <1>24, <2>1 DEF process_get_fmwver, TypeOK
<1>25. CASE UNCHANGED vars
  BY <1>25 DEF vars, TypeOK
<1> QED
  BY <1>1, <1>2, <1>3, <1>4, <1>5, <1>6, <1>7, <1>8, <1>9, <1>10, <1>11,
     <1>12, <1>13, <1>14, <1>15, <1>16, <1>17, <1>18, <1>19, <1>20, <1>21, <1>22,
     <1>23, <1>24, <1>25 DEF Next, Worker, GetFmwVersion

\* Each script undoes its own mount, until two have mounted together.
LEMMA MountedStep == IInv /\ [Next]_vars => Mounted'
<1> SUFFICES ASSUME IInv, [Next]_vars PROVE Mounted'
  OBVIOUS
<1>1. CASE PublishImage
  BY <1>1 DEF PublishImage, Mounted, TypeOK, IInv
<1>2. CASE \E c \in Client : process_download_file(c)
  BY <1>2 DEF process_download_file, Mounted, TypeOK, IInv
<1>3. CASE \E c \in Client : process_set_fmwupdate(c)
  BY <1>3 DEF process_set_fmwupdate, Mounted, TypeOK, IInv
<1>4. CASE \E c \in Client : PushAsyncTaskFails(c)
  BY <1>4 DEF PushAsyncTaskFails, Mounted, TypeOK, IInv
<1>5. CASE ProcessWorkAsync
  BY <1>5 DEF ProcessWorkAsync, Mounted, TypeOK, IInv
<1>6. CASE process_async_download_file
  BY <1>6 DEF process_async_download_file, Mounted, TypeOK, IInv
<1>7. CASE CheckImage
  BY <1>7 DEF CheckImage, Command, Mounted, TypeOK, IInv
<1>8. CASE Mkfs
  BY <1>8 DEF Mkfs, Mounted, TypeOK, IInv
<1>9. CASE MkfsRefused
  BY <1>9 DEF MkfsRefused, Command, Mounted, TypeOK, IInv
<1>10. CASE MkfsEnds
  BY <1>10 DEF MkfsEnds, Command, Mounted, TypeOK, IInv
<1>11. CASE MountRoot
  <2> SUFFICES ASSUME ~clashed' PROVE Mounted'
    BY DEF Mounted
  <2>1. CASE Command("tar", "ok")
    <3>1. ~clashed /\ "brdskmgr" \notin mounts
      BY <1>11, <2>1, Zenon DEF MountRoot, Command
    <3>2. /\ mounts' = mounts \cup {"update"} /\ wrk_pc' = "tar"
          /\ req_pc' = req_pc
      BY <1>11, <2>1 DEF MountRoot, Command
    <3> QED
      BY <3>1, <3>2 DEF Mounted, IInv
  <2>2. CASE Command("return", "error")
    <3>1. /\ wrk_pc = "mount" /\ wrk_pc' = "return" /\ req_pc' = req_pc
          /\ UNCHANGED <<mounts, clashed>>
      BY <1>11, <2>2 DEF MountRoot, Command
    <3> QED
      BY <3>1 DEF Mounted, IInv
  <2> QED
    BY <1>11, <2>1, <2>2 DEF MountRoot
<1>12. CASE TarStarts
  BY <1>12 DEF TarStarts, Command, Mounted, TypeOK, IInv
<1>13. CASE TarEnds
  BY <1>13 DEF TarEnds, Command, Mounted, TypeOK, IInv
<1>14. CASE TarFails
  BY <1>14 DEF TarFails, Command, Mounted, TypeOK, IInv
<1>15. CASE CopyKernel
  BY <1>15 DEF CopyKernel, Command, Mounted, TypeOK, IInv
<1>16. CASE UmountRoot
  <2> SUFFICES ASSUME ~clashed PROVE Mounted'
    BY <1>16 DEF UmountRoot, Mounted
  <2>1. mounts = {"update"} /\ req_pc \notin {"read", "umount"}
    BY <1>16, Zenon DEF UmountRoot, Mounted, TypeOK, IInv
  <2>2. mounts' = {}
    BY <1>16, <2>1, UmountOnly DEF UmountRoot
  <2> QED
    BY <1>16, <2>1, <2>2 DEF UmountRoot, Command, Mounted
<1>17. CASE RmMountPoint
  BY <1>17 DEF RmMountPoint, Command, Mounted, TypeOK, IInv
<1>18. CASE FlipBootMarker
  BY <1>18 DEF FlipBootMarker, Command, Mounted, TypeOK, IInv
<1>19. CASE process_async_set_fmwupdate
  BY <1>19 DEF process_async_set_fmwupdate, Mounted, TypeOK, IInv
<1>20. CASE MountDevice
  <2>1. CASE UNCHANGED <<req_pc, mounts, clashed>>
    BY <1>20, <2>1 DEF MountDevice, Mounted, IInv
  <2>2. CASE /\ req_pc' = "read" /\ mounts' = mounts \cup {"brdskmgr"}
             /\ clashed' = (clashed \/ "update" \in mounts)
    <3> SUFFICES ASSUME ~clashed' PROVE Mounted'
      BY DEF Mounted
    <3>1. ~clashed /\ "update" \notin mounts
      BY <2>2, Zenon
    <3>2. mounts' = mounts \cup {"brdskmgr"} /\ req_pc' = "read" /\ wrk_pc' = wrk_pc
      BY <1>20, <2>2 DEF MountDevice
    <3> QED
      BY <3>1, <3>2 DEF Mounted, IInv
  <2> QED
    BY <1>20, <2>1, <2>2, Zenon DEF MountDevice
<1>21. CASE ReadBootVersion
  BY <1>21 DEF ReadBootVersion, Mounted, TypeOK, IInv
<1>22. CASE UmountDevice
  <2> SUFFICES ASSUME ~clashed PROVE Mounted'
    BY <1>22 DEF UmountDevice, Mounted
  <2>1. /\ mounts = {"brdskmgr"}
        /\ wrk_pc \notin {"tar", "tar_run", "sync", "umount"}
    BY <1>22, Zenon DEF UmountDevice, Mounted, TypeOK, IInv
  <2>2. mounts' = {}
    BY <1>22, <2>1, UmountOnly DEF UmountDevice
  <2> QED
    BY <1>22, <2>1, <2>2 DEF UmountDevice, Mounted
<1>23. CASE RmMountDir
  BY <1>23 DEF RmMountDir, Mounted, TypeOK, IInv
<1>24. CASE process_get_fmwver
  BY <1>24 DEF process_get_fmwver, Mounted, TypeOK, IInv
<1>25. CASE UNCHANGED vars
  BY <1>25 DEF vars, Mounted, TypeOK, IInv
<1> QED
  BY <1>1, <1>2, <1>3, <1>4, <1>5, <1>6, <1>7, <1>8, <1>9, <1>10, <1>11,
     <1>12, <1>13, <1>14, <1>15, <1>16, <1>17, <1>18, <1>19, <1>20, <1>21, <1>22,
     <1>23, <1>24, <1>25 DEF Next, Worker, GetFmwVersion

\* Each command of an update works on what the one before has left.
LEMMA InstalledStep == IInv /\ [Next]_vars => Installed'
<1> SUFFICES ASSUME IInv, [Next]_vars PROVE Installed'
  OBVIOUS
<1>1. CASE PublishImage
  BY <1>1 DEF PublishImage, Installed, Mounted, TypeOK, IInv
<1>2. CASE \E c \in Client : process_download_file(c)
  BY <1>2 DEF process_download_file, Installed, Mounted, TypeOK, IInv
<1>3. CASE \E c \in Client : process_set_fmwupdate(c)
  BY <1>3 DEF process_set_fmwupdate, Installed, Mounted, TypeOK, IInv
<1>4. CASE \E c \in Client : PushAsyncTaskFails(c)
  BY <1>4 DEF PushAsyncTaskFails, Installed, Mounted, TypeOK, IInv
<1>5. CASE ProcessWorkAsync
  BY <1>5 DEF ProcessWorkAsync, Installed, Mounted, TypeOK, IInv
<1>6. CASE process_async_download_file
  BY <1>6 DEF process_async_download_file, Installed, Mounted, TypeOK, IInv
<1>7. CASE CheckImage
  BY <1>7 DEF CheckImage, Command, Installed, Mounted, TypeOK, IInv
<1>8. CASE Mkfs
  BY <1>8 DEF Mkfs, Installed, Mounted, TypeOK, IInv
<1>9. CASE MkfsRefused
  BY <1>9 DEF MkfsRefused, Command, Installed, Mounted, TypeOK, IInv
<1>10. CASE MkfsEnds
  BY <1>10 DEF MkfsEnds, Command, Installed, Mounted, TypeOK, IInv
<1>11. CASE MountRoot
  BY <1>11 DEF MountRoot, Command, Installed, Mounted, TypeOK, IInv
<1>12. CASE TarStarts
  BY <1>12 DEF TarStarts, Command, Installed, Mounted, TypeOK, IInv
<1>13. CASE TarEnds
  BY <1>13 DEF TarEnds, Command, Installed, Mounted, TypeOK, IInv
<1>14. CASE TarFails
  BY <1>14 DEF TarFails, Command, Installed, Mounted, TypeOK, IInv
<1>15. CASE CopyKernel
  BY <1>15 DEF CopyKernel, Command, Installed, Mounted, TypeOK, IInv
<1>16. CASE UmountRoot
  BY <1>16 DEF UmountRoot, Command, Installed, Mounted, TypeOK, IInv
<1>17. CASE RmMountPoint
  BY <1>17, Zenon DEF RmMountPoint, Command, Installed, Mounted, TypeOK, IInv
<1>18. CASE FlipBootMarker
  BY <1>18 DEF FlipBootMarker, Command, Installed, Mounted, TypeOK, IInv
<1>19. CASE process_async_set_fmwupdate
  BY <1>19 DEF process_async_set_fmwupdate, Installed, Mounted, TypeOK, IInv
<1>20. CASE MountDevice
  BY <1>20 DEF MountDevice, Installed, Mounted, TypeOK, IInv
<1>21. CASE ReadBootVersion
  BY <1>21 DEF ReadBootVersion, Installed, Mounted, TypeOK, IInv
<1>22. CASE UmountDevice
  BY <1>22 DEF UmountDevice, Installed, Mounted, TypeOK, IInv
<1>23. CASE RmMountDir
  BY <1>23 DEF RmMountDir, Installed, Mounted, TypeOK, IInv
<1>24. CASE process_get_fmwver
  BY <1>24 DEF process_get_fmwver, Installed, Mounted, TypeOK, IInv
<1>25. CASE UNCHANGED vars
  BY <1>25 DEF vars, Installed, Mounted, TypeOK, IInv
<1> QED
  BY <1>1, <1>2, <1>3, <1>4, <1>5, <1>6, <1>7, <1>8, <1>9, <1>10, <1>11,
     <1>12, <1>13, <1>14, <1>15, <1>16, <1>17, <1>18, <1>19, <1>20, <1>21, <1>22,
     <1>23, <1>24, <1>25 DEF Next, Worker, GetFmwVersion

\* What leaves an invariant's variables alone keeps it.
LEMMA CachedKept ==
    /\ Cached
    /\ UNCHANGED <<req_pc, boot_ver, stale, clashed, bkup_fmwver, root>>
    /\ bkup_fmwver_updated'["FmwVerGet"] => bkup_fmwver_updated["FmwVerGet"]
    /\ Writing' => Writing
    => Cached'
  BY DEF Cached

\* A version is read and cached only while no update is writing.
LEMMA CachedStep == IInv /\ [Next]_vars => Cached'
<1> SUFFICES ASSUME IInv, [Next]_vars PROVE Cached'
  OBVIOUS
<1>1. CASE PublishImage
  BY <1>1, CachedKept DEF PublishImage, Writing, IInv
<1>2. CASE \E c \in Client : process_download_file(c)
  BY <1>2, CachedKept DEF process_download_file, Writing, IInv
<1>3. CASE \E c \in Client : process_set_fmwupdate(c)
  BY <1>3, CachedKept DEF process_set_fmwupdate, Writing, IInv
<1>4. CASE \E c \in Client : PushAsyncTaskFails(c)
  BY <1>4, CachedKept DEF PushAsyncTaskFails, Writing, IInv
<1>5. CASE ProcessWorkAsync
  BY <1>5, CachedKept DEF ProcessWorkAsync, Writing, IInv
<1>6. CASE process_async_download_file
  BY <1>6, CachedKept DEF process_async_download_file, Writing, IInv
<1>7. CASE CheckImage
  BY <1>7, CachedKept DEF CheckImage, Command, Writing, IInv
<1>8. CASE Mkfs
  BY <1>8, Zenon DEF Mkfs, Cached, Writing, Installed, Mounted, TypeOK, IInv
<1>9. CASE MkfsRefused
  BY <1>9, CachedKept DEF MkfsRefused, Command, Writing, IInv
<1>10. CASE MkfsEnds
  BY <1>10 DEF MkfsEnds, Command, Cached, Writing, Installed, Mounted, TypeOK, IInv
<1>11. CASE MountRoot
  BY <1>11 DEF MountRoot, Command, Cached, Writing, Installed, Mounted, TypeOK, IInv
<1>12. CASE TarStarts
  BY <1>12 DEF TarStarts, Command, Cached, Writing, Installed, Mounted, TypeOK, IInv
<1>13. CASE TarEnds
  BY <1>13 DEF TarEnds, Command, Cached, Writing, Installed, Mounted, TypeOK, IInv
<1>14. CASE TarFails
  BY <1>14 DEF TarFails, Command, Cached, Writing, Installed, Mounted, TypeOK, IInv
<1>15. CASE CopyKernel
  BY <1>15, CachedKept DEF CopyKernel, Command, Writing, IInv
<1>16. CASE UmountRoot
  BY <1>16, CachedKept DEF UmountRoot, Command, Writing, IInv
<1>17. CASE RmMountPoint
  BY <1>17 DEF RmMountPoint, Command, Cached, Writing, Installed, Mounted, TypeOK, IInv
<1>18. CASE FlipBootMarker
  BY <1>18, CachedKept DEF FlipBootMarker, Command, Writing, IInv
<1>19. CASE process_async_set_fmwupdate
  <2>1. bkup_fmwver_updated'["FmwVerGet"] => bkup_fmwver_updated["FmwVerGet"]
    BY <1>19, FmwVerGet DEF process_async_set_fmwupdate, TypeOK, IInv
  <2> QED
    BY <1>19, <2>1, CachedKept DEF process_async_set_fmwupdate, Writing, IInv
<1>20. CASE MountDevice
  BY <1>20 DEF MountDevice, Cached, Writing, Installed, Mounted, TypeOK, IInv
<1>21. CASE ReadBootVersion
  BY <1>21, Roots DEF ReadBootVersion, Cached, Writing, Installed, Mounted, TypeOK, IInv
<1>22. CASE UmountDevice
  BY <1>22 DEF UmountDevice, Cached, Writing, Installed, Mounted, TypeOK, IInv
<1>23. CASE RmMountDir
  BY <1>23 DEF RmMountDir, Cached, Writing, Installed, Mounted, TypeOK, IInv
<1>24. CASE process_get_fmwver
  BY <1>24 DEF process_get_fmwver, Cached, Writing, Installed, Mounted, TypeOK, IInv
<1>25. CASE UNCHANGED vars
  BY <1>25 DEF vars, Cached, Writing, Installed, Mounted, TypeOK, IInv
<1> QED
  BY <1>1, <1>2, <1>3, <1>4, <1>5, <1>6, <1>7, <1>8, <1>9, <1>10, <1>11,
     <1>12, <1>13, <1>14, <1>15, <1>16, <1>17, <1>18, <1>19, <1>20, <1>21, <1>22,
     <1>23, <1>24, <1>25 DEF Next, Worker, GetFmwVersion

\* Every step of sysmgr, its scripts and its clients keeps the invariant.
LEMMA IInvStep == IInv /\ [Next]_vars => IInv'
<1> SUFFICES ASSUME IInv, [Next]_vars PROVE IInv'
  OBVIOUS
<1>1. TypeOK'
  BY TypeStep DEF IInv
<1>2. Mounted' /\ Installed' /\ Cached'
  BY MountedStep, InstalledStep, CachedStep
<1> QED
  BY <1>1, <1>2 DEF IInv

\* However sysmgr's two threads and its clients interleave, the mounts, the
\* partition and the cached version stay related as in IInv.
THEOREM SysMgrInvariance == Spec => []IInv
  BY IInvInit, IInvStep, PTL DEF Spec

\* The state stays well-typed for any number of clients, images and reads.
THEOREM SysMgrTypeCorrect == Spec => []TypeOK
<1>1. IInv => TypeOK
  BY DEF IInv
<1> QED
  BY <1>1, SysMgrInvariance, PTL

\* The partition an update has just written holds its whole image, unless a
\* version was read while both scripts had the partition mounted.
THEOREM UpdateInstallsHolds == Spec => []UpdateInstalls
<1>1. IInv => UpdateInstalls
  BY DEF IInv, Installed, UpdateInstalls
<1> QED
  BY <1>1, SysMgrInvariance, PTL

\* The backup version sysmgr answers from its cache is the one on the disk,
\* up to the first update that runs after it was read.
THEOREM CachedIsOnDiskHolds == Spec => []CachedIsOnDisk
<1>1. IInv => CachedIsOnDisk
  BY DEF IInv, Cached, CachedIsOnDisk
<1> QED
  BY <1>1, SysMgrInvariance, PTL
-----------------------------------------------------------------------------
(* What an update installs for the client that asked: QInv of SysMgr, on   *)
(* the queue of downloads and updates, is inductive.                       *)

\* The queue after a task is put at its end or taken from its front.
LEMMA Appended ==
    ASSUME NEW s \in Seq(Task), NEW t \in Task
    PROVE  /\ Append(s, t) \in Seq(Task)
           /\ Len(Append(s, t)) = Len(s) + 1
           /\ \A i \in 1..Len(s) : Append(s, t)[i] = s[i]
           /\ Append(s, t)[Len(s) + 1] = t
  OBVIOUS

\* The queue after its first task is taken.
LEMMA Taken ==
    ASSUME NEW s \in Seq(Task), s # <<>>
    PROVE  /\ Tail(s) \in Seq(Task)
           /\ Len(Tail(s)) = Len(s) - 1
           /\ Len(s) \in Nat \ {0}
           /\ Head(s) = s[1]
           /\ \A i \in 1..(Len(s) - 1) : Tail(s)[i] = s[i + 1]
  OBVIOUS

\* Nothing is queued when sysmgr starts.
LEMMA QInvInit == Init => QInv
<1> SUFFICES ASSUME Init PROVE QInv
  OBVIOUS
<1>1. TypeOK
  BY IInvInit DEF IInv
<1>2. AskedKnown /\ NoOlderImage
  BY DEF Init, AskedKnown, NoOlderImage
<1>3. Served /\ InOrder /\ ForClient
  BY DEF Init, Served, InOrder, ForClient
<1> QED
  BY <1>1, <1>2, <1>3 DEF QInv

\* What leaves an invariant's variables alone keeps it.
LEMMA ServedKept ==
    /\ Served
    /\ UNCHANGED <<client, asked, kept, file, work_chain, task>>
    /\ wrk_pc = "wget" => wrk_pc' = "wget"
    => Served'
  BY DEF Served, NotOlder

\* The order of the queue depends on the clients and the queue only.
LEMMA InOrderKept == InOrder /\ UNCHANGED <<client, work_chain>> => InOrder'
  BY DEF InOrder

\* What an update installs depends on these variables only.
LEMMA ForClientKept ==
    ForClient /\ UNCHANGED <<wrk_pc, task, client, asked, kept, file, image, sts>> => ForClient'
  BY DEF ForClient, NotOlder

\* Nobody asks for an image that is not published yet.
LEMMA AskedKnownStep == QInv /\ [Next]_vars => AskedKnown'
<1> SUFFICES ASSUME QInv, [Next]_vars PROVE AskedKnown'
  OBVIOUS
<1>1. CASE PublishImage
  BY <1>1 DEF PublishImage, AskedKnown, TypeOK, Image, QInv
<1>2. CASE \E c \in Client : process_download_file(c)
  BY <1>2 DEF process_download_file, AskedKnown, TypeOK, Image, QInv
<1>3. CASE \E c \in Client : process_set_fmwupdate(c)
  BY <1>3 DEF process_set_fmwupdate, AskedKnown, TypeOK, Image, QInv
<1>4. CASE \E c \in Client : PushAsyncTaskFails(c)
  BY <1>4 DEF PushAsyncTaskFails, AskedKnown, TypeOK, Image, QInv
<1>5. CASE ProcessWorkAsync
  BY <1>5 DEF ProcessWorkAsync, AskedKnown, TypeOK, Image, QInv
<1>6. CASE process_async_download_file
  BY <1>6 DEF process_async_download_file, AskedKnown, TypeOK, Image, QInv
<1>7. CASE CheckImage
  BY <1>7 DEF CheckImage, Command, AskedKnown, TypeOK, Image, QInv
<1>8. CASE Mkfs
  BY <1>8 DEF Mkfs, AskedKnown, TypeOK, Image, QInv
<1>9. CASE MkfsRefused
  BY <1>9 DEF MkfsRefused, Command, AskedKnown, TypeOK, Image, QInv
<1>10. CASE MkfsEnds
  BY <1>10 DEF MkfsEnds, Command, AskedKnown, TypeOK, Image, QInv
<1>11. CASE MountRoot
  BY <1>11 DEF MountRoot, Command, AskedKnown, TypeOK, Image, QInv
<1>12. CASE TarStarts
  BY <1>12 DEF TarStarts, Command, AskedKnown, TypeOK, Image, QInv
<1>13. CASE TarEnds
  BY <1>13 DEF TarEnds, Command, AskedKnown, TypeOK, Image, QInv
<1>14. CASE TarFails
  BY <1>14 DEF TarFails, Command, AskedKnown, TypeOK, Image, QInv
<1>15. CASE CopyKernel
  BY <1>15 DEF CopyKernel, Command, AskedKnown, TypeOK, Image, QInv
<1>16. CASE UmountRoot
  BY <1>16 DEF UmountRoot, Command, AskedKnown, TypeOK, Image, QInv
<1>17. CASE RmMountPoint
  BY <1>17 DEF RmMountPoint, Command, AskedKnown, TypeOK, Image, QInv
<1>18. CASE FlipBootMarker
  BY <1>18 DEF FlipBootMarker, Command, AskedKnown, TypeOK, Image, QInv
<1>19. CASE process_async_set_fmwupdate
  BY <1>19 DEF process_async_set_fmwupdate, AskedKnown, TypeOK, Image, QInv
<1>20. CASE MountDevice
  BY <1>20 DEF MountDevice, AskedKnown, TypeOK, Image, QInv
<1>21. CASE ReadBootVersion
  BY <1>21 DEF ReadBootVersion, AskedKnown, TypeOK, Image, QInv
<1>22. CASE UmountDevice
  BY <1>22 DEF UmountDevice, AskedKnown, TypeOK, Image, QInv
<1>23. CASE RmMountDir
  BY <1>23 DEF RmMountDir, AskedKnown, TypeOK, Image, QInv
<1>24. CASE process_get_fmwver
  BY <1>24 DEF process_get_fmwver, AskedKnown, TypeOK, Image, QInv
<1>25. CASE UNCHANGED vars
  BY <1>25 DEF vars, AskedKnown, TypeOK, Image, QInv
<1> QED
  BY <1>1, <1>2, <1>3, <1>4, <1>5, <1>6, <1>7, <1>8, <1>9, <1>10, <1>11,
     <1>12, <1>13, <1>14, <1>15, <1>16, <1>17, <1>18, <1>19, <1>20, <1>21, <1>22,
     <1>23, <1>24, <1>25 DEF Next, Worker, GetFmwVersion

\* A client's download is in the queue, is running, or has run.
LEMMA ServedStep == QInv /\ [Next]_vars => Served'
<1> SUFFICES ASSUME QInv, [Next]_vars PROVE Served'
  OBVIOUS
<1>1. CASE PublishImage
  BY <1>1, ServedKept DEF PublishImage, QInv
<1>2. CASE \E c \in Client : process_download_file(c)
  <2>1. PICK c \in Client : process_download_file(c)
    BY <1>2
  <2>2. /\ work_chain' = Append(work_chain, Download(c))
        /\ work_chain \in Seq(Task) /\ Download(c) \in Task
    BY <2>1, Tasks DEF process_download_file, Download, TypeOK, QInv
  <2>3. /\ Len(work_chain') = Len(work_chain) + 1 /\ Len(work_chain) \in Nat
        /\ \A i \in 1..Len(work_chain) : work_chain'[i] = work_chain[i]
        /\ work_chain'[Len(work_chain) + 1] = Download(c)
    BY <2>2, Appended
  <2>4. /\ \A d \in Client \ {c} : client'[d] = client[d] /\ asked'[d] = asked[d]
        /\ file' = file /\ kept' = kept /\ wrk_pc' = wrk_pc /\ task' = task
    BY <2>1 DEF process_download_file, TypeOK, QInv
  <2> SUFFICES ASSUME NEW d \in Client,
                      client'[d] \in {"download", "update", "ok", "error"}
               PROVE  \/ NotOlder(d)'
                      \/ wrk_pc' = "wget" /\ task' = Download(d)
                      \/ \E i \in 1..Len(work_chain') : work_chain'[i] = Download(d)
    BY DEF Served
  <2>5. CASE d = c
    BY <2>3, <2>5
  <2>6. CASE d # c
    <3>1. \/ NotOlder(d)
          \/ wrk_pc = "wget" /\ task = Download(d)
          \/ \E i \in 1..Len(work_chain) : work_chain[i] = Download(d)
      BY <2>4, <2>6 DEF Served, QInv
    <3>2. NotOlder(d) => NotOlder(d)'
      BY <2>4, <2>6 DEF NotOlder
    <3> QED
      BY <2>3, <2>4, <3>1, <3>2
  <2> QED
    BY <2>5, <2>6
<1>3. CASE \E c \in Client : process_set_fmwupdate(c)
  <2>1. PICK c \in Client : process_set_fmwupdate(c)
    BY <1>3
  <2>2. /\ work_chain' = Append(work_chain, Update(c))
        /\ work_chain \in Seq(Task) /\ Update(c) \in Task
    BY <2>1, Tasks DEF process_set_fmwupdate, Update, TypeOK, QInv
  <2>3. /\ Len(work_chain') = Len(work_chain) + 1 /\ Len(work_chain) \in Nat
        /\ \A i \in 1..Len(work_chain) : work_chain'[i] = work_chain[i]
    BY <2>2, Appended
  <2>4. 1..Len(work_chain) \subseteq 1..Len(work_chain')
    BY <2>3
  <2>5. /\ \A d \in Client \ {c} : client'[d] = client[d]
        /\ client[c] = "download"
        /\ UNCHANGED <<asked, kept, file, wrk_pc, task>>
    BY <2>1 DEF process_set_fmwupdate, TypeOK, QInv
  <2> QED
    BY <2>3, <2>4, <2>5 DEF Served, NotOlder, QInv
<1>4. CASE \E c \in Client : PushAsyncTaskFails(c)
  <2>1. PICK c \in Client : PushAsyncTaskFails(c)
    BY <1>4
  <2>2. /\ \A d \in Client \ {c} : client'[d] = client[d]
        /\ client'[c] = "refused"
        /\ UNCHANGED <<work_chain, asked, kept, file, wrk_pc, task>>
    BY <2>1 DEF PushAsyncTaskFails, TypeOK, QInv
  <2> QED
    BY <2>2 DEF Served, NotOlder, QInv
<1>5. CASE ProcessWorkAsync
  <2>1. /\ work_chain \in Seq(Task) /\ work_chain # <<>>
        /\ work_chain' = Tail(work_chain) /\ task' = Head(work_chain)
        /\ wrk_pc = "idle"
        /\ wrk_pc' = IF Head(work_chain).cmd = "download" THEN "wget" ELSE "check"
        /\ client' = client /\ asked' = asked /\ kept' = kept /\ file' = file
    BY <1>5 DEF ProcessWorkAsync, TypeOK, QInv
  <2>2. /\ Len(work_chain') = Len(work_chain) - 1 /\ Len(work_chain) \in Nat \ {0}
        /\ task' = work_chain[1]
        /\ \A i \in 1..(Len(work_chain) - 1) : work_chain'[i] = work_chain[i + 1]
    BY <2>1, Taken
  <2> SUFFICES ASSUME NEW d \in Client,
                      client[d] \in {"download", "update", "ok", "error"}
               PROVE  \/ NotOlder(d)
                      \/ wrk_pc' = "wget" /\ task' = Download(d)
                      \/ \E i \in 1..Len(work_chain') : work_chain'[i] = Download(d)
    BY <2>1 DEF Served, NotOlder
  <2>3. CASE NotOlder(d)
    BY <2>3
  <2>4. CASE ~NotOlder(d)
    <3>1. PICK i \in 1..Len(work_chain) : work_chain[i] = Download(d)
      BY <2>1, <2>4 DEF Served, QInv
    <3>2. CASE i = 1
      BY <2>1, <2>2, <3>1, <3>2, Kinds
    <3>3. CASE i # 1
      <4>1. i - 1 \in 1..Len(work_chain') /\ work_chain'[i - 1] = Download(d)
        BY <2>2, <3>1, <3>3
      <4> QED
        BY <4>1
    <3> QED
      BY <3>2, <3>3
  <2> QED
    BY <2>3, <2>4
<1>6. CASE process_async_download_file
  <2>1. /\ wrk_pc = "wget" /\ UNCHANGED <<client, asked, work_chain>>
        /\ \/ file' \in {newest, NoImage} /\ kept' = kept
           \/ file' = file /\ kept' = kept \cup {task.client}
    BY <1>6 DEF process_async_download_file
  <2>2. CASE file' \in {newest, NoImage} /\ kept' = kept
    <3>1. \A c \in Client : file' \in Image => file' >= asked[c]
      BY <2>2 DEF AskedKnown, Image, TypeOK, QInv
    <3> QED
      BY <2>1, <3>1 DEF Served, NotOlder
  <2>3. CASE file' = file /\ kept' = kept \cup {task.client}
    <3>1. \A c \in Client : task = Download(c) => c \in kept'
      BY <2>3 DEF Download
    <3> QED
      BY <2>1, <2>3, <3>1 DEF Served, NotOlder, QInv
  <2> QED
    BY <2>1, <2>2, <2>3
<1>7. CASE CheckImage
  BY <1>7, ServedKept DEF CheckImage, Command, QInv
<1>8. CASE Mkfs
  BY <1>8, ServedKept DEF Mkfs, QInv
<1>9. CASE MkfsRefused
  BY <1>9, ServedKept DEF MkfsRefused, Command, QInv
<1>10. CASE MkfsEnds
  BY <1>10, ServedKept DEF MkfsEnds, Command, QInv
<1>11. CASE MountRoot
  BY <1>11, ServedKept DEF MountRoot, Command, QInv
<1>12. CASE TarStarts
  BY <1>12, ServedKept DEF TarStarts, Command, QInv
<1>13. CASE TarEnds
  BY <1>13, ServedKept DEF TarEnds, Command, QInv
<1>14. CASE TarFails
  BY <1>14, ServedKept DEF TarFails, Command, QInv
<1>15. CASE CopyKernel
  BY <1>15, ServedKept DEF CopyKernel, Command, QInv
<1>16. CASE UmountRoot
  BY <1>16, ServedKept DEF UmountRoot, Command, QInv
<1>17. CASE RmMountPoint
  BY <1>17, ServedKept DEF RmMountPoint, Command, QInv
<1>18. CASE FlipBootMarker
  BY <1>18, ServedKept DEF FlipBootMarker, Command, QInv
<1>19. CASE process_async_set_fmwupdate
  <2>1. /\ wrk_pc = "return" /\ wrk_pc' = "idle" /\ task' = task
        /\ work_chain' = work_chain /\ file' = file /\ asked' = asked /\ kept' = kept
        /\ \A d \in Client : d # task.client => client'[d] = client[d]
    BY <1>19 DEF process_async_set_fmwupdate, TypeOK, QInv
  <2>2. client[task.client] \in {"update", "ok", "error"}
    BY <2>1 DEF ForClient, QInv
  <2> QED
    BY <2>1, <2>2 DEF Served, NotOlder, QInv
<1>20. CASE MountDevice
  BY <1>20, ServedKept DEF MountDevice, QInv
<1>21. CASE ReadBootVersion
  BY <1>21, ServedKept DEF ReadBootVersion, QInv
<1>22. CASE UmountDevice
  BY <1>22, ServedKept DEF UmountDevice, QInv
<1>23. CASE RmMountDir
  BY <1>23, ServedKept DEF RmMountDir, QInv
<1>24. CASE process_get_fmwver
  BY <1>24, ServedKept DEF process_get_fmwver, QInv
<1>25. CASE UNCHANGED vars
  BY <1>25, ServedKept DEF vars, QInv
<1> QED
  BY <1>1, <1>2, <1>3, <1>4, <1>5, <1>6, <1>7, <1>8, <1>9, <1>10, <1>11,
     <1>12, <1>13, <1>14, <1>15, <1>16, <1>17, <1>18, <1>19, <1>20, <1>21, <1>22,
     <1>23, <1>24, <1>25 DEF Next, Worker, GetFmwVersion

\* A client's download is ahead of its update.
LEMMA InOrderStep == QInv /\ [Next]_vars => InOrder'
<1> SUFFICES ASSUME QInv, [Next]_vars PROVE InOrder'
  OBVIOUS
<1>1. CASE PublishImage
  BY <1>1, InOrderKept DEF PublishImage, QInv
<1>2. CASE \E c \in Client : process_download_file(c)
  <2>1. PICK c \in Client : process_download_file(c)
    BY <1>2
  <2>2. /\ work_chain' = Append(work_chain, Download(c))
        /\ work_chain \in Seq(Task) /\ Download(c) \in Task
    BY <2>1, Tasks DEF process_download_file, Download, TypeOK, QInv
  <2>3. /\ Len(work_chain') = Len(work_chain) + 1 /\ Len(work_chain) \in Nat
        /\ \A i \in 1..Len(work_chain) : work_chain'[i] = work_chain[i]
        /\ work_chain'[Len(work_chain) + 1] = Download(c)
    BY <2>2, Appended
  <2>4. /\ \A d \in Client \ {c} : client'[d] = client[d]
        /\ client[c] = "idle" /\ client'[c] = "download"
    BY <2>1 DEF process_download_file, TypeOK, QInv
  <2>5. \A i \in 1..Len(work_chain) :
          work_chain[i] # Download(c) /\ work_chain[i] # Update(c)
    BY <2>4 DEF InOrder, QInv
  <2>6. \A d \in Client : (Download(d) = Download(c) => d = c) /\ Download(c) # Update(d)
    BY Kinds, Same
  <2> SUFFICES ASSUME NEW d \in Client, NEW i \in 1..Len(work_chain')
               PROVE  /\ work_chain'[i] = Download(d) => client'[d] # "idle"
                      /\ work_chain'[i] = Update(d) =>
                           /\ client'[d] \in {"update", "ok", "error"}
                           /\ \A j \in i..Len(work_chain') : work_chain'[j] # Download(d)
    BY DEF InOrder
  <2>7. CASE i = Len(work_chain) + 1
    BY <2>3, <2>4, <2>6, <2>7
  <2>8. CASE i \in 1..Len(work_chain)
    <3>1. work_chain'[i] = work_chain[i]
      BY <2>3, <2>8
    <3>2. work_chain'[i] = Download(d) => client'[d] # "idle"
      BY <2>4, <2>5, <2>8, <3>1, Zenon DEF InOrder, QInv
    <3>3. ASSUME work_chain'[i] = Update(d)
          PROVE  /\ client'[d] \in {"update", "ok", "error"}
                 /\ \A j \in i..Len(work_chain') : work_chain'[j] # Download(d)
      <4>1. d # c /\ client[d] \in {"update", "ok", "error"}
        BY <2>5, <2>8, <3>1, <3>3, Zenon DEF InOrder, QInv
      <4>2. \A j \in i..Len(work_chain) : work_chain[j] # Download(d)
        BY <2>8, <3>1, <3>3, Zenon DEF InOrder, QInv
      <4>3. \A j \in i..Len(work_chain') :
              (j \in i..Len(work_chain) /\ work_chain'[j] = work_chain[j]) \/ j = Len(work_chain) + 1
        BY <2>3, <2>8
      <4> QED
        BY <2>3, <2>4, <2>6, <4>1, <4>2, <4>3
    <3> QED
      BY <3>2, <3>3
  <2>9. i = Len(work_chain) + 1 \/ i \in 1..Len(work_chain)
    BY <2>3
  <2> QED
    BY <2>7, <2>8, <2>9
<1>3. CASE \E c \in Client : process_set_fmwupdate(c)
  <2>1. PICK c \in Client : process_set_fmwupdate(c)
    BY <1>3
  <2>2. /\ work_chain' = Append(work_chain, Update(c))
        /\ work_chain \in Seq(Task) /\ Update(c) \in Task
    BY <2>1, Tasks DEF process_set_fmwupdate, Update, TypeOK, QInv
  <2>3. /\ Len(work_chain') = Len(work_chain) + 1 /\ Len(work_chain) \in Nat
        /\ \A i \in 1..Len(work_chain) : work_chain'[i] = work_chain[i]
        /\ work_chain'[Len(work_chain) + 1] = Update(c)
    BY <2>2, Appended
  <2>4. /\ \A d \in Client \ {c} : client'[d] = client[d]
        /\ client[c] = "download" /\ client'[c] = "update"
    BY <2>1 DEF process_set_fmwupdate, TypeOK, QInv
  <2>5. \A i \in 1..Len(work_chain) : work_chain[i] # Update(c)
    BY <2>4 DEF InOrder, QInv
  <2>6. \A d \in Client : (Update(d) = Update(c) => d = c) /\ Download(d) # Update(c)
    BY Kinds, Same
  <2> SUFFICES ASSUME NEW d \in Client, NEW i \in 1..Len(work_chain')
               PROVE  /\ work_chain'[i] = Download(d) => client'[d] # "idle"
                      /\ work_chain'[i] = Update(d) =>
                           /\ client'[d] \in {"update", "ok", "error"}
                           /\ \A j \in i..Len(work_chain') : work_chain'[j] # Download(d)
    BY DEF InOrder
  <2>7. CASE i = Len(work_chain) + 1
    <3>1. \A n \in Nat : \A j \in n..n : j = n
      OBVIOUS
    <3>2. i \in Nat /\ Len(work_chain') = i
      BY <2>3, <2>7
    <3> QED
      BY <2>3, <2>4, <2>6, <2>7, <3>1, <3>2
  <2>8. CASE i \in 1..Len(work_chain)
    <3>1. work_chain'[i] = work_chain[i]
      BY <2>3, <2>8
    <3>2. work_chain'[i] = Download(d) => client'[d] # "idle"
      BY <2>4, <2>8, <3>1, Zenon DEF InOrder, QInv
    <3>3. ASSUME work_chain'[i] = Update(d)
          PROVE  /\ client'[d] \in {"update", "ok", "error"}
                 /\ \A j \in i..Len(work_chain') : work_chain'[j] # Download(d)
      <4>1. d # c /\ client[d] \in {"update", "ok", "error"}
        BY <2>5, <2>8, <3>1, <3>3, Zenon DEF InOrder, QInv
      <4>2. \A j \in i..Len(work_chain) : work_chain[j] # Download(d)
        BY <2>8, <3>1, <3>3, Zenon DEF InOrder, QInv
      <4>3. \A j \in i..Len(work_chain') :
              (j \in i..Len(work_chain) /\ work_chain'[j] = work_chain[j]) \/ j = Len(work_chain) + 1
        BY <2>3, <2>8
      <4> QED
        BY <2>3, <2>4, <2>6, <4>1, <4>2, <4>3
    <3> QED
      BY <3>2, <3>3
  <2>9. i = Len(work_chain) + 1 \/ i \in 1..Len(work_chain)
    BY <2>3
  <2> QED
    BY <2>7, <2>8, <2>9
<1>4. CASE \E c \in Client : PushAsyncTaskFails(c)
  <2>1. PICK c \in Client : PushAsyncTaskFails(c)
    BY <1>4
  <2>2. /\ \A d \in Client \ {c} : client'[d] = client[d]
        /\ client[c] \in {"idle", "download"} /\ client'[c] = "refused"
        /\ work_chain' = work_chain
    BY <2>1 DEF PushAsyncTaskFails, TypeOK, QInv
  <2> QED
    BY <2>2 DEF InOrder, QInv
<1>5. CASE ProcessWorkAsync
  <2>1. /\ work_chain \in Seq(Task) /\ work_chain # <<>>
        /\ work_chain' = Tail(work_chain) /\ client' = client
    BY <1>5 DEF ProcessWorkAsync, TypeOK, QInv
  <2>2. /\ Len(work_chain') = Len(work_chain) - 1 /\ Len(work_chain) \in Nat \ {0}
        /\ \A i \in 1..(Len(work_chain) - 1) : work_chain'[i] = work_chain[i + 1]
    BY <2>1, Taken
  <2>3. \A i \in 1..Len(work_chain') :
          i + 1 \in 1..Len(work_chain) /\ work_chain'[i] = work_chain[i + 1]
    BY <2>2
  <2>4. \A i \in 1..Len(work_chain') : \A j \in i..Len(work_chain') :
          j \in 1..Len(work_chain') /\ j + 1 \in (i + 1)..Len(work_chain)
    BY <2>2
  <2> SUFFICES ASSUME NEW d \in Client, NEW i \in 1..Len(work_chain')
               PROVE  /\ work_chain'[i] = Download(d) => client[d] # "idle"
                      /\ work_chain'[i] = Update(d) =>
                           /\ client[d] \in {"update", "ok", "error"}
                           /\ \A j \in i..Len(work_chain') : work_chain'[j] # Download(d)
    BY <2>1 DEF InOrder
  <2>5. i + 1 \in 1..Len(work_chain) /\ work_chain'[i] = work_chain[i + 1]
    BY <2>3
  <2>6. /\ work_chain[i + 1] = Download(d) => client[d] # "idle"
        /\ work_chain[i + 1] = Update(d) =>
             /\ client[d] \in {"update", "ok", "error"}
             /\ \A j \in (i + 1)..Len(work_chain) : work_chain[j] # Download(d)
    BY <2>5 DEF InOrder, QInv
  <2>7. \A j \in i..Len(work_chain') :
          work_chain'[j] = work_chain[j + 1] /\ j + 1 \in (i + 1)..Len(work_chain)
    BY <2>3, <2>4
  <2> QED
    BY <2>5, <2>6, <2>7
<1>6. CASE process_async_download_file
  BY <1>6, InOrderKept DEF process_async_download_file, QInv
<1>7. CASE CheckImage
  BY <1>7, InOrderKept DEF CheckImage, Command, QInv
<1>8. CASE Mkfs
  BY <1>8, InOrderKept DEF Mkfs, QInv
<1>9. CASE MkfsRefused
  BY <1>9, InOrderKept DEF MkfsRefused, Command, QInv
<1>10. CASE MkfsEnds
  BY <1>10, InOrderKept DEF MkfsEnds, Command, QInv
<1>11. CASE MountRoot
  BY <1>11, InOrderKept DEF MountRoot, Command, QInv
<1>12. CASE TarStarts
  BY <1>12, InOrderKept DEF TarStarts, Command, QInv
<1>13. CASE TarEnds
  BY <1>13, InOrderKept DEF TarEnds, Command, QInv
<1>14. CASE TarFails
  BY <1>14, InOrderKept DEF TarFails, Command, QInv
<1>15. CASE CopyKernel
  BY <1>15, InOrderKept DEF CopyKernel, Command, QInv
<1>16. CASE UmountRoot
  BY <1>16, InOrderKept DEF UmountRoot, Command, QInv
<1>17. CASE RmMountPoint
  BY <1>17, InOrderKept DEF RmMountPoint, Command, QInv
<1>18. CASE FlipBootMarker
  BY <1>18, InOrderKept DEF FlipBootMarker, Command, QInv
<1>19. CASE process_async_set_fmwupdate
  <2>1. /\ wrk_pc = "return" /\ work_chain' = work_chain
        /\ \A d \in Client : client'[d] = client[d] \/ client'[d] \in {"ok", "error"}
    BY <1>19 DEF process_async_set_fmwupdate, TypeOK, QInv
  <2> QED
    BY <2>1 DEF InOrder, QInv
<1>20. CASE MountDevice
  BY <1>20, InOrderKept DEF MountDevice, QInv
<1>21. CASE ReadBootVersion
  BY <1>21, InOrderKept DEF ReadBootVersion, QInv
<1>22. CASE UmountDevice
  BY <1>22, InOrderKept DEF UmountDevice, QInv
<1>23. CASE RmMountDir
  BY <1>23, InOrderKept DEF RmMountDir, QInv
<1>24. CASE process_get_fmwver
  BY <1>24, InOrderKept DEF process_get_fmwver, QInv
<1>25. CASE UNCHANGED vars
  BY <1>25, InOrderKept DEF vars, QInv
<1> QED
  BY <1>1, <1>2, <1>3, <1>4, <1>5, <1>6, <1>7, <1>8, <1>9, <1>10, <1>11,
     <1>12, <1>13, <1>14, <1>15, <1>16, <1>17, <1>18, <1>19, <1>20, <1>21, <1>22,
     <1>23, <1>24, <1>25 DEF Next, Worker, GetFmwVersion

\* The image an update is at work on is no older than its client asked for.
LEMMA ForClientStep == QInv /\ [Next]_vars => ForClient'
<1> SUFFICES ASSUME QInv, [Next]_vars PROVE ForClient'
  OBVIOUS
<1>1. CASE PublishImage
  BY <1>1, ForClientKept DEF PublishImage, QInv
<1>2. CASE \E c \in Client : process_download_file(c)
  <2>1. PICK c \in Client : process_download_file(c)
    BY <1>2
  <2>2. /\ \A d \in Client \ {c} : client'[d] = client[d] /\ asked'[d] = asked[d]
        /\ client[c] = "idle"
        /\ UNCHANGED <<file, kept, wrk_pc, task, image, sts>>
    BY <2>1 DEF process_download_file, TypeOK, QInv
  <2>3. wrk_pc # "idle" => task.client \in Client \ {c}
    BY <2>2, TaskFields DEF ForClient, TypeOK, QInv
  <2> QED
    BY <2>2, <2>3 DEF ForClient, NotOlder, QInv
<1>3. CASE \E c \in Client : process_set_fmwupdate(c)
  <2>1. PICK c \in Client : process_set_fmwupdate(c)
    BY <1>3
  <2>2. /\ \A d \in Client \ {c} : client'[d] = client[d]
        /\ client'[c] = "update"
        /\ UNCHANGED <<asked, kept, file, wrk_pc, task, image, sts>>
    BY <2>1 DEF process_set_fmwupdate, TypeOK, QInv
  <2>3. wrk_pc # "idle" => task.client \in Client
    BY TaskFields DEF TypeOK, QInv
  <2> QED
    BY <2>2, <2>3 DEF ForClient, NotOlder, QInv
<1>4. CASE \E c \in Client : PushAsyncTaskFails(c)
  <2>1. PICK c \in Client : PushAsyncTaskFails(c)
    BY <1>4
  <2>2. /\ \A d \in Client \ {c} : client'[d] = client[d]
        /\ client[c] \in {"idle", "download"} /\ client'[c] = "refused"
        /\ UNCHANGED <<asked, kept, file, wrk_pc, task, image, sts>>
    BY <2>1 DEF PushAsyncTaskFails, TypeOK, QInv
  <2>3. wrk_pc # "idle" => task.client \in Client
    BY TaskFields DEF TypeOK, QInv
  <2> QED
    BY <2>2, <2>3 DEF ForClient, NotOlder, QInv
<1>5. CASE ProcessWorkAsync
  <2>1. /\ work_chain \in Seq(Task) /\ work_chain # <<>>
        /\ task' = Head(work_chain) /\ wrk_pc = "idle"
        /\ wrk_pc' = IF Head(work_chain).cmd = "download" THEN "wget" ELSE "check"
        /\ client' = client /\ asked' = asked /\ kept' = kept /\ file' = file
    BY <1>5 DEF ProcessWorkAsync, TypeOK, QInv
  <2>2. /\ Len(work_chain) \in Nat \ {0} /\ task' = work_chain[1]
    BY <2>1, Taken
  <2>3. task' \in Task /\ task'.client \in Client
    BY <2>1, <2>2, TaskFields
  <2>4. CASE Head(work_chain).cmd = "download"
    <3>1. task' = Download(task'.client) /\ wrk_pc' = "wget"
      BY <2>1, <2>3, <2>4, TaskFields
    <3>2. 1 \in 1..Len(work_chain)
      BY <2>2
    <3>3. client[task'.client] # "idle"
      BY <2>2, <2>3, <3>1, <3>2 DEF InOrder, QInv
    <3> QED
      BY <2>1, <3>1, <3>3 DEF ForClient
  <2>5. CASE Head(work_chain).cmd # "download"
    <3>1. work_chain[1] = Update(task'.client) /\ wrk_pc' = "check"
      BY <2>1, <2>2, <2>3, <2>5, TaskFields
    <3>2. 1 \in 1..Len(work_chain)
      BY <2>2
    <3>3. /\ client[task'.client] \in {"update", "ok", "error"}
          /\ \A j \in 1..Len(work_chain) : work_chain[j] # Download(task'.client)
      BY <2>3, <3>1, <3>2 DEF InOrder, QInv
    <3>4. NotOlder(task'.client)
      BY <2>1, <2>3, <3>3 DEF Served, QInv
    <3> QED
      BY <2>1, <3>1, <3>3, <3>4 DEF ForClient, NotOlder
  <2> QED
    BY <2>4, <2>5
<1>6. CASE process_async_download_file
  BY <1>6 DEF process_async_download_file, ForClient, NotOlder, TypeOK, QInv
<1>7. CASE CheckImage
  BY <1>7 DEF CheckImage, Command, ForClient, NotOlder, TypeOK, QInv
<1>8. CASE Mkfs
  BY <1>8 DEF Mkfs, ForClient, NotOlder, TypeOK, QInv
<1>9. CASE MkfsRefused
  BY <1>9 DEF MkfsRefused, Command, ForClient, NotOlder, TypeOK, QInv
<1>10. CASE MkfsEnds
  BY <1>10 DEF MkfsEnds, Command, ForClient, NotOlder, TypeOK, QInv
<1>11. CASE MountRoot
  BY <1>11 DEF MountRoot, Command, ForClient, NotOlder, TypeOK, QInv
<1>12. CASE TarStarts
  BY <1>12 DEF TarStarts, Command, ForClient, NotOlder, TypeOK, QInv
<1>13. CASE TarEnds
  BY <1>13 DEF TarEnds, Command, ForClient, NotOlder, TypeOK, QInv
<1>14. CASE TarFails
  BY <1>14 DEF TarFails, Command, ForClient, NotOlder, TypeOK, QInv
<1>15. CASE CopyKernel
  BY <1>15 DEF CopyKernel, Command, ForClient, NotOlder, TypeOK, QInv
<1>16. CASE UmountRoot
  BY <1>16 DEF UmountRoot, Command, ForClient, NotOlder, TypeOK, QInv
<1>17. CASE RmMountPoint
  BY <1>17 DEF RmMountPoint, Command, ForClient, NotOlder, TypeOK, QInv
<1>18. CASE FlipBootMarker
  BY <1>18 DEF FlipBootMarker, Command, ForClient, NotOlder, TypeOK, QInv
<1>19. CASE process_async_set_fmwupdate
  BY <1>19 DEF process_async_set_fmwupdate, ForClient, NotOlder, TypeOK, QInv
<1>20. CASE MountDevice
  BY <1>20, ForClientKept DEF MountDevice, QInv
<1>21. CASE ReadBootVersion
  BY <1>21, ForClientKept DEF ReadBootVersion, QInv
<1>22. CASE UmountDevice
  BY <1>22, ForClientKept DEF UmountDevice, QInv
<1>23. CASE RmMountDir
  BY <1>23, ForClientKept DEF RmMountDir, QInv
<1>24. CASE process_get_fmwver
  BY <1>24, ForClientKept DEF process_get_fmwver, QInv
<1>25. CASE UNCHANGED vars
  BY <1>25 DEF vars, ForClient, NotOlder, TypeOK, QInv
<1> QED
  BY <1>1, <1>2, <1>3, <1>4, <1>5, <1>6, <1>7, <1>8, <1>9, <1>10, <1>11,
     <1>12, <1>13, <1>14, <1>15, <1>16, <1>17, <1>18, <1>19, <1>20, <1>21, <1>22,
     <1>23, <1>24, <1>25 DEF Next, Worker, GetFmwVersion

\* And so is the one it has installed.
LEMMA NoOlderImageStep == QInv /\ [Next]_vars => NoOlderImage'
<1> SUFFICES ASSUME QInv, [Next]_vars PROVE NoOlderImage'
  OBVIOUS
<1>1. CASE PublishImage
  BY <1>1 DEF PublishImage, NoOlderImage, ForClient, TypeOK, QInv
<1>2. CASE \E c \in Client : process_download_file(c)
  BY <1>2 DEF process_download_file, NoOlderImage, ForClient, TypeOK, QInv
<1>3. CASE \E c \in Client : process_set_fmwupdate(c)
  BY <1>3 DEF process_set_fmwupdate, NoOlderImage, ForClient, TypeOK, QInv
<1>4. CASE \E c \in Client : PushAsyncTaskFails(c)
  BY <1>4 DEF PushAsyncTaskFails, NoOlderImage, ForClient, TypeOK, QInv
<1>5. CASE ProcessWorkAsync
  BY <1>5 DEF ProcessWorkAsync, NoOlderImage, ForClient, TypeOK, QInv
<1>6. CASE process_async_download_file
  BY <1>6 DEF process_async_download_file, NoOlderImage, ForClient, TypeOK, QInv
<1>7. CASE CheckImage
  BY <1>7 DEF CheckImage, Command, NoOlderImage, ForClient, TypeOK, QInv
<1>8. CASE Mkfs
  BY <1>8 DEF Mkfs, NoOlderImage, ForClient, TypeOK, QInv
<1>9. CASE MkfsRefused
  BY <1>9 DEF MkfsRefused, Command, NoOlderImage, ForClient, TypeOK, QInv
<1>10. CASE MkfsEnds
  BY <1>10 DEF MkfsEnds, Command, NoOlderImage, ForClient, TypeOK, QInv
<1>11. CASE MountRoot
  BY <1>11 DEF MountRoot, Command, NoOlderImage, ForClient, TypeOK, QInv
<1>12. CASE TarStarts
  BY <1>12 DEF TarStarts, Command, NoOlderImage, ForClient, TypeOK, QInv
<1>13. CASE TarEnds
  BY <1>13 DEF TarEnds, Command, NoOlderImage, ForClient, TypeOK, QInv
<1>14. CASE TarFails
  BY <1>14 DEF TarFails, Command, NoOlderImage, ForClient, TypeOK, QInv
<1>15. CASE CopyKernel
  BY <1>15 DEF CopyKernel, Command, NoOlderImage, ForClient, TypeOK, QInv
<1>16. CASE UmountRoot
  BY <1>16 DEF UmountRoot, Command, NoOlderImage, ForClient, TypeOK, QInv
<1>17. CASE RmMountPoint
  BY <1>17 DEF RmMountPoint, Command, NoOlderImage, ForClient, TypeOK, QInv
<1>18. CASE FlipBootMarker
  BY <1>18 DEF FlipBootMarker, Command, NoOlderImage, ForClient, TypeOK, QInv
<1>19. CASE process_async_set_fmwupdate
  BY <1>19 DEF process_async_set_fmwupdate, NoOlderImage, ForClient, TypeOK, QInv
<1>20. CASE MountDevice
  BY <1>20 DEF MountDevice, NoOlderImage, ForClient, TypeOK, QInv
<1>21. CASE ReadBootVersion
  BY <1>21 DEF ReadBootVersion, NoOlderImage, ForClient, TypeOK, QInv
<1>22. CASE UmountDevice
  BY <1>22 DEF UmountDevice, NoOlderImage, ForClient, TypeOK, QInv
<1>23. CASE RmMountDir
  BY <1>23 DEF RmMountDir, NoOlderImage, ForClient, TypeOK, QInv
<1>24. CASE process_get_fmwver
  BY <1>24 DEF process_get_fmwver, NoOlderImage, ForClient, TypeOK, QInv
<1>25. CASE UNCHANGED vars
  BY <1>25 DEF vars, NoOlderImage, ForClient, TypeOK, QInv
<1> QED
  BY <1>1, <1>2, <1>3, <1>4, <1>5, <1>6, <1>7, <1>8, <1>9, <1>10, <1>11,
     <1>12, <1>13, <1>14, <1>15, <1>16, <1>17, <1>18, <1>19, <1>20, <1>21, <1>22,
     <1>23, <1>24, <1>25 DEF Next, Worker, GetFmwVersion

\* Every step of sysmgr, its scripts and its clients keeps the invariant.
LEMMA QInvStep == QInv /\ [Next]_vars => QInv'
<1> SUFFICES ASSUME QInv, [Next]_vars PROVE QInv'
  OBVIOUS
<1>1. TypeOK'
  BY TypeStep DEF QInv
<1>2. AskedKnown' /\ Served' /\ InOrder'
  BY AskedKnownStep, ServedStep, InOrderStep
<1>3. ForClient' /\ NoOlderImage'
  BY ForClientStep, NoOlderImageStep
<1> QED
  BY <1>1, <1>2, <1>3 DEF QInv

\* Whatever is queued, refused or overwritten, a client's download stays ahead
\* of its update, which works on nothing older than was asked for.
THEOREM QueueInvariance == Spec => []QInv
  BY QInvInit, QInvStep, PTL DEF Spec

\* An update answered ok has installed an image at least as new as the one
\* its client asked for, however many clients download to the same file, unless
\* the client's own download failed and left the file of an earlier one.
THEOREM NoOlderImageHolds == Spec => []NoOlderImage
<1>1. QInv => NoOlderImage
  BY DEF QInv
<1> QED
  BY <1>1, QueueInvariance, PTL
-----------------------------------------------------------------------------
(* The script the worker runs for firmware_update (raspi2-update, module    *)
(* AbUpdate) keeps the board bootable: CardIInv is inductive, for every     *)
(* number of updates.                                                       *)

USE MaxUpdatesAssumption DEF System, Off, Part, Content, BootFiles, Other,
        Editing

\* A card as it was first written satisfies the invariant.
LEMMA ScriptInvInit == CardInit => CardIInv
<1> SUFFICES ASSUME CardInit PROVE CardIInv
  OBVIOUS
<1> USE DEF CardInit
<1>1. CardTypeOK
  <2>1. 0 \in Content /\ 0 \in 0..MaxUpdates
    OBVIOUS
  <2>2. rootfs \in [System -> Content] /\ kernel \in [System -> Content]
    BY <2>1
  <2>3. boot_files \in BootFiles /\ boot_disk \in BootFiles
    OBVIOUS
  <2> QED
    BY <2>1, <2>2, <2>3 DEF CardTypeOK
<1>2. SyncedOutsideFlip /\ FilesAgree /\ FlippedAgree /\ FlipAgrees
  BY DEF SyncedOutsideFlip, FilesAgree, FlippedAgree, FlipAgrees
<1>3. Written /\ FirstUpdate /\ RunningIntact /\ OkMeansUpdated
  BY DEF Written, FirstUpdate, RunningIntact, OkMeansUpdated
<1>4. Failsafe
  BY DEF Failsafe, BootableAfterPowerCut
<1> QED
  BY <1>1, <1>2, <1>3, <1>4 DEF CardIInv

\* raspi2-update's choice of a target keeps the invariant: an update that finds
\* the marker on its target is recorded in reflash.
LEMMA StartUpdateStep == CardIInv /\ StartUpdate => CardIInv'
<1> SUFFICES ASSUME CardIInv, StartUpdate PROVE CardIInv'
  OBVIOUS
<1> USE DEF CardIInv, StartUpdate, disk
<1>1. CardTypeOK'
  <2>1. updates' \in 0..MaxUpdates
    BY DEF CardTypeOK
  <2>2. (reflash \/ boot_files.cmdline # running) \in BOOLEAN
    OBVIOUS
  <2> QED
    BY <2>1, <2>2 DEF CardTypeOK, Commands
<1>2. SyncedOutsideFlip' /\ FilesAgree' /\ FlippedAgree' /\ FlipAgrees'
  BY DEF SyncedOutsideFlip, FilesAgree, FlippedAgree, FlipAgrees
<1>3. Written' /\ RunningIntact' /\ OkMeansUpdated'
  BY DEF Written, RunningIntact, OkMeansUpdated
<1>4. FirstUpdate'
  BY DEF FirstUpdate, SyncedOutsideFlip
<1>5. Failsafe'
  BY DEF Failsafe, BootableAfterPowerCut
<1> QED
  BY <1>1, <1>2, <1>3, <1>4, <1>5

\* A power cut at any step keeps the invariant: Failsafe speaks of every pair
\* of boot files the cut can leave.
LEMMA PowerOffStep == CardIInv /\ PowerOff => CardIInv'
<1> SUFFICES ASSUME CardIInv, PowerOff PROVE CardIInv'
  OBVIOUS
<1> USE DEF CardIInv, PowerOff, flags
<1>1. PICK c \in {boot_disk.cmdline, boot_files.cmdline},
           k \in {boot_disk.config, boot_files.config} :
             boot_disk' = [cmdline |-> c, config |-> k]
  OBVIOUS
<1>2. c \in System /\ k \in System
  BY DEF CardTypeOK
<1>3. CardTypeOK'
  BY <1>1, <1>2 DEF CardTypeOK
<1>4. SyncedOutsideFlip' /\ FilesAgree' /\ FlippedAgree' /\ FlipAgrees'
  BY DEF SyncedOutsideFlip, FilesAgree, FlippedAgree, FlipAgrees
<1>5. Written' /\ FirstUpdate' /\ RunningIntact' /\ OkMeansUpdated'
  BY DEF Written, FirstUpdate, RunningIntact, OkMeansUpdated
<1>6. Failsafe'
  BY <1>1 DEF Failsafe, BootableAfterPowerCut
<1> QED
  BY <1>3, <1>4, <1>5, <1>6

\* Every command of the scripts, the power cut and the boot keep the invariant.
LEMMA ScriptInvStep == CardIInv /\ [CardNext]_cardVars => CardIInv'
<1> SUFFICES ASSUME CardIInv, [CardNext]_cardVars PROVE CardIInv'
  OBVIOUS
<1> USE DEF CardIInv, CardTypeOK, SyncedOutsideFlip, FilesAgree,
        FlippedAgree, FlipAgrees, Written, FirstUpdate, RunningIntact,
        OkMeansUpdated, Failsafe, BootableAfterPowerCut, Commands,
        disk, flags, Goto, Return
<1>1. CASE StartUpdate
  BY <1>1, StartUpdateStep
<1>2. CASE RejectImage
  BY <1>2 DEF RejectImage
<1>3. CASE MkfsTarget
  BY <1>3 DEF MkfsTarget
<1>4. CASE Mount
  BY <1>4 DEF Mount
<1>5. CASE Tar
  BY <1>5 DEF Tar
<1>6. CASE SyncRoot
  BY <1>6 DEF SyncRoot
<1>7. CASE MountBoot
  BY <1>7 DEF MountBoot
<1>8. CASE CopyKernelWorks
  BY <1>8 DEF CopyKernelWorks
<1>9. CASE CopyKernelFails
  BY <1>9 DEF CopyKernelFails
<1>10. CASE SyncKernel
  BY <1>10 DEF SyncKernel
<1>11. CASE FlipBootMarkerStarts
  BY <1>11 DEF FlipBootMarkerStarts
<1>12. CASE SedCmdline
  BY <1>12 DEF SedCmdline
<1>13. CASE SedConfig
  BY <1>13 DEF SedConfig
<1>14. CASE SedFails
  BY <1>14 DEF SedFails
<1>15. CASE SyncBoot
  BY <1>15 DEF SyncBoot
<1>16. CASE PowerOff
  BY <1>16, PowerOffStep
<1>17. CASE Boot
  BY <1>17 DEF Boot
<1>18. CASE UNCHANGED cardVars
  BY <1>18 DEF cardVars
<1> QED
  BY <1>1, <1>2, <1>3, <1>4, <1>5, <1>6, <1>7, <1>8, <1>9, <1>10, <1>11, <1>12,
     <1>13, <1>14, <1>15, <1>16, <1>17, <1>18 DEF CardNext

\* The invariant holds at every step of every update, power cut and boot.
THEOREM UpdateInvariance == CardSpec => []CardIInv
<1>1. CardInit => CardIInv
  BY ScriptInvInit
<1>2. CardIInv /\ [CardNext]_cardVars => CardIInv'
  BY ScriptInvStep
<1> QED
  BY <1>1, <1>2, PTL DEF CardSpec

\* The script's and the card's variables keep their types: there is always one
\* running system, and the boot files name a system or are being written.
THEOREM UpdateTypeCorrect == CardSpec => []CardTypeOK
<1>1. CardIInv => CardTypeOK
  BY DEF CardIInv
<1> QED
  BY <1>1, UpdateInvariance, PTL

\* The board stays bootable through any number of updates and power cuts, if it
\* is rebooted between updates, no flip is torn and every cp and sed works.
THEOREM FailsafeHolds == CardSpec => []Failsafe
<1>1. CardIInv => Failsafe
  BY DEF CardIInv
<1> QED
  BY <1>1, UpdateInvariance, PTL

\* raspi2-update never damages the root file system it runs from.
THEOREM RunningIntactHolds == CardSpec => []RunningIntact
<1>1. CardIInv => RunningIntact
  BY DEF CardIInv
<1> QED
  BY <1>1, UpdateInvariance, PTL

\* raspi2-update's [OK] means that the next boot is the new system, if every cp
\* and sed works.
THEOREM OkMeansUpdatedHolds == CardSpec => []OkMeansUpdated
<1>1. CardIInv => OkMeansUpdated
  BY DEF CardIInv
<1> QED
  BY <1>1, UpdateInvariance, PTL

\* An update that returns 1 leaves the boot files in step with the card and
\* with each other.
THEOREM ErrorKeepsBootFilesHolds == CardSpec => []ErrorKeepsBootFiles
<1>1. CardIInv => ErrorKeepsBootFiles
  BY DEF CardIInv, CardTypeOK, SyncedOutsideFlip, FilesAgree, ErrorKeepsBootFiles
<1> QED
  BY <1>1, UpdateInvariance, PTL
-----------------------------------------------------------------------------
(* Display service                                                         *)

USE DispSrvAssumption DEF NULL, Up

\* What a display can show.
LEMMA Shown ==
    Dark \in Screen /\ Blank \in Screen /\ User \in Screen
    /\ \A i \in Ip : Address(i) \in Screen
  BY DEF Screen

\* A use of an object leaves a record of who it was.
LEMMA UseType ==
    ASSUME NEW t \in Thread, NEW o, dangling \subseteq Thread, Use(t, o)
    PROVE  dangling' \subseteq Thread
  BY DEF Use

\* Initialising a display, or turning it off, leaves something it can show.
LEMMA PanelType ==
    ASSUME NEW o, NEW n \in Nat, o \in 0..n, NEW x \in Screen, screen \in Screen,
           ssoledinit \subseteq 0..n,
           InitPanel(o, x) \/ oledPowerOff(o)
    PROVE  screen' \in Screen /\ ssoledinit' \subseteq 0..n
  BY Shown DEF InitPanel, oledPowerOff

\* The service as main has set it up satisfies the invariant.
LEMMA DispIInvInit == DispInit => DispIInv
<1> SUFFICES ASSUME DispInit PROVE DispIInv
  OBVIOUS
<1>1. DispTypeOK
  <2>1. screen \in Screen
    BY Shown DEF DispInit
  <2>2. 1 \in Ip /\ 0 \in 0..(DISP_SCAN_DURATION - 1) /\ 0 \in 0..MaxPlugs
        /\ 0 \in 0..MaxCalls /\ 0 \in 0..(MaxBacklog + 1)
    BY DEF Ip
  <2>3. objects \in Nat /\ pDisplay \in 0..objects /\ pDisp \in 0..objects
    BY DEF DispInit
  <2>4. hotplug \in BOOLEAN
    BY DEF DispInit
  <2>5. ssoledinit \subseteq 0..objects
    BY <2>3 DEF DispInit
  <2> QED
    BY <2>1, <2>2, <2>3, <2>4, <2>5 DEF DispInit, DispTypeOK
<1>2. Owned
  BY DEF DispInit, Owned
<1>3. Still
  BY DEF DispInit, Still
<1>4. DanglingOnlyIf
  BY DEF DispInit, DanglingOnlyIf
<1> QED
  BY <1>1, <1>2, <1>3, <1>4 DEF DispIInv

\* Every step keeps the invariant.
LEMMA DispIInvStep == DispIInv /\ [DispNext]_dispVars => DispIInv'
<1> SUFFICES ASSUME DispIInv, [DispNext]_dispVars PROVE DispIInv'
  OBVIOUS
<1> USE DEF DispIInv, envVars, panel, heap, tmrVars, sigVars, rpcVars, history
<1>1. CASE sigalrm
  <2>1. DispTypeOK'
    BY <1>1 DEF sigalrm, DispTypeOK
  <2>2. Owned' /\ Still'
    BY <1>1 DEF sigalrm, DispTypeOK, Owned, Still
  <2>3. DanglingOnlyIf'
    BY <1>1 DEF sigalrm, DispTypeOK, Owned, Still, DanglingOnlyIf
  <2> QED
    BY <2>1, <2>2, <2>3
<1>2. CASE sigterm
  <2>1. DispTypeOK'
    BY <1>2 DEF sigterm, DispTypeOK
  <2>2. Owned' /\ Still'
    BY <1>2 DEF sigterm, DispTypeOK, Owned, Still
  <2>3. DanglingOnlyIf'
    BY <1>2 DEF sigterm, DispTypeOK, Owned, Still, DanglingOnlyIf
  <2> QED
    BY <2>1, <2>2, <2>3
<1>3. CASE forced_exit
  <2>1. DispTypeOK'
    BY <1>3 DEF forced_exit, DispTypeOK
  <2>2. Owned' /\ Still'
    BY <1>3 DEF forced_exit, DispTypeOK, Owned, Still
  <2>3. DanglingOnlyIf'
    BY <1>3 DEF forced_exit, DispTypeOK, Owned, Still, DanglingOnlyIf
  <2> QED
    BY <2>1, <2>2, <2>3
<1>4. CASE NOTIFY_EVENT
  <2>1. DispTypeOK'
    BY <1>4 DEF NOTIFY_EVENT, MainStep, DispTypeOK
  <2>2. Owned' /\ Still'
    BY <1>4 DEF NOTIFY_EVENT, MainStep, DispTypeOK, Owned, Still
  <2>3. DanglingOnlyIf'
    BY <1>4 DEF NOTIFY_EVENT, MainStep, DispTypeOK, Owned, Still, DanglingOnlyIf
  <2> QED
    BY <2>1, <2>2, <2>3
<1>5. CASE deleteDisplay
  <2>1. DispTypeOK'
    <3>1. freed' \subseteq 1..objects'
      <4>1. objects' = objects /\ freed \subseteq 1..objects
        BY <1>5 DEF deleteDisplay, MainStep, DispTypeOK
      <4>2. pDisplay # NULL => pDisplay \in 1..objects
        BY DEF DispTypeOK
      <4>3. freed' = freed \/ (pDisplay # NULL /\ freed' = freed \cup {pDisplay})
        BY <1>5 DEF deleteDisplay
      <4> QED
        BY <4>1, <4>2, <4>3
    <3>2. dangling' \subseteq Thread
      BY <1>5, UseType DEF deleteDisplay, Thread, DispTypeOK
    <3>3. screen' \in Screen /\ ssoledinit' \subseteq 0..objects'
      <4>1. /\ objects' = objects /\ objects \in Nat /\ pDisplay \in 0..objects
            /\ screen \in Screen /\ ssoledinit \subseteq 0..objects
        BY <1>5 DEF deleteDisplay, MainStep, DispTypeOK
      <4>2. oledPowerOff(pDisplay) \/ UNCHANGED <<screen, ssoledinit>>
        BY <1>5 DEF deleteDisplay
      <4> QED
        BY <4>1, <4>2, Shown, PanelType
    <3> QED
      BY <1>5, <3>1, <3>2, <3>3 DEF deleteDisplay, MainStep, DispTypeOK
  <2>2. Owned' /\ Still'
    BY <1>5 DEF deleteDisplay, MainStep, Use, DispTypeOK, Owned, Still
  <2>3. DanglingOnlyIf'
    BY <1>5 DEF deleteDisplay, MainStep, Use, DispTypeOK, Owned, Still, DanglingOnlyIf
  <2> QED
    BY <2>1, <2>2, <2>3
<1>6. CASE destroyRpcs
  <2>1. DispTypeOK'
    BY <1>6 DEF destroyRpcs, MainStep, DispTypeOK
  <2>2. Owned' /\ Still'
    BY <1>6 DEF destroyRpcs, MainStep, DispTypeOK, Owned, Still
  <2>3. DanglingOnlyIf'
    BY <1>6 DEF destroyRpcs, MainStep, DispTypeOK, Owned, Still, DanglingOnlyIf
  <2> QED
    BY <2>1, <2>2, <2>3
<1>7. CASE destroyRpcMgr
  <2>1. DispTypeOK'
    BY <1>7 DEF destroyRpcMgr, MainStep, DispTypeOK
  <2>2. Owned' /\ Still'
    BY <1>7 DEF destroyRpcMgr, MainStep, DispTypeOK, Owned, Still
  <2>3. DanglingOnlyIf'
    BY <1>7 DEF destroyRpcMgr, MainStep, DispTypeOK, Owned, Still, DanglingOnlyIf
  <2> QED
    BY <2>1, <2>2, <2>3
<1>8. CASE notifyUnconnected
  <2>1. DispTypeOK'
    BY <1>8 DEF notifyUnconnected, MainStep, DispTypeOK
  <2>2. Owned' /\ Still'
    BY <1>8 DEF notifyUnconnected, MainStep, DispTypeOK, Owned, Still
  <2>3. DanglingOnlyIf'
    BY <1>8 DEF notifyUnconnected, MainStep, DispTypeOK, Owned, Still, DanglingOnlyIf
  <2> QED
    BY <2>1, <2>2, <2>3
<1>9. CASE stop_thread
  <2>1. DispTypeOK'
    <3>1. one_shot_sema' \in 0..(MaxBacklog + 1)
      BY <1>9 DEF stop_thread, MainStep, DispTypeOK, Owned
    <3> QED
      BY <1>9, <3>1 DEF stop_thread, MainStep, DispTypeOK
  <2>2. Owned' /\ Still'
    BY <1>9 DEF stop_thread, MainStep, DispTypeOK, Owned, Still
  <2>3. DanglingOnlyIf'
    BY <1>9 DEF stop_thread, MainStep, DispTypeOK, Owned, Still, DanglingOnlyIf
  <2> QED
    BY <2>1, <2>2, <2>3
<1>10. CASE pthread_join
  <2>1. DispTypeOK'
    BY <1>10 DEF pthread_join, MainStep, DispTypeOK
  <2>2. Owned' /\ Still'
    BY <1>10 DEF pthread_join, MainStep, DispTypeOK, Owned, Still
  <2>3. DanglingOnlyIf'
    BY <1>10 DEF pthread_join, MainStep, DispTypeOK, Owned, Still, DanglingOnlyIf
  <2> QED
    BY <2>1, <2>2, <2>3
<1>11. CASE my_thread_func
  <2>1. DispTypeOK'
    BY <1>11 DEF my_thread_func, Loop, DispTypeOK
  <2>2. Owned' /\ Still'
    BY <1>11 DEF my_thread_func, Loop, DispTypeOK, Owned, Still
  <2>3. DanglingOnlyIf'
    BY <1>11 DEF my_thread_func, Loop, DispTypeOK, Owned, Still, DanglingOnlyIf
  <2> QED
    BY <2>1, <2>2, <2>3
<1>12. CASE timer_notification
  <2>1. DispTypeOK'
    <3>1. one_shot_sema' \in 0..(MaxBacklog + 1)
      BY <1>12 DEF timer_notification, DispTypeOK
    <3>2. TimerCount' \in 0..(DISP_SCAN_DURATION - 1)
      BY <1>12 DEF timer_notification, DispTypeOK
    <3>3. dangling' \subseteq Thread
      BY <1>12 DEF timer_notification, Thread, DispTypeOK
    <3> QED
      BY <1>12, <3>1, <3>2, <3>3 DEF timer_notification, TimerStep, Loop, DispTypeOK
  <2>2. Owned' /\ Still'
    BY <1>12 DEF timer_notification, TimerStep, Loop, DispTypeOK, Owned, Still
  <2>3. DanglingOnlyIf'
    BY <1>12 DEF timer_notification, TimerStep, Loop, DispTypeOK, Owned, Still, DanglingOnlyIf
  <2> QED
    BY <2>1, <2>2, <2>3
<1>13. CASE check_for_i2c_addr
  <2>1. DispTypeOK'
    BY <1>13 DEF check_for_i2c_addr, scanned, Loop, TimerStep, DispTypeOK
  <2>2. Owned' /\ Still'
    BY <1>13 DEF check_for_i2c_addr, scanned, Loop, TimerStep, DispTypeOK, Owned, Still
  <2>3. DanglingOnlyIf'
    BY <1>13 DEF check_for_i2c_addr, scanned, Loop, TimerStep, DispTypeOK, Owned, Still, DanglingOnlyIf
  <2> QED
    BY <2>1, <2>2, <2>3
<1>14. CASE delete
  <2>1. DispTypeOK'
    <3>1. freed' \subseteq 1..objects'
      <4>1. objects' = objects /\ freed \subseteq 1..objects
        BY <1>14 DEF delete, TimerStep, DispTypeOK
      <4>2. pDisplay \in 1..objects
        BY <1>14 DEF delete, TimerStep, DispTypeOK, Owned
      <4>3. freed' = freed \cup {pDisplay}
        BY <1>14 DEF delete
      <4> QED
        BY <4>1, <4>2, <4>3
    <3>2. dangling' \subseteq Thread
      BY <1>14, UseType DEF delete, Thread, DispTypeOK
    <3>3. screen' \in Screen /\ ssoledinit' \subseteq 0..objects'
      <4>1. /\ objects' = objects /\ objects \in Nat /\ pDisplay \in 0..objects
            /\ screen \in Screen /\ ssoledinit \subseteq 0..objects
        BY <1>14 DEF delete, TimerStep, DispTypeOK
      <4>2. oledPowerOff(pDisplay)
        BY <1>14 DEF delete
      <4> QED
        BY <4>1, <4>2, Shown, PanelType
    <3> QED
      BY <1>14, <3>1, <3>2, <3>3 DEF delete, TimerStep, DispTypeOK
  <2>2. Owned' /\ Still'
    BY <1>14 DEF delete, TimerStep, Use, DispTypeOK, Owned, Still
  <2>3. DanglingOnlyIf'
    BY <1>14 DEF delete, TimerStep, Use, DispTypeOK, Owned, Still, DanglingOnlyIf
  <2> QED
    BY <2>1, <2>2, <2>3
<1>15. CASE null
  <2>1. DispTypeOK'
    <3>1. pDisplay' \in 0..objects'
      BY <1>15 DEF null, TimerStep, DispTypeOK
    <3>2. last_ip' \in Ip \cup {0} /\ missed' \in BOOLEAN /\ tpc' \in {"sem", "ended"}
      BY <1>15 DEF null, Loop
    <3>3. /\ UNCHANGED <<oled, plugged, plugs, ip, screen, ssoledinit, objects, freed>>
          /\ UNCHANGED <<tid, TimerCount, one_shot_sema, hpc, pDisp>>
          /\ UNCHANGED <<calls, mpc, received_user_stop_sig, lost, hotplug, dangling>>
      BY <1>15 DEF null, TimerStep
    <3> QED
      BY <3>1, <3>2, <3>3 DEF DispTypeOK
  <2>2. Owned' /\ Still'
    BY <1>15 DEF null, TimerStep, Loop, DispTypeOK, Owned, Still
  <2>3. DanglingOnlyIf'
    BY <1>15 DEF null, TimerStep, Loop, DispTypeOK, Owned, Still, DanglingOnlyIf
  <2> QED
    BY <2>1, <2>2, <2>3
<1>16. CASE create_display_device
  <2>1. DispTypeOK'
    <3>1. objects' \in Nat /\ pDisplay' \in 0..objects' /\ pDisp' \in 0..objects' /\ freed' \subseteq 1..objects'
      BY <1>16 DEF create_display_device, DispTypeOK
    <3>2. screen' \in Screen /\ ssoledinit' \subseteq 0..objects'
      <4>1. /\ objects' \in Nat /\ objects' \in 0..objects' /\ 0..objects \subseteq 0..objects'
            /\ screen \in Screen /\ ssoledinit \subseteq 0..objects
        BY <1>16 DEF create_display_device, DispTypeOK
      <4>2. InitPanel(objects', Blank)
        BY <1>16 DEF create_display_device
      <4>3. ssoledinit \subseteq 0..objects'
        BY <4>1
      <4> QED
        BY <4>1, <4>2, <4>3, Shown, PanelType
    <3> QED
      BY <1>16, <3>1, <3>2 DEF create_display_device, DispTypeOK
  <2>2. Owned' /\ Still'
    BY <1>16 DEF create_display_device, DispTypeOK, Owned, Still
  <2>3. DanglingOnlyIf'
    BY <1>16 DEF create_display_device, DispTypeOK, Owned, Still, DanglingOnlyIf
  <2> QED
    BY <2>1, <2>2, <2>3
<1>17. CASE init_display
  <2>1. DispTypeOK'
    <3>1. dangling' \subseteq Thread
      BY <1>17, UseType DEF init_display, Thread, DispTypeOK
    <3>2. screen' \in Screen /\ ssoledinit' \subseteq 0..objects'
      <4>1. /\ objects' = objects /\ objects \in Nat /\ pDisplay \in 0..objects
            /\ screen \in Screen /\ ssoledinit \subseteq 0..objects
            /\ InitPanel(pDisplay, Blank)
        BY <1>17 DEF init_display, TimerStep, DispTypeOK
      <4> QED
        BY <4>1, Shown, PanelType
    <3> QED
      BY <1>17, <3>1, <3>2 DEF init_display, TimerStep, DispTypeOK
  <2>2. Owned' /\ Still'
    BY <1>17 DEF init_display, TimerStep, Use, DispTypeOK, Owned, Still
  <2>3. DanglingOnlyIf'
    BY <1>17 DEF init_display, TimerStep, Use, DispTypeOK, Owned, Still, DanglingOnlyIf
  <2> QED
    BY <2>1, <2>2, <2>3
<1>18. CASE print_line
  <2>1. DispTypeOK'
    <3>1. dangling' \subseteq Thread
      BY <1>18, UseType DEF print_line, Thread, DispTypeOK
    <3>2. screen' \in Screen
      BY <1>18, Shown DEF print_line, DispTypeOK
    <3>3. last_ip' \in Ip \cup {0}
      BY <1>18 DEF print_line, DispTypeOK
    <3> QED
      BY <1>18, <3>1, <3>2, <3>3 DEF print_line, TimerStep, Loop, DispTypeOK
  <2>2. Owned' /\ Still'
    BY <1>18 DEF print_line, TimerStep, Use, Loop, DispTypeOK, Owned, Still
  <2>3. DanglingOnlyIf'
    BY <1>18 DEF print_line, TimerStep, Use, Loop, DispTypeOK, Owned, Still, DanglingOnlyIf
  <2> QED
    BY <2>1, <2>2, <2>3
<1>19. CASE process_display
  <2>1. DispTypeOK'
    <3>1. calls' \in 0..MaxCalls
      BY <1>19 DEF process_display, DispTypeOK
    <3>2. dangling' \subseteq Thread
      BY <1>19 DEF process_display, Thread, DispTypeOK
    <3> QED
      BY <1>19, <3>1, <3>2 DEF process_display, RequestStep, DispTypeOK
  <2>2. Owned' /\ Still'
    BY <1>19 DEF process_display, RequestStep, DispTypeOK, Owned, Still
  <2>3. DanglingOnlyIf'
    BY <1>19 DEF process_display, RequestStep, DispTypeOK, Owned, Still, DanglingOnlyIf
  <2> QED
    BY <2>1, <2>2, <2>3
<1>20. CASE checkDisplay
  <2>1. DispTypeOK'
    <3>1. pDisp' \in 0..objects'
      BY <1>20 DEF checkDisplay, RequestStep, DispTypeOK
    <3> QED
      BY <1>20, <3>1 DEF checkDisplay, RequestStep, DispTypeOK
  <2>2. Owned' /\ Still'
    BY <1>20 DEF checkDisplay, RequestStep, DispTypeOK, Owned, Still
  <2>3. DanglingOnlyIf'
    BY <1>20 DEF checkDisplay, RequestStep, DispTypeOK, Owned, Still, DanglingOnlyIf
  <2> QED
    BY <2>1, <2>2, <2>3
<1>21. CASE useDisplay
  <2>1. DispTypeOK'
    <3>1. dangling' \subseteq Thread
      BY <1>21, UseType DEF useDisplay, Thread, DispTypeOK
    <3>2. screen' \in Screen /\ ssoledinit' \subseteq 0..objects'
      <4>1. /\ objects' = objects /\ objects \in Nat /\ pDisp \in 0..objects
            /\ screen \in Screen /\ ssoledinit \subseteq 0..objects
        BY <1>21 DEF useDisplay, RequestStep, DispTypeOK
      <4>2. \/ InitPanel(pDisp, User)
            \/ screen' \in {Dark, User, screen} /\ ssoledinit' = ssoledinit
        BY <1>21 DEF useDisplay
      <4> QED
        BY <4>1, <4>2, Shown, PanelType
    <3>3. pDisp' \in 0..objects'
      BY <1>21 DEF useDisplay, RequestStep, DispTypeOK
    <3> QED
      BY <1>21, <3>1, <3>2, <3>3 DEF useDisplay, RequestStep, DispTypeOK
  <2>2. Owned' /\ Still'
    BY <1>21 DEF useDisplay, RequestStep, Use, DispTypeOK, Owned, Still
  <2>3. DanglingOnlyIf'
    BY <1>21 DEF useDisplay, RequestStep, Use, DispTypeOK, Owned, Still, DanglingOnlyIf
  <2> QED
    BY <2>1, <2>2, <2>3
<1>22. CASE Unplug
  <2>1. DispTypeOK'
    <3>1. screen' \in Screen
      BY <1>22, Shown DEF Unplug
    <3>2. plugged' \in BOOLEAN /\ hotplug' \in BOOLEAN
      BY <1>22 DEF Unplug
    <3>3. /\ UNCHANGED <<oled, plugs, ip, ssoledinit, lost, pDisplay, objects, freed, tpc, tid, TimerCount>>
          /\ UNCHANGED <<last_ip, one_shot_sema, hpc, pDisp, calls>>
          /\ UNCHANGED <<mpc, received_user_stop_sig, missed, dangling>>
      BY <1>22 DEF Unplug
    <3> QED
      BY <3>1, <3>2, <3>3 DEF DispTypeOK
  <2>2. Owned' /\ Still'
    BY <1>22 DEF Unplug, DispTypeOK, Owned, Still
  <2>3. DanglingOnlyIf'
    BY <1>22 DEF Unplug, DispTypeOK, Owned, Still, DanglingOnlyIf
  <2> QED
    BY <2>1, <2>2, <2>3
<1>23. CASE Plug
  <2>1. DispTypeOK'
    BY <1>23 DEF Plug, DispTypeOK
  <2>2. Owned' /\ Still'
    BY <1>23 DEF Plug, DispTypeOK, Owned, Still
  <2>3. DanglingOnlyIf'
    BY <1>23 DEF Plug, DispTypeOK, Owned, Still, DanglingOnlyIf
  <2> QED
    BY <2>1, <2>2, <2>3
<1>24. CASE NewIp
  <2>1. DispTypeOK'
    <3>1. ip' \in Ip
      BY <1>24 DEF NewIp, DispTypeOK, Ip
    <3> QED
      BY <1>24, <3>1 DEF NewIp, DispTypeOK
  <2>2. Owned' /\ Still'
    BY <1>24 DEF NewIp, DispTypeOK, Owned, Still
  <2>3. DanglingOnlyIf'
    BY <1>24 DEF NewIp, DispTypeOK, Owned, Still, DanglingOnlyIf
  <2> QED
    BY <2>1, <2>2, <2>3
<1>25. CASE notifyLost
  <2>1. DispTypeOK'
    BY <1>25 DEF notifyLost, DispTypeOK
  <2>2. Owned' /\ Still'
    BY <1>25 DEF notifyLost, DispTypeOK, Owned, Still
  <2>3. DanglingOnlyIf'
    BY <1>25 DEF notifyLost, DispTypeOK, Owned, Still, DanglingOnlyIf
  <2> QED
    BY <2>1, <2>2, <2>3
<1>26. CASE probeFails
  <2>1. DispTypeOK'
    <3>1. plugs' \in 0..MaxPlugs
      BY <1>26 DEF probeFails, DispTypeOK
    <3> QED
      BY <1>26, <3>1 DEF probeFails, scanned, Loop, DispTypeOK
  <2>2. Owned' /\ Still'
    BY <1>26 DEF probeFails, scanned, Loop, DispTypeOK, Owned, Still
  <2>3. DanglingOnlyIf'
    BY <1>26 DEF probeFails, scanned, Loop, DispTypeOK, Owned, Still, DanglingOnlyIf
  <2> QED
    BY <2>1, <2>2, <2>3
<1>27. CASE UNCHANGED dispVars
  <2>1. DispTypeOK'
    BY <1>27 DEF dispVars, DispTypeOK
  <2>2. Owned' /\ Still'
    BY <1>27 DEF dispVars, Owned, Still
  <2>3. DanglingOnlyIf'
    BY <1>27 DEF dispVars, DanglingOnlyIf
  <2> QED
    BY <2>1, <2>2, <2>3
<1> QED
  BY <1>1, <1>2, <1>3, <1>4, <1>5, <1>6, <1>7, <1>8, <1>9, <1>10, <1>11, <1>12, <1>13, <1>14, <1>15, <1>16, <1>17, <1>18, <1>19, <1>20, <1>21, <1>22, <1>23, <1>24, <1>25, <1>26, <1>27
     DEF DispNext, MainThread, TimerThread

\* The invariant holds at every step of the three threads.
THEOREM DisplayInvariance == DispSpec => []DispIInv
<1> QED
  BY DispIInvInit, DispIInvStep, PTL DEF DispSpec

\* The service's variables keep their types: pDisplay and its copy are NULL or
\* an object that was made, and the semaphore's count stays within its bound.
THEOREM DisplayTypeCorrect == DispSpec => []DispTypeOK
<1>1. DispIInv => DispTypeOK
  BY DEF DispIInv
<1> QED
  BY <1>1, DisplayInvariance, PTL

\* A deleted display is used only in the cases DanglingOnlyIf lists.
THEOREM DanglingOnlyIfHolds == DispSpec => []DanglingOnlyIf
<1>1. DispIInv => DanglingOnlyIf
  BY DEF DispIInv
<1> QED
  BY <1>1, DisplayInvariance, PTL
=============================================================================
