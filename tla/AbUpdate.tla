------------------------------ MODULE AbUpdate ------------------------------
(***************************************************************************)
(* raspi2-update and raspi2-brdskmgr: the update of the root file system   *)
(* that is not running, and the boot files that say which one boots next.  *)
(*                                                                         *)
(* A step of the model is a command of the scripts that writes to the SD   *)
(* card, or that can fail.  Power can go at any step.  What was written    *)
(* and not yet followed by "sync" may then be lost: a file system or a     *)
(* kernel image is Part until its sync, and each of the two boot files is  *)
(* found either as it was or as it was last edited.                        *)
(***************************************************************************)
EXTENDS Naturals

CONSTANT
    MaxUpdates      \* bound on the number of updates started

ASSUME MaxUpdatesAssumption == MaxUpdates \in Nat

VARIABLES
    rootfs,         \* contents of the two root partitions
    kernel,         \* contents of the two kernel images in the boot partition
    boot_files,     \* root= of cmdline.txt and kernel= of config.txt, as read
    boot_disk,      \* the same files as they are on the card
    running,        \* the system in /proc/cmdline, or Off
    pc,             \* the next command of raspi2-update, or "idle"
    result,         \* what the last update of this boot returned
    updates,        \* updates started so far: the version of the newest image
    reflash,        \* an update was started while the other system was marked
    torn,           \* some boot found the two boot files naming two systems
    unseen          \* some command failed whose exit status no script reads

cardVars == <<rootfs, kernel, boot_files, boot_disk, running, pc, result,
              updates, reflash, torn, unseen>>
disk  == <<rootfs, kernel, boot_files, boot_disk>>
flags == <<updates, reflash, torn, unseen>>

System  == {"brbox1", "brbox2"}
Off     == "off"
Part    == MaxUpdates + 1               \* formatted, or not completely written
Content == 0..(MaxUpdates + 1)          \* Part, or the version it holds
BootFiles == [cmdline : System, config : System]
Other(s) == IF s = "brbox1" THEN "brbox2" ELSE "brbox1"
Commands == {"mkfs", "mount", "tar", "sync_root", "mount_boot", "cp",
             "sync_kernel", "flip", "sed_cmdline", "sed_config", "sync_boot"}

CardTypeOK ==
    /\ rootfs \in [System -> Content]
    /\ kernel \in [System -> Content]
    /\ boot_files \in BootFiles
    /\ boot_disk \in BootFiles
    /\ running \in System \cup {Off}
    /\ pc \in Commands \cup {"idle"}
    /\ result \in {"none", "ok", "error"}
    /\ updates \in 0..MaxUpdates
    /\ reflash \in BOOLEAN /\ torn \in BOOLEAN /\ unseen \in BOOLEAN

\* A card as build-image.sh leaves it: both systems complete, brbox1 marked.
CardInit ==
    /\ rootfs = [s \in System |-> 0]
    /\ kernel = [s \in System |-> 0]
    /\ boot_files = [cmdline |-> "brbox1", config |-> "brbox1"]
    /\ boot_disk = boot_files
    /\ running = "brbox1"
    /\ pc = "idle"
    /\ result = "none"
    /\ updates = 0
    /\ reflash = FALSE /\ torn = FALSE /\ unseen = FALSE

\* The script goes on to command c, or returns r.
Goto(c) == pc' = c /\ UNCHANGED <<running, result>>
Return(r) == pc' = "idle" /\ result' = r /\ UNCHANGED running
-----------------------------------------------------------------------------
(* Plausible mistakes in the scripts.  No specification uses them.         *)

\* The running system's own partition is formatted.
MkfsRunning ==
    /\ pc = "mkfs"
    /\ rootfs' = [rootfs EXCEPT ![running] = Part]
    /\ \/ Goto("mount")
       \/ Return("error")
    /\ UNCHANGED <<kernel, boot_files, boot_disk, flags>>

\* The kernel goes over the running system's image.
CopyKernelRunning ==
    /\ pc = "cp"
    /\ kernel' = [kernel EXCEPT ![running] = Part]
    /\ Goto("sync_kernel")
    /\ UNCHANGED <<rootfs, boot_files, boot_disk, flags>>

\* A failed tar is not noticed.
TarIgnored ==
    /\ pc = "tar"
    /\ \/ Goto("sync_root")
       \/ Goto("mount_boot")
    /\ UNCHANGED <<disk, flags>>

\* The boot files are edited before the image is written.
MountFlipsFirst ==
    /\ pc = "mount"
    /\ boot_files' = [cmdline |-> Other(running), config |-> Other(running)]
    /\ \/ Goto("tar")
       \/ Return("error")
    /\ UNCHANGED <<rootfs, kernel, boot_disk, flags>>

-----------------------------------------------------------------------------
(* raspi2-update                                                           *)

\* The image is valid and the running system is known: the other one is the
\* target.  Nothing asks whether the marker names the target already.
StartUpdate ==
    /\ running # Off
    /\ pc = "idle"
    /\ updates < MaxUpdates
    /\ updates' = updates + 1
    /\ reflash' = (reflash \/ boot_files.cmdline # running)
    /\ result' = "none"
    /\ pc' = "mkfs"
    /\ UNCHANGED <<disk, running, torn, unseen>>

\* The image is missing, of another type or not for this board: return 1.
RejectImage ==
    /\ running # Off
    /\ pc = "idle"
    /\ result' = "error"
    /\ UNCHANGED <<disk, running, pc, flags>>

\* mkfs.ext3 on the target.
MkfsTarget ==
    /\ pc = "mkfs"
    /\ rootfs' = [rootfs EXCEPT ![Other(running)] = Part]
    /\ \/ Goto("mount")
       \/ Return("error")
    /\ UNCHANGED <<kernel, boot_files, boot_disk, flags>>

\* mktemp -d and mount of the target.
Mount ==
    /\ pc = "mount"
    /\ \/ Goto("tar")
       \/ Return("error")
    /\ UNCHANGED <<disk, flags>>

\* tar of the new root file system into the target.
Tar ==
    /\ pc = "tar"
    /\ \/ Goto("sync_root")
       \/ Return("error")
    /\ UNCHANGED <<disk, flags>>

\* "let new rootfs files to be written to corresponding partition"
SyncRoot ==
    /\ pc = "sync_root"
    /\ rootfs' = [rootfs EXCEPT ![Other(running)] = updates]
    /\ Goto("mount_boot")
    /\ UNCHANGED <<kernel, boot_files, boot_disk, flags>>

\* mktemp -d and mount of the boot partition.
MountBoot ==
    /\ pc = "mount_boot"
    /\ \/ Goto("cp")
       \/ Return("error")
    /\ UNCHANGED <<disk, flags>>

\* cp of the new kernel over the target's kernel image.
CopyKernelWorks ==
    /\ pc = "cp"
    /\ kernel' = [kernel EXCEPT ![Other(running)] = Part]
    /\ Goto("sync_kernel")
    /\ UNCHANGED <<rootfs, boot_files, boot_disk, flags>>

\* That cp fails, leaving the old image or a short one: nobody looks at $?.
CopyKernelFails ==
    /\ pc = "cp"
    /\ \/ UNCHANGED kernel
       \/ kernel' = [kernel EXCEPT ![Other(running)] = Part]
    /\ unseen' = TRUE
    /\ Goto("flip")
    /\ UNCHANGED <<rootfs, boot_files, boot_disk, updates, reflash, torn>>

\* "let zImage be copied to boot partition"
SyncKernel ==
    /\ pc = "sync_kernel"
    /\ kernel' = [kernel EXCEPT ![Other(running)] = updates]
    /\ Goto("flip")
    /\ UNCHANGED <<rootfs, boot_files, boot_disk, flags>>
-----------------------------------------------------------------------------
(* raspi2-brdskmgr -f, the last command of the update                      *)

\* FlipBootMarker up to WriteBootMarker: a boot partition that cannot be
\* mounted or read is an error, a marker that is not the running system's was
\* "already flipped".
FlipBootMarkerStarts ==
    /\ pc = "flip"
    /\ \/ Return("error")
       \/ boot_files.cmdline # running /\ Return("ok")
       \/ boot_files.cmdline = running /\ Goto("sed_cmdline")
    /\ UNCHANGED <<disk, flags>>

\* WriteBootMarker's two edits and the sync that follows.  It returns 0
\* whether or not sed could write the file.
SedCmdline ==
    /\ pc = "sed_cmdline"
    /\ boot_files' = [boot_files EXCEPT !.cmdline = Other(running)]
    /\ Goto("sed_config")
    /\ UNCHANGED <<rootfs, kernel, boot_disk, flags>>

SedConfig ==
    /\ pc = "sed_config"
    /\ boot_files' = [boot_files EXCEPT !.config = Other(running)]
    /\ Goto("sync_boot")
    /\ UNCHANGED <<rootfs, kernel, boot_disk, flags>>

SedFails ==
    /\ \/ pc = "sed_cmdline" /\ Goto("sed_config")
       \/ pc = "sed_config" /\ Goto("sync_boot")
    /\ unseen' = TRUE
    /\ UNCHANGED <<disk, updates, reflash, torn>>

SyncBoot ==
    /\ pc = "sync_boot"
    /\ boot_disk' = boot_files
    /\ Return("ok")
    /\ UNCHANGED <<rootfs, kernel, boot_files, flags>>
-----------------------------------------------------------------------------
(* The board                                                               *)

\* The power goes, or the user reboots: each boot file is as it was edited
\* last or as it was before.
PowerOff ==
    /\ running # Off
    /\ \E c \in {boot_disk.cmdline, boot_files.cmdline},
          k \in {boot_disk.config, boot_files.config} :
             boot_disk' = [cmdline |-> c, config |-> k]
    /\ boot_files' = boot_disk'
    /\ running' = Off
    /\ pc' = "idle"
    /\ result' = "none"
    /\ UNCHANGED <<rootfs, kernel, flags>>

\* The firmware loads the kernel config.txt names with the root file system
\* cmdline.txt names; with either incomplete the board does not come up.
Boot ==
    /\ running = Off
    /\ rootfs[boot_disk.cmdline] # Part
    /\ kernel[boot_disk.config] # Part
    /\ running' = boot_disk.cmdline
    /\ torn' = (torn \/ boot_disk.cmdline # boot_disk.config)
    /\ UNCHANGED <<disk, pc, result, updates, reflash, unseen>>

CardNext ==
    \/ StartUpdate \/ RejectImage
    \/ MkfsTarget \/ Mount \/ Tar \/ SyncRoot \/ MountBoot
    \/ CopyKernelWorks \/ CopyKernelFails \/ SyncKernel
    \/ FlipBootMarkerStarts \/ SedCmdline \/ SedConfig \/ SedFails
    \/ SyncBoot
    \/ PowerOff \/ Boot

CardSpec == CardInit /\ [][CardNext]_cardVars
-----------------------------------------------------------------------------
(* Properties                                                              *)

\* Whatever a power cut now would leave in the boot files, the board boots.
BootableAfterPowerCut ==
    /\ \A c \in {boot_disk.cmdline, boot_files.cmdline} : rootfs[c] # Part
    /\ \A k \in {boot_disk.config, boot_files.config} : kernel[k] # Part

\* The update is failsafe at each of its steps, provided that the board is
\* rebooted between two updates, that no power cut fell between the two edits
\* of WriteBootMarker, and that every cp and sed worked.
Failsafe == ~reflash /\ ~torn /\ ~unseen => BootableAfterPowerCut

\* The root file system in use is never formatted or written by an update,
\* whatever the boot files say and whatever failed before.
RunningIntact == running # Off => rootfs[running] # Part

\* When the update says [OK], both boot files on the card name the target,
\* whose root file system and kernel are the new ones, if every cp and sed
\* worked: also where FlipBootMarker returns early because an earlier update
\* has flipped the marker.
OkMeansUpdated ==
    result = "ok" /\ ~unseen =>
        LET target == Other(running)
        IN  /\ boot_disk = [cmdline |-> target, config |-> target]
            /\ boot_files = boot_disk
            /\ rootfs[target] = updates
            /\ kernel[target] = updates

\* An update that returns 1 leaves no edited and unsynced boot file behind, and
\* the two boot files name one system if they did at the last boot.
ErrorKeepsBootFiles ==
    result = "error" =>
        /\ boot_files = boot_disk
        /\ ~torn /\ ~unseen => boot_disk.config = boot_disk.cmdline

\* "flip the boot-marker flag, so that next time updated system will boot":
\* after [OK] the next boot has the new root file system and kernel.
NextTimeUpdatedSystemWillBoot ==
    result = "ok" =>
        /\ rootfs[boot_disk.cmdline] = updates
        /\ kernel[boot_disk.config] = updates
-----------------------------------------------------------------------------
(* The inductive invariant that gives Failsafe, RunningIntact,             *)
(* OkMeansUpdated and ErrorKeepsBootFiles.                                 *)

\* The boot files differ from the card only between an edit and its sync.
Editing == {"sed_config", "sync_boot"}
SyncedOutsideFlip ==
    /\ running = Off => pc = "idle" /\ result = "none"
    /\ pc \notin Editing => boot_files = boot_disk
    /\ pc # "idle" => result = "none"
    /\ pc \in Editing \cup {"sed_cmdline"} => boot_disk.cmdline = running

\* Both files on the card name one system while a system that booted so runs.
FilesAgree ==
    running # Off /\ ~torn /\ ~unseen => boot_disk.config = boot_disk.cmdline

\* Once flipped, the files agree whatever they were at the last boot.
FlippedAgree ==
    running # Off /\ pc \notin Editing /\ ~unseen
        /\ boot_files.cmdline # running =>
            boot_files.config = boot_files.cmdline

\* A flip in progress has edited what its position says.
FlipAgrees ==
    ~unseen =>
        /\ pc \in Editing => boot_files.cmdline = Other(running)
        /\ pc = "sync_boot" => boot_files.config = Other(running)

\* What the update has written when it reaches a command.
Written ==
    /\ pc \in {"mount_boot", "cp", "sync_kernel", "flip", "sed_cmdline",
              "sed_config", "sync_boot"} => rootfs[Other(running)] = updates
    /\ pc \in {"flip", "sed_cmdline", "sed_config", "sync_boot"} /\ ~unseen =>
            kernel[Other(running)] = updates

\* An update that counts as a first one writes what is not marked.
FirstUpdate == pc # "idle" /\ ~reflash => boot_disk.cmdline = running

CardIInv ==
    /\ CardTypeOK
    /\ SyncedOutsideFlip
    /\ FilesAgree
    /\ FlippedAgree
    /\ FlipAgrees
    /\ Written
    /\ FirstUpdate
    /\ RunningIntact
    /\ OkMeansUpdated
    /\ Failsafe
=============================================================================
