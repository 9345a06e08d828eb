------------------------------- MODULE Initrd -------------------------------
(***************************************************************************)
(* Early boot (crates/cevell-initrd/src/main.rs): mount the pseudo file    *)
(* systems, read the root hash from the kernel command line, look for the  *)
(* root and the hash partition while the kernel is still probing disks,    *)
(* put dm-verity between the disk and the root file system, and execute    *)
(* the node in it.  Any error is final: main() sleeps for ever.            *)
(*                                                                         *)
(* dm-verity is external: it knows only the table the initrd loads, and a  *)
(* device cannot be read if its hash tree does not lead to the root hash   *)
(* of the table or its data does not match the tree.                       *)
(***************************************************************************)
EXTENDS Integers, Sequences, FiniteSets, FiniteSetsExt

CONSTANTS
  Machines,   \* the machines the image may be booted on
  Images,     \* root file systems; a root hash is named by its image
  NoImage,
  MaxPolls,   \* polls of /sys/block before the ten seconds are over
  MaxFaults   \* bound: system calls that fail without a reason in one boot

\* Images are named apart from what a bad command line says (see Machines below).
ASSUME ImageAssumption == {NoImage, "missing", "short"} \intersect Images = {}
ASSUME PollAssumption  == MaxPolls \in Nat \ {0}
ASSUME FaultAssumption == MaxFaults \in Nat

\* A partition holds a root file system, a hash tree (with a valid superblock), or
\* something else (an EFI system partition, user data).
Contents == [kind : {"root", "hash", "other"}, image : Images]

\* A machine: its disks in the order of their names, each a function from partition
\* numbers to contents, and what roothash= says.
ASSUME MachineAssumption ==
  \A m \in Machines :
    /\ DOMAIN m = {"disks", "roothash"}
    /\ m.disks \in Seq(UNION {[P -> Contents] : P \in SUBSET (1..4)})
    /\ m.roothash \in Images \union {"missing", "short"}

VARIABLES
  stage,     \* where run_initrd is; "node" and "halted" are its ends
  machine,
  shown,     \* the partitions of each disk that the kernel has announced so far
  mounts,    \* how many of the early file systems were mounted, in their order
  polls,     \* polls that found nothing
  scanning,  \* the disk whose directory is read next
  roothash,  \* the local of run_initrd, from the command line
  pair,      \* the partitions chosen: <<disk, root, hash>>
  table,     \* the kernel's dm-verity table: its two devices and its root hash
  root,      \* the image mounted on /sysroot
  moved,     \* the mounts handed over to the new root
  faults,    \* history: system calls that failed although they had no reason to
  partial    \* history: a disk was read before the kernel had announced all of it

\* What leads to the root device.
verityVars == <<roothash, pair, table>>

initrdVars == <<stage, machine, shown, mounts, polls, scanning, verityVars, root, moved, faults,
                partial>>

\* mount_early_filesystems, in this order; the first failure ends it.
EarlyMounts == <<"dev", "proc", "sys", "run">>
Mounted(fs) == \E i \in 1..mounts : EarlyMounts[i] = fs

InitrdStages == {"mount", "cmdline", "scan", "superblock", "verity", "rootfs", "handoff",
                 "node", "halted"}

\* A device is a partition of a disk.
Partitions   == (1..Len(machine.disks)) \X (1..4)
VerityTables == [data : Partitions, hash : Partitions, root : Images]

InitrdTypeOK ==
  /\ stage \in InitrdStages
  /\ machine \in Machines
  /\ shown \in [1..Len(machine.disks) -> SUBSET (1..4)]
  /\ \A d \in 1..Len(machine.disks) : shown[d] \subseteq DOMAIN machine.disks[d]
  /\ mounts \in 0..4
  /\ polls \in 0..MaxPolls
  /\ scanning \in 1..(Len(machine.disks) + 1)
  /\ pair \in {<<>>} \union ((1..Len(machine.disks)) \X (1..4) \X (1..4))
  /\ roothash \in Images \union {NoImage}
  /\ table \in {<<>>} \union VerityTables
  /\ root \in Images \union {NoImage}
  /\ moved \subseteq {"dev", "proc", "sys", "run"}
  /\ faults \in 0..MaxFaults
  /\ partial \in BOOLEAN

InitrdInit ==
  /\ stage = "mount"
  /\ machine \in Machines
  /\ shown = [d \in 1..Len(machine.disks) |-> {}]
  /\ mounts = 0
  /\ polls = 0
  /\ scanning = 1
  /\ roothash = NoImage
  /\ pair = <<>>
  /\ table = <<>>
  /\ root = NoImage
  /\ moved = {}
  /\ faults = 0
  /\ partial = FALSE

-----------------------------------------------------------------------------
\* The kernel announces the partitions of a disk one after the other, at its own
\* pace: drivers were loaded a moment ago.
KernelShows(d) ==
  /\ stage \in {"mount", "cmdline", "scan"}
  /\ shown[d] # DOMAIN machine.disks[d]
  /\ shown' = [shown EXCEPT ![d] = @ \union {Min(DOMAIN machine.disks[d] \ @)}]
  /\ UNCHANGED <<stage, machine, mounts, polls, scanning, verityVars, root, moved, faults, partial>>

\* n system calls fail.
Fails(n) == faults + n <= MaxFaults /\ faults' = faults + n

\* main ignores the result.
MountEarlyFilesystems(k) ==
  /\ stage = "mount"
  /\ mounts' = k
  /\ Fails(IF k < 4 THEN 1 ELSE 0)
  /\ stage' = "cmdline"
  /\ UNCHANGED <<machine, shown, polls, scanning, verityVars, root, moved, partial>>

\* run_initrd returns an error, without a reason if n = 1.
Halt(s, n) ==
  /\ stage = s
  /\ stage' = "halted"
  /\ Fails(n)
  /\ UNCHANGED <<machine, shown, mounts, polls, scanning, verityVars, root, moved, partial>>

HasRootHash == Mounted("proc") /\ machine.roothash \notin {"missing", "short"}

ReadCmdline ==
  \/ /\ stage = "cmdline"
     /\ HasRootHash
     /\ roothash' = machine.roothash
     /\ stage' = "scan"
     /\ UNCHANGED <<machine, shown, mounts, polls, scanning, pair, table, root, moved, faults,
                    partial>>
  \/ ~HasRootHash /\ Halt("cmdline", 0)

\* Mutant: the fallback layout is tried first.
PairInSwapped(parts) ==
  IF {1, 2} \subseteq parts THEN <<1, 2>>
  ELSE IF Cardinality(parts) >= 3 /\ {2, 3} \subseteq parts THEN <<2, 3>> ELSE <<>>

\* Three partitions: ESP, root, hash.  Otherwise the first two: root, hash.
PairIn(parts) ==
  IF Cardinality(parts) >= 3 /\ {2, 3} \subseteq parts THEN <<2, 3>>
  ELSE IF {1, 2} \subseteq parts THEN <<1, 2>> ELSE <<>>

\* The loop over the disks of one poll; each directory is read when its turn comes.
ScanDisk ==
  /\ stage = "scan"
  /\ Mounted("sys")
  /\ scanning \in 1..Len(machine.disks)
  /\ partial' = (partial \/ shown[scanning] # DOMAIN machine.disks[scanning])
  /\ LET p == PairIn(shown[scanning])
     IN  \/ /\ p # <<>>
            /\ pair' = <<scanning, p[1], p[2]>> /\ stage' = "superblock" /\ UNCHANGED scanning
         \/ p = <<>> /\ scanning' = scanning + 1 /\ UNCHANGED <<stage, pair>>
  /\ UNCHANGED <<machine, shown, mounts, polls, roothash, table, root, moved, faults>>

\* Mutant: the deadline is looked at before the poll.
PollAgainLate ==
  /\ stage = "scan"
  /\ ~Mounted("sys") \/ scanning > Len(machine.disks)
  /\ polls' = polls + 1
  /\ scanning' = 1
  /\ stage' = IF polls = MaxPolls THEN "halted" ELSE "scan"
  /\ UNCHANGED <<machine, shown, mounts, verityVars, root, moved, faults, partial>>

\* Nothing on any disk: sleep 150 ms and look again, until the deadline.
PollAgain ==
  /\ stage = "scan"
  /\ ~Mounted("sys") \/ scanning > Len(machine.disks)
  /\ polls' = polls + 1
  /\ scanning' = 1
  /\ stage' = IF polls' = MaxPolls THEN "halted" ELSE "scan"
  /\ UNCHANGED <<machine, shown, mounts, verityVars, root, moved, faults, partial>>

Content(dev) == machine.disks[dev[1]][dev[2]]
RootDevice   == <<pair[1], pair[2]>>
HashDevice   == <<pair[1], pair[3]>>

\* The magic and the salt size of the hash partition's superblock; its other fields
\* go into the table unchecked, and dm-verity fails to verify with wrong ones.
ReadSuperblock ==
  \/ /\ stage = "superblock"
     /\ Content(HashDevice).kind = "hash"
     /\ stage' = "verity"
     /\ UNCHANGED <<machine, shown, mounts, polls, scanning, verityVars, root, moved, faults,
                    partial>>
  \/ Halt("superblock", IF Content(HashDevice).kind = "hash" THEN 1 ELSE 0)

\* Mutant: the root hash is that of the tree found on the disk.
TableOfDisk == [data |-> RootDevice, hash |-> HashDevice, root |-> Content(HashDevice).image]

\* The parameters: the two devices and the root hash of the command line.
Table == [data |-> RootDevice, hash |-> HashDevice, root |-> roothash]

\* Create, load the table, resume, query and mknod; each ioctl may fail.
ActivateDmVerity ==
  \/ /\ stage = "verity"
     /\ table' = Table
     /\ stage' = "rootfs"
     /\ UNCHANGED <<machine, shown, mounts, polls, scanning, roothash, pair, root, moved, faults,
                    partial>>
  \/ Halt("verity", 1)

\* dm-verity reads through its table: the data matches the tree, and the tree leads to
\* the root hash that the table names.
VerityReads ==
  /\ Content(table.data).kind = "root"
  /\ Content(table.hash) = [kind |-> "hash", image |-> table.root]
  /\ Content(table.data).image = Content(table.hash).image

\* mount /dev/mapper/root, which is the table's device.
MountRoot ==
  \/ /\ stage = "rootfs"
     /\ VerityReads
     /\ root' = Content(table.data).image
     /\ stage' = "handoff"
     /\ UNCHANGED <<machine, shown, mounts, polls, scanning, verityVars, moved, faults, partial>>
  \/ Halt("rootfs", IF VerityReads THEN 1 ELSE 0)

\* handoff_to_verified_root: each MS_MOVE is best effort; chdir, chroot and execve
\* are not.  With execve the state of the program is gone, the kernel's table stays,
\* and nobody looks for partitions any more.
Handoff(fs) ==
  /\ stage = "handoff"
  /\ \A f \in fs : Mounted(f)
  /\ moved' = fs
  /\ Fails(mounts - Cardinality(fs))
  /\ stage' = "node"
  /\ shown' = [d \in DOMAIN shown |-> {}]
  /\ mounts' = 0 /\ polls' = 0 /\ scanning' = 1 /\ roothash' = NoImage /\ pair' = <<>>
  /\ partial' = FALSE
  /\ UNCHANGED <<machine, table, root>>

HandoffFails == Halt("handoff", 1)

InitrdStep ==
  \/ \E k \in 0..4 : MountEarlyFilesystems(k)
  \/ ReadCmdline \/ ScanDisk \/ PollAgain \/ ReadSuperblock \/ ActivateDmVerity \/ MountRoot
  \/ \E fs \in SUBSET {"dev", "proc", "sys", "run"} : Handoff(fs)
  \/ HandoffFails

KernelStep == \E d \in 1..Len(machine.disks) : KernelShows(d)

InitrdNext == InitrdStep \/ KernelStep

InitrdSpec == InitrdInit /\ [][InitrdNext]_initrdVars

-----------------------------------------------------------------------------
(* Properties                                                              *)

\* "Enforcing immutable root hash": whatever the disks hold and whichever partitions
\* a race made the initrd pick, the root hash that the measured command line names
\* gets through discovery and superblock into the table the kernel enforces, and the
\* node runs from the image behind that table or not at all.
OnlyMeasuredRootRuns ==
  /\ table # <<>> => table.root = machine.roothash
  /\ root # NoImage => table # <<>> /\ root = machine.roothash
  /\ stage = "node" => root # NoImage

\* The disk that would be chosen if the kernel had finished.
FirstPair == {d \in 1..Len(machine.disks) : PairIn(DOMAIN machine.disks[d]) # <<>>}
HoldsImage(d, r, h) ==
  /\ machine.disks[d][r] = [kind |-> "root", image |-> machine.roothash]
  /\ machine.disks[d][h] = [kind |-> "hash", image |-> machine.roothash]
IsBootable ==
  /\ machine.roothash \in Images
  /\ FirstPair # {}
  /\ LET d == Min(FirstPair)
     IN  IF 3 \in DOMAIN machine.disks[d] THEN HoldsImage(d, 2, 3) ELSE HoldsImage(d, 1, 2)

\* There is no retry after an error, so halting must have a reason: a machine that
\* carries the image on the first disk with a pair of partitions halts only after a
\* failed system call, or because a disk was read before the kernel had announced
\* all its partitions (the two-partition fallback then takes ESP and root for root
\* and hash).
InitrdHaltHasReason == stage = "halted" => faults > 0 \/ partial \/ ~IsBootable
=============================================================================
