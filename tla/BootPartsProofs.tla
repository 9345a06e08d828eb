--------------------------- MODULE BootPartsProofs ---------------------------
(***************************************************************************)
(* Invariants of the parts of the boot, each preserved by the steps of its *)
(* part: Initrd, GpuDriver, DhcpClient and KeyDiscovery.  NodeBootProofs   *)
(* puts them together.                                                     *)
(***************************************************************************)
EXTENDS Initrd, GpuDriver, DhcpClient, KeyDiscovery, FiniteSetTheorems, SequenceTheorems,
        TLAPS

(***************************************************************************)
(* Initrd                                                                  *)
(***************************************************************************)

\* A file system that was not mounted, or not handed over, has cost a system call.
MountsCostFaults ==
  /\ stage \notin {"mount", "node"} => mounts = 4 \/ faults > 0
  /\ stage = "node" => "proc" \in moved \/ faults > 0

\* The partitions chosen were announced on the disk they were chosen from.
PairIsOnDisk ==
  stage \in {"superblock", "verity", "rootfs"} =>
    \E d \in 1..Len(machine.disks) : \E r, h \in DOMAIN machine.disks[d] : pair = <<d, r, h>>

\* From the mount of the root on there is one, and it is the measured one.
RootIsMeasured ==
  /\ root # NoImage => root = machine.roothash
  /\ stage \in {"handoff", "node"} => root # NoImage

\* The root hash of the command line is what the table is built with, and the table is
\* that of the partitions chosen.
TableIsMeasured ==
  /\ stage \in {"scan", "superblock", "verity"} =>
       roothash = machine.roothash /\ machine.roothash \in Images
  /\ table # <<>> => table.root = machine.roothash
  /\ stage \in {"rootfs", "handoff", "node"} => table # <<>>
  /\ root # NoImage => table # <<>>
  /\ stage = "rootfs" => table.data = RootDevice /\ table.hash = HashDevice

\* On a machine that carries the image, as long as nothing failed and no disk was read
\* too early, the scan passes over disks without a pair only, finds the image, and
\* does not halt.
Innocent == faults = 0 /\ ~partial /\ IsBootable
OnCourse ==
  Innocent =>
    /\ stage # "halted"
    /\ stage \in {"mount", "cmdline", "scan"} =>
         \A d \in 1..Len(machine.disks) :
           d < scanning => PairIn(DOMAIN machine.disks[d]) = <<>>
    /\ stage \in {"superblock", "verity", "rootfs"} => HoldsImage(pair[1], pair[2], pair[3])

\* The deadline has not passed while run_initrd still looks for its disks.
PollsAreLeft == stage \in {"mount", "cmdline", "scan"} => polls < MaxPolls

InitrdInv ==
  /\ InitrdTypeOK
  /\ PollsAreLeft
  /\ MountsCostFaults
  /\ PairIsOnDisk
  /\ RootIsMeasured
  /\ TableIsMeasured
  /\ OnCourse

\* What a machine's disks are.
LEMMA DiskFacts ==
  ASSUME machine \in Machines
  PROVE  /\ Len(machine.disks) \in Nat
         /\ \A d \in 1..Len(machine.disks) :
              /\ DOMAIN machine.disks[d] \subseteq 1..4
              /\ \A p \in DOMAIN machine.disks[d] : machine.disks[d][p] \in Contents
  <1> DEFINE Disks == UNION {[P -> Contents] : P \in SUBSET (1..4)}
  <1>1. machine.disks \in Seq(Disks)
    BY MachineAssumption
  <1>2. \A x \in Disks : DOMAIN x \subseteq 1..4 /\ \A p \in DOMAIN x : x[p] \in Contents
    OBVIOUS
  <1> HIDE DEF Disks
  <1>3. Len(machine.disks) \in Nat /\ \A d \in 1..Len(machine.disks) : machine.disks[d] \in Disks
    BY <1>1
  <1> QED
    BY <1>2, <1>3

\* The least element of a set that has one.
LEMMA MinIs ==
  ASSUME NEW S \in SUBSET Int, NEW x \in S, \A y \in S : x <= y
  PROVE  Min(S) = x
  <1>1. Min(S) \in S /\ \A y \in S : Min(S) =< y
    BY DEF Min
  <1>2. Min(S) =< x /\ x =< Min(S) /\ Min(S) \in Int /\ x \in Int
    BY <1>1
  <1> QED
    BY <1>2

\* A set of partition numbers that is not empty has a least element.
LEMMA MinInSet ==
  ASSUME NEW S \in SUBSET (1..4), S # {}
  PROVE  Min(S) \in S
  <1>0. \A y \in S : y = 1 \/ y = 2 \/ y = 3 \/ y = 4
    OBVIOUS
  <1>1. \E x \in S : \A y \in S : x =< y
    <2>1. CASE 1 \in S
      BY <1>0, <2>1
    <2>2. CASE 1 \notin S /\ 2 \in S
      BY <1>0, <2>2
    <2>3. CASE 1 \notin S /\ 2 \notin S /\ 3 \in S
      BY <1>0, <2>3
    <2>4. CASE 1 \notin S /\ 2 \notin S /\ 3 \notin S
      <3>1. \A y \in S : y = 4
        BY <1>0, <2>4
      <3>2. PICK x \in S : TRUE
        OBVIOUS
      <3> QED
        BY <3>1, <3>2
    <2> QED
      BY <2>1, <2>2, <2>3, <2>4
  <1> QED
    BY <1>1 DEF Min

\* 1..n has n elements.
LEMMA UpToCount == \A n \in Nat : IsFiniteSet(1..n) /\ Cardinality(1..n) = n
  BY FS_Interval

\* The pair found in a directory.  With partition 3 there, it is never the first two.
LEMMA PairInFacts ==
  ASSUME NEW parts \in SUBSET (1..4)
  PROVE  \/ PairIn(parts) = <<>>
         \/ PairIn(parts) = <<2, 3>> /\ 2 \in parts /\ 3 \in parts
         \/ PairIn(parts) = <<1, 2>> /\ 1 \in parts /\ 2 \in parts /\ 3 \notin parts
  <1>1. CASE Cardinality(parts) >= 3 /\ {2, 3} \subseteq parts
    BY <1>1 DEF PairIn
  <1>2. ASSUME {1, 2, 3} \subseteq parts PROVE Cardinality(parts) >= 3
    <2>0. IsFiniteSet(1..4) /\ IsFiniteSet(1..3) /\ Cardinality(1..3) = 3
      <3>1. 3 \in Nat /\ 4 \in Nat
        OBVIOUS
      <3> QED
        BY <3>1, UpToCount, Zenon
    <2>1. IsFiniteSet(parts)
      BY <2>0, FS_Subset
    <2>2. Cardinality(1..3) = 3 /\ 1..3 \subseteq parts
      BY <1>2, <2>0
    <2>3. Cardinality(1..3) <= Cardinality(parts) /\ Cardinality(parts) \in Nat
      BY <2>1, <2>2, FS_Subset, FS_CardinalityType
    <2> QED
      BY <2>2, <2>3
  <1> QED
    BY <1>1, <1>2 DEF PairIn
\* A hand-over moves only what was mounted, and what it leaves behind it pays for.
LEMMA HandoffCount ==
  ASSUME mounts \in 0..4, NEW given, \A f \in given : Mounted(f)
  PROVE  /\ Cardinality(given) \in 0..mounts
         /\ mounts = 4 /\ "proc" \notin given => Cardinality(given) < 4
  <1> DEFINE f == [i \in 1..mounts |-> EarlyMounts[i]]
             T == {EarlyMounts[i] : i \in 1..mounts}
  <1>1. f \in Surjection(1..mounts, T)
    BY DEF Surjection
  <1>2. IsFiniteSet(1..mounts) /\ Cardinality(1..mounts) = mounts /\ mounts \in Nat
    BY UpToCount
  <1>3. IsFiniteSet(T) /\ Cardinality(T) <= mounts
    BY <1>1, <1>2, FS_Surjection
  <1>4. given \subseteq T /\ (mounts = 4 => "proc" \in T)
    BY DEF Mounted, EarlyMounts
  <1> HIDE DEF T
  <1>5. Cardinality(T) \in Nat /\ Cardinality(given) \in Nat /\ Cardinality(given) <= Cardinality(T)
        /\ (Cardinality(T) = Cardinality(given) => T = given)
    BY <1>3, <1>4, FS_Subset, FS_CardinalityType
  <1> QED
    BY <1>2, <1>3, <1>4, <1>5

LEMMA InitrdInitInv == InitrdInit => InitrdInv
  <1> SUFFICES ASSUME InitrdInit PROVE InitrdInv
    OBVIOUS
  <1>1. machine \in Machines /\ Len(machine.disks) \in Nat
    BY DiskFacts DEF InitrdInit
  <1>2. InitrdTypeOK
    <2>1. 0 \in 0..4 /\ 0 \in 0..MaxPolls /\ 0 \in 0..MaxFaults /\ 1 \in 1..(Len(machine.disks) + 1)
      BY <1>1, PollAssumption, FaultAssumption
    <2>2. /\ shown \in [1..Len(machine.disks) -> SUBSET (1..4)]
          /\ \A d \in 1..Len(machine.disks) : shown[d] \subseteq DOMAIN machine.disks[d]
      BY DEF InitrdInit
    <2> QED
      BY <1>1, <2>1, <2>2 DEF InitrdInit, InitrdTypeOK, InitrdStages
  <1>3. \A d \in 1..Len(machine.disks) : ~(d < scanning)
    BY <1>1 DEF InitrdInit
  <1>4. PollsAreLeft /\ MountsCostFaults /\ PairIsOnDisk /\ RootIsMeasured /\ TableIsMeasured
    BY PollAssumption DEF InitrdInit, PollsAreLeft, MountsCostFaults, PairIsOnDisk, RootIsMeasured,
                          TableIsMeasured
  <1>5. OnCourse
    BY <1>3 DEF InitrdInit, OnCourse
  <1> QED
    BY <1>2, <1>4, <1>5 DEF InitrdInv

\* A halt of run_initrd: with nothing to blame but a failed call, or off course.
LEMMA HaltInv ==
  ASSUME InitrdInv, NEW from \in InitrdStages \ {"mount", "node"}, NEW n \in {0, 1}, Halt(from, n),
         n = 0 => ~Innocent
  PROVE  InitrdInv'
  <1> USE DEF InitrdInv, verityVars
  <1>1. /\ stage' = "halted" /\ faults' = faults + n /\ faults + n <= MaxFaults /\ stage = from
        /\ UNCHANGED <<machine, shown, mounts, polls, scanning, verityVars, root, moved, partial>>
    BY DEF Halt, Fails
  <1>2. faults \in Nat /\ MaxFaults \in Nat
    BY FaultAssumption DEF InitrdTypeOK
  <1>3. InitrdTypeOK'
    BY <1>1, <1>2 DEF InitrdTypeOK, VerityTables, Partitions, InitrdStages
  <1>4. PollsAreLeft' /\ MountsCostFaults' /\ PairIsOnDisk' /\ RootIsMeasured' /\ TableIsMeasured'
    BY <1>1, <1>2 DEF PollsAreLeft, MountsCostFaults, PairIsOnDisk, RootIsMeasured, TableIsMeasured,
                  RootDevice, HashDevice
  <1>5. ~Innocent'
    BY <1>1, <1>2 DEF Innocent, IsBootable, FirstPair, HoldsImage
  <1> QED
    BY <1>3, <1>4, <1>5 DEF OnCourse

\* The steps of the node cost system calls at most.
LEMMA InitrdOtherInv ==
  ASSUME InitrdInv, faults' \in Nat, faults <= faults', faults' <= MaxFaults,
         UNCHANGED <<stage, machine, shown, mounts, polls, scanning, verityVars, root, moved, partial>>
  PROVE  InitrdInv'
  <1> USE DEF InitrdInv, verityVars
  <1>1. faults \in Nat /\ MaxFaults \in Nat
    BY FaultAssumption DEF InitrdTypeOK
  <1>2. InitrdTypeOK'
    BY <1>1 DEF InitrdTypeOK, VerityTables, Partitions
  <1>3. PollsAreLeft' /\ MountsCostFaults' /\ PairIsOnDisk' /\ RootIsMeasured' /\ TableIsMeasured'
    BY <1>1 DEF PollsAreLeft, MountsCostFaults, PairIsOnDisk, RootIsMeasured, TableIsMeasured,
                  RootDevice, HashDevice
  <1>4. Innocent' => Innocent
    BY <1>1 DEF Innocent, IsBootable, FirstPair, HoldsImage
  <1> QED
    BY <1>2, <1>3, <1>4 DEF OnCourse, HoldsImage

\* The kernel's announcements.
LEMMA KernelInv ==
  ASSUME InitrdInv, KernelStep
  PROVE  InitrdInv'
  <1> USE DEF InitrdInv, verityVars
  <1>1. PICK d \in 1..Len(machine.disks) : KernelShows(d)
    BY DEF KernelStep
  <1> DEFINE rest == DOMAIN machine.disks[d] \ shown[d]
  <1>2. machine \in Machines /\ shown \in [1..Len(machine.disks) -> SUBSET (1..4)]
        /\ shown[d] \subseteq DOMAIN machine.disks[d]
    BY DEF InitrdTypeOK
  <1>3. DOMAIN machine.disks[d] \subseteq 1..4
    BY <1>2, DiskFacts
  <1>4. Min(rest) \in rest
    BY <1>1, <1>2, <1>3, MinInSet DEF KernelShows
  <1>5. shown' = [shown EXCEPT ![d] = shown[d] \union {Min(rest)}]
    BY <1>1 DEF KernelShows
  <1>6. UNCHANGED <<stage, machine, mounts, polls, scanning, verityVars, root, moved, faults, partial>>
    BY <1>1 DEF KernelShows
  <1> HIDE DEF rest
  <1>7. /\ shown' \in [1..Len(machine.disks) -> SUBSET (1..4)]
        /\ \A e \in 1..Len(machine.disks) : shown'[e] \subseteq DOMAIN machine.disks[e]
    <2>1. rest \subseteq DOMAIN machine.disks[d]
      BY DEF rest
    <2>2. shown'[d] = shown[d] \union {Min(rest)} /\ shown'[d] \subseteq DOMAIN machine.disks[d]
      BY <1>2, <1>4, <1>5, <2>1
    <2>3. \A e \in 1..Len(machine.disks) : e # d => shown'[e] = shown[e]
      BY <1>2, <1>5
    <2> QED
      BY <1>2, <1>3, <1>5, <2>2, <2>3 DEF InitrdTypeOK
  <1>8. InitrdTypeOK'
    BY <1>6, <1>7 DEF InitrdTypeOK, VerityTables, Partitions
  <1> QED
    BY <1>6, <1>8 DEF PollsAreLeft, MountsCostFaults, PairIsOnDisk, RootIsMeasured, OnCourse,
                      TableIsMeasured, RootDevice, HashDevice, Innocent, IsBootable, FirstPair, HoldsImage

\* Mounting and reading the command line.
LEMMA EarlyStepInv ==
  ASSUME InitrdInv, (\E k \in 0..4 : MountEarlyFilesystems(k)) \/ ReadCmdline
  PROVE  InitrdInv'
  <1> USE DEF InitrdInv, verityVars
  <1>0. faults \in Nat /\ MaxFaults \in Nat
    BY FaultAssumption DEF InitrdTypeOK
  <1>1. ASSUME NEW k \in 0..4, MountEarlyFilesystems(k) PROVE InitrdInv'
    <2>1. /\ stage = "mount" /\ stage' = "cmdline" /\ mounts' = k
          /\ faults' = faults + (IF k < 4 THEN 1 ELSE 0) /\ faults' <= MaxFaults
          /\ UNCHANGED <<machine, shown, polls, scanning, verityVars, root, moved, partial>>
      BY <1>1 DEF MountEarlyFilesystems, Fails
    <2>2. InitrdTypeOK'
      BY <1>0, <2>1 DEF InitrdTypeOK, VerityTables, Partitions, InitrdStages
    <2>3. PollsAreLeft' /\ MountsCostFaults'
      BY <1>0, <2>1 DEF PollsAreLeft, MountsCostFaults
    <2>4. PairIsOnDisk' /\ RootIsMeasured' /\ TableIsMeasured'
      BY <2>1 DEF PairIsOnDisk, RootIsMeasured, TableIsMeasured, RootDevice, HashDevice
    <2>5. Innocent' => Innocent
      BY <1>0, <2>1 DEF Innocent, IsBootable, FirstPair, HoldsImage
    <2>6. OnCourse'
      BY <2>1, <2>5 DEF OnCourse
    <2> QED
      BY <2>2, <2>3, <2>4, <2>6
  <1>2. ASSUME stage = "cmdline", HasRootHash, roothash' = machine.roothash, stage' = "scan",
               UNCHANGED <<machine, shown, mounts, polls, scanning, pair, table, root, moved, faults,
                           partial>>
        PROVE  InitrdInv'
    <2>0. machine.roothash \in Images
      BY <1>2, MachineAssumption DEF HasRootHash, InitrdTypeOK
    <2>1. InitrdTypeOK'
      BY <1>2, <2>0 DEF InitrdTypeOK, VerityTables, Partitions, InitrdStages
    <2>2. PollsAreLeft' /\ MountsCostFaults' /\ PairIsOnDisk' /\ RootIsMeasured' /\ TableIsMeasured'
      BY <1>2, <2>0 DEF PollsAreLeft, MountsCostFaults, PairIsOnDisk, RootIsMeasured, TableIsMeasured,
                  RootDevice, HashDevice
    <2>3. OnCourse'
      BY <1>2 DEF OnCourse, Innocent, IsBootable, FirstPair, HoldsImage
    <2> QED
      BY <2>1, <2>2, <2>3
  <1>3. ASSUME ~HasRootHash, Halt("cmdline", 0) PROVE InitrdInv'
    <2>1. ~Innocent
      <3>1. SUFFICES ASSUME Innocent PROVE HasRootHash
        BY <1>3
      <3>2. mounts = 4
        BY <1>0, <1>3, <3>1 DEF Halt, MountsCostFaults, Innocent
      <3>3. Mounted("proc")
        BY <3>2 DEF Mounted, EarlyMounts
      <3> QED
        BY <3>1, <3>3, ImageAssumption DEF Innocent, IsBootable, HasRootHash
    <2> QED
      BY <1>3, <2>1, HaltInv DEF InitrdStages
  <1> QED
    BY <1>1, <1>2, <1>3 DEF ReadCmdline

\* The scan of the disks.
LEMMA ScanInv ==
  ASSUME InitrdInv, ScanDisk \/ PollAgain
  PROVE  InitrdInv'
  <1> USE DEF InitrdInv, verityVars
  <1>0. faults \in Nat /\ MaxFaults \in Nat /\ Len(machine.disks) \in Nat /\ scanning \in Nat
        /\ machine \in Machines /\ stage = "scan"
    BY FaultAssumption, DiskFacts DEF InitrdTypeOK, ScanDisk, PollAgain
  <1>1. CASE ScanDisk
    <2> DEFINE parts == DOMAIN machine.disks[scanning]
               p     == PairIn(shown[scanning])
    <2>1. /\ scanning \in 1..Len(machine.disks) /\ shown[scanning] \subseteq parts
          /\ parts \subseteq 1..4
      BY <1>0, <1>1, DiskFacts DEF ScanDisk, InitrdTypeOK
    <2>2. /\ partial' = (partial \/ shown[scanning] # parts)
          /\ UNCHANGED <<machine, shown, mounts, polls, roothash, table, root, moved, faults>>
      BY <1>1 DEF ScanDisk
    <2>3. Innocent' => Innocent /\ shown[scanning] = parts
      BY <2>2 DEF Innocent, IsBootable, FirstPair, HoldsImage, InitrdTypeOK
    <2>4. PollsAreLeft' /\ MountsCostFaults' /\ RootIsMeasured' /\ TableIsMeasured'
      BY <1>0, <1>1, <2>2 DEF ScanDisk, PollsAreLeft, MountsCostFaults, RootIsMeasured, TableIsMeasured
    <2>5. CASE p = <<>>
      <3>1. scanning' = scanning + 1 /\ UNCHANGED <<stage, pair>>
        BY <1>1, <2>5 DEF ScanDisk
      <3>2. InitrdTypeOK'
        BY <1>0, <2>1, <2>2, <3>1 DEF InitrdTypeOK, VerityTables, Partitions
      <3>3. PairIsOnDisk'
        BY <1>0, <3>1 DEF PairIsOnDisk
      <3>4. ASSUME Innocent', NEW d \in 1..Len(machine.disks), d < scanning + 1
            PROVE  PairIn(DOMAIN machine.disks[d]) = <<>>
        <4>1. CASE d < scanning
          BY <1>0, <2>3, <3>4, <4>1 DEF OnCourse
        <4>2. CASE d = scanning
          BY <2>3, <2>5, <3>4, <4>2
        <4> QED
          BY <1>0, <3>4, <4>1, <4>2
      <3>5. OnCourse'
        BY <1>0, <2>2, <3>1, <3>4 DEF OnCourse
      <3> QED
        BY <2>4, <3>2, <3>3, <3>5
    <2>6. CASE p # <<>>
      <3>1. PICK r \in shown[scanning], h \in shown[scanning] :
              /\ p = <<r, h>>
              /\ \/ r = 2 /\ h = 3
                 \/ r = 1 /\ h = 2 /\ 3 \notin shown[scanning]
        BY <2>1, <2>6, PairInFacts
      <3>2. stage' = "superblock" /\ pair' = <<scanning, p[1], p[2]>> /\ UNCHANGED scanning
        BY <1>1, <2>6 DEF ScanDisk
      <3>3. pair' = <<scanning, r, h>>
        BY <3>1, <3>2
      <3>4. r \in parts /\ h \in parts /\ r \in 1..4 /\ h \in 1..4
        BY <2>1
      <3>5. InitrdTypeOK'
        <4>1. pair' \in (1..Len(machine.disks)) \X (1..4) \X (1..4)
          BY <2>1, <3>3, <3>4
        <4>2. stage' \in InitrdStages
          BY <3>2 DEF InitrdStages
        <4> QED
          BY <1>0, <2>2, <3>2, <4>1, <4>2 DEF InitrdTypeOK, VerityTables, Partitions
      <3>6. PairIsOnDisk'
        BY <2>1, <2>2, <3>3, <3>4 DEF PairIsOnDisk
      <3>7. ASSUME Innocent' PROVE HoldsImage(scanning, r, h)
        <4>1. Innocent /\ shown[scanning] = parts
          BY <2>3, <3>7
        <4>2. FirstPair \subseteq Int /\ scanning \in FirstPair
          BY <2>1, <2>6, <4>1 DEF FirstPair
        <4>3. \A d \in FirstPair : scanning <= d
          BY <1>0, <4>1 DEF OnCourse, FirstPair
        <4>4. Min(FirstPair) = scanning
          BY <4>2, <4>3, MinIs
        <4> QED
          BY <3>1, <4>1, <4>4 DEF Innocent, IsBootable
      <3>8. OnCourse'
        BY <2>2, <3>2, <3>3, <3>7 DEF OnCourse, HoldsImage
      <3> QED
        BY <2>4, <3>5, <3>6, <3>8
    <2> QED
      BY <2>5, <2>6
  <1>2. CASE PollAgain
    <2>1. /\ polls' = polls + 1 /\ scanning' = 1
          /\ stage' = IF polls' = MaxPolls THEN "halted" ELSE "scan"
          /\ UNCHANGED <<machine, shown, mounts, verityVars, root, moved, faults, partial>>
      BY <1>2 DEF PollAgain
    <2>2. ~Innocent
      <3>1. SUFFICES ASSUME Innocent PROVE FALSE
        OBVIOUS
      <3>2. mounts = 4
        BY <1>0, <3>1 DEF MountsCostFaults, Innocent
      <3>3. Mounted("sys")
        BY <3>2 DEF Mounted, EarlyMounts
      <3>4. scanning > Len(machine.disks)
        BY <1>2, <3>3 DEF PollAgain
      <3>5. \A d \in 1..Len(machine.disks) : PairIn(DOMAIN machine.disks[d]) = <<>>
        BY <1>0, <3>1, <3>4 DEF OnCourse
      <3> QED
        BY <3>1, <3>5 DEF Innocent, IsBootable, FirstPair
    <2>3. ~Innocent'
      BY <2>1, <2>2 DEF Innocent, IsBootable, FirstPair, HoldsImage
    <2>4. polls' \in 0..MaxPolls /\ scanning' \in 1..(Len(machine.disks) + 1)
      BY <1>0, <2>1, PollAssumption DEF InitrdTypeOK, PollsAreLeft
    <2>5. InitrdTypeOK'
      BY <2>1, <2>4 DEF InitrdTypeOK, VerityTables, Partitions, InitrdStages
    <2>6. PollsAreLeft'
      BY <2>1, <2>4, PollAssumption DEF PollsAreLeft
    <2> QED
      BY <1>0, <2>1, <2>3, <2>5, <2>6 DEF OnCourse, PairIsOnDisk, MountsCostFaults, RootIsMeasured,
                                             TableIsMeasured
  <1> QED
    BY <1>1, <1>2

\* dm-verity, the mount of the root, and the hand-over.
LEMMA RootStepInv ==
  ASSUME InitrdInv, ReadSuperblock \/ ActivateDmVerity \/ MountRoot
  PROVE  InitrdInv'
  <1> USE DEF InitrdInv, verityVars
  <1>0. machine \in Machines
    BY DEF InitrdTypeOK
  <1>1. ASSUME NEW from \in {"superblock", "verity", "rootfs"}, stage = from PROVE
          /\ RootDevice \in Partitions /\ HashDevice \in Partitions
          /\ Content(RootDevice) \in Contents
    BY <1>0, <1>1, DiskFacts DEF PairIsOnDisk, Content, RootDevice, HashDevice, Partitions
  <1>2. ASSUME NEW from \in {"superblock", "verity", "rootfs"}, stage = from, Innocent
        PROVE  /\ Content(HashDevice).kind = "hash"
               /\ stage = "rootfs" => VerityReads
    <2>1. HoldsImage(pair[1], pair[2], pair[3])
      BY <1>2 DEF OnCourse
    <2>2. /\ Content(RootDevice) = [kind |-> "root", image |-> machine.roothash]
          /\ Content(HashDevice) = [kind |-> "hash", image |-> machine.roothash]
      BY <2>1 DEF HoldsImage, Content, RootDevice, HashDevice
    <2>3. ASSUME stage = "rootfs" PROVE VerityReads
      <3>1. table.root = machine.roothash /\ table.data = RootDevice /\ table.hash = HashDevice
        BY <2>3 DEF TableIsMeasured
      <3> QED
        BY <2>2, <3>1 DEF VerityReads
    <2> QED
      BY <2>2, <2>3
  <1>3. ASSUME stage = "superblock", stage' = "verity",
               UNCHANGED <<machine, shown, mounts, polls, scanning, verityVars, root, moved, faults, partial>>
        PROVE  InitrdInv'
    <2>1. InitrdTypeOK'
      BY <1>3 DEF InitrdTypeOK, VerityTables, Partitions, InitrdStages
    <2>2. PollsAreLeft' /\ MountsCostFaults' /\ PairIsOnDisk' /\ RootIsMeasured' /\ TableIsMeasured'
      BY <1>3 DEF PollsAreLeft, MountsCostFaults, PairIsOnDisk, RootIsMeasured, TableIsMeasured
    <2>3. OnCourse'
      BY <1>3 DEF OnCourse, Innocent, IsBootable, FirstPair, HoldsImage
    <2> QED
      BY <2>1, <2>2, <2>3
  <1>4. CASE ReadSuperblock
    <2>1. CASE Halt("superblock", IF Content(HashDevice).kind = "hash" THEN 1 ELSE 0)
      <3>1. stage = "superblock"
        BY <2>1 DEF Halt
      <3> QED
        BY <1>2, <2>1, <3>1, HaltInv DEF InitrdStages
    <2> QED
      BY <1>3, <1>4, <2>1 DEF ReadSuperblock
  <1>5. CASE ActivateDmVerity
    <2>1. CASE Halt("verity", 1)
      BY <2>1, HaltInv DEF InitrdStages
    <2>2. ASSUME stage = "verity", table' = Table, stage' = "rootfs",
                 UNCHANGED <<machine, shown, mounts, polls, scanning, roothash, pair, root, moved,
                             faults, partial>>
          PROVE  InitrdInv'
      <3>1. roothash = machine.roothash /\ machine.roothash \in Images
        BY <2>2 DEF TableIsMeasured
      <3>2. /\ table' \in VerityTables /\ table' # <<>> /\ table'.root = machine.roothash
            /\ table'.data = RootDevice /\ table'.hash = HashDevice
        BY <1>1, <2>2, <3>1 DEF Table, VerityTables
      <3>3. InitrdTypeOK'
        <4>1. table' \in VerityTables'
          BY <2>2, <3>2 DEF VerityTables, Partitions
        <4> QED
          BY <2>2, <4>1 DEF InitrdTypeOK, InitrdStages
      <3>4. PollsAreLeft' /\ MountsCostFaults' /\ PairIsOnDisk' /\ RootIsMeasured'
        BY <2>2 DEF PollsAreLeft, MountsCostFaults, PairIsOnDisk, RootIsMeasured
      <3>5. TableIsMeasured'
        BY <2>2, <3>2 DEF TableIsMeasured, RootDevice, HashDevice
      <3>6. OnCourse'
        BY <2>2 DEF OnCourse, Innocent, IsBootable, FirstPair, HoldsImage
      <3> QED
        BY <3>3, <3>4, <3>5, <3>6
    <2> QED
      BY <1>5, <2>1, <2>2 DEF ActivateDmVerity
  <1>6. CASE MountRoot
    <2>1. CASE Halt("rootfs", IF VerityReads THEN 1 ELSE 0)
      <3>1. stage = "rootfs"
        BY <2>1 DEF Halt
      <3> QED
        BY <1>2, <2>1, <3>1, HaltInv DEF InitrdStages
    <2>2. ASSUME stage = "rootfs", VerityReads, root' = Content(table.data).image, stage' = "handoff",
                 UNCHANGED <<machine, shown, mounts, polls, scanning, verityVars, moved, faults, partial>>
          PROVE  InitrdInv'
      <3>1. /\ table # <<>> /\ table.root = machine.roothash
            /\ table.data = RootDevice /\ table.hash = HashDevice
        BY <2>2 DEF TableIsMeasured
      <3>2. root' \in Images /\ root' # NoImage /\ root' = machine.roothash
        <4>1. Content(table.data).image \in Images
          BY <1>1, <2>2, <3>1 DEF Contents
        <4>2. Content(table.data).image = table.root
          BY <2>2 DEF VerityReads
        <4> QED
          BY <2>2, <3>1, <4>1, <4>2, ImageAssumption
      <3>3. InitrdTypeOK'
        BY <2>2, <3>2 DEF InitrdTypeOK, VerityTables, Partitions, InitrdStages
      <3>4. PollsAreLeft' /\ MountsCostFaults' /\ PairIsOnDisk' /\ RootIsMeasured' /\ TableIsMeasured'
        BY <2>2, <3>1, <3>2 DEF PollsAreLeft, MountsCostFaults, PairIsOnDisk, RootIsMeasured,
                                TableIsMeasured
      <3>5. OnCourse'
        BY <2>2 DEF OnCourse
      <3> QED
        BY <3>3, <3>4, <3>5
    <2> QED
      BY <1>6, <2>1, <2>2 DEF MountRoot
  <1> QED
    BY <1>4, <1>5, <1>6

LEMMA HandoffInv ==
  ASSUME InitrdInv, NEW given \in SUBSET {"dev", "proc", "sys", "run"}, Handoff(given)
  PROVE  InitrdInv'
  <1> USE DEF InitrdInv, verityVars
  <1>1. /\ stage = "handoff" /\ stage' = "node" /\ moved' = given
        /\ shown' = [d \in DOMAIN shown |-> {}]
        /\ mounts' = 0 /\ polls' = 0 /\ scanning' = 1 /\ roothash' = NoImage /\ pair' = <<>>
        /\ partial' = FALSE
        /\ faults' = faults + (mounts - Cardinality(given)) /\ faults' <= MaxFaults
        /\ UNCHANGED <<machine, table, root>>
    BY DEF Handoff, Fails
  <1>2. Cardinality(given) \in 0..mounts /\ (mounts = 4 /\ "proc" \notin given => Cardinality(given) < 4)
    BY HandoffCount DEF Handoff, InitrdTypeOK
  <1>3. /\ faults \in Nat /\ MaxFaults \in Nat /\ mounts \in 0..4 /\ MaxPolls \in Nat
        /\ Len(machine.disks) \in Nat
    BY FaultAssumption, PollAssumption, DiskFacts DEF InitrdTypeOK
  <1>4. faults' \in 0..MaxFaults /\ (faults > 0 => faults' > 0)
        /\ (mounts = 4 /\ "proc" \notin given => faults' > 0)
    BY <1>1, <1>2, <1>3
  <1>5. InitrdTypeOK'
    <2>1. /\ shown' \in [1..Len(machine.disks) -> SUBSET (1..4)]
          /\ \A d \in 1..Len(machine.disks) : shown'[d] \subseteq DOMAIN machine.disks[d]
      BY <1>1 DEF InitrdTypeOK
    <2>2. mounts' \in 0..4 /\ polls' \in 0..MaxPolls /\ scanning' \in 1..(Len(machine.disks) + 1)
      BY <1>1, <1>3
    <2> QED
      BY <1>1, <1>4, <2>1, <2>2 DEF InitrdTypeOK, InitrdStages, VerityTables, Partitions
  <1>6. MountsCostFaults'
    BY <1>1, <1>4 DEF MountsCostFaults
  <1> QED
    BY <1>1, <1>5, <1>6 DEF PollsAreLeft, PairIsOnDisk, RootIsMeasured, TableIsMeasured, OnCourse

\* Every step of run_initrd preserves the invariant.
LEMMA InitrdStepInv == InitrdInv /\ InitrdStep => InitrdInv'
  <1> SUFFICES ASSUME InitrdInv, InitrdStep PROVE InitrdInv'
    OBVIOUS
  <1>1. CASE HandoffFails
    BY <1>1, HaltInv DEF HandoffFails, InitrdStages
  <1> QED
    BY <1>1, EarlyStepInv, ScanInv, RootStepInv, HandoffInv DEF InitrdStep

\* What the invariant says of the two properties of early boot.
LEMMA InitrdInvImplies == InitrdInv => OnlyMeasuredRootRuns /\ InitrdHaltHasReason
  <1> SUFFICES ASSUME InitrdInv PROVE OnlyMeasuredRootRuns /\ InitrdHaltHasReason
    OBVIOUS
  <1>1. OnlyMeasuredRootRuns
    BY DEF InitrdInv, RootIsMeasured, TableIsMeasured, OnlyMeasuredRootRuns
  <1>2. InitrdHaltHasReason
    BY DEF InitrdInv, InitrdTypeOK, OnCourse, Innocent, InitrdHaltHasReason
  <1> QED
    BY <1>1, <1>2

(***************************************************************************)
(* GpuDriver                                                               *)
(***************************************************************************)

\* The modules are loaded once, and once more by the reload at most; nothing exists
\* before the first load.
LoadsInOrder ==
  /\ gpuPc \in {"off", "load"} =>
       loads = 0 /\ loaded = {} /\ ~nodes /\ uvmNode = 0 /\ held = {}
  /\ gpuPc \in {"nodes", "uvm", "hold", "verify", "reload"} => loads = 1
  /\ gpuPc \notin {"off", "load"} => loads >= 1
  /\ gpuPc \in {"uvm", "reUvm", "uvm2"} => tries < UvmTries

\* What each thing of the driver rests on.
DriverRests ==
  /\ loaded # {} => gpu
  /\ uvmMajor # 0 => "nvidia_uvm" \in loaded
  /\ nodes => "dev" \in fs
  /\ held # {} => "nvidia" \in loaded

\* After the last call of EnsureGPUDeviceNodes that found the major of nvidia-uvm.
UvmIsSettled ==
  gpuPc \in {"ready", "done"} /\ HasNVIDIAHardware /\ nodes /\ tries < UvmTries =>
    uvmMajor # 0 /\ uvmNode = uvmMajor

GpuInv ==
  /\ GpuTypeOK
  /\ LoadsInOrder
  /\ DriverRests
  /\ NoPhantomNodes
  /\ UvmIsSettled

LEMMA GpuInitInv == ASSUME GpuInit, fs = {} PROVE GpuInv
  <1>1. tries \in 0..UvmTries /\ uvmMajor \in 0..2 /\ uvmNode \in 0..2 /\ loads \in 0..2
    BY UvmTriesAssumption DEF GpuInit
  <1>2. GpuTypeOK
    BY <1>1 DEF GpuInit, GpuTypeOK, GpuPCs
  <1> QED
    BY <1>2 DEF GpuInit, GpuInv, LoadsInOrder, DriverRests, NoPhantomNodes, UvmIsSettled

\* File systems are mounted before the drivers are loaded.
LEMMA GpuOffInv ==
  ASSUME GpuInv, gpuPc = "off", fs' \subseteq PseudoFs, GpuStart \/ UNCHANGED gpuVars
  PROVE  GpuInv'
  <1>1. gpuPc' \in {"off", "load"}
        /\ UNCHANGED <<gpu, loaded, uvmMajor, nodes, uvmNode, held, loads, tries>>
    BY DEF GpuStart, gpuVars
  <1>2. GpuTypeOK'
    BY <1>1 DEF GpuInv, GpuTypeOK, GpuPCs
  <1> QED
    BY <1>1, <1>2 DEF GpuInv, LoadsInOrder, DriverRests, NoPhantomNodes, UvmIsSettled

LEMMA GpuSameInv == ASSUME GpuInv, UNCHANGED <<fs, gpuVars>> PROVE GpuInv'
  BY DEF GpuInv, gpuVars, GpuTypeOK, LoadsInOrder, DriverRests, NoPhantomNodes, UvmIsSettled,
         HasNVIDIAHardware

\* The calls of PreloadDriverModules, one after the other.
LEMMA LoadModulesInv ==
  ASSUME GpuInv, UNCHANGED fs, LoadModules("load", "nodes") \/ LoadModules("reload", "reNodes")
  PROVE  GpuInv'
  <1> USE DEF GpuInv
  <1>1. /\ \/ gpuPc = "load" /\ gpuPc' = "nodes"
           \/ gpuPc = "reload" /\ gpuPc' = "reNodes"
        /\ loads' = loads + 1
        /\ loaded' \subseteq {"nvidia", "nvidia_uvm"}
        /\ loaded \subseteq loaded'
        /\ loaded' # {} => gpu
        /\ UNCHANGED <<gpu, uvmMajor, nodes, uvmNode, held, tries>>
    BY DEF LoadModules
  <1>2. loads' \in 1..2 /\ (gpuPc = "load" => loads' = 1)
    BY <1>1 DEF LoadsInOrder
  <1>3. GpuTypeOK'
    BY <1>1, <1>2 DEF GpuTypeOK, GpuPCs
  <1>4. LoadsInOrder'
    BY <1>1, <1>2 DEF LoadsInOrder
  <1>5. DriverRests' /\ NoPhantomNodes'
    BY <1>1 DEF DriverRests, NoPhantomNodes
  <1> QED
    BY <1>1, <1>3, <1>4, <1>5 DEF UvmIsSettled

LEMMA UvmRegistersInv ==
  ASSUME GpuInv, UNCHANGED fs, UvmRegisters
  PROVE  GpuInv'
  <1> USE DEF GpuInv
  <1>1. /\ "nvidia_uvm" \in loaded /\ uvmMajor = 0 /\ gpuPc # "done" /\ uvmMajor' = loads
        /\ UNCHANGED <<gpuPc, gpu, loaded, nodes, uvmNode, held, loads, tries>>
    BY DEF UvmRegisters
  <1>2. GpuTypeOK'
    BY <1>1 DEF GpuTypeOK
  <1>3. LoadsInOrder' /\ DriverRests' /\ NoPhantomNodes'
    BY <1>1 DEF LoadsInOrder, DriverRests, NoPhantomNodes
  <1>4. UvmIsSettled'
    BY <1>1 DEF UvmIsSettled, HasNVIDIAHardware
  <1> QED
    BY <1>2, <1>3, <1>4

LEMMA EnsureNodesInv ==
  ASSUME GpuInv, UNCHANGED fs,
         \/ EnsureNodes("nodes", "uvm", "hold")
         \/ EnsureNodes("reNodes", "reUvm", "reHold")
         \/ EnsureNodes("nodes2", "uvm2", "ready")
  PROVE  GpuInv'
  <1> USE DEF GpuInv
  <1>1. /\ \/ gpuPc = "nodes" /\ gpuPc' \in {"uvm", "hold"}
           \/ gpuPc = "reNodes" /\ gpuPc' \in {"reUvm", "reHold"}
           \/ gpuPc = "nodes2" /\ gpuPc' \in {"uvm2", "ready"}
        /\ gpuPc' = "ready" => ~HasNVIDIAHardware
        /\ tries' = 0
        /\ \/ HasNVIDIAHardware /\ nodes' = (nodes \/ "dev" \in fs)
           \/ nodes' = nodes
        /\ UNCHANGED <<gpu, loaded, uvmMajor, uvmNode, held, loads>>
    BY DEF EnsureNodes
  <1>2. HasNVIDIAHardware => gpu
    BY DEF HasNVIDIAHardware, DriverRests
  <1>3. nodes' \in BOOLEAN /\ (nodes' => "dev" \in fs) /\ (nodes' => gpu)
    BY <1>1, <1>2 DEF GpuTypeOK, DriverRests, NoPhantomNodes
  <1>4. GpuTypeOK'
    BY <1>1, <1>3, UvmTriesAssumption DEF GpuTypeOK, GpuPCs
  <1>5. LoadsInOrder'
    BY <1>1, UvmTriesAssumption DEF LoadsInOrder
  <1>6. DriverRests' /\ NoPhantomNodes'
    BY <1>1, <1>3 DEF DriverRests, NoPhantomNodes
  <1>7. UvmIsSettled'
    BY <1>1 DEF UvmIsSettled, HasNVIDIAHardware
  <1> QED
    BY <1>4, <1>5, <1>6, <1>7

LEMMA EnsureUvmInv ==
  ASSUME GpuInv, UNCHANGED fs,
         EnsureUvm("uvm", "hold") \/ EnsureUvm("reUvm", "reHold") \/ EnsureUvm("uvm2", "ready")
  PROVE  GpuInv'
  <1> USE DEF GpuInv
  <1>1. PICK from \in {"uvm", "reUvm", "uvm2"}, to \in {"hold", "reHold", "ready"} :
          /\ gpuPc = from /\ EnsureUvm(from, to)
          /\ from = "uvm" <=> to = "hold"
    BY DEF EnsureUvm
  <1>2. UNCHANGED <<gpu, loaded, uvmMajor, nodes, held, loads>> /\ tries \in Nat /\ tries < UvmTries
    BY <1>1 DEF EnsureUvm, GpuTypeOK, LoadsInOrder
  <1>3. CASE SeenMajor # 0
    <2>1. /\ uvmNode' = IF "dev" \in fs THEN uvmMajor ELSE uvmNode
          /\ gpuPc' = to /\ tries' = tries /\ uvmMajor # 0
      BY <1>1, <1>3 DEF EnsureUvm, SeenMajor
    <2>2. GpuTypeOK'
      BY <1>2, <2>1 DEF GpuTypeOK, GpuPCs
    <2>3. LoadsInOrder'
      BY <1>1, <1>2, <2>1 DEF LoadsInOrder
    <2>4. DriverRests' /\ NoPhantomNodes'
      BY <1>2, <2>1 DEF DriverRests, NoPhantomNodes
    <2>5. UvmIsSettled'
      BY <1>2, <2>1 DEF UvmIsSettled, DriverRests
    <2> QED
      BY <2>2, <2>3, <2>4, <2>5
  <1>4. CASE SeenMajor = 0
    <2>1. /\ tries' = tries + 1 /\ uvmNode' = uvmNode
          /\ gpuPc' = IF tries' = UvmTries THEN to ELSE from
      BY <1>1, <1>4 DEF EnsureUvm
    <2>2. tries' \in 0..UvmTries /\ (tries' # UvmTries => tries' < UvmTries)
      BY <1>2, <2>1, UvmTriesAssumption
    <2>3. GpuTypeOK'
      BY <1>2, <2>1, <2>2 DEF GpuTypeOK, GpuPCs
    <2>4. LoadsInOrder'
      BY <1>1, <1>2, <2>1, <2>2 DEF LoadsInOrder
    <2>5. DriverRests' /\ NoPhantomNodes'
      BY <1>2, <2>1 DEF DriverRests, NoPhantomNodes
    <2>6. UvmIsSettled'
      BY <2>1, <2>2 DEF UvmIsSettled
    <2> QED
      BY <2>3, <2>4, <2>5, <2>6
  <1> QED
    BY <1>3, <1>4

LEMMA HoldInv ==
  ASSUME GpuInv, UNCHANGED fs,
         Hold("hold", "verify") \/ Hold("reHold", "nodes2") \/ Hold("ready", "done")
  PROVE  GpuInv'
  <1> USE DEF GpuInv
  <1>1. /\ \/ gpuPc = "hold" /\ gpuPc' = "verify"
           \/ gpuPc = "reHold" /\ gpuPc' = "nodes2"
           \/ gpuPc = "ready" /\ gpuPc' = "done"
        /\ \/ nodes /\ "nvidia" \in loaded /\ held' \subseteq Devices
           \/ held' = held
        /\ UNCHANGED <<gpu, loaded, uvmMajor, nodes, uvmNode, loads, tries>>
    BY DEF Hold
  <1>2. GpuTypeOK'
    BY <1>1 DEF GpuTypeOK, GpuPCs
  <1>3. LoadsInOrder'
    BY <1>1 DEF LoadsInOrder
  <1>4. DriverRests' /\ NoPhantomNodes'
    BY <1>1 DEF DriverRests, NoPhantomNodes
  <1>5. UvmIsSettled'
    BY <1>1 DEF UvmIsSettled, HasNVIDIAHardware
  <1> QED
    BY <1>2, <1>3, <1>4, <1>5

LEMMA VerifyAdapterInv ==
  ASSUME GpuInv, UNCHANGED fs, VerifyAdapter
  PROVE  GpuInv'
  <1> USE DEF GpuInv
  <1>1. /\ gpuPc = "verify" /\ gpuPc' \in {"nodes2", "reload"}
        /\ loaded' \subseteq loaded
        /\ \/ UNCHANGED <<loaded, uvmMajor, held>>
           \/ /\ held' = {}
              /\ uvmMajor' = IF "nvidia_uvm" \in loaded' THEN uvmMajor ELSE 0
        /\ UNCHANGED <<gpu, nodes, uvmNode, loads, tries>>
    BY DEF VerifyAdapter
  <1>2. GpuTypeOK'
    BY <1>1 DEF GpuTypeOK, GpuPCs
  <1>3. LoadsInOrder'
    BY <1>1 DEF LoadsInOrder
  <1>4. DriverRests' /\ NoPhantomNodes'
    BY <1>1 DEF DriverRests, NoPhantomNodes
  <1> QED
    BY <1>1, <1>2, <1>3, <1>4 DEF UvmIsSettled

LEMMA GpuStepInv == ASSUME GpuInv, UNCHANGED fs, GpuStep PROVE GpuInv'
  BY LoadModulesInv, EnsureNodesInv, EnsureUvmInv, HoldInv, VerifyAdapterInv DEF GpuStep

LEMMA GpuInvImplies == GpuInv => NodesLeadToHardware
  BY DEF GpuInv, UvmIsSettled, NodesLeadToHardware, UvmNodeIsCurrent

\* No call of the preload closes a held file or takes its driver away.
LEMMA GpuStepHolds ==
  ASSUME GpuInv, held # {}, GpuStep \/ UvmRegisters \/ GpuStart \/ UNCHANGED gpuVars
  PROVE  held \subseteq held' /\ "nvidia" \in loaded'
  <1>0. "nvidia" \in loaded
    BY DEF GpuInv, DriverRests
  <1>1. CASE VerifyAdapter
    BY <1>0, <1>1 DEF VerifyAdapter, AdapterIsHealthy
  <1>2. CASE Hold("hold", "verify") \/ Hold("reHold", "nodes2") \/ Hold("ready", "done")
    BY <1>0, <1>2 DEF Hold
  <1> QED
    BY <1>0, <1>1, <1>2 DEF GpuStep, UvmRegisters, GpuStart, gpuVars, LoadModules, EnsureNodes,
                            EnsureUvm

(***************************************************************************)
(* DhcpClient                                                              *)
(***************************************************************************)

\* While the client waits a router is known from a stray reply only, for an offer with
\* one ends the wait; and what the latest reply named is what is held.
DhcpInv ==
  /\ DhcpTypeOK
  /\ dhcpPc = "wait" => /\ router # None => stray
                        /\ last = None => offerIP = None
                        /\ last # None => /\ offerIP = last.ip
                                          /\ last.server # None => serverID = last.server
                                          /\ last.router # None => router = last.router
                                          /\ last.mask # None => mask = last.mask
  /\ dhcpPc = "lease" => last # None
  /\ LeaseIsOfOneOffer

LEMMA DhcpInitInv == DhcpInit => DhcpInv
  <1> SUFFICES ASSUME DhcpInit PROVE DhcpInv
    OBVIOUS
  <1>1. sent \in 0..Discovers
    BY DiscoversAssumption DEF DhcpInit
  <1> QED
    BY <1>1 DEF DhcpInit, DhcpInv, DhcpTypeOK, OptAddress, LeaseIsOfOneOffer

LEMMA DhcpSameInv == ASSUME DhcpInv, UNCHANGED dhcpVars PROVE DhcpInv'
  BY DEF DhcpInv, dhcpVars, DhcpTypeOK, LeaseIsOfOneOffer

\* The call and its return.
LEMMA DhcpFrameInv == ASSUME DhcpInv, DhcpStart \/ DhcpReturn PROVE DhcpInv'
  <1>1. /\ dhcpPc' \in {"off", "wait", "noLease"} /\ sent' \in {0, 1}
        /\ offerIP' = None /\ router' = None /\ serverID' = None /\ mask' = None
        /\ asked' = <<>> /\ last' = None /\ stray' = FALSE
    BY DEF DhcpStart, DhcpReturn, DhcpReset
  <1>2. sent' \in 0..Discovers
    BY <1>1, DiscoversAssumption
  <1> QED
    BY <1>1, <1>2 DEF DhcpInv, DhcpTypeOK, OptAddress, LeaseIsOfOneOffer

LEMMA DhcpReceiveInv ==
  ASSUME DhcpInv, NEW m \in Replies, DhcpReceive(m)
  PROVE  DhcpInv'
  <1> USE DEF DhcpInv
  <1>1. /\ m.type \in {"offer", "other"} /\ m.ip \in Addresses /\ m.server \in OptAddress
        /\ m.router \in OptAddress /\ m.mask \in OptAddress /\ m # None
    BY NoneAssumption, RepliesAssumption DEF OptAddress
  <1>2. /\ dhcpPc = "wait" /\ offerIP' = m.ip
        /\ serverID' = (IF m.server = None THEN serverID ELSE m.server)
        /\ router' = (IF m.router = None THEN router ELSE m.router)
        /\ mask' = (IF m.mask = None THEN mask ELSE m.mask)
        /\ last' = m /\ sent' = sent
        /\ stray' = (stray \/ (m.type # "offer" /\ m.router # None))
    BY DEF DhcpReceive, ServerOf, Latest
  <1>3. /\ {offerIP', router', serverID', mask'} \subseteq OptAddress /\ sent' \in 0..Discovers
        /\ last' \in Replies \union {None} /\ stray' \in BOOLEAN
    BY <1>1, <1>2 DEF DhcpTypeOK, OptAddress
  <1>4. CASE m.type = "offer" /\ router' # None
    <2>1. asked' = <<m.ip, IF serverID' = None THEN router' ELSE serverID'>> /\ dhcpPc' = "lease"
      BY <1>2, <1>4 DEF DhcpReceive, SendRequest, Latest
    <2>2. DhcpTypeOK'
      BY <1>1, <1>3, <1>4, <2>1 DEF DhcpTypeOK, OptAddress
    <2>3. ~stray' => m.router = router'
      BY <1>2, <1>4
    <2>4. LeaseIsOfOneOffer'
      BY <1>2, <1>4, <2>1, <2>3 DEF LeaseIsOfOneOffer
    <2> QED
      BY <1>1, <1>2, <2>1, <2>2, <2>4
  <1>5. CASE ~(m.type = "offer" /\ router' # None)
    <2>1. UNCHANGED <<dhcpPc, asked>>
      BY <1>1, <1>5 DEF DhcpReceive
    <2>2. DhcpTypeOK'
      BY <1>3, <2>1 DEF DhcpTypeOK
    <2>3. router' # None => stray'
      BY <1>2, <1>5
    <2> QED
      BY <1>1, <1>2, <2>1, <2>2, <2>3 DEF LeaseIsOfOneOffer
  <1> QED
    BY <1>4, <1>5

LEMMA DhcpTimeoutInv ==
  ASSUME DhcpInv, DhcpTimeout
  PROVE  DhcpInv'
  <1> USE DEF DhcpInv
  <1>1. /\ dhcpPc = "wait" /\ sent' \in 0..Discovers
        /\ UNCHANGED <<offerIP, router, serverID, mask, last, stray>>
    BY DiscoversAssumption DEF DhcpTimeout, DhcpTypeOK
  <1>2. CASE router # None /\ offerIP # None
    <2>1. /\ asked' = <<offerIP, IF serverID = None THEN router ELSE serverID>> /\ dhcpPc' = "lease"
          /\ last # None /\ stray
      BY <1>1, <1>2 DEF DhcpTimeout, SendRequest, Latest
    <2>2. DhcpTypeOK'
      BY <1>1, <1>2, <2>1 DEF DhcpTypeOK, OptAddress
    <2>3. LeaseIsOfOneOffer'
      BY <1>1, <2>1 DEF LeaseIsOfOneOffer
    <2> QED
      BY <1>1, <2>1, <2>2, <2>3
  <1>3. CASE router = None \/ offerIP = None
    <2>1. dhcpPc' \in {"wait", "noLease"} /\ asked' = asked
      BY <1>1, <1>3 DEF DhcpTimeout
    <2>2. DhcpTypeOK'
      BY <1>1, <2>1 DEF DhcpTypeOK
    <2> QED
      BY <1>1, <2>1, <2>2 DEF LeaseIsOfOneOffer
  <1> QED
    BY <1>2, <1>3

LEMMA DhcpStepInv == ASSUME DhcpInv, DhcpStep PROVE DhcpInv'
  BY DhcpReceiveInv, DhcpTimeoutInv DEF DhcpStep

\* A lease is an address.
LEMMA LeaseIsAddress == ASSUME DhcpInv, dhcpPc = "lease" PROVE offerIP \in Addresses
  BY RepliesAssumption DEF DhcpInv, DhcpTypeOK, LeaseIsOfOneOffer

(***************************************************************************)
(* KeyDiscovery                                                            *)
(***************************************************************************)

\* The lookups of a round before the n-th that would find a key.
KeysBefore(n) == {i \in KeyLookups : i < n}

\* Every lookup that could have found a key so far has missed it; so as long as none
\* was missed, nothing that was looked up holds a key.
Searching ==
  keyPc = "metadata" =>
    /\ Parse(provisioned.env) = NoKey
    /\ authKey = NoKey
    /\ misses <= (attempt - 1) * 6 + (lookup - 1)
    /\ misses = (attempt - 1) * Cardinality(KeyLookups) + Cardinality(KeysBefore(lookup))
    /\ misses = 0 => \A i \in Lookups : attempt > 1 \/ i < lookup => i \notin KeyLookups

\* The metadata service is given up after everything there was tried.
ServiceIsExhausted ==
  keyPc = "files" =>
    /\ Parse(provisioned.env) = NoKey
    /\ authKey = NoKey
    /\ misses = MaxAttempts * Cardinality(KeyLookups)
    /\ misses = 0 => KeyLookups = {}

KeyInv ==
  /\ KeyTypeOK
  /\ keyPc \in {"off", "env"} => attempt = 1 /\ lookup = 1 /\ misses = 0 /\ authKey = NoKey
  /\ Searching
  /\ ServiceIsExhausted
  /\ ProvisionedKeyIsHonoured

\* The sources of a deployment.
LEMMA SourceFacts ==
  ASSUME provisioned \in Provisionings
  PROVE  /\ provisioned.env \in Texts
         /\ provisioned.attrs \in [1..3 -> Texts]
         /\ provisioned.files \in [1..3 -> Texts]
  BY ProvisioningAssumption DEF FilePaths

LEMMA LookupFacts ==
  /\ Len(Attributes) = 3
  /\ Lookups = 1..6
  /\ \A i \in Lookups : AttrAt(i) \in 1..3 /\ AttrAt(i) <= i
  /\ \A j \in 1..3 : j \in Lookups /\ AttrAt(j) = j
  <1>1. Len(Attributes) = 3
    BY DEF Attributes
  <1> QED
    BY <1>1 DEF Lookups, AttrAt

LEMMA ParseType == \A t \in Texts : Parse(t) \in Keys \union {NoKey}
  BY DEF Texts, Parse

\* The first text that parses decides.
LEMMA FirstKeyIs ==
  ASSUME NEW texts, DOMAIN texts \subseteq Int, NEW i \in DOMAIN texts,
         Parse(texts[i]) # NoKey,
         \A j \in DOMAIN texts : j < i => Parse(texts[j]) = NoKey
  PROVE  FirstKey(texts) = Parse(texts[i])
  <1> DEFINE IsFirst(x) == /\ Parse(texts[x]) # NoKey
                           /\ \A j \in DOMAIN texts : j < x => Parse(texts[j]) = NoKey
             c == CHOOSE x \in DOMAIN texts : IsFirst(x)
  <1>1. c \in DOMAIN texts /\ IsFirst(c)
    OBVIOUS
  <1>2. FirstKey(texts) = Parse(texts[c])
    BY DEF FirstKey
  <1> HIDE DEF c
  <1>3. ~(c < i) /\ ~(i < c) /\ c \in Int /\ i \in Int
    BY <1>1
  <1>4. c = i
    BY <1>3
  <1> QED
    BY <1>2, <1>4

LEMMA FirstKeyNone ==
  ASSUME NEW texts, \A i \in DOMAIN texts : Parse(texts[i]) = NoKey
  PROVE  FirstKey(texts) = NoKey
  BY DEF FirstKey

\* Among three texts there is a first that parses, or none does.
LEMMA FirstOfThree ==
  ASSUME NEW texts \in [1..3 -> Texts]
  PROVE  \/ \A i \in 1..3 : Parse(texts[i]) = NoKey
         \/ \E i \in 1..3 : /\ Parse(texts[i]) # NoKey
                           /\ \A j \in 1..3 : j < i => Parse(texts[j]) = NoKey
  <1>0. \A i \in 1..3 : i = 1 \/ i = 2 \/ i = 3
    OBVIOUS
  <1>1. CASE Parse(texts[1]) # NoKey
    BY <1>1
  <1>2. CASE Parse(texts[1]) = NoKey /\ Parse(texts[2]) # NoKey
    BY <1>0, <1>2
  <1>3. CASE Parse(texts[1]) = NoKey /\ Parse(texts[2]) = NoKey /\ Parse(texts[3]) # NoKey
    BY <1>0, <1>3
  <1>4. CASE Parse(texts[1]) = NoKey /\ Parse(texts[2]) = NoKey /\ Parse(texts[3]) = NoKey
    BY <1>0, <1>4
  <1> QED
    BY <1>1, <1>2, <1>3, <1>4

LEMMA FirstKeyType ==
  ASSUME NEW texts \in [1..3 -> Texts]
  PROVE  FirstKey(texts) \in Keys \union {NoKey}
  <1>1. DOMAIN texts = 1..3 /\ \A i \in 1..3 : Parse(texts[i]) \in Keys \union {NoKey}
    BY ParseType
  <1>2. CASE \A i \in 1..3 : Parse(texts[i]) = NoKey
    BY <1>1, <1>2, FirstKeyNone
  <1>3. ASSUME NEW i \in 1..3, Parse(texts[i]) # NoKey,
               \A j \in 1..3 : j < i => Parse(texts[j]) = NoKey
        PROVE  FirstKey(texts) \in Keys \union {NoKey}
    BY <1>1, <1>3, FirstKeyIs
  <1> QED
    BY <1>2, <1>3, FirstOfThree

\* The attributes and the files in the order of their priority, and where each is.
LEMMA SourcesInOrder ==
  ASSUME NEW a \in [1..3 -> Texts], NEW f \in [1..3 -> Texts]
  PROVE  /\ DOMAIN (a \o f) = 1..6
         /\ \A j \in 1..3 : (a \o f)[j] = a[j] /\ (a \o f)[j + 3] = f[j]
  <1>1. ASSUME NEW g \in [1..3 -> Texts] PROVE g \in Seq(Texts) /\ Len(g) = 3
    <2>1. [i \in 1..3 |-> g[i]] \in Seq(Texts)
      OBVIOUS
    <2>2. g \in Seq(Texts)
      BY <2>1
    <2> QED
      BY <2>2
  <1>2. a \in Seq(Texts) /\ f \in Seq(Texts) /\ Len(a) = 3 /\ Len(f) = 3
    BY <1>1
  <1> DEFINE t == a \o f
  <1>3. /\ t \in Seq(Texts) /\ Len(t) = Len(a) + Len(f)
        /\ \A i \in 1..(Len(a) + Len(f)) : t[i] = IF i <= Len(a) THEN a[i] ELSE f[i - Len(a)]
    BY <1>2, ConcatProperties, Zenon
  <1> HIDE DEF t
  <1>4. Len(t) = 6 /\ \A i \in 1..6 : t[i] = IF i <= 3 THEN a[i] ELSE f[i - 3]
    BY <1>2, <1>3
  <1>5. DOMAIN t = 1..6
    BY <1>3, <1>4, LenProperties
  <1>6. ASSUME NEW j \in 1..3 PROVE t[j] = a[j] /\ t[j + 3] = f[j]
    <2>1. /\ j \in 1..6 /\ j <= 3
          /\ j + 3 \in 1..6 /\ ~(j + 3 <= 3) /\ (j + 3) - 3 = j
      OBVIOUS
    <2> QED
      BY <1>4, <2>1
  <1> QED
    BY <1>5, <1>6 DEF t

\* The order of priority, source by source.
LEMMA AttributesComeFirst ==
  ASSUME NEW a \in [1..3 -> Texts], NEW f \in [1..3 -> Texts],
         NEW j \in 1..3, Parse(a[j]) # NoKey, \A i \in 1..3 : i < j => Parse(a[i]) = NoKey
  PROVE  FirstKey(a \o f) = Parse(a[j])
  <1> DEFINE s == a \o f
  <1>1. DOMAIN s = 1..6 /\ \A i \in 1..3 : s[i] = a[i]
    BY SourcesInOrder
  <1> HIDE DEF s
  <1>2. ASSUME NEW i \in 1..6, i < j PROVE Parse(s[i]) = NoKey
    <2>1. i \in 1..3
      BY <1>2
    <2> QED
      BY <1>1, <1>2, <2>1
  <1>3. j \in 1..6 /\ s[j] = a[j]
    BY <1>1
  <1>4. FirstKey(s) = Parse(s[j])
    BY <1>1, <1>2, <1>3, FirstKeyIs
  <1> QED
    BY <1>3, <1>4 DEF s

LEMMA FilesComeLast ==
  ASSUME NEW a \in [1..3 -> Texts], NEW f \in [1..3 -> Texts],
         \A i \in 1..3 : Parse(a[i]) = NoKey
  PROVE  FirstKey(a \o f) = FirstKey(f)
  <1> DEFINE s == a \o f
  <1>1. DOMAIN s = 1..6 /\ \A i \in 1..3 : s[i] = a[i] /\ s[i + 3] = f[i]
    BY SourcesInOrder
  <1> HIDE DEF s
  <1>2. ASSUME NEW i \in 1..6, i <= 3 PROVE Parse(s[i]) = NoKey
    <2>1. i \in 1..3
      BY <1>2
    <2> QED
      BY <1>1, <2>1
  <1>3. ASSUME NEW i \in 1..6, ~(i <= 3) PROVE i - 3 \in 1..3 /\ s[i] = f[i - 3]
    <2>1. i - 3 \in 1..3 /\ (i - 3) + 3 = i
      BY <1>3
    <2> QED
      BY <1>1, <2>1
  <1>4. CASE \A i \in 1..3 : Parse(f[i]) = NoKey
    <2>1. FirstKey(f) = NoKey
      BY <1>4, FirstKeyNone
    <2>2. \A i \in 1..6 : Parse(s[i]) = NoKey
      BY <1>2, <1>3, <1>4
    <2>3. FirstKey(s) = NoKey
      BY <1>1, <2>2, FirstKeyNone
    <2> QED
      BY <2>1, <2>3 DEF s
  <1>5. ASSUME NEW k \in 1..3, Parse(f[k]) # NoKey,
               \A j \in 1..3 : j < k => Parse(f[j]) = NoKey
        PROVE  FirstKey(s) = FirstKey(f)
    <2>1. FirstKey(f) = Parse(f[k])
      BY <1>5, FirstKeyIs
    <2>2. ASSUME NEW i \in 1..6, i < k + 3 PROVE Parse(s[i]) = NoKey
      <3>1. CASE ~(i <= 3)
        <4>1. i - 3 < k
          BY <2>2
        <4> QED
          BY <1>3, <1>5, <3>1, <4>1
      <3> QED
        BY <1>2, <3>1
    <2>3. k + 3 \in 1..6 /\ s[k + 3] = f[k]
      BY <1>1
    <2>4. FirstKey(s) = Parse(s[k + 3])
      BY <1>1, <1>5, <2>2, <2>3, FirstKeyIs
    <2> QED
      BY <2>1, <2>3, <2>4
  <1> QED
    BY <1>4, <1>5, FirstOfThree DEF s

\* How many lookups of a round would find a key, counted one after the other.
LEMMA KeysBeforeFacts ==
  /\ Cardinality(KeyLookups) \in Nat /\ Cardinality(KeyLookups) <= 6
  /\ Cardinality(KeysBefore(1)) = 0
  /\ KeysBefore(7) = KeyLookups
  /\ \A n \in 1..6 : /\ Cardinality(KeysBefore(n)) \in Nat
                     /\ Cardinality(KeysBefore(n + 1)) =
                          Cardinality(KeysBefore(n)) + (IF n \in KeyLookups THEN 1 ELSE 0)
  <1>0. KeyLookups \in SUBSET (1..6)
    BY LookupFacts DEF KeyLookups
  <1>1. \A i \in KeyLookups : i \in Int /\ 1 <= i /\ i <= 6
    BY <1>0
  <1>2. IsFiniteSet(1..6) /\ Cardinality(1..6) = 6
    <2>1. 6 \in Nat
      OBVIOUS
    <2> QED
      BY <2>1, UpToCount, Zenon
  <1>3. IsFiniteSet(KeyLookups) /\ Cardinality(KeyLookups) <= 6
    BY <1>0, <1>2, FS_Subset
  <1>4. Cardinality(KeyLookups) \in Nat
    BY <1>3, FS_CardinalityType
  <1>5. KeysBefore(1) = {} /\ KeysBefore(7) = KeyLookups
    <2>1. \A i \in KeyLookups : ~(i < 1) /\ i < 7
      BY <1>1
    <2> QED
      BY <2>1, Zenon DEF KeysBefore
  <1>6. Cardinality(KeysBefore(1)) = 0
    BY <1>5, FS_EmptySet
  <1>7. ASSUME NEW n \in 1..6
        PROVE  /\ Cardinality(KeysBefore(n)) \in Nat
               /\ Cardinality(KeysBefore(n + 1)) =
                    Cardinality(KeysBefore(n)) + (IF n \in KeyLookups THEN 1 ELSE 0)
    <2>1. KeysBefore(n) \subseteq KeyLookups
      BY DEF KeysBefore
    <2>2. IsFiniteSet(KeysBefore(n)) /\ n \notin KeysBefore(n)
      BY <1>3, <2>1, FS_Subset DEF KeysBefore
    <2>3. Cardinality(KeysBefore(n)) \in Nat
      BY <2>2, FS_CardinalityType
    <2>4. CASE n \in KeyLookups
      <3>1. KeysBefore(n + 1) = KeysBefore(n) \cup {n}
        <4>1. \A i \in KeyLookups : i < n + 1 <=> i < n \/ i = n
          BY <1>1
        <4> QED
          BY <2>4, <4>1, Zenon DEF KeysBefore
      <3> QED
        BY <2>2, <2>3, <2>4, <3>1, FS_AddElement
    <2>5. CASE n \notin KeyLookups
      <3>1. KeysBefore(n + 1) = KeysBefore(n)
        <4>1. \A i \in KeyLookups : i < n + 1 <=> i < n
          BY <1>1, <2>5
        <4> QED
          BY <4>1, Zenon DEF KeysBefore
      <3> QED
        BY <2>3, <2>5, <3>1
    <2> QED
      BY <2>3, <2>4, <2>5
  <1> QED
    BY <1>3, <1>4, <1>5, <1>6, <1>7

LEMMA KeyInitInv == KeyInit => KeyInv
  <1> SUFFICES ASSUME KeyInit PROVE KeyInv
    OBVIOUS
  <1>1. attempt \in 1..MaxAttempts /\ lookup \in Lookups
    BY LookupFacts, AttemptsAssumption DEF KeyInit
  <1>2. misses \in 0..(MaxAttempts * 2 * Len(Attributes))
    BY LookupFacts, AttemptsAssumption DEF KeyInit
  <1>3. KeyTypeOK
    BY <1>1, <1>2 DEF KeyInit, KeyTypeOK
  <1> QED
    BY <1>3 DEF KeyInit, KeyInv, Searching, ServiceIsExhausted, ProvisionedKeyIsHonoured,
                KeyFollowsPriority, KeyIsNotGivenUpEarly

LEMMA KeySameInv == ASSUME KeyInv, UNCHANGED keyVars PROVE KeyInv'
  BY DEF KeyInv, keyVars, KeyTypeOK, Searching, ServiceIsExhausted, ProvisionedKeyIsHonoured,
         KeyFollowsPriority, KeyIsNotGivenUpEarly, KeyLookups, KeysBefore

LEMMA KeyStartInv == ASSUME KeyInv, KeyStart PROVE KeyInv'
  <1>1. keyPc = "off" /\ keyPc' = "env" /\ UNCHANGED <<provisioned, attempt, lookup, authKey, misses>>
    BY DEF KeyStart
  <1>2. KeyTypeOK'
    BY <1>1 DEF KeyInv, KeyTypeOK
  <1> QED
    BY <1>1, <1>2 DEF KeyInv, Searching, ServiceIsExhausted, ProvisionedKeyIsHonoured,
                      KeyFollowsPriority, KeyIsNotGivenUpEarly

LEMMA ReadEnvInv == ASSUME KeyInv, ReadEnv PROVE KeyInv'
  <1> USE DEF KeyInv
  <1>1. /\ keyPc = "env" /\ authKey' = Parse(provisioned.env)
        /\ keyPc' = (IF Parse(provisioned.env) # NoKey THEN "done" ELSE "metadata")
        /\ UNCHANGED <<provisioned, attempt, lookup, misses>>
    BY DEF ReadEnv, Found
  <1>2. attempt = 1 /\ lookup = 1 /\ misses = 0 /\ provisioned \in Provisionings
    BY <1>1 DEF KeyTypeOK
  <1>3. Parse(provisioned.env) \in Keys \union {NoKey}
    BY <1>2, SourceFacts, ParseType
  <1>4. KeyTypeOK'
    BY <1>1, <1>3 DEF KeyTypeOK
  <1>5. CASE Parse(provisioned.env) # NoKey
    <2>1. keyPc' = "done" /\ authKey' # NoKey
      BY <1>1, <1>5
    <2>2. KeyFollowsPriority'
      BY <1>1, <1>5 DEF KeyFollowsPriority
    <2> QED
      BY <1>4, <2>1, <2>2 DEF Searching, ServiceIsExhausted, ProvisionedKeyIsHonoured,
                              KeyIsNotGivenUpEarly
  <1>6. CASE Parse(provisioned.env) = NoKey
    <2>1. keyPc' = "metadata" /\ authKey' = NoKey
      BY <1>1, <1>6
    <2>2. (KeyLookups = KeyLookups') /\ (KeysBefore(1) = KeysBefore(1)')
      BY <1>1 DEF KeyLookups, KeysBefore
    <2>3. Cardinality(KeysBefore(1)) = 0 /\ Cardinality(KeyLookups) \in Nat
      BY KeysBeforeFacts
    <2>4. misses' = (attempt' - 1) * Cardinality(KeyLookups)' + Cardinality(KeysBefore(lookup))'
      <3>1. Cardinality(KeysBefore(lookup))' = 0
        BY <1>1, <1>2, <2>2, <2>3 DEF KeysBefore
      <3>2. (attempt' - 1) * Cardinality(KeyLookups)' = 0
        BY <1>1, <1>2, <2>2, <2>3
      <3> QED
        BY <1>1, <1>2, <3>1, <3>2
    <2>5. Searching'
      BY <1>1, <1>2, <1>6, <2>1, <2>4, LookupFacts DEF Searching
    <2> QED
      BY <1>4, <2>1, <2>5 DEF ServiceIsExhausted, ProvisionedKeyIsHonoured, KeyFollowsPriority,
                              KeyIsNotGivenUpEarly
  <1> QED
    BY <1>5, <1>6

\* Multiples, one more.
LEMMA OneMoreRound == \A a, c \in Nat : (a - 1) * c + c = a * c
  OBVIOUS

\* A lookup brought no key: the search goes on, and the count of misses keeps up.
LEMMA NextLookupInv ==
  ASSUME KeyInv, keyPc = "metadata", NextLookup, UNCHANGED <<provisioned, authKey>>,
         misses' = misses + (IF lookup \in KeyLookups THEN 1 ELSE 0)
  PROVE  KeyInv'
  <1> USE DEF KeyInv
  <1> DEFINE C == Cardinality(KeyLookups)
             B(n) == Cardinality(KeysBefore(n))
  <1>0. /\ attempt \in Nat /\ 1 <= attempt /\ attempt <= MaxAttempts /\ MaxAttempts \in Nat
        /\ lookup \in 1..6 /\ misses \in Nat
    BY LookupFacts, AttemptsAssumption DEF KeyTypeOK
  <1>1. /\ Parse(provisioned.env) = NoKey /\ authKey = NoKey
        /\ misses <= (attempt - 1) * 6 + (lookup - 1)
        /\ misses = (attempt - 1) * C + B(lookup)
        /\ misses = 0 => \A i \in Lookups : attempt > 1 \/ i < lookup => i \notin KeyLookups
    BY DEF Searching
  <1>2. /\ C \in Nat /\ B(lookup) \in Nat /\ B(1) = 0 /\ B(7) = C
        /\ B(lookup + 1) = B(lookup) + (IF lookup \in KeyLookups THEN 1 ELSE 0)
    BY <1>0, KeysBeforeFacts
  <1>3. KeyLookups' = KeyLookups /\ \A n \in 1..6 : KeysBefore(n)' = KeysBefore(n)
    BY DEF KeyLookups, KeysBefore
  <1>4. (KeysBefore(lookup))' = {i \in KeyLookups : i < lookup'}
    BY <1>3 DEF KeysBefore
  <1> HIDE DEF C, B
  <1>5. (attempt - 1) * C \in Nat
    BY <1>0, <1>2
  <1>6. misses' = (attempt - 1) * C + B(lookup + 1)
    BY <1>1, <1>2, <1>5
  <1>7. misses' <= (attempt - 1) * 6 + lookup /\ misses' \in Nat
    BY <1>0, <1>1
  <1>8. misses' = 0 => \A i \in Lookups : attempt > 1 \/ i <= lookup => i \notin KeyLookups
    <2>1. SUFFICES ASSUME misses' = 0, NEW i \in Lookups, attempt > 1 \/ i <= lookup
                   PROVE  i \notin KeyLookups
      OBVIOUS
    <2>2. misses = 0 /\ lookup \notin KeyLookups
      BY <1>0, <2>1
    <2>3. i \in Int
      BY LookupFacts
    <2>4. CASE i = lookup
      BY <2>2, <2>4
    <2>5. CASE i # lookup
      BY <1>0, <1>1, <2>1, <2>2, <2>3, <2>5
    <2> QED
      BY <2>4, <2>5
  <1>9. misses' \in 0..(MaxAttempts * 2 * Len(Attributes))
    BY <1>0, <1>7, LookupFacts
  <1>10. CASE lookup # 6
    <2>1. lookup' = lookup + 1 /\ UNCHANGED <<keyPc, attempt>>
      BY <1>10, LookupFacts DEF NextLookup
    <2>2. KeyTypeOK'
      BY <1>0, <1>9, <1>10, <2>1, LookupFacts DEF KeyTypeOK
    <2>3. misses' = (attempt' - 1) * Cardinality(KeyLookups)' + Cardinality(KeysBefore(lookup))'
      <3>1. (KeysBefore(lookup))' = KeysBefore(lookup + 1)
        BY <1>4, <2>1 DEF KeysBefore
      <3> QED
        BY <1>3, <1>6, <2>1, <3>1 DEF B, C
    <2>4. misses' <= (attempt' - 1) * 6 + (lookup' - 1)
      BY <1>0, <1>7, <2>1
    <2>5. misses' = 0 => \A i \in Lookups : attempt' > 1 \/ i < lookup' => i \notin KeyLookups'
      BY <1>0, <1>3, <1>8, <2>1, LookupFacts
    <2>6. Searching'
      BY <1>1, <2>1, <2>3, <2>4, <2>5 DEF Searching, Lookups
    <2> QED
      BY <2>1, <2>2, <2>6 DEF ServiceIsExhausted, ProvisionedKeyIsHonoured, KeyFollowsPriority,
                              KeyIsNotGivenUpEarly
  <1>11. CASE lookup = 6
    <2>1. /\ lookup' = 1
          /\ IF attempt < MaxAttempts THEN attempt' = attempt + 1 /\ UNCHANGED keyPc
                                      ELSE keyPc' = "files" /\ UNCHANGED attempt
      BY <1>11, LookupFacts DEF NextLookup
    <2>2. misses' = attempt * C
      <3>1. misses' = (attempt - 1) * C + C
        BY <1>2, <1>6, <1>11
      <3>2. (attempt - 1) * C + C = attempt * C
        BY <1>0, <1>2, OneMoreRound
      <3> QED
        BY <3>1, <3>2
    <2>3. misses' = 0 => \A i \in Lookups : i \notin KeyLookups
      BY <1>8, <1>11, LookupFacts
    <2>4. CASE attempt < MaxAttempts
      <3>1. attempt' = attempt + 1 /\ keyPc' = keyPc
        BY <2>1, <2>4
      <3>2. KeyTypeOK'
        BY <1>0, <1>9, <2>1, <2>4, <3>1, LookupFacts DEF KeyTypeOK
      <3>3. misses' = (attempt' - 1) * Cardinality(KeyLookups)' + Cardinality(KeysBefore(lookup))'
        <4>1. Cardinality(KeysBefore(lookup))' = 0
          BY <1>2, <1>3, <1>4, <2>1 DEF B, KeysBefore
        <4>2. attempt' - 1 = attempt /\ Cardinality(KeyLookups)' = C
          BY <1>0, <1>3, <3>1 DEF C
        <4>3. attempt * C \in Nat
          BY <1>0, <1>2
        <4> QED
          BY <2>2, <4>1, <4>2, <4>3
      <3>4. misses' <= (attempt' - 1) * 6 + (lookup' - 1)
        BY <1>0, <1>7, <1>11, <2>1, <3>1
      <3>5. Searching'
        BY <1>1, <1>3, <2>3, <3>1, <3>3, <3>4 DEF Searching, Lookups
      <3> QED
        BY <3>1, <3>2, <3>5 DEF ServiceIsExhausted, ProvisionedKeyIsHonoured, KeyFollowsPriority,
                                KeyIsNotGivenUpEarly
    <2>5. CASE ~(attempt < MaxAttempts)
      <3>1. attempt' = attempt /\ keyPc' = "files" /\ attempt = MaxAttempts
        BY <1>0, <2>1, <2>5
      <3>2. KeyTypeOK'
        BY <1>0, <1>9, <2>1, <3>1, LookupFacts DEF KeyTypeOK
      <3>3. misses' = MaxAttempts * Cardinality(KeyLookups)'
        BY <1>3, <2>2, <3>1 DEF C
      <3>4. misses' = 0 => KeyLookups' = {}
        BY <1>3, <2>3 DEF KeyLookups
      <3>5. ServiceIsExhausted'
        BY <1>1, <3>1, <3>3, <3>4 DEF ServiceIsExhausted
      <3> QED
        BY <3>1, <3>2, <3>5 DEF Searching, ProvisionedKeyIsHonoured, KeyFollowsPriority,
                                KeyIsNotGivenUpEarly
    <2> QED
      BY <2>4, <2>5
  <1> QED
    BY <1>10, <1>11

LEMMA LookupFailsInv == ASSUME KeyInv, LookupFails PROVE KeyInv'
  BY NextLookupInv DEF LookupFails

LEMMA LookupAnsweredInv == ASSUME KeyInv, LookupAnswered PROVE KeyInv'
  <1> USE DEF KeyInv
  <1> DEFINE k == Parse(provisioned.attrs[AttrAt(lookup)])
  <1>0. /\ keyPc = "metadata" /\ provisioned \in Provisionings /\ lookup \in Lookups
        /\ UNCHANGED <<provisioned, misses>> /\ misses \in Nat /\ AttrAt(lookup) \in 1..3
    BY AttemptsAssumption, LookupFacts DEF LookupAnswered, KeyTypeOK
  <1>1. CASE k = NoKey
    <2>1. lookup \notin KeyLookups
      BY <1>1 DEF KeyLookups
    <2>2. NextLookup /\ UNCHANGED authKey
      BY <1>1 DEF LookupAnswered
    <2>3. misses' = misses + (IF lookup \in KeyLookups THEN 1 ELSE 0)
      BY <1>0, <2>1
    <2> QED
      BY <1>0, <2>2, <2>3, NextLookupInv
  <1>2. CASE k # NoKey
    <2>1. authKey' = k /\ keyPc' = "done" /\ UNCHANGED <<attempt, lookup>>
      BY <1>2 DEF LookupAnswered, Found
    <2>2. k \in Keys \union {NoKey}
      BY <1>0, SourceFacts, ParseType
    <2>3. KeyTypeOK'
      BY <1>0, <2>1, <2>2 DEF KeyTypeOK
    <2>4. ASSUME misses = 0
          PROVE  k = FirstKey(provisioned.attrs \o provisioned.files)
      <3>1. /\ Parse(provisioned.env) = NoKey
            /\ \A i \in Lookups : attempt > 1 \/ i < lookup => i \notin KeyLookups
        BY <1>0, <2>4 DEF Searching
      <3>2. ASSUME NEW j \in 1..3, j < AttrAt(lookup) PROVE Parse(provisioned.attrs[j]) = NoKey
        <4>1. j \in Lookups /\ AttrAt(j) = j
          BY LookupFacts
        <4>2. AttrAt(lookup) <= lookup /\ lookup \in Int /\ AttrAt(lookup) \in Int
          BY <1>0, LookupFacts
        <4>3. j < lookup
          BY <3>2, <4>2
        <4>4. j \notin KeyLookups
          BY <3>1, <4>1, <4>3
        <4> QED
          BY <4>1, <4>4 DEF KeyLookups
      <3> QED
        BY <1>0, <1>2, <3>1, <3>2, SourceFacts, AttributesComeFirst
    <2>5. KeyFollowsPriority'
      BY <1>0, <2>1, <2>4 DEF KeyFollowsPriority
    <2> QED
      BY <1>2, <2>1, <2>3, <2>5 DEF Searching, ServiceIsExhausted, ProvisionedKeyIsHonoured,
                                    KeyIsNotGivenUpEarly
  <1> QED
    BY <1>1, <1>2

LEMMA ReadFilesInv == ASSUME KeyInv, ReadFiles PROVE KeyInv'
  <1> USE DEF KeyInv
  <1>0. /\ keyPc = "files" /\ provisioned \in Provisionings
        /\ UNCHANGED <<provisioned, attempt, lookup, misses>>
        /\ authKey' = FirstKey(provisioned.files) /\ keyPc' = "done"
    BY DEF ReadFiles, Found, KeyTypeOK
  <1>1. FirstKey(provisioned.files) \in Keys \union {NoKey}
    BY <1>0, SourceFacts, FirstKeyType
  <1>2. KeyTypeOK'
    BY <1>0, <1>1 DEF KeyTypeOK
  <1>3. /\ Parse(provisioned.env) = NoKey
        /\ misses = MaxAttempts * Cardinality(KeyLookups)
        /\ misses = 0 => KeyLookups = {}
    BY <1>0 DEF ServiceIsExhausted
  <1>4. ASSUME misses = 0
        PROVE  authKey' = FirstKey(provisioned.attrs \o provisioned.files)
    <2>1. \A j \in 1..3 : Parse(provisioned.attrs[j]) = NoKey
      BY <1>3, <1>4, LookupFacts DEF KeyLookups
    <2> QED
      BY <1>0, <1>3, <2>1, SourceFacts, FilesComeLast
  <1>5. KeyFollowsPriority'
    BY <1>0, <1>4 DEF KeyFollowsPriority
  <1>6. KeyIsNotGivenUpEarly'
    BY <1>0, <1>3 DEF KeyIsNotGivenUpEarly, KeyLookups
  <1> QED
    BY <1>0, <1>2, <1>5, <1>6 DEF Searching, ServiceIsExhausted, ProvisionedKeyIsHonoured

==============================================================================
