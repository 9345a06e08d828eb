----------------------------- MODULE MCNodeBoot -----------------------------
(***************************************************************************)
(* Machines, networks and deployments for NodeBoot.                        *)
(***************************************************************************)
EXTENDS NodeBoot, TLC

CONSTANTS i1, i2, n1, k1, k2

Part(kind, i) == [kind |-> kind, image |-> i]
Esp == Part("other", i1)

Uefi(i)  == <<Esp, Part("root", i), Part("hash", i)>>
Plain(i) == <<Part("root", i), Part("hash", i)>>
Data     == <<Part("other", i1), Part("other", i1)>>

Machine(ds, h) == [disks |-> ds, roothash |-> h]

\* The image of the command line on either layout, the second behind an empty disk.
Disk3 == Machine(<<Uefi(i1)>>, i1)
Disk2 == Machine(<<<<>>, Plain(i1)>>, i1)

\* Another image, an altered root, a data disk first, no disk, and bad command lines.
Unbootable ==
  {Machine(<<Plain(i2)>>, i1), Machine(<<<<Esp, Part("root", i2), Part("hash", i1)>>>>, i1),
   Machine(<<Data, Uefi(i1)>>, i1), Machine(<<>>, i1), Machine(<<Uefi(i1)>>, "missing"),
   Machine(<<Uefi(i1)>>, "short")}

SomeMachines == {Disk3, Disk2} \union Unbootable

Offer(ip, s, r, m) == [type |-> "offer", ip |-> ip, server |-> s, router |-> r, mask |-> m]

Other(s, r) == [type |-> "other", ip |-> "zero", server |-> s, router |-> r, mask |-> None]

\* One server offers everything, one no router, one neither its id nor a mask; a refusal,
\* and an acknowledgement for somebody else that names a router.
SomeReplies == {Offer("ip1", "s1", "r1", "m1"), Offer("ip2", "s2", None, "m2"),
                Offer("ip2", None, "r2", None), Other("s2", None), Other("s2", "r2")}

Text(form, k) == [form |-> form, key |-> k]
Absent == Text("absent", k1)
Bad    == Text("other", k1)
Deploy(e, a1, a2, a3, f1, f2) == [env |-> e, attrs |-> <<a1, a2, a3>>, files |-> <<f1, f2, Absent>>]

\* The environment variable is for test harnesses: the initrd passes none.
NoSource   == Deploy(Absent, Absent, Absent, Absent, Absent, Absent)
FromEnv    == Deploy(Text("hex", k1), Text("hex", k2), Absent, Absent, Absent, Absent)
FromAttr   == Deploy(Bad, Bad, Text("openssh", k1), Text("hex", k2), Absent, Absent)
FromFile   == Deploy(Bad, Absent, Absent, Bad, Bad, Text("hex", k1))

SomeProvisionings == {NoSource, FromEnv, FromAttr, FromFile}

Boot(ms, gs, dbg, ps) == [machine : ms, gpu : gs, flag : dbg, provisioned : ps]
Production == [where |-> "build", value |-> "off"]

\* The parts hardly depend on each other: every value of each occurs, not every
\* combination.
SomeDeployments ==
  Boot({Disk3}, BOOLEAN, {Production}, {FromEnv})
    \union Boot({Disk3}, {FALSE}, {Production}, SomeProvisionings)
    \union Boot({Disk3}, {FALSE}, DebugFlags, {FromEnv})
    \union Boot({Disk2} \union Unbootable, {FALSE}, {Production}, {FromEnv})
=============================================================================
