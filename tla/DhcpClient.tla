----------------------------- MODULE DhcpClient -----------------------------
(***************************************************************************)
(* obtainDHCP (pkg/network/interface.go): the raw-socket DHCP client the   *)
(* node falls back to.  A discover is broadcast up to five times; what the *)
(* servers answer may be lost, late, duplicated and in any order, and the  *)
(* client picks fields out of every message with its transaction id until  *)
(* an offer arrives and a router is known, or the wait is over and both an *)
(* address and a router are.  It then sends one request and does not wait  *)
(* for its acknowledgement.                                                *)
(***************************************************************************)
EXTENDS Integers

CONSTANTS
  Replies,    \* what the servers of this network may send with the client's xid
  Addresses,  \* the addresses, and names of servers and routers
  None,       \* an option that is missing, a Go nil
  Discovers   \* discovers sent before it gives up (5)

ASSUME NoneAssumption == None \notin Addresses /\ None \notin Replies
ASSUME DiscoversAssumption == Discovers \in Nat \ {0}

\* A reply: its type (2 is an offer), yiaddr, and options 54, 3 and 1 as far as given.
ASSUME RepliesAssumption ==
  Replies \subseteq [type : {"offer", "other"}, ip : Addresses, server : Addresses \union {None},
                     router : Addresses \union {None}, mask : Addresses \union {None}]

VARIABLES
  dhcpPc,    \* "off", "wait" (in Recvfrom), "lease", "noLease"
  sent,      \* discovers sent
  offerIP, router, serverID, mask,   \* the locals of obtainDHCP; mask None is /24
  asked,     \* the request that was sent: <<address, server>>
  last,      \* history: the latest reply
  stray      \* history: a reply that is not an offer has named a router

dhcpVars == <<dhcpPc, sent, offerIP, router, serverID, mask, asked, last, stray>>

OptAddress == Addresses \union {None}

DhcpTypeOK ==
  /\ dhcpPc \in {"off", "wait", "lease", "noLease"}
  /\ sent \in 0..Discovers
  /\ {offerIP, router, serverID, mask} \subseteq OptAddress
  /\ asked \in {<<>>} \union (Addresses \X Addresses)
  /\ last \in Replies \union {None}
  /\ stray \in BOOLEAN

DhcpReset ==
  /\ offerIP' = None /\ router' = None /\ serverID' = None /\ mask' = None /\ asked' = <<>>
  /\ last' = None /\ stray' = FALSE

DhcpInit ==
  /\ dhcpPc = "off"
  /\ sent = 0
  /\ offerIP = None /\ router = None /\ serverID = None /\ mask = None
  /\ asked = <<>>
  /\ last = None /\ stray = FALSE

\* The socket is bound and the first discover sent; without either the call fails.
DhcpStart ==
  /\ dhcpPc = "off"
  /\ \/ dhcpPc' = "wait" /\ sent' = 1
     \/ dhcpPc' = "noLease" /\ sent' = 0
  /\ DhcpReset

\* An option that a reply does not have keeps what an earlier one said.
Latest(new, old) == IF new = None THEN old ELSE new

\* Mutant: the server of the first reply is kept.
ServerOfFirst(m) == Latest(serverID, m.server)

\* if opt == 54
ServerOf(m) == Latest(m.server, serverID)

\* The request names the server id or, if no reply had one, the router.
SendRequest(ip, server, gateway) ==
  /\ asked' = <<ip, Latest(server, gateway)>>
  /\ dhcpPc' = "lease"

\* A reply arrives.  An offer ends the wait if a router is known by then.
DhcpReceive(m) ==
  /\ dhcpPc = "wait"
  /\ offerIP' = m.ip
  /\ serverID' = ServerOf(m)
  /\ router' = Latest(m.router, router)
  /\ mask' = Latest(m.mask, mask)
  /\ \/ m.type = "offer" /\ router' # None /\ SendRequest(offerIP', serverID', router')
     \/ (m.type # "offer" \/ router' = None) /\ UNCHANGED <<dhcpPc, asked>>
  /\ last' = m
  /\ stray' = (stray \/ (m.type # "offer" /\ m.router # None))
  /\ UNCHANGED sent

\* Two seconds without an offer that ends the wait: with an address and a router the
\* client requests all the same; otherwise it discovers again, or gives up.
DhcpTimeout ==
  /\ dhcpPc = "wait"
  /\ \/ router # None /\ offerIP # None /\ SendRequest(offerIP, serverID, router) /\ UNCHANGED sent
     \/ /\ router = None \/ offerIP = None
        /\ \/ sent < Discovers /\ sent' = sent + 1 /\ UNCHANGED dhcpPc
           \/ sent = Discovers /\ dhcpPc' = "noLease" /\ UNCHANGED sent
        /\ UNCHANGED asked
  /\ UNCHANGED <<offerIP, router, serverID, mask, last, stray>>

\* The caller takes the result; the locals are gone.
DhcpReturn ==
  /\ dhcpPc \in {"lease", "noLease"}
  /\ dhcpPc' = "off"
  /\ sent' = 0
  /\ DhcpReset

DhcpStep == (\E m \in Replies : DhcpReceive(m)) \/ DhcpTimeout

-----------------------------------------------------------------------------
(* Properties                                                              *)

\* Offers of several servers, refusals and acknowledgements interleave, get lost and
\* come twice, and fields are collected from all of them.  Still, the node asks for the
\* address of the latest reply and names its server, router and mask where it has
\* them, whatever came before.  And unless some reply that is not an offer named a
\* router, that latest reply is an offer, and the router is its own: nothing is asked
\* for that was not offered, and no other server's router is used.
LeaseIsOfOneOffer ==
  dhcpPc = "lease" =>
    /\ offerIP = last.ip /\ asked[1] = last.ip
    /\ last.server # None => asked[2] = last.server
    /\ last.router # None => router = last.router
    /\ last.mask # None => mask = last.mask
    /\ ~stray => last.type = "offer" /\ last.router = router
=============================================================================
