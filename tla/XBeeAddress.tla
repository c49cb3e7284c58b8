---------------------------- MODULE XBeeAddress -----------------------------
(***************************************************************************)
(* struct xbee_conAddress and the comparison that decides which connection  *)
(* a packet belongs to (xbee.h, conn.c), with the rules by which a          *)
(* connection type accepts an address (mode.h, conn.c).                     *)
(***************************************************************************)
EXTENDS Integers

\* A 64-bit address, a 16-bit address, a profile or a cluster that is not enabled.
None == 0
\* Endpoints that are not enabled; otherwise <<endpoint_local, endpoint_remote>>.
NoEndpoints == <<None, None>>

DefaultProfile == 49413   \* 0xC105
DefaultCluster == 17      \* 0x0011

NoAddress == [addr64 |-> None, addr16 |-> None, endpoints |-> NoEndpoints,
              profile |-> None, cluster |-> None]

Address ==
  [addr64 : Nat, addr16 : Nat, endpoints : Nat \X Nat, profile : Nat, cluster : Nat]

\* A side without a profile (or cluster) takes the default one.
SameOrDefault(x, y, default) ==
  \/ x = y
  \/ x = None /\ y = default
  \/ y = None /\ x = default

\* Mutant: any two 64-bit addresses are the same.
AddressCmp_Wide(x, y) ==
  /\ \/ {x.addr16, y.addr16, x.addr64, y.addr64} = {None}
     \/ x.addr64 # None /\ y.addr64 # None
     \/ x.addr16 # None /\ x.addr16 = y.addr16
  /\ x.endpoints[1] = y.endpoints[1]
  /\ (x.endpoints = NoEndpoints) <=> (y.endpoints = NoEndpoints)
  /\ SameOrDefault(x.profile, y.profile, DefaultProfile)
  /\ SameOrDefault(x.cluster, y.cluster, DefaultCluster)

\* xbee_conAddressCmp
AddressCmp(x, y) ==
  /\ \/ {x.addr16, y.addr16, x.addr64, y.addr64} = {None}
     \/ x.addr64 # None /\ x.addr64 = y.addr64
     \/ x.addr16 # None /\ x.addr16 = y.addr16
  /\ x.endpoints[1] = y.endpoints[1]
  /\ (x.endpoints = NoEndpoints) <=> (y.endpoints = NoEndpoints)
  /\ SameOrDefault(x.profile, y.profile, DefaultProfile)
  /\ SameOrDefault(x.cluster, y.cluster, DefaultCluster)

-----------------------------------------------------------------------------
\* The address rules of a connection type, and their combinations.
ADDR_NONE == {"16_NOTALLOW", "64_NOTALLOW", "EP_NOTALLOW"}
ADDR_16_ONLY == {"16_REQUIRED", "64_NOTALLOW", "EP_NOTALLOW"}
ADDR_64_ONLY == {"16_NOTALLOW", "64_REQUIRED", "EP_NOTALLOW"}
ADDR_64_16OPT_EP == {"64_REQUIRED", "EP_REQUIRED"}
ADDR_64_16OPT_NOEP == {"64_REQUIRED", "EP_NOTALLOW"}
ADDR_64_16OPT_EPOPT == {"64_REQUIRED"}
ADDR_16OR64_NOEP == {"16OR64", "EP_NOTALLOW"}
ADDR_16XOR64_NOEP == {"16XOR64", "EP_NOTALLOW"}

\* The checks of _xbee_conNew; no address is NoAddress.
AddressAllowed(rules, a) ==
  /\ "EP_NOTALLOW" \in rules => a.endpoints = NoEndpoints
  /\ "EP_REQUIRED" \in rules => a.endpoints # NoEndpoints
  /\ "64_NOTALLOW" \in rules => a.addr64 = None
  /\ "16_NOTALLOW" \in rules => a.addr16 = None
  /\ "64_REQUIRED" \in rules => a.addr64 # None
  /\ "16_REQUIRED" \in rules => a.addr16 # None
  /\ "16OR64" \in rules => a.addr16 # None \/ a.addr64 # None
  /\ "16XOR64" \in rules => (a.addr16 # None) # (a.addr64 # None)
=============================================================================
