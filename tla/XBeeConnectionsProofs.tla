------------------------ MODULE XBeeConnectionsProofs -----------------------
(***************************************************************************)
(* Proofs about XBeeAddress and XBeeConnections.                            *)
(***************************************************************************)
EXTENDS XBeeConnections, SequenceTheorems, WellFoundedInduction, TLAPS

-----------------------------------------------------------------------------
(***************************************************************************)
(* The comparison of addresses: what every user of xbee_conAddressCmp       *)
(* counts on, for all addresses.                                            *)
(***************************************************************************)
\* An address matches itself: a connection put to sleep and woken is found again
\* under the address it was created with.
THEOREM CmpReflexive == \A x \in Address : AddressCmp(x, x)
<1> SUFFICES ASSUME NEW x \in Address PROVE AddressCmp(x, x)
    OBVIOUS
<1>1. \/ {x.addr16, x.addr16, x.addr64, x.addr64} = {None}
      \/ x.addr64 # None
      \/ x.addr16 # None
  OBVIOUS
<1> QED BY <1>1 DEF AddressCmp, SameOrDefault

\* The comparison does not care which side is the connection's and which the
\* packet's: xbee_conNew, xbee_conWake and the receive handler, which put their
\* own address first or second, agree.
THEOREM CmpSymmetric ==
  \A x, y \in Address : AddressCmp(x, y) <=> AddressCmp(y, x)
<1> SUFFICES ASSUME NEW x \in Address, NEW y \in Address, AddressCmp(x, y)
             PROVE AddressCmp(y, x)
    OBVIOUS
<1>1. {x.addr16, y.addr16, x.addr64, y.addr64} = {None} =>
        {y.addr16, x.addr16, y.addr64, x.addr64} = {None}
  OBVIOUS
<1>2. \/ {y.addr16, x.addr16, y.addr64, x.addr64} = {None}
      \/ y.addr64 # None /\ y.addr64 = x.addr64
      \/ y.addr16 # None /\ y.addr16 = x.addr16
  BY <1>1 DEF AddressCmp
<1>3. /\ y.endpoints[1] = x.endpoints[1]
      /\ (y.endpoints = NoEndpoints) <=> (x.endpoints = NoEndpoints)
  BY DEF AddressCmp
<1>4. SameOrDefault(y.profile, x.profile, DefaultProfile)
  BY DEF AddressCmp, SameOrDefault
<1>5. SameOrDefault(y.cluster, x.cluster, DefaultCluster)
  BY DEF AddressCmp, SameOrDefault
<1> QED BY <1>2, <1>3, <1>4, <1>5 DEF AddressCmp

\* Where both connections and packets are named by 64-bit addresses alone (all
\* types of XBee 5, the 64-bit types of Series 1), the comparison is transitive:
\* the connections that match are the classes of an equivalence, and of those
\* awake a packet can match one only.
THEOREM CmpTransitive ==
  \A x, y, z \in Address :
    /\ x.addr16 = None /\ y.addr16 = None /\ z.addr16 = None
    /\ AddressCmp(x, y) /\ AddressCmp(y, z)
    => AddressCmp(x, z)
<1> SUFFICES ASSUME NEW x \in Address, NEW y \in Address, NEW z \in Address,
                    x.addr16 = None, y.addr16 = None, z.addr16 = None,
                    AddressCmp(x, y), AddressCmp(y, z)
             PROVE AddressCmp(x, z)
    OBVIOUS
<1>1. x.addr64 = y.addr64 /\ y.addr64 = z.addr64
  BY DEF AddressCmp
<1>2. \/ {x.addr16, z.addr16, x.addr64, z.addr64} = {None}
      \/ x.addr64 # None /\ x.addr64 = z.addr64
  BY <1>1
<1>3. /\ x.endpoints[1] = z.endpoints[1]
      /\ (x.endpoints = NoEndpoints) <=> (z.endpoints = NoEndpoints)
  BY DEF AddressCmp
<1>4. ASSUME NEW a, NEW b, NEW c, NEW d, d # None,
             SameOrDefault(a, b, d), SameOrDefault(b, c, d)
      PROVE SameOrDefault(a, c, d)
  BY <1>4 DEF SameOrDefault
<1>5. DefaultProfile # None /\ DefaultCluster # None
  BY DEF DefaultProfile, DefaultCluster, None
<1>6. SameOrDefault(x.profile, z.profile, DefaultProfile)
  BY <1>4, <1>5 DEF AddressCmp
<1>7. SameOrDefault(x.cluster, z.cluster, DefaultCluster)
  BY <1>4, <1>5 DEF AddressCmp
<1> QED BY <1>2, <1>3, <1>6, <1>7 DEF AddressCmp

\* Learning the missing 16-bit address never takes a connection away from the
\* packets that reached it by their 64-bit address.
THEOREM LearningKeepsMatches ==
  \A x, y \in Address, n \in Nat :
    x.addr64 # None /\ x.addr16 = None /\ AddressCmp(x, y) =>
    AddressCmp([x EXCEPT !.addr16 = n], y)
<1> SUFFICES ASSUME NEW x \in Address, NEW y \in Address, NEW n \in Nat,
                    x.addr64 # None, x.addr16 = None, AddressCmp(x, y)
             PROVE AddressCmp([x EXCEPT !.addr16 = n], y)
    OBVIOUS
<1> DEFINE w == [x EXCEPT !.addr16 = n]
<1>1. /\ w.addr64 = x.addr64 /\ w.endpoints = x.endpoints
      /\ w.profile = x.profile /\ w.cluster = x.cluster
  BY DEF Address
<1>2. x.addr64 = y.addr64
  BY DEF AddressCmp
<1> QED BY <1>1, <1>2 DEF AddressCmp

-----------------------------------------------------------------------------
(***************************************************************************)
(* What the rxHandlers read.                                                *)
(***************************************************************************)
\* An address without endpoints, profile and cluster.
Plain(a) == a.endpoints = NoEndpoints /\ a.profile = None /\ a.cluster = None

\* A handler takes each address from the frame or leaves it out, and takes those
\* that its type's connections may have whenever it finds a packet.
ReadOf(rules, read, f) ==
  /\ "EP_NOTALLOW" \in rules => Plain(read.address)
  /\ read.address.addr64 \in {None, f.addr64}
  /\ read.address.addr16 \in {None, f.addr16}
  /\ read.dataLen # NoPacket =>
       /\ "64_NOTALLOW" \in rules \/ read.address.addr64 = f.addr64
       /\ "16_NOTALLOW" \in rules \/ read.address.addr16 = f.addr16

LEMMA ReadOfShort == \A rules, f : ReadOf(rules, Short, f)
BY DEF ReadOf, Short, Parsed, NoAddress, Plain

LEMMA ReadOfPacket ==
  ASSUME NEW rules, NEW f, NEW n
  PROVE  /\ "64_NOTALLOW" \in rules /\ "16_NOTALLOW" \in rules =>
              ReadOf(rules, Packet(NoAddress, n), f)
         /\ "16_NOTALLOW" \in rules => ReadOf(rules, Packet(From64(f), n), f)
         /\ "64_NOTALLOW" \in rules => ReadOf(rules, Packet(From16(f), n), f)
         /\ ReadOf(rules, Packet(FromBoth(f), n), f)
<1>1. \A a : Packet(a, n).address = a
  BY DEF Packet, Parsed
<1>2. /\ NoAddress.addr64 = None /\ NoAddress.addr16 = None
      /\ From64(f).addr64 = f.addr64 /\ From64(f).addr16 = None
      /\ From16(f).addr16 = f.addr16 /\ From16(f).addr64 = None
      /\ FromBoth(f).addr16 = f.addr16 /\ FromBoth(f).addr64 = f.addr64
      /\ Plain(NoAddress) /\ Plain(From64(f)) /\ Plain(From16(f)) /\ Plain(FromBoth(f))
  BY DEF From64, From16, FromBoth, NoAddress, Plain
<1>3. ASSUME NEW a, Plain(a), a.addr64 \in {None, f.addr64}, a.addr16 \in {None, f.addr16},
             "64_NOTALLOW" \in rules \/ a.addr64 = f.addr64,
             "16_NOTALLOW" \in rules \/ a.addr16 = f.addr16
      PROVE  ReadOf(rules, Packet(a, n), f)
  BY <1>1, <1>3 DEF ReadOf
<1> QED BY <1>2, <1>3

\* One of two addresses, as the frame's identifier says.
LEMMA Series1Data ==
  ASSUME NEW rules, NEW f
  PROVE  /\ (IF f.id = \h80 THEN "16_NOTALLOW" \in rules ELSE "64_NOTALLOW" \in rules) =>
              ReadOf(rules, s1_data_rx(f), f)
         /\ (IF f.id = \h82 THEN "16_NOTALLOW" \in rules ELSE "64_NOTALLOW" \in rules) =>
              ReadOf(rules, s1_io_rx(f), f)
<1>1. ASSUME NEW n, NEW small, "16_NOTALLOW" \in rules
      PROVE  ReadOf(rules, IF small THEN Short ELSE Packet(From64(f), n), f)
  BY <1>1, ReadOfShort, ReadOfPacket
<1>2. ASSUME NEW n, NEW small, "64_NOTALLOW" \in rules
      PROVE  ReadOf(rules, IF small THEN Short ELSE Packet(From16(f), n), f)
  BY <1>2, ReadOfShort, ReadOfPacket
<1>3. CASE f.id = \h80
  <2>1. s1_data_rx(f) = IF f.len < 11 THEN Short ELSE Packet(From64(f), f.len - 11)
    BY <1>3 DEF s1_data_rx
  <2>2. f.id # \h82
    BY <1>3
  <2>3. s1_io_rx(f) = IF f.len < 5 THEN Short ELSE Packet(From16(f), f.len - 5)
    BY <2>2 DEF s1_io_rx
  <2> QED BY <1>1, <1>2, <1>3, <2>1, <2>2, <2>3
<1>4. CASE f.id = \h82
  <2>1. f.id # \h80
    BY <1>4
  <2>2. s1_data_rx(f) = IF f.len < 5 THEN Short ELSE Packet(From16(f), f.len - 5)
    BY <2>1 DEF s1_data_rx
  <2>3. s1_io_rx(f) = IF f.len < 11 THEN Short ELSE Packet(From64(f), f.len - 11)
    BY <1>4 DEF s1_io_rx
  <2> QED BY <1>1, <1>2, <1>4, <2>1, <2>2, <2>3
<1>5. CASE f.id # \h80 /\ f.id # \h82
  <2>1. s1_data_rx(f) = IF f.len < 5 THEN Short ELSE Packet(From16(f), f.len - 5)
    BY <1>5 DEF s1_data_rx
  <2>2. s1_io_rx(f) = IF f.len < 5 THEN Short ELSE Packet(From16(f), f.len - 5)
    BY <1>5 DEF s1_io_rx
  <2> QED BY <1>1, <1>2, <1>5, <2>1, <2>2
<1> QED BY <1>3, <1>4, <1>5

\* Statuses, and the answers to AT commands.
LEMMA StatusReads ==
  ASSUME NEW rules, NEW f
  PROVE  /\ ReadOf(rules, s1_transmitStatus_rx(f), f)
         /\ ReadOf(rules, s2_transmitStatus_rx(f), f)
         /\ "64_NOTALLOW" \in rules /\ "16_NOTALLOW" \in rules =>
              /\ ReadOf(rules, s1_modemStatus_rx(f), f)
              /\ ReadOf(rules, s2_identify_rx(f), f)
<1>1. ReadOf(rules, [Parsed EXCEPT !.active = TRUE, !.frameId = f.frameId, !.retVal = f.status], f)
  BY DEF ReadOf, Parsed, NoAddress, Plain
<1>2. ReadOf(rules, s1_transmitStatus_rx(f), f) /\ ReadOf(rules, s2_transmitStatus_rx(f), f)
  BY <1>1, ReadOfShort DEF s1_transmitStatus_rx, s2_transmitStatus_rx
<1>3. ASSUME "64_NOTALLOW" \in rules, "16_NOTALLOW" \in rules
      PROVE  /\ ReadOf(rules, s1_modemStatus_rx(f), f)
             /\ ReadOf(rules, s2_identify_rx(f), f)
  BY <1>3, ReadOfShort, ReadOfPacket DEF s1_modemStatus_rx, s2_identify_rx
<1> QED BY <1>2, <1>3

LEMMA AtReads ==
  ASSUME NEW rules, NEW f,
         f.id = \h97 \/ ("64_NOTALLOW" \in rules /\ "16_NOTALLOW" \in rules)
  PROVE  /\ ReadOf(rules, s1_at_rx(f), f)
         /\ "16_NOTALLOW" \in rules => ReadOf(rules, s5_at_rx(f), f)
<1> DEFINE a == IF f.id = \h97 /\ f.status = 0 THEN FromBoth(f) ELSE NoAddress
<1>1. /\ a.addr64 \in {None, f.addr64} /\ a.addr16 \in {None, f.addr16}
      /\ f.status = 0 => \/ "64_NOTALLOW" \in rules /\ "16_NOTALLOW" \in rules
                         \/ a.addr64 = f.addr64 /\ a.addr16 = f.addr16
      /\ Plain(a)
  BY DEF FromBoth, From64, NoAddress, Plain
<1>2. ASSUME NEW n
      PROVE  LET read == [Packet(a, IF f.status = 0 THEN n ELSE NoPacket) EXCEPT
                            !.active = TRUE, !.frameId = f.frameId, !.retVal = f.status]
             IN  /\ ReadOf(rules, read, f)
                 /\ "16_NOTALLOW" \in rules => ReadOf(rules, [read EXCEPT !.address.addr16 = None], f)
  <2> DEFINE read == [Packet(a, IF f.status = 0 THEN n ELSE NoPacket) EXCEPT
                        !.active = TRUE, !.frameId = f.frameId, !.retVal = f.status]
             read5 == [read EXCEPT !.address.addr16 = None]
  <2>0. a \in [addr64 : {None, f.addr64}, addr16 : {None, f.addr16}, endpoints : {NoEndpoints},
               profile : {None}, cluster : {None}]
    BY DEF FromBoth, From64, NoAddress
  <2> HIDE DEF a
  <2>1. read.address = a /\ read.dataLen = IF f.status = 0 THEN n ELSE NoPacket
    BY DEF Packet, Parsed
  <2>2. read5.address = [a EXCEPT !.addr16 = None] /\ read5.dataLen = read.dataLen
    BY <2>1 DEF Packet, Parsed
  <2>3. /\ read5.address.addr16 = None /\ read5.address.addr64 = a.addr64
        /\ Plain(read5.address)
    BY <2>0, <2>2 DEF Plain
  <2> HIDE DEF read, read5
  <2>4. ReadOf(rules, read, f) /\ ("16_NOTALLOW" \in rules => ReadOf(rules, read5, f))
    BY <1>1, <2>1, <2>2, <2>3 DEF ReadOf
  <2> QED BY <2>4 DEF read, read5
<1> DEFINE read(n) == [Packet(a, IF f.status = 0 THEN n ELSE NoPacket) EXCEPT
                        !.active = TRUE, !.frameId = f.frameId, !.retVal = f.status]
           header == IF f.id = \h97 THEN 15 ELSE 5
<1>3. s1_at_rx(f) = IF f.len < header THEN Short ELSE read(f.len - header)
  BY DEF s1_at_rx
<1>4. s5_at_rx(f) = [s1_at_rx(f) EXCEPT !.address.addr16 = None]
  BY DEF s5_at_rx
<1>5. ReadOf(rules, Short, f) /\ ReadOf(rules, [Short EXCEPT !.address.addr16 = None], f)
  BY ReadOfShort DEF ReadOf, Short, Parsed, NoAddress, Plain
<1>6. \A n : /\ ReadOf(rules, read(n), f)
             /\ "16_NOTALLOW" \in rules => ReadOf(rules, [read(n) EXCEPT !.address.addr16 = None], f)
  BY <1>2
<1> HIDE DEF read, header
<1>7. CASE f.len < header
  BY <1>3, <1>4, <1>5, <1>7
<1>8. CASE ~(f.len < header)
  BY <1>3, <1>4, <1>6, <1>8
<1> QED BY <1>7, <1>8

\* Both addresses of the device that sent, or with XBee 5 the one there is.
LEMMA Series2Reads ==
  ASSUME NEW rules, NEW f
  PROVE  /\ ReadOf(rules, s2_data_rx(f), f)
         /\ ReadOf(rules, s2_io_rx(f), f)
         /\ ReadOf(rules, s2_sensor_rx(f), f)
         /\ ReadOf(rules, sZB_ota_rx(f), f)
         /\ "16_NOTALLOW" \in rules => ReadOf(rules, s5_data_rx(f), f)
BY ReadOfShort, ReadOfPacket DEF s2_data_rx, s2_io_rx, s2_sensor_rx, sZB_ota_rx, s5_data_rx

\* What the handlers of explicit frames read: the endpoints turned round, and, but
\* for Series 2, the profile and the cluster.
Turned(e) == <<e[2], e[1]>>
ServiceRead(read, f, named) ==
  read.dataLen # NoPacket =>
    /\ read.address.endpoints = Turned(f.endpoints)
    /\ read.address.profile = (IF named THEN f.profile ELSE None)
    /\ read.address.cluster = (IF named THEN f.cluster ELSE None)

LEMMA ExplicitReads ==
  ASSUME NEW rules, "EP_NOTALLOW" \notin rules, NEW f
  PROVE  /\ ReadOf(rules, s2_dataExp_rx(f), f) /\ ServiceRead(s2_dataExp_rx(f), f, FALSE)
         /\ ReadOf(rules, sZB_dataExp_rx(f), f) /\ ServiceRead(sZB_dataExp_rx(f), f, TRUE)
         /\ ServiceRead(s5_dataExp_rx(f), f, TRUE)
         /\ "16_NOTALLOW" \in rules => ReadOf(rules, s5_dataExp_rx(f), f)
<1> DEFINE a == [FromBoth(f) EXCEPT !.endpoints = <<f.endpoints[2], f.endpoints[1]>>]
           read == Packet(a, f.len - 18)
           named == [read EXCEPT !.address.cluster = f.cluster, !.address.profile = f.profile]
           named5 == [named EXCEPT !.address.addr16 = None]
<1>1. /\ a.addr64 = f.addr64 /\ a.addr16 = f.addr16
      /\ a.endpoints = Turned(f.endpoints) /\ a.profile = None /\ a.cluster = None
  BY DEF FromBoth, From64, NoAddress, Turned
<1>2. /\ DOMAIN a = {"addr64", "addr16", "endpoints", "profile", "cluster"}
      /\ a = [x \in DOMAIN a |-> a[x]]
  BY DEF FromBoth, From64, NoAddress
<1> HIDE DEF a
<1>3. read.address = a /\ read.ret = "ENONE"
  BY DEF Packet, Parsed
<1>4. named.address = [a EXCEPT !.cluster = f.cluster, !.profile = f.profile]
  BY <1>3 DEF Packet, Parsed
<1>5. named5.address = [named.address EXCEPT !.addr16 = None]
  <2>1. "address" \in DOMAIN named
    BY DEF Packet, Parsed
  <2> HIDE DEF named
  <2> QED BY <2>1
<1> HIDE DEF read, named, named5
<1> DEFINE Service(b) == /\ b.endpoints = Turned(f.endpoints)
                         /\ b.profile = f.profile /\ b.cluster = f.cluster
<1>6. /\ named.address.addr64 = f.addr64 /\ named.address.addr16 = f.addr16
      /\ named5.address.addr64 = f.addr64 /\ named5.address.addr16 = None
      /\ Service(named.address) /\ Service(named5.address)
  <2>1. /\ named.address.addr64 = f.addr64 /\ named.address.addr16 = f.addr16
        /\ Service(named.address)
        /\ DOMAIN named.address = {"addr64", "addr16", "endpoints", "profile", "cluster"}
    BY <1>1, <1>2, <1>4
  <2> QED BY <1>5, <2>1
<1>7. /\ ReadOf(rules, read, f) /\ ReadOf(rules, named, f)
      /\ "16_NOTALLOW" \in rules => ReadOf(rules, named5, f)
      /\ ServiceRead(read, f, FALSE) /\ ServiceRead(named, f, TRUE) /\ ServiceRead(named5, f, TRUE)
  BY <1>1, <1>3, <1>6 DEF ReadOf, ServiceRead
<1>8. /\ Short.ret # "ENONE" /\ ReadOf(rules, [Short EXCEPT !.address.addr16 = None], f)
      /\ ServiceRead(Short, f, FALSE) /\ ServiceRead(Short, f, TRUE)
      /\ ServiceRead([Short EXCEPT !.address.addr16 = None], f, TRUE)
  BY DEF ReadOf, ServiceRead, Short, Parsed, NoAddress
<1>9. CASE f.len < 18
  <2>1. s2_dataExp_rx(f) = Short /\ sZB_dataExp_rx(f) = Short
    BY <1>8, <1>9 DEF s2_dataExp_rx, sZB_dataExp_rx
  <2>2. s5_dataExp_rx(f) = [Short EXCEPT !.address.addr16 = None]
    BY <2>1 DEF s5_dataExp_rx
  <2>3. ReadOf(rules, Short, f)
    BY ReadOfShort
  <2> QED BY <1>8, <2>1, <2>2, <2>3, Zenon
<1>10. CASE ~(f.len < 18)
  <2>1. s2_dataExp_rx(f) = read
    BY <1>10 DEF s2_dataExp_rx, read, a
  <2>2. sZB_dataExp_rx(f) = named
    BY <1>3, <2>1 DEF sZB_dataExp_rx, named
  <2>3. s5_dataExp_rx(f) = named5
    BY <2>2 DEF s5_dataExp_rx, named5
  <2> QED BY <1>7, <2>1, <2>2, <2>3
<1> QED BY <1>9, <1>10

\* The rules' sets that leave an address out.
LEMMA Rules ==
  /\ {"16_NOTALLOW", "64_NOTALLOW"} \subseteq ADDR_NONE
  /\ "64_NOTALLOW" \in ADDR_16_ONLY /\ "16_NOTALLOW" \in ADDR_64_ONLY
BY DEF ADDR_NONE, ADDR_16_ONLY, ADDR_64_ONLY

LEMMA Series1Types ==
  ASSUME NEW t \in s1_conTypes, NEW f, f.id = t.rxId
  PROVE  ReadOf(t.addressRules, s1_rx(t.name, f), f)
<1>1. CASE t = s1_modemStatus
  <2>1. t.name = "Modem Status" /\ t.addressRules = ADDR_NONE
    BY <1>1 DEF s1_modemStatus, ConType
  <2>2. s1_rx(t.name, f) = s1_modemStatus_rx(f)
    BY <2>1 DEF s1_rx
  <2> QED BY <2>1, <2>2, Rules, StatusReads
<1>2. CASE t = s1_transmitStatus
  <2>1. t.name = "Transmit Status" /\ t.addressRules = ADDR_NONE
    BY <1>2 DEF s1_transmitStatus, ConType
  <2>2. s1_rx(t.name, f) = s1_transmitStatus_rx(f)
    BY <2>1 DEF s1_rx
  <2> QED BY <2>1, <2>2, Rules, StatusReads
<1>3. CASE t = s1_localAt
  <2>1. t.name = "Local AT" /\ t.addressRules = ADDR_NONE
    BY <1>3 DEF s1_localAt, ConType
  <2>2. s1_rx(t.name, f) = s1_at_rx(f)
    BY <2>1 DEF s1_rx
  <2> QED BY <2>1, <2>2, Rules, AtReads
<1>4. CASE t = s1_remoteAt
  <2>1. t.name = "Remote AT" /\ t.addressRules = ADDR_16XOR64_NOEP /\ t.rxId = \h97
    BY <1>4 DEF s1_remoteAt, ConType
  <2>2. s1_rx(t.name, f) = s1_at_rx(f)
    BY <2>1 DEF s1_rx
  <2>3. f.id = \h97
    BY <2>1
  <2>4. ReadOf(ADDR_16XOR64_NOEP, s1_at_rx(f), f)
    BY <2>3, Rules, AtReads
  <2> QED BY <2>1, <2>2, <2>4
<1>5. CASE t = s1_16bitData
  <2>1. t.name = "16-bit Data" /\ t.addressRules = ADDR_16_ONLY /\ t.rxId = \h81
    BY <1>5 DEF s1_16bitData, ConType
  <2>2. s1_rx(t.name, f) = s1_data_rx(f)
    BY <2>1 DEF s1_rx
  <2>3. f.id = \h81
    BY <2>1
  <2>4. f.id # \h80
    BY <2>3
  <2>5. ReadOf(ADDR_16_ONLY, s1_data_rx(f), f)
    BY <2>4, Rules, Series1Data
  <2> QED BY <2>1, <2>2, <2>5
<1>6. CASE t = s1_64bitData
  <2>1. t.name = "64-bit Data" /\ t.addressRules = ADDR_64_ONLY /\ t.rxId = \h80
    BY <1>6 DEF s1_64bitData, ConType
  <2>2. s1_rx(t.name, f) = s1_data_rx(f)
    BY <2>1 DEF s1_rx
  <2>3. f.id = \h80
    BY <2>1
  <2>4. ReadOf(ADDR_64_ONLY, s1_data_rx(f), f)
    BY <2>3, Rules, Series1Data
  <2> QED BY <2>1, <2>2, <2>4
<1>7. CASE t = s1_16bitIo
  <2>1. t.name = "16-bit I/O" /\ t.addressRules = ADDR_16_ONLY /\ t.rxId = \h83
    BY <1>7 DEF s1_16bitIo, ConType
  <2>2. s1_rx(t.name, f) = s1_io_rx(f)
    BY <2>1 DEF s1_rx
  <2>3. f.id = \h83
    BY <2>1
  <2>4. f.id # \h82
    BY <2>3
  <2>5. ReadOf(ADDR_16_ONLY, s1_io_rx(f), f)
    BY <2>4, Rules, Series1Data
  <2> QED BY <2>1, <2>2, <2>5
<1>8. CASE t = s1_64bitIo
  <2>1. t.name = "64-bit I/O" /\ t.addressRules = ADDR_64_ONLY /\ t.rxId = \h82
    BY <1>8 DEF s1_64bitIo, ConType
  <2>2. s1_rx(t.name, f) = s1_io_rx(f)
    BY <2>1 DEF s1_rx
  <2>3. f.id = \h82
    BY <2>1
  <2>4. ReadOf(ADDR_64_ONLY, s1_io_rx(f), f)
    BY <2>3, Rules, Series1Data
  <2> QED BY <2>1, <2>2, <2>4
<1> QED BY <1>1, <1>2, <1>3, <1>4, <1>5, <1>6, <1>7, <1>8 DEF s1_conTypes

LEMMA Series2Types ==
  ASSUME NEW t \in s2_conTypes, NEW f, f.id = t.rxId
  PROVE  ReadOf(t.addressRules, s2_rx(t.name, f), f)
<1>1. CASE t = s2_modemStatus
  <2>1. t.name = "Modem Status" /\ t.addressRules = ADDR_NONE
    BY <1>1 DEF s2_modemStatus, s1_modemStatus, ConType
  <2>2. s2_rx(t.name, f) = s1_modemStatus_rx(f)
    BY <2>1 DEF s2_rx, s2_modemStatus_rx
  <2> QED BY <2>1, <2>2, Rules, StatusReads
<1>2. CASE t = s2_transmitStatus
  <2>1. t.name = "Transmit Status" /\ t.addressRules = ADDR_NONE
    BY <1>2 DEF s2_transmitStatus, s1_transmitStatus, ConType
  <2>2. s2_rx(t.name, f) = s2_transmitStatus_rx(f)
    BY <2>1 DEF s2_rx
  <2> QED BY <2>1, <2>2, Rules, StatusReads
<1>3. CASE t = s2_localAt
  <2>1. t.name = "Local AT" /\ t.addressRules = ADDR_NONE
    BY <1>3 DEF s2_localAt, s1_localAt, ConType
  <2>2. s2_rx(t.name, f) = s1_at_rx(f)
    BY <2>1 DEF s2_rx, s2_at_rx
  <2> QED BY <2>1, <2>2, Rules, AtReads
<1>4. CASE t = s2_remoteAt
  <2>1. t.name = "Remote AT" /\ t.addressRules = ADDR_64_16OPT_NOEP /\ t.rxId = \h97
    BY <1>4 DEF s2_remoteAt, s1_remoteAt, ConType
  <2>2. s2_rx(t.name, f) = s1_at_rx(f)
    BY <2>1 DEF s2_rx, s2_at_rx
  <2>3. f.id = \h97
    BY <2>1
  <2>4. ReadOf(ADDR_64_16OPT_NOEP, s1_at_rx(f), f)
    BY <2>3, Rules, AtReads
  <2> QED BY <2>1, <2>2, <2>4
<1>5. CASE t = s2_data
  <2>1. t.name = "Data" /\ t.addressRules = ADDR_64_16OPT_NOEP
    BY <1>5 DEF s2_data, ConType
  <2>2. s2_rx(t.name, f) = s2_data_rx(f)
    BY <2>1 DEF s2_rx
  <2> QED BY <2>1, <2>2, Rules, Series2Reads
<1>6. CASE t = s2_dataExp
  <2>1. t.name = "Data (explicit)" /\ t.addressRules = ADDR_64_16OPT_EP
    BY <1>6 DEF s2_dataExp, s2_data, ConType
  <2>2. s2_rx(t.name, f) = s2_dataExp_rx(f)
    BY <2>1 DEF s2_rx
  <2>3. "EP_NOTALLOW" \notin ADDR_64_16OPT_EP
    BY DEF ADDR_64_16OPT_EP
  <2> QED BY <2>1, <2>2, <2>3, ExplicitReads
<1>7. CASE t = s2_io
  <2>1. t.name = "I/O" /\ t.addressRules = ADDR_16OR64_NOEP
    BY <1>7 DEF s2_io, ConType
  <2>2. s2_rx(t.name, f) = s2_io_rx(f)
    BY <2>1 DEF s2_rx
  <2> QED BY <2>1, <2>2, Rules, Series2Reads
<1>8. CASE t = s2_sensor
  <2>1. t.name = "Sensor" /\ t.addressRules = ADDR_16OR64_NOEP
    BY <1>8 DEF s2_sensor, s2_io, ConType
  <2>2. s2_rx(t.name, f) = s2_sensor_rx(f)
    BY <2>1 DEF s2_rx
  <2> QED BY <2>1, <2>2, Rules, Series2Reads
<1>9. CASE t = s2_identify
  <2>1. t.name = "Identify" /\ t.addressRules = ADDR_NONE
    BY <1>9 DEF s2_identify, ConType
  <2>2. s2_rx(t.name, f) = s2_identify_rx(f)
    BY <2>1 DEF s2_rx
  <2> QED BY <2>1, <2>2, Rules, StatusReads
<1> QED BY <1>1, <1>2, <1>3, <1>4, <1>5, <1>6, <1>7, <1>8, <1>9 DEF s2_conTypes

LEMMA ZigBeeTypes ==
  ASSUME NEW t \in sZB_conTypes, NEW f, f.id = t.rxId
  PROVE  ReadOf(t.addressRules, sZB_rx(t.name, f), f)
<1>1. CASE t = sZB_transmitStatus
  <2>1. t.name = "Transmit Status" /\ t.addressRules = ADDR_NONE
    BY <1>1 DEF sZB_transmitStatus, s2_transmitStatus, s1_transmitStatus, ConType
  <2>2. sZB_rx(t.name, f) = s2_transmitStatus_rx(f)
    BY <2>1 DEF sZB_rx, sZB_transmitStatus_rx
  <2> QED BY <2>1, <2>2, Rules, StatusReads
<1>2. CASE t = sZB_modemStatus
  <2>1. t.name = "Modem Status" /\ t.addressRules = ADDR_NONE
    BY <1>2 DEF sZB_modemStatus, s2_modemStatus, s1_modemStatus, ConType
  <2>2. sZB_rx(t.name, f) = s1_modemStatus_rx(f)
    BY <2>1 DEF sZB_rx, sZB_modemStatus_rx
  <2> QED BY <2>1, <2>2, Rules, StatusReads
<1>3. CASE t = sZB_localAt
  <2>1. t.name = "Local AT" /\ t.addressRules = ADDR_NONE
    BY <1>3 DEF sZB_localAt, s2_localAt, s1_localAt, ConType
  <2>2. sZB_rx(t.name, f) = s1_at_rx(f)
    BY <2>1 DEF sZB_rx, sZB_at_rx
  <2> QED BY <2>1, <2>2, Rules, AtReads
<1>4. CASE t = sZB_remoteAt
  <2>1. t.name = "Remote AT" /\ t.addressRules = ADDR_64_16OPT_NOEP /\ t.rxId = \h97
    BY <1>4 DEF sZB_remoteAt, s2_remoteAt, s1_remoteAt, ConType
  <2>2. sZB_rx(t.name, f) = s1_at_rx(f)
    BY <2>1 DEF sZB_rx, sZB_at_rx
  <2>3. f.id = \h97
    BY <2>1
  <2>4. ReadOf(ADDR_64_16OPT_NOEP, s1_at_rx(f), f)
    BY <2>3, Rules, AtReads
  <2> QED BY <2>1, <2>2, <2>4
<1>5. CASE t = sZB_data
  <2>1. t.name = "Data" /\ t.addressRules = ADDR_64_16OPT_NOEP
    BY <1>5 DEF sZB_data, s2_data, ConType
  <2>2. sZB_rx(t.name, f) = s2_data_rx(f)
    BY <2>1 DEF sZB_rx, sZB_data_rx
  <2> QED BY <2>1, <2>2, Rules, Series2Reads
<1>6. CASE t = sZB_dataExp
  <2>1. t.name = "Data (explicit)" /\ t.addressRules = ADDR_64_16OPT_EPOPT
    BY <1>6 DEF sZB_dataExp, s2_dataExp, s2_data, ConType
  <2>2. sZB_rx(t.name, f) = sZB_dataExp_rx(f)
    BY <2>1 DEF sZB_rx
  <2>3. "EP_NOTALLOW" \notin ADDR_64_16OPT_EPOPT
    BY DEF ADDR_64_16OPT_EPOPT
  <2> QED BY <2>1, <2>2, <2>3, ExplicitReads
<1>7. CASE t = sZB_io
  <2>1. t.name = "I/O" /\ t.addressRules = ADDR_16OR64_NOEP
    BY <1>7 DEF sZB_io, s2_io, ConType
  <2>2. sZB_rx(t.name, f) = s2_io_rx(f)
    BY <2>1 DEF sZB_rx, sZB_io_rx
  <2> QED BY <2>1, <2>2, Rules, Series2Reads
<1>8. CASE t = sZB_sensor
  <2>1. t.name = "Sensor" /\ t.addressRules = ADDR_16OR64_NOEP
    BY <1>8 DEF sZB_sensor, s2_sensor, s2_io, ConType
  <2>2. sZB_rx(t.name, f) = s2_sensor_rx(f)
    BY <2>1 DEF sZB_rx, sZB_sensor_rx
  <2> QED BY <2>1, <2>2, Rules, Series2Reads
<1>9. CASE t = sZB_identify
  <2>1. t.name = "Identify" /\ t.addressRules = ADDR_NONE
    BY <1>9 DEF sZB_identify, s2_identify, ConType
  <2>2. sZB_rx(t.name, f) = s2_identify_rx(f)
    BY <2>1 DEF sZB_rx, sZB_identify_rx
  <2> QED BY <2>1, <2>2, Rules, StatusReads
<1>10. CASE t = sZB_ota
  <2>1. t.name = "OTA Update Status" /\ t.addressRules = ADDR_16OR64_NOEP
    BY <1>10 DEF sZB_ota, s2_io, ConType
  <2>2. sZB_rx(t.name, f) = sZB_ota_rx(f)
    BY <2>1 DEF sZB_rx
  <2> QED BY <2>1, <2>2, Rules, Series2Reads
<1> QED BY <1>1, <1>2, <1>3, <1>4, <1>5, <1>6, <1>7, <1>8, <1>9, <1>10 DEF sZB_conTypes

LEMMA XBee5Types ==
  ASSUME NEW t \in s5_conTypes, NEW f, f.id = t.rxId
  PROVE  ReadOf(t.addressRules, s5_rx(t.name, f), f)
<1>1. CASE t = s5_modemStatus
  <2>1. t.name = "Modem Status" /\ t.addressRules = ADDR_NONE
    BY <1>1 DEF s5_modemStatus, s1_modemStatus, ConType
  <2>2. s5_rx(t.name, f) = s1_modemStatus_rx(f)
    BY <2>1 DEF s5_rx, s5_modemStatus_rx
  <2> QED BY <2>1, <2>2, Rules, StatusReads
<1>2. CASE t = s5_transmitStatus
  <2>1. t.name = "Transmit Status" /\ t.addressRules = ADDR_NONE
    BY <1>2 DEF s5_transmitStatus, s2_transmitStatus, s1_transmitStatus, ConType
  <2>2. s5_rx(t.name, f) = s2_transmitStatus_rx(f)
    BY <2>1 DEF s5_rx, s5_transmitStatus_rx
  <2> QED BY <2>1, <2>2, Rules, StatusReads
<1>3. CASE t = s5_localAt
  <2>1. t.name = "Local AT" /\ t.addressRules = ADDR_NONE
    BY <1>3 DEF s5_localAt, s1_localAt, ConType
  <2>2. s5_rx(t.name, f) = s5_at_rx(f)
    BY <2>1 DEF s5_rx
  <2> QED BY <2>1, <2>2, Rules, AtReads
<1>4. CASE t = s5_remoteAt
  <2>1. t.name = "Remote AT" /\ t.addressRules = ADDR_64_ONLY /\ t.rxId = \h97
    BY <1>4 DEF s5_remoteAt, s1_remoteAt, ConType
  <2>2. s5_rx(t.name, f) = s5_at_rx(f)
    BY <2>1 DEF s5_rx
  <2>3. f.id = \h97
    BY <2>1
  <2>4. ReadOf(ADDR_64_ONLY, s5_at_rx(f), f)
    BY <2>3, Rules, AtReads
  <2> QED BY <2>1, <2>2, <2>4
<1>5. CASE t = s5_data
  <2>1. t.name = "Data" /\ t.addressRules = ADDR_64_ONLY
    BY <1>5 DEF s5_data, s2_data, ConType
  <2>2. s5_rx(t.name, f) = s5_data_rx(f)
    BY <2>1 DEF s5_rx
  <2> QED BY <2>1, <2>2, Rules, Series2Reads
<1>6. CASE t = s5_dataExp
  <2>1. t.name = "Data (explicit)" /\ t.addressRules = {"64_REQUIRED", "16_NOTALLOW"}
    BY <1>6 DEF s5_dataExp, s2_dataExp, s2_data, ConType
  <2>2. s5_rx(t.name, f) = s5_dataExp_rx(f)
    BY <2>1 DEF s5_rx
  <2>3. "16_NOTALLOW" \in t.addressRules /\ "EP_NOTALLOW" \notin t.addressRules
    BY <2>1
  <2> QED BY <2>2, <2>3, ExplicitReads
<1>7. CASE t = s5_identify
  <2>1. t.name = "Identify" /\ t.addressRules = ADDR_NONE
    BY <1>7 DEF s5_identify, s2_identify, ConType
  <2>2. s5_rx(t.name, f) = s2_identify_rx(f)
    BY <2>1 DEF s5_rx, s5_identify_rx
  <2> QED BY <2>1, <2>2, Rules, StatusReads
<1> QED BY <1>1, <1>2, <1>3, <1>4, <1>5, <1>6, <1>7 DEF s5_conTypes

\* All modes.
LEMMA AllReads ==
  ASSUME NEW m \in Modes, NEW t \in ConTypes(m), NEW f, f.id = t.rxId
  PROVE  ReadOf(t.addressRules, RxFunc(m, t, f), f)
<1>1. CASE m = "xbee1"
  BY <1>1, Series1Types DEF ConTypes, RxFunc
<1>2. CASE m = "xbee2"
  BY <1>2, Series2Types DEF ConTypes, RxFunc
<1>3. CASE m = "xbeeZB"
  BY <1>3, ZigBeeTypes DEF ConTypes, RxFunc
<1>4. CASE m = "xbee5"
  BY <1>4, XBee5Types DEF ConTypes, RxFunc
<1> QED BY <1>1, <1>2, <1>3, <1>4 DEF Modes
-----------------------------------------------------------------------------
(***************************************************************************)
(* Finding a connection.                                                    *)
(***************************************************************************)
LEMMA Least ==
  ASSUME NEW S, S \subseteq Nat, S # {}
  PROVE  \E i \in S : \A j \in S : i <= j
<1>1. PICK i \in S : \A j \in S : <<j, i>> \notin OpToRel(<, Nat)
  BY WFMin, NatLessThanWellFounded, Zenon
<1>2. \A j \in S : ~(j < i)
  BY <1>1 DEF OpToRel
<1> QED BY <1>2

LEMMA FirstAndLast ==
  ASSUME NEW S, conList \in Seq(Cons), S \subseteq 1..Len(conList), S # {}
  PROVE  (\E i \in S : FirstOf(S) = conList[i]) /\ (\E i \in S : LastOf(S) = conList[i])
<1>0. Len(conList) \in Nat /\ \A i \in S : i \in Nat /\ i <= Len(conList)
  OBVIOUS
<1>1. \E i \in S : \A j \in S : i <= j
  BY <1>0, Least
<1>2. \E i \in S : \A j \in S : i >= j
  <2> DEFINE T == {Len(conList) - i : i \in S}
  <2>1. T \subseteq Nat /\ T # {}
    BY <1>0
  <2>2. PICK k \in T : \A l \in T : k <= l
    BY <2>1, Least
  <2>3. PICK i \in S : k = Len(conList) - i
    BY <2>2
  <2>4. ASSUME NEW j \in S PROVE i >= j
    <3>1. Len(conList) - j \in T
      OBVIOUS
    <3>2. Len(conList) - i <= Len(conList) - j
      BY <2>2, <2>3, <3>1
    <3> QED BY <1>0, <3>2
  <2> QED BY <2>4
<1>3. (CHOOSE i \in S : \A j \in S : i <= j) \in S
  BY <1>1
<1>4. (CHOOSE i \in S : \A j \in S : i >= j) \in S
  BY <1>2
<1> QED BY <1>3, <1>4 DEF FirstOf, LastOf

\* What xbee_conLocate finds: a connection that matches or a catch-all, one that
\* is awake if any that matches is, and one at all if any that listens matches.
LEMMA Located ==
  ASSUME conList \in Seq(Cons), NoCon \notin Cons, NEW address, NEW alert
  PROVE  LET r == conLocate(address, alert) IN
         /\ r.con # NoCon =>
              /\ r.con \in Linked
              /\ \/ AddressCmp(cons[r.con].address, address)
                 \/ "catchAll" \in cons[r.con].settings
         /\ r.con # NoCon /\ r.how = "ENONE" => cons[r.con].sleepState = "awake"
         /\ r.how # "ENONE" =>
              \A c \in Linked : cons[c].sleepState = "awake" =>
                ~AddressCmp(cons[c].address, address)
         /\ r.con = NoCon =>
              \A c \in Linked : cons[c].sleepState \in {"awake"} \cup alert =>
                ~AddressCmp(cons[c].address, address)
<1> DEFINE willing == WillingAt(alert)
           matches == MatchesAt(willing, address)
           awake == AwakeAt(matches)
           catchAlls == {i \in willing : "catchAll" \in cons[conList[i]].settings}
           r == conLocate(address, alert)
<1>1. /\ willing \subseteq 1..Len(conList) /\ catchAlls \subseteq willing
      /\ matches \subseteq willing /\ awake \subseteq matches
      /\ \A i \in matches : AddressCmp(cons[conList[i]].address, address)
      /\ \A i \in awake : cons[conList[i]].sleepState = "awake"
      /\ \A i \in catchAlls : "catchAll" \in cons[conList[i]].settings
  BY DEF WillingAt, MatchesAt, AwakeAt
<1>2. \A i \in 1..Len(conList) : conList[i] \in Linked /\ conList[i] # NoCon
  BY DEF Linked
<1>3. /\ \A i \in 1..Len(conList) :
           /\ cons[conList[i]].sleepState = "awake"
           /\ AddressCmp(cons[conList[i]].address, address)
           => i \in awake
      /\ \A i \in 1..Len(conList) :
           /\ cons[conList[i]].sleepState \in {"awake"} \cup alert
           /\ AddressCmp(cons[conList[i]].address, address)
           => i \in matches
  BY DEF WillingAt, MatchesAt, AwakeAt
<1>4. r = IF awake # {} THEN Found(FirstOf(awake), "ENONE")
          ELSE IF matches # {} THEN Found(LastOf(matches), "ESLEEPING")
          ELSE IF catchAlls # {} THEN Found(LastOf(catchAlls), "ECATCHALL")
          ELSE Found(NoCon, "ENOTEXISTS")
  BY DEF conLocate
<1>5. \A c, how : Found(c, how).con = c /\ Found(c, how).how = how
  BY DEF Found
<1> HIDE DEF willing, matches, awake, catchAlls, r
<1>6. CASE awake # {}
  <2>1. PICK i \in awake : FirstOf(awake) = conList[i]
    BY <1>1, <1>6, FirstAndLast
  <2>2. r.con = conList[i] /\ r.how = "ENONE"
    BY <1>4, <1>5, <1>6, <2>1
  <2> QED BY <1>1, <1>2, <2>1, <2>2 DEF r
<1>7. CASE awake = {}
  <2>1. \A c \in Linked : cons[c].sleepState = "awake" => ~AddressCmp(cons[c].address, address)
    BY <1>3, <1>7 DEF Linked
  <2>2. CASE matches # {}
    <3>1. PICK i \in matches : LastOf(matches) = conList[i]
      BY <1>1, <2>2, FirstAndLast
    <3>2. r.con = conList[i] /\ r.how # "ENONE"
      BY <1>4, <1>5, <1>7, <2>2, <3>1
    <3> QED BY <1>1, <1>2, <2>1, <3>1, <3>2 DEF r
  <2>3. CASE matches = {} /\ catchAlls # {}
    <3>1. PICK i \in catchAlls : LastOf(catchAlls) = conList[i]
      BY <1>1, <2>3, FirstAndLast
    <3>2. r.con = conList[i] /\ r.how # "ENONE"
      BY <1>4, <1>5, <1>7, <2>3, <3>1
    <3> QED BY <1>1, <1>2, <2>1, <3>1, <3>2 DEF r
  <2>4. CASE matches = {} /\ catchAlls = {}
    <3>1. r.con = NoCon /\ r.how # "ENONE"
      BY <1>4, <1>5, <1>7, <2>4
    <3>2. \A c \in Linked : cons[c].sleepState \in {"awake"} \cup alert =>
            ~AddressCmp(cons[c].address, address)
      BY <1>3, <2>4 DEF Linked
    <3> QED BY <2>1, <3>1, <3>2 DEF r
  <2> QED BY <2>2, <2>3, <2>4
<1> QED BY <1>6, <1>7
-----------------------------------------------------------------------------
(***************************************************************************)
(* The inductive invariant.                                                 *)
(***************************************************************************)
ConRec == [address : Address, named : Address, sleepState : {"awake", "snooze", "sleep"},
           settings : Choices \cup {{}}, caught : BOOLEAN]
Jobs == {Idle} \cup [at : {"link"}, address : Address]
               \cup [at : {"wake"}, con : Cons, next : {"set", "tx"}]
               \cup [at : {"tx"}, con : Cons]
RxRec == [at : {"wait", "deliver"}, address : Address, con : Cons \cup {NoCon},
          device : Devices \cup {0}]

\* A frame a device has not yet written its addresses into.
Unaddressed(f) ==
  /\ f.id = conType.rxId /\ f.addr64 = None /\ f.addr16 = None
  /\ {"id", "addr64", "addr16", "len"} \subseteq DOMAIN f

Types ==
  /\ mode \in Modes /\ conType \in ConTypes(mode)
  /\ cons \in [Cons -> ConRec]
  /\ conList \in Seq(Cons)
  /\ \A i, j \in 1..Len(conList) : conList[i] = conList[j] => i = j
  /\ job \in [Users -> Jobs]
  /\ rx \in RxRec
  /\ rx.at = "wait" => rx.con = NoCon
  /\ rx.con \in Linked \cup {NoCon}
  /\ \A r \in air : Unaddressed(r.frame) /\ r.device \in Devices \cup {0}

Silent(a) == a.addr64 = None /\ a.addr16 = None
From1(a, d) == a.addr64 \in {None, Addr64(d)} /\ a.addr16 \in {None, Addr16(d)}
OfDevice(a, d) == From1(a, d) /\ ~Silent(a)

\* A name that the rules of the connection type let through.
NameAllowed(a) ==
  /\ "64_NOTALLOW" \in conType.addressRules => a.addr64 = None
  /\ "16_NOTALLOW" \in conType.addressRules => a.addr16 = None

\* What a connection is addressed by is its name and what it has learnt, which is
\* of the same device unless it has been a catch-all.
NamesOf(x) ==
  /\ x.address.endpoints = x.named.endpoints
  /\ x.address.profile = x.named.profile /\ x.address.cluster = x.named.cluster
  /\ x.named.addr64 # None => x.address.addr64 = x.named.addr64
  /\ x.named.addr16 # None => x.address.addr16 = x.named.addr16
  /\ NameAllowed(x.named)
  /\ ~x.caught => \/ Silent(x.named) /\ Silent(x.address)
                  \/ \E d \in Devices : OfDevice(x.named, d) /\ OfDevice(x.address, d)
  /\ "catchAll" \in x.settings => x.caught

\* The packet the receive thread has is of its connection's device.
RxNames ==
  rx.con # NoCon /\ ~cons[rx.con].caught =>
    \/ Silent(rx.address) /\ Silent(cons[rx.con].named)
    \/ /\ rx.device \in Devices
       /\ OfDevice(cons[rx.con].named, rx.device) /\ From1(rx.address, rx.device)

Names ==
  /\ \A c \in Cons : NamesOf(cons[c])
  /\ RxNames
  /\ \A u \in Users : job[u].at = "link" =>
       job[u].address \in Addresses /\ AddressAllowed(conType.addressRules, job[u].address)

\* No other connection that is awake is named as this one, or as one to be made.
Awake(c) == cons[c].sleepState = "awake" /\ ~cons[c].caught
Free(a, c) ==
  \A d \in Linked : d # c /\ Awake(d) => ~AddressCmp(a, cons[d].named)
Alone(c) == ~cons[c].caught => Free(cons[c].named, c)
JobApart(j) ==
  /\ j.at = "wake" => Alone(j.con)
  /\ j.at = "link" => Free(j.address, NoCon)

Apart ==
  ~raced =>
    /\ \A c \in Linked : Awake(c) => Alone(c)
    /\ rx.con # NoCon => Alone(rx.con)
    /\ \A u \in Users : JobApart(job[u])

ConInv == Types /\ Names /\ Apart

-----------------------------------------------------------------------------
(***************************************************************************)
(* Addresses, names and devices.                                            *)
(***************************************************************************)
SomeAddress(x, y) ==
  \/ Silent(x) /\ Silent(y)
  \/ x.addr64 # None /\ x.addr64 = y.addr64
  \/ x.addr16 # None /\ x.addr16 = y.addr16
SameService(x, y) ==
  /\ x.endpoints[1] = y.endpoints[1]
  /\ (x.endpoints = NoEndpoints) <=> (y.endpoints = NoEndpoints)
  /\ SameOrDefault(x.profile, y.profile, DefaultProfile)
  /\ SameOrDefault(x.cluster, y.cluster, DefaultCluster)

LEMMA CmpParts == \A x, y : AddressCmp(x, y) <=> SomeAddress(x, y) /\ SameService(x, y)
<1> SUFFICES ASSUME NEW x, NEW y
             PROVE  AddressCmp(x, y) <=> SomeAddress(x, y) /\ SameService(x, y)
  OBVIOUS
<1>1. {x.addr16, y.addr16, x.addr64, y.addr64} = {None} <=> Silent(x) /\ Silent(y)
  BY DEF Silent
<1> QED BY <1>1 DEF AddressCmp, SomeAddress, SameService

LEMMA CmpTurned == \A x, y : AddressCmp(x, y) => AddressCmp(y, x)
<1>1. \A x, y : SomeAddress(x, y) => SomeAddress(y, x)
  BY DEF SomeAddress
<1>2. \A x, y : SameService(x, y) => SameService(y, x)
  BY DEF SameService, SameOrDefault
<1> QED BY <1>1, <1>2, CmpParts

LEMMA ServiceTransitive ==
  \A x, y, z : SameService(x, y) /\ SameService(y, z) => SameService(x, z)
<1>1. ASSUME NEW a, NEW b, NEW c, NEW d, d # None,
             SameOrDefault(a, b, d), SameOrDefault(b, c, d)
      PROVE SameOrDefault(a, c, d)
  BY <1>1 DEF SameOrDefault
<1>2. DefaultProfile # None /\ DefaultCluster # None
  BY DEF DefaultProfile, DefaultCluster, None
<1> QED BY <1>1, <1>2 DEF SameService

LEMMA DevicesDiffer ==
  /\ \A d, e \in Devices : (Addr64(d) = Addr64(e) => d = e) /\ (Addr16(d) = Addr16(e) => d = e)
  /\ \A d \in Devices : Addr64(d) \in Nat \ {None} /\ Addr16(d) \in Nat \ {None}
<1>1. \A d \in Devices : d \in Nat
  BY ConnectionsAssumption DEF ConnectionsAssumption
<1>2. \A d \in Nat : Addr64(d) = 100 + d /\ Addr16(d) = 10 + d
  BY DEF Addr64, Addr16
<1>3. \A d \in Nat : 100 + d \in Nat \ {0} /\ 10 + d \in Nat \ {0}
  OBVIOUS
<1>4. \A d, e \in Nat : (100 + d = 100 + e => d = e) /\ (10 + d = 10 + e => d = e)
  OBVIOUS
<1> QED BY <1>1, <1>2, <1>3, <1>4 DEF None

\* A connection is found under its name, whatever it has learnt.
LEMMA NamesMatch ==
  ASSUME NEW x, NamesOf(x), ~x.caught, NEW y, AddressCmp(x.named, y)
  PROVE  AddressCmp(x.address, y)
<1>1. SomeAddress(x.named, y) /\ SameService(x.named, y)
  BY CmpParts
<1>2. SameService(x.address, y)
  BY <1>1 DEF NamesOf, SameService
<1>3. SomeAddress(x.address, y)
  BY <1>1 DEF NamesOf, SomeAddress, OfDevice
<1> QED BY <1>2, <1>3, CmpParts

\* An address of a device that takes all a connection may be named by matches every
\* connection whose name matches that of one it matches.
LEMMA MatchesToo ==
  ASSUME NEW x, NamesOf(x), ~x.caught, NEW y, NamesOf(y), ~y.caught,
         AddressCmp(x.named, y.named), NEW a, AddressCmp(x.address, a),
         \/ Silent(a)
         \/ \E e \in Devices :
              /\ From1(a, e)
              /\ "64_NOTALLOW" \in conType.addressRules \/ a.addr64 = Addr64(e)
              /\ "16_NOTALLOW" \in conType.addressRules \/ a.addr16 = Addr16(e)
  PROVE  AddressCmp(y.named, a)
<1>1. /\ SomeAddress(x.named, y.named) /\ SameService(x.named, y.named)
      /\ SomeAddress(x.address, a) /\ SameService(x.address, a)
  BY CmpParts
<1>2. SameService(y.named, a)
  <2>1. SameService(x.named, a)
    BY <1>1 DEF NamesOf, SameService
  <2>2. SameService(y.named, x.named)
    BY <1>1 DEF SameService, SameOrDefault
  <2> QED BY <2>1, <2>2, ServiceTransitive
<1>3. SomeAddress(y.named, a)
  <2>1. CASE Silent(y.named)
    <3>1. Silent(x.named)
      BY <1>1, <2>1 DEF SomeAddress, Silent
    <3>2. Silent(x.address)
      BY <3>1 DEF NamesOf, OfDevice
    <3>3. Silent(a)
      BY <1>1, <3>2 DEF SomeAddress, Silent
    <3> QED BY <2>1, <3>3 DEF SomeAddress
  <2>2. CASE ~Silent(y.named)
    <3>1. PICK d \in Devices : OfDevice(y.named, d)
      BY <2>2 DEF NamesOf
    <3>2. ~Silent(x.named)
      BY <1>1, <2>2 DEF SomeAddress, Silent
    <3>3. PICK e \in Devices : OfDevice(x.named, e) /\ OfDevice(x.address, e)
      BY <3>2 DEF NamesOf
    <3>4. e = d
      BY <1>1, <2>2, <3>1, <3>3, DevicesDiffer DEF SomeAddress, OfDevice, From1, Silent
    <3>5. ~Silent(a)
      BY <1>1, <3>3 DEF SomeAddress, OfDevice, Silent
    <3>6. PICK g \in Devices :
            /\ From1(a, g)
            /\ "64_NOTALLOW" \in conType.addressRules \/ a.addr64 = Addr64(g)
            /\ "16_NOTALLOW" \in conType.addressRules \/ a.addr16 = Addr16(g)
      BY <3>5
    <3>7. g = d
      BY <1>1, <3>3, <3>4, <3>5, <3>6, DevicesDiffer DEF SomeAddress, OfDevice, From1, Silent
    <3>8. NameAllowed(y.named)
      BY DEF NamesOf
    <3> QED BY <3>1, <3>6, <3>7, <3>8 DEF SomeAddress, OfDevice, From1, Silent, NameAllowed
  <2> QED BY <2>1, <2>2
<1> QED BY <1>2, <1>3, CmpParts

\* The addresses a program gives are of one device.
LEMMA AddressNames ==
  \A a \in Addresses : a \in Address /\ (Silent(a) \/ \E d \in Devices : OfDevice(a, d))
<1> SUFFICES ASSUME NEW a \in Addresses
             PROVE  a \in Address /\ (Silent(a) \/ \E d \in Devices : OfDevice(a, d))
  OBVIOUS
<1>1. NoAddress \in Address /\ Silent(NoAddress)
  BY DEF NoAddress, Address, Silent, None, NoEndpoints
<1>2. ASSUME NEW d \in Devices,
             a \in {[NoAddress EXCEPT !.addr64 = Addr64(d)], [NoAddress EXCEPT !.addr16 = Addr16(d)],
                    [NoAddress EXCEPT !.addr64 = Addr64(d), !.addr16 = Addr16(d)]}
      PROVE  a \in Address /\ OfDevice(a, d)
  <2>1. a \in Address
    BY <1>1, <1>2, DevicesDiffer DEF Address
  <2>2. From1(a, d) /\ ~Silent(a)
    BY <1>2, DevicesDiffer DEF NoAddress, From1, Silent
  <2> QED BY <2>1, <2>2 DEF OfDevice
<1>3. ASSUME NEW d \in Devices, NEW use \in Uses,
             a = [NoAddress EXCEPT !.addr64 = Addr64(d), !.endpoints = use[1],
                                   !.profile = use[2], !.cluster = use[3]]
      PROVE  a \in Address /\ OfDevice(a, d)
  <2>1. use[1] \in Nat \X Nat /\ use[2] \in Nat /\ use[3] \in Nat
    BY ConnectionsAssumption DEF ConnectionsAssumption
  <2>2. a \in Address
    BY <1>1, <1>3, <2>1, DevicesDiffer DEF Address
  <2>3. a.addr64 = Addr64(d) /\ a.addr16 = None
    BY <1>3 DEF NoAddress
  <2> QED BY <2>2, <2>3, DevicesDiffer DEF OfDevice, From1, Silent
<1>4. \/ a = NoAddress
      \/ \E d \in Devices, use \in Uses :
           a = [NoAddress EXCEPT !.addr64 = Addr64(d), !.endpoints = use[1],
                                 !.profile = use[2], !.cluster = use[3]]
      \/ \E d \in Devices :
           a \in {[NoAddress EXCEPT !.addr64 = Addr64(d)], [NoAddress EXCEPT !.addr16 = Addr16(d)],
                  [NoAddress EXCEPT !.addr64 = Addr64(d), !.addr16 = Addr16(d)]}
  <2>1. a = NoAddress \/ \E d \in Devices : a \in AddressesOf(d)
    BY DEF Addresses
  <2> QED BY <2>1 DEF AddressesOf
<1> QED BY <1>1, <1>2, <1>3, <1>4
-----------------------------------------------------------------------------
(***************************************************************************)
(* How steps keep the awake apart.                                          *)
(***************************************************************************)
\* No connection wakes or gets a name.
LEMMA ApartKept ==
  ASSUME Apart, NEW K \in SUBSET Cons,
         \A c \in K : /\ cons'[c].named = cons[c].named
                      /\ cons[c].caught => cons'[c].caught
                      /\ cons'[c].sleepState = "awake" => cons[c].sleepState = "awake",
         Linked' \subseteq Linked \cap K,
         raced => raced',
         \A u \in Users : \A j : j = job'[u] =>
           /\ ~raced => JobApart(j)
           /\ j.at = "wake" => j.con \in K,
         \A c : c = rx'.con /\ c # NoCon => c \in K /\ (~raced => Alone(c))
  PROVE  Apart'
<1> SUFFICES ASSUME ~raced' PROVE Apart'
  BY DEF Apart
<1>0. ~raced
  OBVIOUS
<1>1. \A d \in Linked' : Awake(d)' => Awake(d)
  BY DEF Awake
<1>2. ASSUME NEW a, NEW e, Free(a, e) PROVE Free(a, e)'
  BY <1>1, <1>2 DEF Free
<1>3. ASSUME NEW c \in K, Alone(c) PROVE Alone(c)'
  <2>1. SUFFICES ASSUME ~cons'[c].caught, NEW a, a = cons[c].named PROVE Free(a, c)'
    BY DEF Alone
  <2>2. Free(a, c)
    BY <1>3, <2>1 DEF Alone
  <2> QED BY <1>2, <2>2
<1>4. \A c \in Linked' : Awake(c)' => Alone(c)'
  BY <1>0, <1>1, <1>3 DEF Apart
<1>5. ASSUME rx'.con # NoCon PROVE Alone(rx.con)'
  <2>1. PICK c : c = rx'.con
    OBVIOUS
  <2>2. Alone(c)'
    BY <1>0, <1>3, <1>5, <2>1
  <2> QED BY <2>1, <2>2 DEF Alone, Free
<1>6. ASSUME NEW u \in Users PROVE JobApart(job[u])'
  <2>1. PICK j : j = job'[u]
    OBVIOUS
  <2>2. JobApart(j) /\ (j.at = "wake" => j.con \in K)
    BY <1>0, <2>1
  <2>3. j.at = "wake" => Alone(j.con)'
    <3>1. SUFFICES ASSUME j.at = "wake", NEW c, c = j.con PROVE Alone(c)'
      BY DEF Alone, Free
    <3> QED BY <1>3, <2>2, <3>1 DEF JobApart
  <2>4. j.at = "link" => Free(j.address, NoCon)'
    <3>1. SUFFICES ASSUME j.at = "link", NEW a, a = j.address PROVE Free(a, NoCon)'
      BY DEF Free
    <3> QED BY <1>2, <2>2, <3>1 DEF JobApart
  <2>5. JobApart(j)'
    BY <2>3, <2>4 DEF JobApart
  <2> QED BY <2>1, <2>5 DEF JobApart, Alone, Free
<1> QED BY <1>4, <1>5, <1>6 DEF Apart

\* One connection is awake now that was not, while nobody else was deciding on what
\* is awake.
LEMMA ApartGrown ==
  ASSUME Apart, NEW c \in Cons,
         \A d \in Linked : d # c => cons'[d] = cons[d],
         Linked' \subseteq Linked \cup {c},
         ~raced' => /\ ~raced /\ rx'.con = NoCon
                    /\ \A u \in Users : job'[u].at \notin {"wake", "link"}
                    /\ ~cons'[c].caught => \A a : a = cons'[c].named => Free(a, c)
  PROVE  Apart'
<1> SUFFICES ASSUME ~raced' PROVE Apart'
  BY DEF Apart
<1>1. /\ ~raced /\ rx'.con = NoCon
      /\ \A u \in Users : job'[u].at \notin {"wake", "link"}
      /\ ~cons'[c].caught => \A a : a = cons'[c].named => Free(a, c)
  OBVIOUS
<1>2. ASSUME NEW d \in Linked', NEW e \in Linked', d # e, Awake(d)', Awake(e)'
      PROVE  ~AddressCmp(cons'[d].named, cons'[e].named)
  <2>1. CASE d = c
    <3>1. e \in Linked /\ Awake(e) /\ cons'[e] = cons[e]
      BY <1>2, <2>1 DEF Awake
    <3>2. PICK a : a = cons'[c].named
      OBVIOUS
    <3>3. Free(a, c)
      BY <1>1, <1>2, <2>1, <3>2 DEF Awake
    <3> QED BY <1>2, <2>1, <3>1, <3>2, <3>3 DEF Free
  <2>2. CASE e = c
    <3>1. d \in Linked /\ Awake(d) /\ cons'[d] = cons[d]
      BY <1>2, <2>2 DEF Awake
    <3>2. PICK a : a = cons'[c].named
      OBVIOUS
    <3>3. Free(a, c)
      BY <1>1, <1>2, <2>2, <3>2 DEF Awake
    <3>4. ~AddressCmp(cons'[e].named, cons'[d].named)
      BY <1>2, <2>2, <3>1, <3>2, <3>3 DEF Free
    <3> QED BY <3>4, CmpTurned
  <2>3. CASE d # c /\ e # c
    <3>1. /\ d \in Linked /\ Awake(d) /\ cons'[d] = cons[d]
          /\ e \in Linked /\ Awake(e) /\ cons'[e] = cons[e]
      BY <1>2, <2>3 DEF Awake
    <3> QED BY <1>1, <1>2, <3>1 DEF Apart, Alone, Free, Awake
  <2> QED BY <2>1, <2>2, <2>3
<1>3. \A d \in Linked' : Awake(d)' => Alone(d)'
  BY <1>2 DEF Alone, Free
<1>4. \A u \in Users : JobApart(job[u])'
  BY <1>1 DEF JobApart
<1> QED BY <1>1, <1>3, <1>4 DEF Apart
-----------------------------------------------------------------------------
(***************************************************************************)
(* The steps.                                                               *)
(***************************************************************************)
LEMMA LinkedFacts ==
  ASSUME Types
  PROVE  /\ Linked \subseteq Cons /\ NoCon \notin Cons /\ NoCon \notin Linked
         /\ \A c \in Cons : cons[c] \in ConRec
BY ConnectionsAssumption DEF Types, Linked, ConnectionsAssumption

\* The mode and the type are what they were.
LEMMA SameRules ==
  ASSUME UNCHANGED fixed
  PROVE  /\ \A x : NamesOf(x) => NamesOf(x)'
         /\ Addresses' = Addresses
         /\ \A f : Unaddressed(f) => Unaddressed(f)'
<1>1. conType' = conType
  BY DEF fixed
<1>2. ASSUME NEW x, NamesOf(x) PROVE NamesOf(x)'
  BY <1>1, <1>2 DEF NamesOf, NameAllowed
<1>3. \A d : AddressesOf(d)' = AddressesOf(d)
  BY <1>1 DEF AddressesOf
<1>4. Addresses' = Addresses
  BY <1>3 DEF Addresses
<1>5. \A f : Unaddressed(f) => Unaddressed(f)'
  BY <1>1 DEF Unaddressed
<1> QED BY <1>2, <1>4, <1>5

\* The connections, their names and the packet under way stay.
LEMMA NamesStay ==
  ASSUME Names, UNCHANGED <<fixed, cons, rx>>,
         \A u \in Users : job'[u].at = "link" =>
           /\ job'[u].address \in Addresses
           /\ AddressAllowed(conType.addressRules, job'[u].address)
  PROVE  Names'
<1>1. ASSUME NEW c \in Cons PROVE NamesOf(cons[c])'
  <2>1. SUFFICES ASSUME NEW x, x = cons[c] PROVE NamesOf(x)'
    BY DEF NamesOf, NameAllowed
  <2> QED BY <2>1, SameRules DEF Names
<1>2. RxNames'
  BY DEF Names, RxNames
<1>3. conType' = conType /\ Addresses' = Addresses
  BY SameRules DEF fixed
<1> QED BY <1>1, <1>2, <1>3 DEF Names

\* A thread goes on; the connections stay as they are.
LEMMA JobStep ==
  ASSUME ConInv, UNCHANGED <<fixed, cons, conList, rx, raced>>,
         NEW u \in Users, NEW j \in Jobs, job' = [job EXCEPT ![u] = j],
         j.at = "link" => j.address \in Addresses /\ AddressAllowed(conType.addressRules, j.address),
         ~raced => JobApart(j),
         \A r \in air' : Unaddressed(r.frame) /\ r.device \in Devices \cup {0}
  PROVE  ConInv'
<1>0. Types /\ Names /\ Apart
  BY DEF ConInv
<1>1. /\ job' \in [Users -> Jobs] /\ job'[u] = j /\ \A v \in Users : v # u => job'[v] = job[v]
      /\ conType' = conType /\ Linked' = Linked
  BY <1>0 DEF Types, fixed, Linked
<1>2. Types'
  BY <1>0, <1>1 DEF Types, fixed, Unaddressed
<1>3. Names'
  <2>1. \A v \in Users : job'[v].at = "link" =>
          /\ job'[v].address \in Addresses
          /\ AddressAllowed(conType.addressRules, job'[v].address)
    BY <1>0, <1>1 DEF Names
  <2> QED BY <1>0, <2>1, NamesStay
<1>4. Apart'
  <2>1. \A v \in Users : ~raced => JobApart(job[v])
    BY <1>0 DEF Apart
  <2>2. \A v \in Users : \A k : k = job'[v] =>
          /\ ~raced => JobApart(k)
          /\ k.at = "wake" => k.con \in Cons
    <3>1. SUFFICES ASSUME NEW v \in Users, NEW k, k = job'[v]
                   PROVE  (~raced => JobApart(k)) /\ (k.at = "wake" => k.con \in Cons)
      OBVIOUS
    <3>2. k \in Jobs /\ (k = j \/ k = job[v])
      BY <1>1, <3>1
    <3>3. k.at = "wake" => k.con \in Cons
      BY <3>2 DEF Jobs, Idle
    <3> QED BY <2>1, <3>2, <3>3
  <2>3. \A c : c = rx'.con /\ c # NoCon => c \in Cons /\ (~raced => Alone(c))
    BY <1>0, LinkedFacts DEF Types, Apart
  <2>4. Linked' \subseteq Linked \cap Cons
    BY <1>0, <1>1, LinkedFacts
  <2> QED BY <1>0, <2>2, <2>3, <2>4, ApartKept
<1> QED BY <1>2, <1>3, <1>4 DEF ConInv

LEMMA ConNewKeeps ==
  ASSUME ConInv, NEW u \in Users, ConNew(u)
  PROVE  ConInv'
<1>0. Types /\ Names /\ Apart
  BY DEF ConInv
<1>1. PICK a \in Addresses :
        /\ AddressAllowed(conType.addressRules, a)
        /\ conLocate(a, {"snooze", "sleep"}).how # "ENONE"
        /\ job' = [job EXCEPT ![u] = [at |-> "link", address |-> a]]
  BY DEF ConNew
<1> DEFINE j == [at |-> "link", address |-> a]
<1>2. j \in Jobs /\ j.at = "link" /\ j.address = a
  BY <1>1, AddressNames DEF Jobs
<1> HIDE DEF j
<1>3. ~raced => JobApart(j)
  <2>1. SUFFICES ASSUME NEW d \in Linked, Awake(d), AddressCmp(a, cons[d].named)
                 PROVE  FALSE
    BY <1>2 DEF JobApart, Free
  <2>2. AddressCmp(cons[d].address, a)
    BY <1>0, <2>1, CmpTurned, NamesMatch, LinkedFacts DEF Names, Awake
  <2>3. ~AddressCmp(cons[d].address, a)
    BY <1>0, <1>1, <2>1, Located, LinkedFacts DEF Awake, Types
  <2> QED BY <2>2, <2>3
<1>4. job' = [job EXCEPT ![u] = j] /\ UNCHANGED <<fixed, cons, conList, rx, air, raced>>
  BY <1>1 DEF ConNew, j
<1>5. \A r \in air' : Unaddressed(r.frame) /\ r.device \in Devices \cup {0}
  BY <1>0, <1>4 DEF Types
<1> QED BY <1>1, <1>2, <1>3, <1>4, <1>5, JobStep

LEMMA WakeLookKeeps ==
  ASSUME ConInv, NEW u \in Users, NEW c \in Linked, NEW next \in {"set", "tx"}, WakeLook(u, c, next)
  PROVE  ConInv'
<1>0. Types /\ Names /\ Apart /\ c \in Cons
  BY LinkedFacts DEF ConInv
<1>1. /\ UNCHANGED <<fixed, cons, conList, rx, air, raced>>
      /\ \A r \in air' : Unaddressed(r.frame) /\ r.device \in Devices \cup {0}
  BY <1>0 DEF WakeLook, Types
<1> DEFINE j == [at |-> "wake", con |-> c, next |-> next]
<1>2. CASE MayWake(c)
  <2>1. j \in Jobs /\ j.at = "wake" /\ j.con = c
    BY <1>0 DEF Jobs
  <2>2. job' = [job EXCEPT ![u] = j]
    BY <1>2 DEF WakeLook
  <2> HIDE DEF j
  <2>3. JobApart(j)
    <3>1. SUFFICES ASSUME ~cons[c].caught, NEW d \in Linked, d # c, Awake(d),
                          AddressCmp(cons[c].named, cons[d].named)
                   PROVE  FALSE
      BY <2>1 DEF JobApart, Alone, Free
    <3>2. NamesOf(cons[c]) /\ NamesOf(cons[d]) /\ ~cons[d].caught /\ cons[d].sleepState = "awake"
      BY <1>0, <3>1, LinkedFacts DEF Names, Awake
    <3>3. AddressCmp(cons[c].address, cons[d].named)
      BY <3>1, <3>2, NamesMatch
    <3>4. AddressCmp(cons[d].address, cons[c].address)
      BY <3>2, <3>3, NamesMatch, CmpTurned
    <3>5. ~AddressCmp(cons[c].address, cons[d].address)
      BY <1>2, <3>1, <3>2 DEF MayWake, Linked
    <3> QED BY <3>4, <3>5, CmpTurned
  <2> QED BY <1>1, <2>1, <2>2, <2>3, JobStep
<1>3. CASE ~MayWake(c)
  <2>1. job' = [job EXCEPT ![u] = job[u]] /\ job[u] = Idle /\ Idle \in Jobs
    BY <1>0, <1>3 DEF WakeLook, Types, Jobs
  <2>2. Idle.at = "idle"
    BY DEF Idle
  <2>3. JobApart(Idle)
    BY <2>2 DEF JobApart
  <2> QED BY <1>1, <2>1, <2>2, <2>3, JobStep
<1> QED BY <1>2, <1>3

LEMMA TxKeeps ==
  ASSUME ConInv, NEW u \in Users, NEW c \in Linked, ConnTx(u, c) \/ ConnTxFails(u, c)
  PROVE  ConInv'
<1>0. Types
  BY DEF ConInv
<1>1. UNCHANGED <<fixed, cons, conList, rx, raced>> /\ job' = [job EXCEPT ![u] = Idle]
  BY DEF ConnTx, ConnTxFails
<1>2. Idle \in Jobs /\ Idle.at = "idle" /\ JobApart(Idle)
  BY DEF Jobs, Idle, JobApart
<1>3. \A d, f : Unaddressed(Reply(d, f))
  BY DEF Unaddressed, Reply, Frame
<1>4. \A r \in air' : Unaddressed(r.frame) /\ r.device \in Devices \cup {0}
  <2>1. CASE ConnTxFails(u, c)
    BY <1>0, <2>1 DEF ConnTxFails, Types
  <2>2. CASE ConnTx(u, c)
    <3>1. PICK f, D : /\ D \subseteq Devices \cup {0}
                      /\ air' = air \cup {[frame |-> Reply(d, f), device |-> d, asker |-> c] : d \in D}
      BY <2>2 DEF ConnTx, Reached
    <3> QED BY <1>0, <1>3, <3>1 DEF Types
  <2> QED BY <2>1, <2>2
<1> QED BY <1>1, <1>2, <1>4, JobStep
\* One connection changes.
LEMMA Change ==
  ASSUME Types, NEW c \in Cons, NEW x \in ConRec, cons' = [cons EXCEPT ![c] = x]
  PROVE  /\ cons' \in [Cons -> ConRec] /\ cons'[c] = x
         /\ \A d \in Cons : d # c => cons'[d] = cons[d]
BY DEF Types

LEMMA NamesChange ==
  ASSUME Types, Names, UNCHANGED fixed,
         NEW c \in Cons, NEW x \in ConRec, cons' = [cons EXCEPT ![c] = x], NamesOf(x), RxNames',
         \A u \in Users : job'[u].at = "link" => job'[u] = job[u]
  PROVE  Names'
<1>1. ASSUME NEW d \in Cons PROVE NamesOf(cons[d])'
  <2>1. SUFFICES ASSUME NEW y, y = cons'[d] PROVE NamesOf(y)'
    BY DEF NamesOf, NameAllowed
  <2>2. NamesOf(y)
    BY <2>1, Change DEF Names
  <2> QED BY <2>2, SameRules
<1>2. conType' = conType /\ Addresses' = Addresses
  BY SameRules DEF fixed
<1> QED BY <1>1, <1>2 DEF Names

LEMMA NewConFacts ==
  ASSUME NEW a \in Address
  PROVE  /\ NewCon(a) \in ConRec /\ NewCon(a).address = a /\ NewCon(a).named = a
         /\ ~NewCon(a).caught /\ NewCon(a).settings = {}
         /\ NameAllowed(a) /\ (Silent(a) \/ \E d \in Devices : OfDevice(a, d)) => NamesOf(NewCon(a))
<1>1. /\ NewCon(a) \in ConRec /\ NewCon(a).address = a /\ NewCon(a).named = a
      /\ ~NewCon(a).caught /\ NewCon(a).settings = {}
  BY DEF NewCon, ConRec
<1>2. NameAllowed(a) /\ (Silent(a) \/ \E d \in Devices : OfDevice(a, d)) => NamesOf(NewCon(a))
  BY <1>1 DEF NamesOf
<1> QED BY <1>1, <1>2

\* What the threads decide on stays as it is.
LEMMA JobsStay ==
  ASSUME Types, Apart, UNCHANGED job
  PROVE  \A u \in Users : \A j : j = job'[u] =>
           /\ ~raced => JobApart(j)
           /\ j.at = "wake" => j.con \in Cons
<1> SUFFICES ASSUME NEW u \in Users, NEW j, j = job[u]
             PROVE  (~raced => JobApart(j)) /\ (j.at = "wake" => j.con \in Cons)
  OBVIOUS
<1>1. j \in Jobs
  BY DEF Types
<1>2. j.at = "wake" => j.con \in Cons
  BY <1>1 DEF Jobs, Idle
<1> QED BY <1>2 DEF Apart

\* Settings and sleep.
LEMMA SettingKeeps ==
  ASSUME ConInv, NEW c \in Linked, UNCHANGED <<fixed, conList, job, rx, air, raced>>,
         NEW x \in ConRec, cons' = [cons EXCEPT ![c] = x],
         x.address = cons[c].address, x.named = cons[c].named,
         cons[c].caught => x.caught, "catchAll" \in x.settings => x.caught,
         x.sleepState = "awake" => cons[c].sleepState = "awake"
  PROVE  ConInv'
<1>0. Types /\ Names /\ Apart /\ c \in Cons /\ Linked \subseteq Cons
  BY LinkedFacts DEF ConInv
<1>1. /\ cons' \in [Cons -> ConRec] /\ cons'[c] = x
      /\ \A d \in Cons : d # c => cons'[d] = cons[d]
  BY <1>0, Change
<1>2. Linked' = Linked /\ conType' = conType
  BY DEF Linked, fixed
<1>3. Types'
  BY <1>0, <1>1, <1>2 DEF Types, fixed, Unaddressed
<1>4. NamesOf(x)
  BY <1>0 DEF Names, NamesOf
<1>5. RxNames'
  <2>1. \A d \in Cons : cons'[d].named = cons[d].named /\ (cons[d].caught => cons'[d].caught)
    BY <1>1
  <2> QED BY <1>0, <2>1 DEF Names, RxNames, Types, Linked
<1>6. Names'
  BY <1>0, <1>4, <1>5, NamesChange
<1>7. Apart'
  <2>1. \A d \in Cons : /\ cons'[d].named = cons[d].named
                        /\ cons[d].caught => cons'[d].caught
                        /\ cons'[d].sleepState = "awake" => cons[d].sleepState = "awake"
    BY <1>1
  <2>2. \A v \in Users : \A k : k = job'[v] =>
          /\ ~raced => JobApart(k)
          /\ k.at = "wake" => k.con \in Cons
    BY <1>0, JobsStay
  <2>3. \A d : d = rx'.con /\ d # NoCon => d \in Cons /\ (~raced => Alone(d))
    BY <1>0, LinkedFacts DEF Types, Apart
  <2> QED BY <1>0, <1>2, <2>1, <2>2, <2>3, ApartKept
<1> QED BY <1>3, <1>6, <1>7 DEF ConInv

LEMMA SleepSetKeeps ==
  ASSUME ConInv, NEW u \in Users, NEW c \in Linked, NEW state \in {"snooze", "sleep"},
         SleepSet(u, c, state)
  PROVE  ConInv'
<1> DEFINE x == [cons[c] EXCEPT !.sleepState = state]
<1>0. Types /\ Names /\ c \in Cons /\ cons[c] \in ConRec
  BY LinkedFacts DEF ConInv
<1>1. /\ x \in ConRec /\ x.address = cons[c].address /\ x.named = cons[c].named
      /\ x.caught = cons[c].caught /\ x.settings = cons[c].settings /\ x.sleepState # "awake"
  BY <1>0 DEF ConRec
<1>2. cons' = [cons EXCEPT ![c] = x] /\ UNCHANGED <<fixed, conList, job, rx, air, raced>>
  BY DEF SleepSet
<1> HIDE DEF x
<1>3. "catchAll" \in x.settings => x.caught
  BY <1>0, <1>1 DEF Names, NamesOf
<1> QED BY <1>1, <1>2, <1>3, SettingKeeps

LEMMA ConSettingsKeeps ==
  ASSUME ConInv, NEW u \in Users, NEW c \in Linked, ConSettings(u, c)
  PROVE  ConInv'
<1>0. Types /\ c \in Cons /\ cons[c] \in ConRec
  BY LinkedFacts DEF ConInv
<1>1. PICK s \in Choices :
        cons' = [cons EXCEPT ![c].settings = s, ![c].caught = @ \/ "catchAll" \in s]
  BY DEF ConSettings
<1> DEFINE b == cons[c].caught \/ "catchAll" \in s
           x == [cons[c] EXCEPT !.settings = s, !.caught = b]
<1>2. b \in BOOLEAN /\ (cons[c].caught => b) /\ ("catchAll" \in s => b)
  BY <1>0 DEF ConRec
<1>3. cons' = [cons EXCEPT ![c] = x]
  BY <1>0, <1>1 DEF Types
<1> HIDE DEF b
<1>4. /\ x \in ConRec /\ x.address = cons[c].address /\ x.named = cons[c].named
      /\ x.caught = b /\ x.settings = s /\ x.sleepState = cons[c].sleepState
  BY <1>0, <1>2 DEF ConRec
<1>5. UNCHANGED <<fixed, conList, job, rx, air, raced>>
  BY DEF ConSettings
<1> HIDE DEF x
<1> QED BY <1>2, <1>3, <1>4, <1>5, SettingKeeps
\* A connection is linked; the thread that does so has looked before.
LEMMA ConLinkKeeps ==
  ASSUME ConInv, NEW u \in Users, ConLink(u)
  PROVE  ConInv'
<1>0. Types /\ Names /\ Apart /\ Linked \subseteq Cons /\ job[u].at = "link"
  BY LinkedFacts DEF ConInv, ConLink
<1>1. PICK c \in Cons \ Linked : /\ cons' = [cons EXCEPT ![c] = NewCon(job[u].address)]
                                 /\ conList' = Append(conList, c)
  BY DEF ConLink
<1>2. UNCHANGED <<fixed, rx, air>> /\ job' = [job EXCEPT ![u] = Idle]
  BY DEF ConLink
<1> DEFINE a == job[u].address
           x == NewCon(a)
<1>3. /\ a \in Address /\ (Silent(a) \/ \E d \in Devices : OfDevice(a, d))
      /\ AddressAllowed(conType.addressRules, a)
  BY <1>0, AddressNames DEF Names
<1>4. x \in ConRec /\ x.named = a /\ ~x.caught /\ NamesOf(x)
  BY <1>3, NewConFacts DEF NameAllowed, AddressAllowed
<1>5. /\ job' \in [Users -> Jobs] /\ job'[u] = Idle /\ \A v \in Users : v # u => job'[v] = job[v]
      /\ Idle.at = "idle"
  BY <1>0, <1>2 DEF Types, Jobs, Idle
<1>6. ~raced => Free(a, NoCon)
  BY <1>0 DEF Apart, JobApart
<1> HIDE DEF a, x
<1>7. /\ cons' \in [Cons -> ConRec] /\ cons'[c] = x
      /\ \A d \in Cons : d # c => cons'[d] = cons[d]
  BY <1>0, <1>1, <1>4, Change DEF a, x
<1>8. conList' \in Seq(Cons) /\ Linked' = Linked \cup {c}
  <2>1. /\ conList' \in Seq(Cons) /\ Len(conList') = Len(conList) + 1 /\ Len(conList) \in Nat
        /\ conList'[Len(conList) + 1] = c
        /\ \A i \in 1..Len(conList) : conList'[i] = conList[i]
    BY <1>0, <1>1 DEF Types
  <2>2. 1..(Len(conList) + 1) = 1..Len(conList) \cup {Len(conList) + 1}
    BY <2>1
  <2> QED BY <2>1, <2>2 DEF Linked
<1>9. Types'
  <2>1. \A i, j \in 1..Len(conList') : conList'[i] = conList'[j] => i = j
    <3>1. /\ Len(conList') = Len(conList) + 1 /\ Len(conList) \in Nat
          /\ conList'[Len(conList) + 1] = c
          /\ \A i \in 1..Len(conList) : conList'[i] = conList[i] /\ conList[i] # c
      BY <1>0, <1>1 DEF Types, Linked
    <3> QED BY <1>0, <3>1 DEF Types
  <2>2. rx'.con \in Linked' \cup {NoCon}
    BY <1>0, <1>2, <1>8 DEF Types
  <2> QED BY <1>0, <1>2, <1>5, <1>7, <1>8, <2>1, <2>2 DEF Types, fixed, Unaddressed
<1>10. Names'
  <2>1. rx'.con # NoCon => rx.con \in Linked /\ cons'[rx.con] = cons[rx.con]
    BY <1>0, <1>1, <1>2, <1>7 DEF Types
  <2>2. RxNames'
    BY <1>0, <1>2, <2>1 DEF Names, RxNames
  <2>3. \A v \in Users : job'[v].at = "link" => job'[v] = job[v]
    BY <1>5
  <2> QED BY <1>0, <1>1, <1>2, <1>4, <2>2, <2>3, NamesChange DEF x, a
<1>11. Apart'
  <2>1. \A d \in Linked : d # c => cons'[d] = cons[d]
    BY <1>0, <1>7
  <2>2. ASSUME ~raced' PROVE /\ ~raced /\ rx'.con = NoCon
                             /\ \A v \in Users : job'[v].at \notin {"wake", "link"}
    <3>1. ~raced /\ Deciding \ {u} = {} /\ rx.at # "deliver"
      BY <2>2 DEF ConLink, Overlap
    <3>2. rx.con = NoCon
      BY <1>0, <3>1 DEF Types, RxRec
    <3> QED BY <1>2, <1>5, <3>1, <3>2 DEF Deciding
  <2>3. ASSUME ~raced' PROVE Free(a, c)
    BY <1>0, <1>6, <2>2, <2>3, LinkedFacts DEF Free
  <2> QED BY <1>0, <1>4, <1>7, <1>8, <2>1, <2>2, <2>3, ApartGrown
<1> QED BY <1>9, <1>10, <1>11 DEF ConInv

LEMMA RemovedAt ==
  ASSUME NEW S, NEW s \in Seq(S), NEW i \in 1..Len(s),
         \A j, k \in 1..Len(s) : s[j] = s[k] => j = k
  PROVE  LET t == SubSeq(s, 1, i - 1) \o SubSeq(s, i + 1, Len(s))
         IN  /\ t \in Seq(S)
             /\ \A j, k \in 1..Len(t) : t[j] = t[k] => j = k
             /\ {t[j] : j \in 1..Len(t)} = {s[j] : j \in 1..Len(s)} \ {s[i]}
<1> DEFINE t == SubSeq(s, 1, i - 1) \o SubSeq(s, i + 1, Len(s))
           n == Len(s)
<1>1. n \in Nat /\ i \in Nat /\ 1 <= i /\ i <= n
  OBVIOUS
<1>2. SubSeq(s, 1, i - 1) \in Seq(S) /\ SubSeq(s, i + 1, n) \in Seq(S)
  <2>1. \A j \in 1..n : s[j] \in S
    OBVIOUS
  <2> QED BY <1>1, <2>1, SubSeqProperties
<1>3. /\ Len(SubSeq(s, 1, i - 1)) = i - 1 /\ Len(SubSeq(s, i + 1, n)) = n - i
      /\ \A j \in 1..(i - 1) : SubSeq(s, 1, i - 1)[j] = s[j]
      /\ \A j \in 1..(n - i) : SubSeq(s, i + 1, n)[j] = s[j + i]
  BY <1>1
<1> DEFINE A == SubSeq(s, 1, i - 1)
           B == SubSeq(s, i + 1, n)
<1>10. /\ A \in Seq(S) /\ B \in Seq(S) /\ Len(A) = i - 1 /\ Len(B) = n - i
       /\ \A j \in 1..(i - 1) : A[j] = s[j]
       /\ \A j \in 1..(n - i) : B[j] = s[j + i]
  BY <1>2, <1>3
<1>11. t = A \o B
  OBVIOUS
<1> HIDE DEF t, A, B
<1>12. /\ t \in Seq(S) /\ Len(t) = Len(A) + Len(B)
       /\ \A j \in 1..(Len(A) + Len(B)) : t[j] = IF j <= Len(A) THEN A[j] ELSE B[j - Len(A)]
  <2>1. /\ A \o B \in Seq(S) /\ Len(A \o B) = Len(A) + Len(B)
        /\ \A j \in 1..(Len(A) + Len(B)) : (A \o B)[j] = IF j <= Len(A) THEN A[j] ELSE B[j - Len(A)]
    <3>1. A \in Seq(S) /\ B \in Seq(S) /\ Len(A) \in Nat /\ Len(B) \in Nat
      BY <1>10
    <3>2. A \o B \in Seq(S) /\ Len(A \o B) = Len(A) + Len(B)
      BY <3>1
    <3>3. ASSUME NEW j \in 1..(Len(A) + Len(B))
          PROVE  (A \o B)[j] = IF j <= Len(A) THEN A[j] ELSE B[j - Len(A)]
      BY <3>1
    <3> QED BY <3>2, <3>3
  <2> QED BY <1>11, <2>1, Zenon
<1>4. t \in Seq(S) /\ Len(t) = n - 1
  BY <1>1, <1>10, <1>12
<1>5. \A j \in 1..(n - 1) : t[j] = IF j < i THEN s[j] ELSE s[j + 1]
  <2>1. SUFFICES ASSUME NEW j \in 1..(n - 1) PROVE t[j] = IF j < i THEN s[j] ELSE s[j + 1]
    OBVIOUS
  <2>2. t[j] = IF j <= i - 1 THEN A[j] ELSE B[j - (i - 1)]
    BY <1>1, <1>10, <1>12
  <2>3. CASE j < i
    BY <1>1, <1>10, <2>2, <2>3
  <2>4. CASE ~(j < i)
    <3>1. PICK k : k = j - (i - 1)
      OBVIOUS
    <3>2. k \in 1..(n - i) /\ k + i = j + 1 /\ ~(j <= i - 1)
      BY <1>1, <2>4, <3>1
    <3>3. B[k] = s[k + i]
      BY <1>10, <3>2, Zenon
    <3>4. t[j] = B[k]
      BY <2>2, <3>1, <3>2
    <3> QED BY <2>4, <3>2, <3>3, <3>4
  <2> QED BY <2>3, <2>4
<1>6. \A j, k \in 1..Len(t) : t[j] = t[k] => j = k
  <2>1. SUFFICES ASSUME NEW j \in 1..Len(t), NEW k \in 1..Len(t), t[j] = t[k] PROVE j = k
    OBVIOUS
  <2>2. PICK a, b : a = (IF j < i THEN j ELSE j + 1) /\ b = (IF k < i THEN k ELSE k + 1)
    OBVIOUS
  <2>3. a \in 1..n /\ b \in 1..n /\ (a = b => j = k)
    BY <1>1, <1>4, <2>2
  <2>4. t[j] = s[a] /\ t[k] = s[b]
    BY <1>1, <1>4, <1>5, <2>2
  <2>5. a = b
    BY <2>1, <2>3, <2>4
  <2> QED BY <2>3, <2>5
<1>7. \A j \in 1..Len(t) : \E k \in 1..n : k # i /\ t[j] = s[k]
  BY <1>1, <1>4, <1>5
<1>8. \A k \in 1..n : k # i => \E j \in 1..Len(t) : t[j] = s[k]
  <2>1. SUFFICES ASSUME NEW k \in 1..n, k # i PROVE \E j \in 1..Len(t) : t[j] = s[k]
    OBVIOUS
  <2>2. CASE k < i
    <3>1. k \in 1..(n - 1)
      BY <1>1, <2>2
    <3> QED BY <1>4, <1>5, <2>2, <3>1
  <2>3. CASE i < k
    <3>1. k - 1 \in 1..(n - 1) /\ ~(k - 1 < i) /\ (k - 1) + 1 = k
      BY <1>1, <2>3
    <3> QED BY <1>4, <1>5, <3>1
  <2> QED BY <1>1, <2>1, <2>2, <2>3
<1>9. {t[j] : j \in 1..Len(t)} = {s[j] : j \in 1..n} \ {s[i]}
  <2>1. \A k \in 1..n : k # i => s[k] # s[i]
    OBVIOUS
  <2>2. ASSUME NEW x \in {t[j] : j \in 1..Len(t)} PROVE x \in {s[j] : j \in 1..n} \ {s[i]}
    BY <1>7, <2>1, <2>2
  <2>3. ASSUME NEW x \in {s[j] : j \in 1..n} \ {s[i]} PROVE x \in {t[j] : j \in 1..Len(t)}
    <3>1. PICK k \in 1..n : x = s[k] /\ k # i
      BY <2>3
    <3>2. PICK j \in 1..Len(t) : t[j] = s[k]
      BY <1>8, <3>1
    <3> QED BY <3>1, <3>2
  <2> QED BY <2>2, <2>3
<1> QED BY <1>4, <1>6, <1>9 DEF t

\* The connection that ends leaves the list, and no other.
LEMMA EndLeaves ==
  ASSUME Types, NEW u \in Users, NEW c \in Linked, ConEnd(u, c)
  PROVE  /\ conList' \in Seq(Cons)
         /\ \A j, k \in 1..Len(conList') : conList'[j] = conList'[k] => j = k
         /\ Linked' = Linked \ {c}
<1>1. PICK i \in 1..Len(conList) :
        /\ conList[i] = c
        /\ conList' = SubSeq(conList, 1, i - 1) \o SubSeq(conList, i + 1, Len(conList))
  BY DEF ConEnd
<1>2. conList \in Seq(Cons) /\ \A j, k \in 1..Len(conList) : conList[j] = conList[k] => j = k
  BY DEF Types
<1> DEFINE t == SubSeq(conList, 1, i - 1) \o SubSeq(conList, i + 1, Len(conList))
<1>3. /\ t \in Seq(Cons)
      /\ \A j, k \in 1..Len(t) : t[j] = t[k] => j = k
      /\ {t[j] : j \in 1..Len(t)} = {conList[j] : j \in 1..Len(conList)} \ {conList[i]}
  BY <1>2, RemovedAt, Zenon
<1> HIDE DEF t
<1>4. conList' = t
  BY <1>1 DEF t
<1>5. Linked' = {t[j] : j \in 1..Len(t)}
  BY <1>4 DEF Linked
<1>6. Linked' = Linked \ {c}
  BY <1>1, <1>3, <1>5, Zenon DEF Linked
<1> QED BY <1>3, <1>4, <1>6, Zenon

\* A connection ends: nobody uses it, and what was for it is for nobody.
LEMMA ConEndKeeps ==
  ASSUME ConInv, NEW u \in Users, NEW c \in Linked, ConEnd(u, c)
  PROVE  ConInv'
<1>0. Types /\ Names /\ Apart /\ c \in Cons /\ Linked \subseteq Cons
  BY LinkedFacts DEF ConInv
<1>1. /\ conList' \in Seq(Cons)
      /\ \A j, k \in 1..Len(conList') : conList'[j] = conList'[k] => j = k
      /\ Linked' = Linked \ {c}
  BY <1>0, EndLeaves
<1>2. /\ UNCHANGED <<fixed, job, raced>> /\ air' \subseteq air
      /\ rx' = IF rx.con = c THEN [rx EXCEPT !.con = NoCon] ELSE rx
      /\ cons' = [cons EXCEPT ![c] = NewCon(NoAddress)]
  BY DEF ConEnd
<1> DEFINE x == NewCon(NoAddress)
<1>3. NoAddress \in Address /\ Silent(NoAddress) /\ NameAllowed(NoAddress)
  BY DEF NoAddress, Address, Silent, None, NoEndpoints, NameAllowed
<1>4. x \in ConRec /\ NamesOf(x)
  BY <1>3, NewConFacts
<1> HIDE DEF x
<1>5. cons' \in [Cons -> ConRec] /\ \A d \in Cons : d # c => cons'[d] = cons[d]
  BY <1>0, <1>2, <1>4, Change DEF x
<1>6. /\ rx' \in RxRec /\ rx'.con \in Linked' \cup {NoCon} /\ (rx'.at = "wait" => rx'.con = NoCon)
      /\ rx'.con # NoCon => rx' = rx /\ rx.con # c
  <2>0. rx \in RxRec
    BY <1>0 DEF Types
  <2>1. CASE rx.con = c
    <3>1. rx' \in RxRec /\ rx'.con = NoCon
      BY <1>2, <2>0, <2>1 DEF RxRec
    <3> QED BY <3>1
  <2>2. CASE rx.con # c
    BY <1>0, <1>2, <1>1, <2>0, <2>2 DEF Types
  <2> QED BY <2>1, <2>2
<1>7. Types'
  BY <1>0, <1>2, <1>1, <1>5, <1>6 DEF Types, fixed, Unaddressed
<1>8. Names'
  <2>1. RxNames'
    <3>1. rx'.con # NoCon => cons'[rx.con] = cons[rx.con] /\ rx' = rx
      BY <1>0, <1>5, <1>6 DEF Types
    <3> QED BY <1>0, <3>1 DEF Names, RxNames
  <2>2. \A v \in Users : job'[v].at = "link" => job'[v] = job[v]
    BY <1>2
  <2> QED BY <1>0, <1>2, <1>4, <2>1, <2>2, NamesChange DEF x
<1>9. Apart'
  <2> DEFINE K == Cons \ {c}
  <2>1. \A d \in K : /\ cons'[d].named = cons[d].named
                     /\ cons[d].caught => cons'[d].caught
                     /\ cons'[d].sleepState = "awake" => cons[d].sleepState = "awake"
    BY <1>5
  <2>2. Linked' \subseteq Linked \cap K
    BY <1>0, <1>1
  <2>3. \A v \in Users : \A k : k = job'[v] =>
          /\ ~raced => JobApart(k)
          /\ k.at = "wake" => k.con \in K
    <3>1. \A v \in Users : job[v].at = "wake" => job[v].con # c
      BY DEF ConEnd
    <3> QED BY <1>0, <1>2, <3>1, JobsStay
  <2>4. \A d : d = rx'.con /\ d # NoCon => d \in K /\ (~raced => Alone(d))
    BY <1>0, <1>6 DEF Types, Apart
  <2>5. raced => raced'
    BY <1>2
  <2> HIDE DEF K
  <2>6. K \in SUBSET Cons
    BY DEF K
  <2> QED BY <1>0, <2>1, <2>2, <2>3, <2>4, <2>5, <2>6, ApartKept
<1> QED BY <1>7, <1>8, <1>9 DEF ConInv

\* A connection wakes, after the look that found no other awake.
LEMMA WakeSetKeeps ==
  ASSUME ConInv, NEW u \in Users, WakeSet(u)
  PROVE  ConInv'
<1>0. Types /\ Names /\ Apart /\ Linked \subseteq Cons /\ job[u].at = "wake"
  BY LinkedFacts DEF ConInv, WakeSet
<1>1. /\ UNCHANGED <<fixed, conList, rx, air>>
      /\ cons' = [cons EXCEPT ![job[u].con].sleepState = "awake"]
      /\ job' = [job EXCEPT ![u] = IF job[u].next = "tx"
                                   THEN [at |-> "tx", con |-> job[u].con] ELSE Idle]
      /\ raced' = (raced \/ Overlap(u))
  BY DEF WakeSet
<1>2. PICK c : c = job[u].con
  OBVIOUS
<1>3. c \in Cons
  <2>1. job[u] \in Jobs
    BY <1>0 DEF Types
  <2> QED BY <1>0, <1>2, <2>1 DEF Jobs, Idle
<1> DEFINE x == [cons[c] EXCEPT !.sleepState = "awake"]
           j == IF job[u].next = "tx" THEN [at |-> "tx", con |-> c] ELSE Idle
<1>4. /\ x \in ConRec /\ x.address = cons[c].address /\ x.named = cons[c].named
      /\ x.caught = cons[c].caught /\ x.settings = cons[c].settings
  <2>1. cons[c] \in ConRec
    BY <1>0, <1>3 DEF Types
  <2> QED BY <2>1 DEF ConRec
<1>5. cons' = [cons EXCEPT ![c] = x] /\ job' = [job EXCEPT ![u] = j]
  BY <1>0, <1>1, <1>2, <1>3 DEF Types
<1>6. j \in Jobs /\ j.at \notin {"wake", "link"}
  BY <1>3 DEF Jobs, Idle
<1> HIDE DEF x, j
<1>7. /\ cons' \in [Cons -> ConRec] /\ cons'[c] = x
      /\ \A d \in Cons : d # c => cons'[d] = cons[d]
  BY <1>0, <1>3, <1>4, <1>5, Change
<1>8. /\ job' \in [Users -> Jobs] /\ job'[u] = j /\ \A v \in Users : v # u => job'[v] = job[v]
      /\ Linked' = Linked
  BY <1>0, <1>1, <1>5, <1>6 DEF Types, Linked
<1>9. Types'
  BY <1>0, <1>1, <1>7, <1>8 DEF Types, fixed, Unaddressed
<1>10. Names'
  <2>1. NamesOf(x)
    BY <1>0, <1>3, <1>4 DEF Names, NamesOf
  <2>2. RxNames'
    <3>1. \A d \in Cons : cons'[d].named = cons[d].named /\ (cons[d].caught => cons'[d].caught)
      BY <1>4, <1>7
    <3> QED BY <1>0, <1>1, <3>1 DEF Names, RxNames, Types
  <2>3. \A v \in Users : job'[v].at = "link" => job'[v] = job[v]
    BY <1>6, <1>8
  <2> QED BY <1>0, <1>1, <1>3, <1>4, <1>5, <2>1, <2>2, <2>3, NamesChange
<1>11. Apart'
  <2>1. \A d \in Linked : d # c => cons'[d] = cons[d]
    BY <1>0, <1>7
  <2>2. ASSUME ~raced' PROVE /\ ~raced /\ rx'.con = NoCon
                             /\ \A v \in Users : job'[v].at \notin {"wake", "link"}
    <3>1. ~raced /\ Deciding \ {u} = {} /\ rx.at # "deliver"
      BY <1>1, <2>2 DEF Overlap
    <3>2. rx.con = NoCon
      BY <1>0, <3>1 DEF Types, RxRec
    <3> QED BY <1>1, <1>6, <1>8, <3>1, <3>2 DEF Deciding
  <2>3. ASSUME ~raced' PROVE ~cons'[c].caught => \A a : a = cons'[c].named => Free(a, c)
    <3>1. Alone(c)
      BY <1>0, <1>2, <2>2, <2>3 DEF Apart, JobApart
    <3> QED BY <1>4, <1>7, <3>1 DEF Alone
  <2> QED BY <1>0, <1>3, <1>8, <2>1, <2>2, <2>3, ApartGrown
<1> QED BY <1>9, <1>10, <1>11 DEF ConInv

\* What a packet says of its sender: nothing, or of a device all that the names of
\* the type's connections may hold.
Tells(a, d) ==
  IF d = 0 THEN Silent(a)
  ELSE /\ From1(a, d)
       /\ "64_NOTALLOW" \in conType.addressRules \/ a.addr64 = Addr64(d)
       /\ "16_NOTALLOW" \in conType.addressRules \/ a.addr16 = Addr16(d)

LEMMA FrameTells ==
  ASSUME Types, NEW f, Unaddressed(f), NEW d \in Devices \cup {0},
         Reads(From(d, f)).dataLen # NoPacket
  PROVE  Tells(Reads(From(d, f)).address, d)
<1> DEFINE g == From(d, f)
           n == CHOOSE k \in {2, 3, 7, 22, 30} :
                  RxFunc(mode, conType, [g EXCEPT !.len = k]).ret = "ENONE"
           h == [g EXCEPT !.len = n]
<1>1. Reads(g) = RxFunc(mode, conType, h)
  BY DEF Reads
<1>2. /\ {"id", "addr64", "addr16", "len"} \subseteq DOMAIN g /\ g.id = conType.rxId
      /\ g.addr64 = IF d = 0 THEN None ELSE Addr64(d)
      /\ g.addr16 = IF d = 0 THEN None ELSE Addr16(d)
  <2>1. CASE d = 0
    BY <2>1 DEF From, Unaddressed
  <2>2. CASE d # 0
    <3>1. g = [f EXCEPT !.addr64 = Addr64(d), !.addr16 = Addr16(d)]
      BY <2>2 DEF From
    <3> HIDE DEF g
    <3> QED BY <2>2, <3>1 DEF Unaddressed
  <2> QED BY <2>1, <2>2
<1> HIDE DEF g, n
<1>3. h.id = conType.rxId /\ h.addr64 = g.addr64 /\ h.addr16 = g.addr16
  BY <1>2
<1> HIDE DEF h
<1>4. ReadOf(conType.addressRules, Reads(g), h)
  BY <1>1, <1>3, AllReads DEF Types
<1>5. Reads(g).dataLen # NoPacket
  BY DEF g
<1>6. Tells(Reads(g).address, d)
  BY <1>2, <1>3, <1>4, <1>5 DEF ReadOf, Tells, From1, Silent
<1> QED BY <1>6 DEF g

\* The receive thread reads a frame and finds a connection.
LEMMA RxFrameKeeps ==
  ASSUME ConInv, NEW f, Unaddressed(f), NEW d \in Devices \cup {0}, RxFrame(f, d), air' \subseteq air
  PROVE  ConInv'
<1>0. Types /\ Names /\ Apart /\ Linked \subseteq Cons /\ NoCon \notin Cons
  BY LinkedFacts DEF ConInv
<1> DEFINE read == Reads(From(d, f))
           located == conLocate(read.address, {"snooze"})
<1>1. /\ UNCHANGED <<fixed, cons, conList, job, raced>> /\ read.dataLen # NoPacket
      /\ rx' = [at |-> IF located.con = NoCon THEN "wait" ELSE "deliver",
                address |-> [NoAddress EXCEPT !.addr64 = read.address.addr64,
                                              !.addr16 = read.address.addr16],
                con |-> located.con, device |-> d]
  BY DEF RxFrame
<1>2. Tells(read.address, d)
  BY <1>0, <1>1, FrameTells
<1>3. PICK a : a = read.address
  OBVIOUS
<1>4. PICK c : c = located.con
  OBVIOUS
<1>5. /\ c # NoCon =>
           /\ c \in Linked
           /\ AddressCmp(cons[c].address, a) \/ "catchAll" \in cons[c].settings
      /\ c # NoCon /\ located.how = "ENONE" => cons[c].sleepState = "awake"
      /\ located.how # "ENONE" =>
           \A e \in Linked : cons[e].sleepState = "awake" => ~AddressCmp(cons[e].address, a)
  BY <1>0, <1>3, <1>4, Located DEF Types
<1>6. PICK b : b = [NoAddress EXCEPT !.addr64 = a.addr64, !.addr16 = a.addr16]
  OBVIOUS
<1>7. /\ rx'.at = (IF c = NoCon THEN "wait" ELSE "deliver") /\ rx'.address = b
      /\ rx'.con = c /\ rx'.device = d
      /\ rx' = [at |-> IF c = NoCon THEN "wait" ELSE "deliver", address |-> b, con |-> c,
                device |-> d]
  BY <1>1, <1>3, <1>4, <1>6
<1> HIDE DEF located, read
<1>8. Tells(a, d)
  BY <1>2, <1>3
<1>9. a.addr64 \in Nat /\ a.addr16 \in Nat
  BY <1>8, DevicesDiffer DEF Tells, From1, Silent, None
<1>10. b \in Address /\ b.addr64 = a.addr64 /\ b.addr16 = a.addr16
  <2>1. NoAddress \in Address
    BY DEF NoAddress, Address, None, NoEndpoints
  <2> QED BY <1>6, <1>9, <2>1 DEF Address
<1>11. ASSUME c # NoCon, ~cons[c].caught
       PROVE  /\ NamesOf(cons[c]) /\ AddressCmp(cons[c].address, a)
              /\ SomeAddress(cons[c].address, a)
  <2>1. NamesOf(cons[c])
    BY <1>0, <1>5, <1>11 DEF Names
  <2>2. AddressCmp(cons[c].address, a)
    BY <1>5, <1>11, <2>1 DEF NamesOf
  <2> QED BY <2>1, <2>2, CmpParts
<1>12. Types'
  <2>1. rx' \in RxRec /\ (rx'.at = "wait" => rx'.con = NoCon)
    BY <1>0, <1>5, <1>7, <1>10 DEF RxRec
  <2>2. Linked' = Linked /\ rx'.con \in Linked' \cup {NoCon}
    BY <1>1, <1>5, <1>7 DEF Linked
  <2> QED BY <1>0, <1>1, <2>1, <2>2 DEF Types, fixed, Unaddressed
<1>13. Names'
  <2>1. ASSUME c # NoCon, ~cons[c].caught
        PROVE  \/ Silent(b) /\ Silent(cons[c].named)
               \/ d \in Devices /\ OfDevice(cons[c].named, d) /\ From1(b, d)
    <3>1. NamesOf(cons[c]) /\ SomeAddress(cons[c].address, a)
      BY <1>11, <2>1
    <3>2. CASE Silent(cons[c].named) /\ Silent(cons[c].address)
      BY <1>10, <3>1, <3>2 DEF SomeAddress, Silent
    <3>3. CASE \E e \in Devices : OfDevice(cons[c].named, e) /\ OfDevice(cons[c].address, e)
      <4>1. PICK e \in Devices : OfDevice(cons[c].named, e) /\ OfDevice(cons[c].address, e)
        BY <3>3
      <4>2. ~Silent(a)
        BY <3>1, <4>1 DEF SomeAddress, OfDevice, Silent
      <4>3. d # 0 /\ d \in Devices /\ From1(a, d)
        BY <1>8, <4>2 DEF Tells
      <4>4. e = d
        BY <3>1, <4>1, <4>3, DevicesDiffer DEF SomeAddress, OfDevice, From1, Silent
      <4> QED BY <1>10, <4>1, <4>3, <4>4 DEF From1
    <3> QED BY <2>1, <3>1, <3>2, <3>3 DEF NamesOf
  <2>2. RxNames'
    BY <1>1, <1>7, <2>1 DEF RxNames, Silent, OfDevice, From1
  <2>3. ASSUME NEW e \in Cons PROVE NamesOf(cons[e])'
    <3>1. SUFFICES ASSUME NEW x, x = cons[e] PROVE NamesOf(x)'
      BY <1>1 DEF NamesOf, NameAllowed
    <3> QED BY <1>0, <1>1, <3>1, SameRules DEF Names
  <2>4. conType' = conType /\ Addresses' = Addresses
    BY <1>1, SameRules DEF fixed
  <2> QED BY <1>0, <1>1, <2>2, <2>3, <2>4 DEF Names
<1>14. Apart'
  <2>1. ASSUME c # NoCon, ~raced PROVE Alone(c)
    <3>1. SUFFICES ASSUME ~cons[c].caught PROVE Free(cons[c].named, c)
      BY DEF Alone
    <3>2. CASE located.how = "ENONE"
      BY <1>0, <1>5, <2>1, <3>1, <3>2 DEF Apart, Awake, Alone
    <3>3. CASE located.how # "ENONE"
      <4>1. SUFFICES ASSUME NEW e \in Linked, e # c, Awake(e),
                            AddressCmp(cons[c].named, cons[e].named)
                     PROVE  FALSE
        BY DEF Free
      <4>2. NamesOf(cons[e]) /\ ~cons[e].caught /\ cons[e].sleepState = "awake"
        BY <1>0, <4>1 DEF Names, Awake
      <4>3. NamesOf(cons[c]) /\ AddressCmp(cons[c].address, a)
        BY <1>11, <2>1, <3>1
      <4>4. AddressCmp(cons[e].named, a)
        <5>1. \/ Silent(a)
              \/ \E g \in Devices :
                   /\ From1(a, g)
                   /\ "64_NOTALLOW" \in conType.addressRules \/ a.addr64 = Addr64(g)
                   /\ "16_NOTALLOW" \in conType.addressRules \/ a.addr16 = Addr16(g)
          BY <1>8 DEF Tells
        <5> QED BY <3>1, <4>1, <4>2, <4>3, <5>1, MatchesToo
      <4>5. AddressCmp(cons[e].address, a)
        BY <4>2, <4>4, NamesMatch
      <4> QED BY <1>5, <3>3, <4>1, <4>2, <4>5
    <3> QED BY <3>2, <3>3
  <2>2. \A v \in Users : \A k : k = job'[v] =>
          /\ ~raced => JobApart(k)
          /\ k.at = "wake" => k.con \in Cons
    BY <1>0, <1>1, JobsStay
  <2>3. \A e : e = rx'.con /\ e # NoCon => e \in Cons /\ (~raced => Alone(e))
    BY <1>0, <1>5, <1>7, <2>1
  <2>4. Linked' \subseteq Linked \cap Cons
    BY <1>0, <1>1 DEF Linked
  <2>5. (raced => raced') /\ cons' = cons
    BY <1>1
  <2> QED BY <1>0, <2>2, <2>3, <2>4, <2>5, ApartKept
<1> QED BY <1>12, <1>13, <1>14 DEF ConInv

LEMMA Learnt ==
  ASSUME NEW y \in Address, NEW a \in Address
  PROVE  LET z == Learned(y, a) IN
         /\ z \in Address /\ z.endpoints = y.endpoints
         /\ z.profile = y.profile /\ z.cluster = y.cluster
         /\ z.addr64 = y.addr64 \/ (y.addr64 = None /\ z.addr64 = a.addr64)
         /\ z.addr16 = y.addr16 \/ (y.addr16 = None /\ z.addr16 = a.addr16)
<1> DEFINE n64 == IF y.addr64 = None /\ conType.save_addr64 THEN a.addr64 ELSE y.addr64
           n16 == IF y.addr16 = None /\ conType.save_addr16 THEN a.addr16 ELSE y.addr16
           z == [y EXCEPT !.addr16 = n16, !.addr64 = n64]
<1>1. Learned(y, a) = z
  BY DEF Learned, Address
<1>2. /\ n64 \in Nat /\ n16 \in Nat
      /\ n64 = y.addr64 \/ (y.addr64 = None /\ n64 = a.addr64)
      /\ n16 = y.addr16 \/ (y.addr16 = None /\ n16 = a.addr16)
  BY DEF Address
<1> HIDE DEF n64, n16
<1>3. /\ z \in Address /\ z.endpoints = y.endpoints
      /\ z.profile = y.profile /\ z.cluster = y.cluster /\ z.addr64 = n64 /\ z.addr16 = n16
  BY <1>2 DEF Address
<1> HIDE DEF z
<1> QED BY <1>1, <1>2, <1>3

\* The packet reaches its connection, which wakes and learns.
LEMMA RxDeliverKeeps ==
  ASSUME ConInv, RxDeliver
  PROVE  ConInv'
<1>0. Types /\ Names /\ Apart /\ Linked \subseteq Cons /\ NoCon \notin Cons
  BY LinkedFacts DEF ConInv
<1>1. UNCHANGED <<fixed, conList, job, air>> /\ rx' = Waiting
  BY DEF RxDeliver
<1>2. rx' \in RxRec /\ rx'.con = NoCon
  BY <1>1 DEF Waiting, RxRec, NoAddress, Address, None, NoEndpoints
<1>3. RxNames' /\ Linked' = Linked /\ conType' = conType
  BY <1>1, <1>2 DEF RxNames, Linked, fixed
<1>4. \A v \in Users : \A k : k = job'[v] =>
        /\ ~raced => JobApart(k)
        /\ k.at = "wake" => k.con \in Cons
  BY <1>0, <1>1, JobsStay
<1>5. CASE rx.con = NoCon
  <2>1. UNCHANGED <<cons, raced>>
    BY <1>5 DEF RxDeliver
  <2>2. Types'
    BY <1>0, <1>1, <1>2, <1>3, <2>1 DEF Types, fixed, Unaddressed
  <2>3. Names'
    <3>1. ASSUME NEW e \in Cons PROVE NamesOf(cons[e])'
      <4>1. SUFFICES ASSUME NEW x, x = cons[e] PROVE NamesOf(x)'
        BY <2>1 DEF NamesOf, NameAllowed
      <4> QED BY <1>0, <1>1, <4>1, SameRules DEF Names
    <3>2. Addresses' = Addresses
      BY <1>1, SameRules
    <3> QED BY <1>0, <1>1, <1>3, <3>1, <3>2 DEF Names
  <2>4. Apart'
    BY <1>0, <1>2, <1>3, <1>4, <2>1, ApartKept
  <2> QED BY <2>2, <2>3, <2>4 DEF ConInv
<1>6. CASE rx.con # NoCon
  <2>1. PICK c : c = rx.con
    OBVIOUS
  <2>2. c \in Linked /\ c \in Cons /\ cons[c] \in ConRec /\ NamesOf(cons[c]) /\ rx.address \in Address
    BY <1>0, <1>6, <2>1 DEF Types, RxRec, Names
  <2>3. PICK z : z = Learned(cons[c].address, rx.address)
    OBVIOUS
  <2> DEFINE y == cons[c].address
             x == [cons[c] EXCEPT !.sleepState = "awake", !.address = z]
  <2>4. /\ z \in Address /\ z.endpoints = y.endpoints
        /\ z.profile = y.profile /\ z.cluster = y.cluster
        /\ z.addr64 = y.addr64 \/ (y.addr64 = None /\ z.addr64 = rx.address.addr64)
        /\ z.addr16 = y.addr16 \/ (y.addr16 = None /\ z.addr16 = rx.address.addr16)
    <3>1. y \in Address
      BY <2>2 DEF ConRec
    <3> QED BY <2>2, <2>3, <3>1, Learnt
  <2>5. /\ cons' = [cons EXCEPT ![c] = x]
        /\ raced' = (raced \/ (cons[c].sleepState # "awake" /\ Deciding # {}))
    <3>1. cons' = [cons EXCEPT ![c].sleepState = "awake", ![c].address = Learned(@, rx.address)]
      BY <1>6, <2>1 DEF RxDeliver
    <3> QED BY <1>0, <1>6, <2>1, <2>2, <2>3, <3>1 DEF RxDeliver, Types, ConRec
  <2>6. /\ x \in ConRec /\ x.address = z /\ x.named = cons[c].named /\ x.caught = cons[c].caught
        /\ x.settings = cons[c].settings
    BY <2>2, <2>4 DEF ConRec
  <2> HIDE DEF x
  <2>7. NamesOf(x)
    <3>1. ASSUME ~cons[c].caught
          PROVE  \/ Silent(cons[c].named) /\ Silent(z)
                 \/ \E d \in Devices : OfDevice(cons[c].named, d) /\ OfDevice(z, d)
      <4>1. CASE Silent(rx.address) /\ Silent(cons[c].named)
        <5>1. Silent(y)
          BY <2>2, <3>1, <4>1 DEF NamesOf, OfDevice
        <5> QED BY <2>4, <4>1, <5>1 DEF Silent
      <4>2. CASE rx.device \in Devices /\ OfDevice(cons[c].named, rx.device)
                 /\ From1(rx.address, rx.device)
        <5>1. PICK e \in Devices : OfDevice(cons[c].named, e) /\ OfDevice(y, e)
          BY <2>2, <3>1, <4>2 DEF NamesOf, OfDevice
        <5>2. e = rx.device
          BY <4>2, <5>1, DevicesDiffer DEF OfDevice, From1, Silent
        <5>3. OfDevice(z, e)
          BY <2>4, <4>2, <5>1, <5>2 DEF OfDevice, From1, Silent
        <5> QED BY <5>1, <5>3
      <4> QED BY <1>0, <1>6, <2>1, <3>1, <4>1, <4>2 DEF Names, RxNames
    <3>2. /\ x.named.addr64 # None => z.addr64 = x.named.addr64
          /\ x.named.addr16 # None => z.addr16 = x.named.addr16
      BY <2>2, <2>4, <2>6 DEF NamesOf
    <3> QED BY <2>2, <2>4, <2>6, <3>1, <3>2 DEF NamesOf
  <2>8. /\ cons' \in [Cons -> ConRec] /\ cons'[c] = x
        /\ \A d \in Cons : d # c => cons'[d] = cons[d]
    BY <1>0, <2>2, <2>5, <2>6, Change
  <2>9. Types'
    BY <1>0, <1>1, <1>2, <1>3, <2>8 DEF Types, fixed, Unaddressed
  <2>10. Names'
    BY <1>0, <1>1, <1>3, <2>2, <2>5, <2>6, <2>7, NamesChange
  <2>11. Apart'
    <3>1. CASE cons[c].sleepState = "awake"
      <4>1. \A d \in Cons : /\ cons'[d].named = cons[d].named
                            /\ cons[d].caught => cons'[d].caught
                            /\ cons'[d].sleepState = "awake" => cons[d].sleepState = "awake"
        BY <2>6, <2>8, <3>1
      <4> QED BY <1>0, <1>2, <1>3, <1>4, <2>5, <4>1, ApartKept
    <3>2. CASE cons[c].sleepState # "awake"
      <4>1. \A d \in Linked : d # c => cons'[d] = cons[d]
        BY <1>0, <2>8
      <4>2. ASSUME ~raced' PROVE /\ ~raced /\ rx'.con = NoCon
                                 /\ \A v \in Users : job'[v].at \notin {"wake", "link"}
        BY <1>1, <1>2, <2>5, <3>2, <4>2 DEF Deciding
      <4>3. ASSUME ~raced' PROVE ~cons'[c].caught => \A a : a = cons'[c].named => Free(a, c)
        BY <1>0, <1>6, <2>1, <2>6, <2>8, <4>2, <4>3 DEF Apart, Alone
      <4> QED BY <1>0, <1>3, <2>2, <4>1, <4>2, <4>3, ApartGrown
    <3> QED BY <3>1, <3>2
  <2> QED BY <2>9, <2>10, <2>11 DEF ConInv
<1> QED BY <1>5, <1>6
-----------------------------------------------------------------------------
(***************************************************************************)
(* The theorems.                                                            *)
(***************************************************************************)
LEMMA ConStarts == Init => ConInv
<1> SUFFICES ASSUME Init PROVE ConInv
  OBVIOUS
<1>1. NoAddress \in Address /\ Silent(NoAddress) /\ NameAllowed(NoAddress)
  BY DEF NoAddress, Address, Silent, None, NoEndpoints, NameAllowed
<1>2. NewCon(NoAddress) \in ConRec /\ NamesOf(NewCon(NoAddress))
  BY <1>1, NewConFacts
<1>3. Linked = {}
  BY DEF Init, Linked
<1>4. rx \in RxRec /\ rx.con = NoCon
  BY <1>1 DEF Init, Waiting, RxRec
<1>5. Idle \in Jobs /\ Idle.at = "idle"
  BY DEF Jobs, Idle
<1>6. cons \in [Cons -> ConRec] /\ \A c \in Cons : NamesOf(cons[c])
  BY <1>2 DEF Init
<1>7. job \in [Users -> Jobs] /\ \A u \in Users : job[u].at = "idle"
  BY <1>5 DEF Init
<1>8. Types
  BY <1>3, <1>4, <1>6, <1>7 DEF Init, Types
<1>9. Names
  BY <1>4, <1>6, <1>7 DEF Names, RxNames
<1>10. Apart
  BY <1>3, <1>4, <1>7 DEF Apart, JobApart
<1> QED BY <1>8, <1>9, <1>10 DEF ConInv

\* What the devices send, of their own or in answer.
LEMMA RxKeeps ==
  ASSUME ConInv, (\E r \in air : RxReply(r)) \/ (\E d \in Devices : RxOther(d))
  PROVE  ConInv'
<1>1. ASSUME NEW r \in air, RxReply(r) PROVE ConInv'
  <2>1. Unaddressed(r.frame) /\ r.device \in Devices \cup {0}
    BY DEF ConInv, Types
  <2>2. RxFrame(r.frame, r.device) /\ air' \subseteq air
    BY <1>1 DEF RxReply
  <2> QED BY <2>1, <2>2, RxFrameKeeps
<1>2. ASSUME NEW d \in Devices, RxOther(d) PROVE ConInv'
  <2>1. PICK f \in Unsolicited(d) : RxFrame(f, d) /\ UNCHANGED air
    BY <1>2 DEF RxOther
  <2>2. Unaddressed(f)
    <3>2. Unaddressed([Frame EXCEPT !.id = conType.rxId])
      BY DEF Unaddressed, Frame
    <3> DEFINE g == [Frame EXCEPT !.id = conType.rxId]
               E == {<<DataEndpoints, DefaultProfile, DefaultCluster>>,
                     <<<<9, 8>>, DefaultProfile, DefaultCluster>>, <<<<9, 8>>, 7, 6>>}
    <3>3. f = g \/ \E e \in E : f = [g EXCEPT !.endpoints = e[1], !.profile = e[2], !.cluster = e[3]]
      <4> HIDE DEF E
      <4> QED BY <2>1 DEF Unsolicited, E
    <3> HIDE DEF E
    <3>4. CASE f = g
      BY <3>2, <3>4
    <3>5. CASE \E e \in E : f = [g EXCEPT !.endpoints = e[1], !.profile = e[2], !.cluster = e[3]]
      <4>1. PICK e \in E : f = [g EXCEPT !.endpoints = e[1], !.profile = e[2], !.cluster = e[3]]
        BY <3>5
      <4> QED BY <4>1 DEF Unaddressed, Frame
    <3> QED BY <3>3, <3>4, <3>5
  <2> QED BY <2>1, <2>2, RxFrameKeeps
<1> QED BY <1>1, <1>2

LEMMA ConStutters == ConInv /\ UNCHANGED vars => ConInv'
<1> SUFFICES ASSUME ConInv, UNCHANGED vars PROVE ConInv'
  OBVIOUS
<1>0. Types /\ Names /\ Apart
  BY DEF ConInv
<1>1. UNCHANGED <<mode, conType, cons, conList, job, rx, air, raced>>
  BY DEF vars
<1>2. Linked' = Linked /\ UNCHANGED fixed /\ Addresses' = Addresses
  BY <1>1, SameRules DEF Linked, fixed
<1>3. Types'
  BY <1>0, <1>1, <1>2 DEF Types, Unaddressed
<1>4. Names'
  BY <1>0, <1>1, <1>2, NamesStay DEF Names
<1>5. Apart'
  BY <1>0, <1>1, <1>2 DEF Apart, JobApart, Alone, Free, Awake
<1> QED BY <1>3, <1>4, <1>5 DEF ConInv

LEMMA ConStep == ConInv /\ [Next]_vars => ConInv'
<1> SUFFICES ASSUME ConInv, [Next]_vars PROVE ConInv'
  OBVIOUS
<1>1. ASSUME NEW u \in Users, ConNew(u) \/ ConLink(u) \/ WakeSet(u) PROVE ConInv'
  BY <1>1, ConNewKeeps, ConLinkKeeps, WakeSetKeeps
<1>2. ASSUME NEW u \in Users, NEW c \in Linked,
             ConEnd(u, c) \/ ConSettings(u, c) \/ ConnTx(u, c) \/ ConnTxFails(u, c)
      PROVE  ConInv'
  BY <1>2, ConEndKeeps, ConSettingsKeeps, TxKeeps
<1>3. ASSUME NEW u \in Users, NEW c \in Linked, NEW s \in {"snooze", "sleep"}, SleepSet(u, c, s)
      PROVE  ConInv'
  BY <1>3, SleepSetKeeps
<1>4. ASSUME NEW u \in Users, NEW c \in Linked, NEW next \in {"set", "tx"}, WakeLook(u, c, next)
      PROVE  ConInv'
  BY <1>4, WakeLookKeeps
<1>5. CASE (\E r \in air : RxReply(r)) \/ (\E d \in Devices : RxOther(d))
  BY <1>5, RxKeeps
<1>6. CASE RxDeliver
  BY <1>6, RxDeliverKeeps
<1>7. CASE UNCHANGED vars
  BY <1>7, ConStutters
<1> QED BY <1>1, <1>2, <1>3, <1>4, <1>5, <1>6, <1>7 DEF Next

LEMMA ConAlways == Spec => []ConInv
<1> QED BY ConStarts, ConStep, PTL DEF Spec

\* For any number of devices, threads and connections, of any type of any mode: as
\* long as no two steps that wake a connection overlapped, the connections that are
\* awake were created for addresses that do not match (_xbee_conNew, xbee_conWake,
\* and the wake of xbee_rxHandler), whatever they have learnt since.
THEOREM AwakeStayDistinct == Spec => []AwakeAreDistinct
<1>1. ConInv => AwakeAreDistinct
  <2> SUFFICES ASSUME ConInv, NEW c \in Linked, NEW d \in Linked, ~raced, c # d,
                      Awake(c), Awake(d)
               PROVE  ~AddressCmp(cons[c].named, cons[d].named)
    BY DEF AwakeAreDistinct, Awake
  <2> QED BY DEF ConInv, Apart, Awake, Alone, Free
<1> QED BY <1>1, ConAlways, PTL

\* What a connection learns from packets (the save_addr flags of xbee_rxHandler) is
\* the other address of the device it was created for, as long as it has not been a
\* catch-all: a frame it sends never carries the addresses of two devices.
THEOREM LearnsOwnDevice == Spec => []LearnsItsOwnDevice
<1>1. ConInv => LearnsItsOwnDevice
  <2> SUFFICES ASSUME ConInv, NEW c \in Cons, ~cons[c].caught PROVE AddressesOfOneDevice(c)
    BY DEF LearnsItsOwnDevice
  <2>1. \/ Silent(cons[c].address)
        \/ \E d \in Devices : OfDevice(cons[c].address, d)
    BY DEF ConInv, Names, NamesOf
  <2> QED BY <2>1 DEF AddressesOfOneDevice, Silent, OfDevice, From1
<1> QED BY <1>1, ConAlways, PTL

\* A packet the receive thread is about to deliver (_xbee_conLocate) is of the
\* device its connection was created for, unless that has been a catch-all.
THEOREM PacketsReachAddressee == Spec => []DeliveredToAddressee
<1>1. ConInv => DeliveredToAddressee
  <2> SUFFICES ASSUME ConInv, rx.con # NoCon, rx.device # 0, ~cons[rx.con].caught,
                      cons[rx.con].named.addr64 # None \/ cons[rx.con].named.addr16 # None
               PROVE  rx.device \in NamedDevices(rx.con)
    BY DEF DeliveredToAddressee
  <2>1. rx.device \in Devices /\ OfDevice(cons[rx.con].named, rx.device)
    BY DEF ConInv, Names, RxNames, Silent
  <2> QED BY <2>1 DEF NamedDevices, OfDevice, From1, Silent
<1> QED BY <1>1, ConAlways, PTL

-----------------------------------------------------------------------------
(***************************************************************************)
(* What the txHandlers write of a connection's service, and the rxHandlers  *)
(* read back.                                                               *)
(***************************************************************************)
\* The name, the rules and the flags of a type go together: packets without a
\* service are taken for connections without one, and local commands for connections
\* without an address.
Sorted(t) ==
  \/ t.name \notin {"Data (explicit)", "Local AT"} /\ "EP_NOTALLOW" \in t.addressRules
  \/ t.name = "Data (explicit)" /\ "EP_NOTALLOW" \notin t.addressRules
  \/ /\ t.name = "Local AT"
     /\ {"64_NOTALLOW", "16_NOTALLOW", "EP_NOTALLOW"} \subseteq t.addressRules
     /\ ~t.save_addr16 /\ ~t.save_addr64

LEMMA TypeRules ==
  ASSUME NEW m \in Modes, NEW t \in ConTypes(m)
  PROVE  Sorted(t) /\ (m = "xbee1" => t.name # "Data (explicit)")
<1>1. Sorted(s1_modemStatus) /\ s1_modemStatus.name # "Data (explicit)"
  BY DEF s1_modemStatus, ConType, Sorted, ADDR_NONE
<1>2. Sorted(s1_transmitStatus) /\ s1_transmitStatus.name # "Data (explicit)"
  BY DEF s1_transmitStatus, ConType, Sorted, ADDR_NONE
<1>3. Sorted(s1_localAt) /\ s1_localAt.name # "Data (explicit)"
  BY DEF s1_localAt, ConType, Sorted, ADDR_NONE
<1>4. Sorted(s1_remoteAt) /\ s1_remoteAt.name # "Data (explicit)"
  BY DEF s1_remoteAt, ConType, Sorted, ADDR_16XOR64_NOEP
<1>5. Sorted(s1_16bitData) /\ s1_16bitData.name # "Data (explicit)"
  BY DEF s1_16bitData, ConType, Sorted, ADDR_16_ONLY
<1>6. Sorted(s1_64bitData) /\ s1_64bitData.name # "Data (explicit)"
  BY DEF s1_64bitData, ConType, Sorted, ADDR_64_ONLY
<1>7. Sorted(s1_16bitIo) /\ s1_16bitIo.name # "Data (explicit)"
  BY DEF s1_16bitIo, ConType, Sorted, ADDR_16_ONLY
<1>8. Sorted(s1_64bitIo) /\ s1_64bitIo.name # "Data (explicit)"
  BY DEF s1_64bitIo, ConType, Sorted, ADDR_64_ONLY
<1>9. Sorted(s2_transmitStatus)
  BY DEF s2_transmitStatus, s1_transmitStatus, ConType, Sorted, ADDR_NONE
<1>10. Sorted(s2_remoteAt)
  BY DEF s2_remoteAt, s1_remoteAt, ConType, Sorted, ADDR_64_16OPT_NOEP
<1>11. Sorted(s2_data)
  BY DEF s2_data, ConType, Sorted, ADDR_64_16OPT_NOEP
<1>12. Sorted(s2_dataExp)
  BY DEF s2_dataExp, s2_data, ConType, Sorted, ADDR_64_16OPT_EP
<1>13. Sorted(s2_io)
  BY DEF s2_io, ConType, Sorted, ADDR_16OR64_NOEP
<1>14. Sorted(s2_sensor)
  BY DEF s2_sensor, s2_io, ConType, Sorted, ADDR_16OR64_NOEP
<1>15. Sorted(s2_identify)
  BY DEF s2_identify, ConType, Sorted, ADDR_NONE
<1>16. Sorted(sZB_localAt)
  BY DEF sZB_localAt, s2_localAt, s1_localAt, ConType, Sorted, ADDR_NONE
<1>17. Sorted(sZB_remoteAt)
  BY DEF sZB_remoteAt, s2_remoteAt, s1_remoteAt, ConType, Sorted, ADDR_64_16OPT_NOEP
<1>18. Sorted(sZB_dataExp)
  BY DEF sZB_dataExp, s2_dataExp, s2_data, ConType, Sorted, ADDR_64_16OPT_EPOPT
<1>19. Sorted(sZB_ota)
  BY DEF sZB_ota, s2_io, ConType, Sorted, ADDR_16OR64_NOEP
<1>20. Sorted(s5_remoteAt)
  BY DEF s5_remoteAt, s1_remoteAt, ConType, Sorted, ADDR_64_ONLY
<1>21. Sorted(s5_data)
  BY DEF s5_data, s2_data, ConType, Sorted, ADDR_64_ONLY
<1>22. Sorted(s5_dataExp)
  BY DEF s5_dataExp, s2_dataExp, s2_data, ConType, Sorted
<1>23. CASE m = "xbee1"
  BY <1>1, <1>2, <1>3, <1>4, <1>5, <1>6, <1>7, <1>8, <1>23 DEF ConTypes, s1_conTypes
<1>24. CASE m = "xbee2"
  BY <1>1, <1>2, <1>3, <1>4, <1>5, <1>6, <1>7, <1>8, <1>9, <1>10, <1>11, <1>12, <1>13, <1>14, <1>15, <1>16, <1>17, <1>18, <1>19, <1>20, <1>21, <1>22, <1>24 DEF ConTypes, s2_conTypes, s2_modemStatus, s2_localAt
<1>25. CASE m = "xbeeZB"
  BY <1>1, <1>2, <1>3, <1>4, <1>5, <1>6, <1>7, <1>8, <1>9, <1>10, <1>11, <1>12, <1>13, <1>14, <1>15, <1>16, <1>17, <1>18, <1>19, <1>20, <1>21, <1>22, <1>25 DEF ConTypes, sZB_conTypes, sZB_modemStatus, sZB_transmitStatus,
     sZB_data, sZB_io, sZB_sensor, sZB_identify, s2_modemStatus
<1>26. CASE m = "xbee5"
  BY <1>1, <1>2, <1>3, <1>4, <1>5, <1>6, <1>7, <1>8, <1>9, <1>10, <1>11, <1>12, <1>13, <1>14, <1>15, <1>16, <1>17, <1>18, <1>19, <1>20, <1>21, <1>22, <1>26 DEF ConTypes, s5_conTypes, s5_modemStatus, s5_transmitStatus,
     s5_localAt, s5_identify, s2_identify
<1> QED BY <1>23, <1>24, <1>25, <1>26 DEF Modes

\* What the explicit txHandlers write of a connection's service.
ServiceSent(m, f, a) ==
  /\ f.endpoints = EndpointsOf(a)
  /\ m = "xbeeZB" => f.profile = ProfileOf(a) /\ f.cluster = ClusterOf(a)
  /\ m = "xbee5" =>
       /\ f.cluster = ClusterOf(a)
       /\ f.profile = (IF a.cluster # None THEN a.profile ELSE DefaultProfile)

LEMMA ExplicitSends ==
  ASSUME NEW id, NEW n, NEW a, NEW settings, NEW len
  PROVE  /\ LET sent == s2_dataExp_tx(id, n, a, settings, len) IN
              sent.ret = "ENONE" => ServiceSent("xbee2", sent.frame, a)
         /\ LET sent == sZB_dataExp_tx(id, n, a, settings, len) IN
              sent.ret = "ENONE" => ServiceSent("xbeeZB", sent.frame, a)
         /\ LET sent == s5_dataExp_tx(id, n, a, settings, len) IN
              sent.ret = "ENONE" => ServiceSent("xbee5", sent.frame, a)
<1>1. \A f : Sends(f).ret = "ENONE" /\ Sends(f).frame = f
  BY DEF Sends
<1>2. Fails("ELENGTH").ret # "ENONE" /\ Fails("EINVAL").ret # "ENONE"
  BY DEF Fails
<1> DEFINE F2 == ToDevice([Frame EXCEPT !.id = id, !.frameId = n, !.len = 20 + len,
                                    !.endpoints = EndpointsOf(a),
                                    !.cluster = DefaultCluster, !.profile = DefaultProfile,
                                    !.options = settings \cap {"broadcast"}], a, settings)
           s2 == s2_dataExp_tx(id, n, a, settings, len)
           sZB == sZB_dataExp_tx(id, n, a, settings, len)
           s5 == s5_dataExp_tx(id, n, a, settings, len)
<1>3. s2.ret = "ENONE" => s2 = Sends(F2)
  <2> HIDE DEF F2
  <2>1. s2 = IF len > 72 THEN Fails("ELENGTH") ELSE IF a.addr64 = None THEN Fails("EINVAL")
             ELSE Sends(F2)
    BY DEF s2_dataExp_tx, F2
  <2> HIDE DEF s2
  <2> QED BY <1>2, <2>1
<1>4. /\ F2.endpoints = EndpointsOf(a)
      /\ {"endpoints", "cluster", "profile", "options"} \subseteq DOMAIN F2
  BY DEF ToDevice, Frame
<1> HIDE DEF F2
<1>5. s2.ret = "ENONE" => ServiceSent("xbee2", s2.frame, a)
  BY <1>1, <1>3, <1>4 DEF ServiceSent
<1>6. sZB.ret = "ENONE" => ServiceSent("xbeeZB", sZB.frame, a)
  <2> SUFFICES ASSUME sZB.ret = "ENONE" PROVE ServiceSent("xbeeZB", sZB.frame, a)
    OBVIOUS
  <2>1. s2.ret = "ENONE"
    BY DEF sZB_dataExp_tx
  <2>2. s2 = Sends(F2)
    BY <1>3, <2>1
  <2>3. sZB = [s2 EXCEPT !.frame.cluster = ClusterOf(a), !.frame.profile = ProfileOf(a),
                         !.frame.options = ZBOptions(settings)]
    BY <2>1 DEF sZB_dataExp_tx
  <2> HIDE DEF s2, sZB
  <2>4. sZB.frame = [F2 EXCEPT !.cluster = ClusterOf(a), !.profile = ProfileOf(a),
                               !.options = ZBOptions(settings)]
    BY <2>2, <2>3 DEF Sends
  <2>5. /\ sZB.frame.endpoints = F2.endpoints /\ sZB.frame.cluster = ClusterOf(a)
        /\ sZB.frame.profile = ProfileOf(a)
    BY <1>4, <2>4
  <2> QED BY <1>4, <2>5 DEF ServiceSent
<1>7. s5.ret = "ENONE" => ServiceSent("xbee5", s5.frame, a)
  <2> DEFINE F5 == S5ToDevice([Frame EXCEPT !.id = id, !.frameId = n, !.len = 20 + len,
                                      !.endpoints = EndpointsOf(a),
                                      !.cluster = ClusterOf(a),
                                      !.profile = IF a.cluster # None THEN a.profile
                                                  ELSE DefaultProfile], a, settings)
  <2>1. s5.ret = "ENONE" => s5 = Sends(F5)
    <3> HIDE DEF F5
    <3>1. s5 = IF len > 72 THEN Fails("ELENGTH") ELSE IF a.addr64 = None THEN Fails("EINVAL")
               ELSE Sends(F5)
      BY DEF s5_dataExp_tx, F5
    <3> HIDE DEF s5
    <3> QED BY <1>2, <3>1
  <2>2. /\ F5.endpoints = EndpointsOf(a) /\ F5.cluster = ClusterOf(a)
        /\ F5.profile = IF a.cluster # None THEN a.profile ELSE DefaultProfile
    BY DEF S5ToDevice, Frame
  <2> HIDE DEF F5
  <2> QED BY <1>1, <2>1, <2>2 DEF ServiceSent
<1> QED BY <1>5, <1>6, <1>7

LEMMA ExplicitTypes ==
  ASSUME NEW m \in Modes, NEW t \in ConTypes(m), t.name = "Data (explicit)"
  PROVE  /\ \A f : ServiceRead(RxFunc(m, t, f), f, m # "xbee2")
         /\ \A a, settings :
              LET sent == TxFunc(m, t, 1, a, settings, 2) IN
              sent.ret = "ENONE" => ServiceSent(m, sent.frame, a)
<1>1. m # "xbee1" /\ "EP_NOTALLOW" \notin t.addressRules
  BY TypeRules DEF Sorted
<1>2. CASE m = "xbee2"
  <2>1. \A f : RxFunc(m, t, f) = s2_dataExp_rx(f)
    BY <1>2 DEF RxFunc, s2_rx
  <2>2. \A a, settings : TxFunc(m, t, 1, a, settings, 2) = s2_dataExp_tx(t.txId, 1, a, settings, 2)
    BY <1>2 DEF TxFunc
  <2>3. (m # "xbee2") = FALSE
    BY <1>2
  <2> QED BY <1>1, <1>2, <2>1, <2>2, <2>3, ExplicitReads, ExplicitSends
<1>3. CASE m = "xbeeZB"
  <2>1. \A f : RxFunc(m, t, f) = sZB_dataExp_rx(f)
    BY <1>3 DEF RxFunc, sZB_rx
  <2>2. \A a, settings : TxFunc(m, t, 1, a, settings, 2) = sZB_dataExp_tx(t.txId, 1, a, settings, 2)
    BY <1>3 DEF TxFunc
  <2>3. (m # "xbee2") = TRUE
    BY <1>3
  <2> QED BY <1>1, <1>3, <2>1, <2>2, <2>3, ExplicitReads, ExplicitSends
<1>4. CASE m = "xbee5"
  <2>1. \A f : RxFunc(m, t, f) = s5_dataExp_rx(f)
    BY <1>4 DEF RxFunc, s5_rx
  <2>2. \A a, settings : TxFunc(m, t, 1, a, settings, 2) = s5_dataExp_tx(t.txId, 1, a, settings, 2)
    BY <1>4 DEF TxFunc
  <2>3. (m # "xbee2") = TRUE
    BY <1>4
  <2> QED BY <1>1, <1>4, <2>1, <2>2, <2>3, ExplicitReads, ExplicitSends
<1> QED BY <1>1, <1>2, <1>3, <1>4 DEF Modes

-----------------------------------------------------------------------------
(***************************************************************************)
(* The answers under way.                                                   *)
(***************************************************************************)
\* A connection of a type without a service has none; one for local commands stays
\* without an address.
Fine(x) ==
  /\ conType.name # "Data (explicit)" => Plain(x.named)
  /\ conType.name = "Local AT" => Silent(x.address)

\* An answer carries the service its asker was created for, as the mode's txHandler
\* wrote it, and the asker is still listed.
Asked(r) ==
  /\ r.asker \in Linked
  /\ r.device = 0 => conType.name = "Local AT"
  /\ conType.name = "Data (explicit)" =>
       \E f : /\ ServiceSent(mode, f, cons[r.asker].named)
              /\ r.frame.endpoints = Turned(f.endpoints)
              /\ r.frame.profile = f.profile /\ r.frame.cluster = f.cluster

AskInv == (\A c \in Cons : Fine(cons[c])) /\ (\A r \in air : Asked(r))

LEMMA AskStays ==
  ASSUME ConInv, AskInv, UNCHANGED fixed, air' \subseteq air,
         \A r \in air' : r.asker \in Linked' /\ cons'[r.asker].named = cons[r.asker].named,
         \A c \in Cons : cons'[c] = cons[c] \/ Fine(cons'[c])
  PROVE  AskInv'
<1>1. conType' = conType /\ mode' = mode
  BY DEF fixed
<1>2. ASSUME NEW c \in Cons PROVE Fine(cons[c])'
  BY <1>1 DEF AskInv, Fine
<1>3. ASSUME NEW r \in air' PROVE Asked(r)'
  BY <1>1 DEF AskInv, Asked
<1> QED BY <1>2, <1>3 DEF AskInv

\* No connection is made or ended, and none is named or addressed anew.
LEMMA SameAsked ==
  ASSUME ConInv, AskInv, UNCHANGED <<fixed, conList>>, air' \subseteq air,
         \A c \in Cons : cons'[c].named = cons[c].named /\ cons'[c].address = cons[c].address
  PROVE  AskInv'
<1>1. Linked' = Linked /\ Linked \subseteq Cons
  BY LinkedFacts DEF Linked, ConInv
<1>2. \A c \in Cons : Fine(cons'[c])
  BY DEF AskInv, Fine
<1>3. \A r \in air' : r.asker \in Linked' /\ cons'[r.asker].named = cons[r.asker].named
  BY <1>1 DEF AskInv, Asked
<1> QED BY <1>2, <1>3, AskStays DEF fixed

LEMMA ConLinkAsks ==
  ASSUME ConInv, AskInv, NEW u \in Users, ConLink(u)
  PROVE  AskInv'
<1>0. Types /\ Names /\ Linked \subseteq Cons /\ job[u].at = "link"
  BY LinkedFacts DEF ConInv, ConLink
<1> DEFINE a == job[u].address
<1>1. PICK c \in Cons \ Linked : /\ cons' = [cons EXCEPT ![c] = NewCon(a)]
                                 /\ conList' = Append(conList, c)
  BY DEF ConLink
<1>2. a \in Addresses /\ a \in Address /\ AddressAllowed(conType.addressRules, a)
  BY <1>0, AddressNames DEF Names
<1>3. Linked \subseteq Linked'
  <2>1. /\ Len(conList') = Len(conList) + 1 /\ Len(conList) \in Nat
        /\ \A i \in 1..Len(conList) : conList'[i] = conList[i]
    BY <1>0, <1>1 DEF Types
  <2>2. 1..Len(conList) \subseteq 1..Len(conList')
    BY <2>1
  <2> QED BY <2>1, <2>2 DEF Linked
<1>4. conType.name # "Data (explicit)" => Plain(a)
  <2>1. Plain(NoAddress)
    BY DEF Plain, NoAddress
  <2>2. ASSUME NEW d \in Devices, conType.name # "Data (explicit)", NEW b \in AddressesOf(d)
        PROVE  Plain(b)
    BY <2>2 DEF AddressesOf, Plain, NoAddress
  <2> QED BY <1>2, <2>1, <2>2 DEF Addresses
<1>5. conType.name = "Local AT" => Silent(a)
  <2>1. conType.name = "Local AT" => {"64_NOTALLOW", "16_NOTALLOW"} \subseteq conType.addressRules
    BY <1>0, TypeRules DEF Types, Sorted
  <2> QED BY <1>2, <2>1 DEF AddressAllowed, Silent
<1> HIDE DEF a
<1>6. NewCon(a) \in ConRec /\ Fine(NewCon(a))
  BY <1>2, <1>4, <1>5, NewConFacts DEF Fine
<1>7. \A e \in Cons : cons'[e] = cons[e] \/ Fine(cons'[e])
  BY <1>0, <1>1, <1>6, Change
<1>8. \A r \in air : r.asker \in Linked /\ cons'[r.asker] = cons[r.asker]
  <2>1. \A r \in air : r.asker \in Linked
    BY DEF AskInv, Asked
  <2> QED BY <1>0, <1>1, <1>6, <2>1, Change
<1>9. UNCHANGED <<fixed, air>>
  BY DEF ConLink
<1> QED BY <1>3, <1>7, <1>8, <1>9, AskStays

\* What is under way for a connection goes with it.
LEMMA ConEndAsks ==
  ASSUME ConInv, AskInv, NEW u \in Users, NEW c \in Linked, ConEnd(u, c)
  PROVE  AskInv'
<1>0. Types /\ c \in Cons /\ Linked \subseteq Cons
  BY LinkedFacts DEF ConInv
<1>1. Linked' = Linked \ {c}
  BY <1>0, EndLeaves
<1>2. /\ UNCHANGED fixed /\ air' = {r \in air : r.asker # c}
      /\ cons' = [cons EXCEPT ![c] = NewCon(NoAddress)]
  BY DEF ConEnd
<1>3. NoAddress \in Address /\ Silent(NoAddress) /\ Plain(NoAddress)
  BY DEF NoAddress, Address, Silent, Plain, None, NoEndpoints
<1> DEFINE x == NewCon(NoAddress)
<1>4. x \in ConRec /\ Fine(x)
  BY <1>3, NewConFacts DEF Fine
<1> HIDE DEF x
<1>5. /\ \A d \in Cons : d # c => cons'[d] = cons[d]
      /\ cons'[c] = x
  BY <1>0, <1>2, <1>4, Change DEF x
<1>6. \A r \in air' : r.asker \in Linked' /\ cons'[r.asker].named = cons[r.asker].named
  BY <1>0, <1>1, <1>2, <1>5 DEF AskInv, Asked
<1> QED BY <1>2, <1>4, <1>5, <1>6, AskStays

LEMMA SettingAsks ==
  ASSUME ConInv, AskInv, NEW u \in Users,
         \/ WakeSet(u)
         \/ \E c \in Linked : ConSettings(u, c)
         \/ \E c \in Linked, s \in {"snooze", "sleep"} : SleepSet(u, c, s)
  PROVE  AskInv'
<1>0. cons \in [Cons -> ConRec] /\ Linked \subseteq Cons
  BY LinkedFacts DEF ConInv, Types
<1>1. UNCHANGED <<fixed, conList, air>>
  BY DEF WakeSet, ConSettings, SleepSet
<1>2. \E c, state, settings, caught :
        \/ cons' = [cons EXCEPT ![c].sleepState = state]
        \/ cons' = [cons EXCEPT ![c].settings = settings, ![c].caught = caught]
  BY Zenon DEF WakeSet, ConSettings, SleepSet
<1>3. \A c \in Cons : cons'[c].named = cons[c].named /\ cons'[c].address = cons[c].address
  BY <1>0, <1>2 DEF ConRec
<1> QED BY <1>1, <1>3, SameAsked

LEMMA RxDeliverAsks ==
  ASSUME ConInv, AskInv, RxDeliver
  PROVE  AskInv'
<1>0. Types /\ Linked \subseteq Cons
  BY LinkedFacts DEF ConInv
<1>1. UNCHANGED <<fixed, conList, air>> /\ Linked' = Linked
  BY DEF RxDeliver, Linked
<1>2. CASE rx.con = NoCon
  BY <1>1, <1>2, SameAsked DEF RxDeliver
<1>3. CASE rx.con # NoCon
  <2> DEFINE c == rx.con
             z == Learned(cons[c].address, rx.address)
  <2>1. c \in Linked /\ c \in Cons /\ cons[c] \in ConRec /\ rx.address \in Address
    BY <1>0, <1>3 DEF Types, RxRec
  <2>2. cons' = [cons EXCEPT ![c].sleepState = "awake", ![c].address = z]
    BY <1>3 DEF RxDeliver
  <2>3. conType.name = "Local AT" => z = cons[c].address
    <3>1. conType.name = "Local AT" => ~conType.save_addr16 /\ ~conType.save_addr64
      BY <1>0, TypeRules DEF Types, Sorted
    <3>2. cons[c].address \in Address
      BY <2>1 DEF ConRec
    <3> QED BY <3>1, <3>2 DEF Learned, Address
  <2> HIDE DEF z
  <2>4. /\ cons'[c].named = cons[c].named /\ cons'[c].address = z
        /\ \A d \in Cons : d # c => cons'[d] = cons[d]
    BY <1>0, <2>1, <2>2 DEF Types, ConRec
  <2>5. \A d \in Cons : Fine(cons'[d])
    BY <2>1, <2>3, <2>4 DEF AskInv, Fine
  <2>6. \A r \in air' : r.asker \in Linked' /\ cons'[r.asker].named = cons[r.asker].named
    BY <1>0, <1>1, <2>4 DEF AskInv, Asked
  <2> QED BY <1>1, <2>5, <2>6, AskStays
<1> QED BY <1>2, <1>3

\* A device answers to what was sent, turned round.
LEMMA ConnTxAsks ==
  ASSUME ConInv, AskInv, NEW u \in Users, NEW c \in Linked, ConnTx(u, c)
  PROVE  AskInv'
<1>0. Types /\ Names /\ c \in Cons
  BY LinkedFacts DEF ConInv
<1> DEFINE f == TxResult(c).frame
<1>1. /\ UNCHANGED <<fixed, cons, conList>> /\ TxResult(c).ret = "ENONE"
      /\ air' = air \cup {[frame |-> Reply(d, f), device |-> d, asker |-> c] :
                            d \in IF conType.name = "Local AT" THEN {0} ELSE Reached(f)}
  BY DEF ConnTx
<1>2. conType' = conType /\ mode' = mode /\ Linked' = Linked
  BY <1>1 DEF fixed, Linked
<1>3. conType.name = "Data (explicit)" => ServiceSent(mode, f, cons[c].named)
  <2> SUFFICES ASSUME conType.name = "Data (explicit)" PROVE ServiceSent(mode, f, cons[c].named)
    OBVIOUS
  <2>1. TxResult(c) = TxFunc(mode, conType, 1, cons[c].address, cons[c].settings, 2)
    <3>1. Fails("ENOTIMPLEMENTED").ret # "ENONE"
      BY DEF Fails
    <3> QED BY <1>1, <3>1 DEF TxResult
  <2>2. ServiceSent(mode, f, cons[c].address)
    BY <1>0, <1>1, <2>1, ExplicitTypes DEF Types
  <2>3. /\ cons[c].address.endpoints = cons[c].named.endpoints
        /\ cons[c].address.profile = cons[c].named.profile
        /\ cons[c].address.cluster = cons[c].named.cluster
    BY <1>0 DEF Names, NamesOf
  <2> QED BY <2>2, <2>3 DEF ServiceSent, EndpointsOf, ProfileOf, ClusterOf
<1>4. 0 \notin Devices
  BY ConnectionsAssumption DEF ConnectionsAssumption
<1> HIDE DEF f
<1>5. ASSUME NEW d \in IF conType.name = "Local AT" THEN {0} ELSE Reached(f),
             NEW r, r = [frame |-> Reply(d, f), device |-> d, asker |-> c]
      PROVE  Asked(r)
  <2>1. d = 0 => conType.name = "Local AT"
    BY <1>4 DEF Reached
  <2>2. /\ Reply(d, f).endpoints = Turned(f.endpoints)
        /\ Reply(d, f).profile = f.profile /\ Reply(d, f).cluster = f.cluster
    BY DEF Reply, Frame, Turned
  <2> QED BY <1>3, <1>5, <2>1, <2>2 DEF Asked
<1>6. ASSUME NEW r \in air' PROVE Asked(r)'
  <2>1. Asked(r)
    <3>1. CASE r \in air
      BY <3>1 DEF AskInv
    <3>2. CASE r \notin air
      <4>1. PICK d \in IF conType.name = "Local AT" THEN {0} ELSE Reached(f) :
              r = [frame |-> Reply(d, f), device |-> d, asker |-> c]
        BY <1>1, <3>2 DEF f
      <4> QED BY <1>5, <4>1
    <3> QED BY <3>1, <3>2
  <2> QED BY <1>1, <1>2, <2>1 DEF Asked
<1>7. ASSUME NEW d \in Cons PROVE Fine(cons[d])'
  BY <1>1, <1>2 DEF AskInv, Fine
<1> QED BY <1>6, <1>7 DEF AskInv

LEMMA AskStarts == Init => AskInv
<1> SUFFICES ASSUME Init PROVE AskInv
  OBVIOUS
<1>1. ASSUME NEW c \in Cons PROVE Fine(cons[c])
  <2>1. Silent(NoAddress) /\ Plain(NoAddress)
    BY DEF NoAddress, Silent, Plain
  <2>2. cons[c].named = NoAddress /\ cons[c].address = NoAddress
    BY DEF Init, NewCon
  <2> QED BY <2>1, <2>2 DEF Fine
<1> QED BY <1>1 DEF AskInv, Init

LEMMA AskStep == ConInv /\ AskInv /\ [Next]_vars => AskInv'
<1> SUFFICES ASSUME ConInv, AskInv, [Next]_vars PROVE AskInv'
  OBVIOUS
<1>1. ASSUME NEW u \in Users,
             ConLink(u) \/ WakeSet(u) \/
             (\E c \in Linked : ConEnd(u, c) \/ ConSettings(u, c) \/ ConnTx(u, c)) \/
             (\E c \in Linked, s \in {"snooze", "sleep"} : SleepSet(u, c, s))
      PROVE  AskInv'
  BY <1>1, ConLinkAsks, SettingAsks, ConEndAsks, ConnTxAsks
<1>2. ASSUME UNCHANGED <<fixed, cons, conList>>, air' \subseteq air PROVE AskInv'
  BY <1>2, SameAsked
<1>3. ASSUME NEW u \in Users, ConNew(u) \/
             (\E c \in Linked : ConnTxFails(u, c)) \/
             (\E c \in Linked, next \in {"set", "tx"} : WakeLook(u, c, next))
      PROVE  AskInv'
  BY <1>2, <1>3 DEF ConNew, ConnTxFails, WakeLook
<1>4. CASE (\E r \in air : RxReply(r)) \/ (\E d \in Devices : RxOther(d))
  BY <1>2, <1>4 DEF RxReply, RxOther, RxFrame
<1>5. CASE RxDeliver
  BY <1>5, RxDeliverAsks
<1>6. CASE UNCHANGED vars
  BY <1>2, <1>6 DEF vars, fixed
<1> QED BY <1>1, <1>3, <1>4, <1>5, <1>6 DEF Next

\* The service of an answer, once read, is that of the connection it answers.
LEMMA ServiceReadBack ==
  ASSUME ConInv, AskInv, NEW r \in air, Answerable(r.asker),
         Reads(From(r.device, r.frame)).dataLen # NoPacket
  PROVE  SameService(cons[r.asker].named, Reads(From(r.device, r.frame)).address)
<1>0. Types /\ r.asker \in Cons /\ Asked(r) /\ Unaddressed(r.frame)
  BY LinkedFacts DEF ConInv, AskInv, Asked, Types
<1> DEFINE g == From(r.device, r.frame)
           n == CHOOSE k \in {2, 3, 7, 22, 30} :
                  RxFunc(mode, conType, [g EXCEPT !.len = k]).ret = "ENONE"
           h == [g EXCEPT !.len = n]
           read == RxFunc(mode, conType, h)
           a == read.address
           x == cons[r.asker].named
<1>1. Reads(g) = read
  BY DEF Reads
<1>2. /\ g.id = conType.rxId /\ g.endpoints = r.frame.endpoints
      /\ g.profile = r.frame.profile /\ g.cluster = r.frame.cluster
  <2>1. CASE r.device = 0
    BY <1>0, <2>1 DEF From, Unaddressed
  <2>2. CASE r.device # 0
    <3>1. g = [r.frame EXCEPT !.addr64 = Addr64(r.device), !.addr16 = Addr16(r.device)]
      BY <2>2 DEF From
    <3> HIDE DEF g
    <3> QED BY <1>0, <3>1 DEF Unaddressed
  <2> QED BY <2>1, <2>2
<1> HIDE DEF g, n
<1>3. /\ h.id = conType.rxId /\ h.endpoints = r.frame.endpoints
      /\ h.profile = r.frame.profile /\ h.cluster = r.frame.cluster
  BY <1>2
<1> HIDE DEF h
<1>4. read.dataLen # NoPacket
  BY <1>1 DEF g
<1>5. ReadOf(conType.addressRules, read, h)
  BY <1>0, <1>3, AllReads DEF Types
<1>6. x \in Address
  BY <1>0, LinkedFacts DEF ConRec
<1>7. CASE conType.name # "Data (explicit)"
  <2>1. Plain(x)
    BY <1>0, <1>7 DEF AskInv, Fine
  <2>2. Plain(a)
    BY <1>0, <1>5, <1>7, TypeRules DEF Types, Sorted, ReadOf
  <2> QED BY <1>1, <2>1, <2>2 DEF g, Plain, SameService, SameOrDefault
<1>8. CASE conType.name = "Data (explicit)"
  <2>1. PICK f : /\ ServiceSent(mode, f, x)
                 /\ r.frame.endpoints = Turned(f.endpoints)
                 /\ r.frame.profile = f.profile /\ r.frame.cluster = f.cluster
    BY <1>0, <1>8 DEF Asked
  <2>2. ServiceRead(read, h, mode # "xbee2")
    BY <1>0, <1>8, ExplicitTypes DEF Types
  <2>3. x.endpoints # NoEndpoints /\ f.endpoints = x.endpoints
    BY <1>8, <2>1 DEF Answerable, ServiceSent, EndpointsOf
  <2>4. a.endpoints = x.endpoints
    <3>1. a.endpoints = Turned(Turned(x.endpoints))
      BY <1>3, <1>4, <2>1, <2>2, <2>3 DEF ServiceRead
    <3> QED BY <1>6, <3>1 DEF Turned, Address
  <2>5. CASE mode = "xbee2"
    <3>1. x.cluster = None /\ x.profile = None
      BY <1>8, <2>5 DEF Answerable
    <3>2. a.cluster = None /\ a.profile = None
      <4>1. (mode # "xbee2") = FALSE
        BY <2>5
      <4> QED BY <1>4, <2>2, <4>1 DEF ServiceRead
    <3> QED BY <1>1, <2>4, <3>1, <3>2 DEF g, SameService, SameOrDefault
  <2>6. ASSUME mode # "xbee2" PROVE a.cluster = f.cluster /\ a.profile = f.profile
    <3>1. (mode # "xbee2") = TRUE
      BY <2>6
    <3> QED BY <1>3, <1>4, <2>1, <2>2, <3>1 DEF ServiceRead
  <2>7. CASE mode = "xbeeZB"
    <3>1. a.cluster = ClusterOf(x) /\ a.profile = ProfileOf(x)
      BY <2>1, <2>6, <2>7 DEF ServiceSent
    <3> QED BY <1>1, <2>4, <3>1 DEF g, SameService, SameOrDefault, ClusterOf, ProfileOf
  <2>8. CASE mode = "xbee5"
    <3>1. x.cluster = None <=> x.profile = None
      BY <1>8, <2>8 DEF Answerable
    <3>2. /\ a.cluster = ClusterOf(x)
          /\ a.profile = IF x.cluster # None THEN x.profile ELSE DefaultProfile
      BY <2>1, <2>6, <2>8 DEF ServiceSent
    <3> QED BY <1>1, <2>4, <3>1, <3>2 DEF g, SameService, SameOrDefault, ClusterOf
  <2>9. mode # "xbee1"
    BY <1>0, <1>8, TypeRules DEF Types
  <2> QED BY <1>0, <2>5, <2>7, <2>8, <2>9 DEF Types, Modes
<1> QED BY <1>7, <1>8

\* So is its address, if it is of the device the connection was created for.
LEMMA AddressReadBack ==
  ASSUME ConInv, AskInv, NEW r \in air, r.device \in NamedDevices(r.asker) \cup {0},
         Reads(From(r.device, r.frame)).dataLen # NoPacket
  PROVE  SomeAddress(cons[r.asker].address, Reads(From(r.device, r.frame)).address)
<1>0. /\ Types /\ r.asker \in Cons /\ Asked(r) /\ Unaddressed(r.frame)
      /\ r.device \in Devices \cup {0} /\ NamesOf(cons[r.asker])
  BY LinkedFacts DEF ConInv, AskInv, Asked, Types, Names
<1> DEFINE a == Reads(From(r.device, r.frame)).address
           x == cons[r.asker]
<1>1. Tells(a, r.device)
  BY <1>0, FrameTells
<1> HIDE DEF a
<1>2. CASE r.device = 0
  <2>1. Silent(a) /\ Silent(x.address)
    BY <1>0, <1>1, <1>2 DEF Tells, Asked, AskInv, Fine
  <2> QED BY <2>1 DEF SomeAddress, a
<1>3. CASE r.device # 0
  <2>1. /\ r.device \in Devices /\ From1(a, r.device)
        /\ "64_NOTALLOW" \in conType.addressRules \/ a.addr64 = Addr64(r.device)
        /\ "16_NOTALLOW" \in conType.addressRules \/ a.addr16 = Addr16(r.device)
    BY <1>0, <1>1, <1>3 DEF Tells
  <2>2. \/ x.named.addr64 = Addr64(r.device)
        \/ x.named.addr64 = None /\ x.named.addr16 = Addr16(r.device)
    BY <1>3 DEF NamedDevices
  <2>3. SomeAddress(x.address, a)
    BY <1>0, <2>1, <2>2, DevicesDiffer DEF NamesOf, NameAllowed, SomeAddress
  <2> QED BY <2>3 DEF a
<1> QED BY <1>2, <1>3

\* For any devices, endpoints, profiles and clusters, and any number of threads and
\* connections, of every type of every mode: the answer of the device a connection
\* was created for is not dropped by xbee_rxHandler while that connection listens,
\* whatever it has learnt or been set to since it asked.  (Explicit connections must
\* have been given endpoints, and a service their mode's frames carry.)
THEOREM AnswersFindListeners == Spec => AnswersAreHeard
<1>1. ASSUME ConInv, AskInv, [Next]_vars, NEW r \in air \ air', Listens(r.asker)',
             Answerable(r.asker), r.device \in NamedDevices(r.asker) \cup {0}
      PROVE  rx'.con # NoCon
  <2>0. Types /\ Asked(r) /\ Names /\ NoCon \notin Cons /\ Linked \subseteq Cons
    BY <1>1, LinkedFacts DEF ConInv, AskInv
  <2>1. ASSUME NEW u \in Users, NEW c \in Linked, ConEnd(u, c) PROVE FALSE
    <3>1. r.asker = c
      BY <1>1, <2>1 DEF ConEnd
    <3>2. Linked' = Linked \ {c}
      BY <2>0, <2>1, EndLeaves
    <3> QED BY <1>1, <3>1, <3>2 DEF Listens
  <2>2. \/ \E q \in air : RxReply(q)
        \/ air \subseteq air'
    BY <1>1, <2>1 DEF Next, vars, ConNew, ConLink, WakeSet, ConSettings, ConnTx, ConnTxFails,
                      SleepSet, WakeLook, RxOther, RxDeliver
  <2>3. RxReply(r)
    BY <1>1, <2>2 DEF RxReply
  <2> DEFINE read == Reads(From(r.device, r.frame))
             located == conLocate(read.address, {"snooze"})
  <2>4. UNCHANGED <<cons, conList>> /\ read.dataLen # NoPacket /\ rx'.con = located.con
    BY <2>3 DEF RxReply, RxFrame
  <2>5. PICK a : a = read.address
    OBVIOUS
  <2>6. SameService(cons[r.asker].named, a) /\ SomeAddress(cons[r.asker].address, a)
    BY <1>1, <2>4, <2>5, ServiceReadBack, AddressReadBack
  <2>7. AddressCmp(cons[r.asker].address, a)
    <3>1. NamesOf(cons[r.asker])
      BY <2>0 DEF Names, Asked
    <3>2. SameService(cons[r.asker].address, a)
      BY <2>6, <3>1 DEF NamesOf, SameService
    <3> QED BY <2>6, <3>2, CmpParts
  <2>8. r.asker \in Linked /\ cons[r.asker].sleepState \in {"awake"} \cup {"snooze"}
    BY <1>1, <2>0, <2>4 DEF Listens, Asked
  <2>9. located.con # NoCon
    BY <2>0, <2>5, <2>7, <2>8, Located DEF Types
  <2> QED BY <2>4, <2>9
<1>2. ConInv /\ AskInv /\ [Next]_vars =>
        [\A r \in air \ air' :
           /\ Listens(r.asker)' /\ Answerable(r.asker)
           /\ r.device \in NamedDevices(r.asker) \cup {0}
           => rx'.con # NoCon]_vars
  BY <1>1
<1>3. Spec => []AskInv
  BY AskStarts, AskStep, ConAlways, PTL DEF Spec
<1> QED BY <1>2, <1>3, ConAlways, PTL DEF Spec, AnswersAreHeard
=============================================================================
