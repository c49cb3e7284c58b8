----------------------------- MODULE XBeeModes ------------------------------
(***************************************************************************)
(* The modes of libxbee: for each kind of module its connection types, how  *)
(* each builds the frames it sends and reads the frames it receives         *)
(* (modes/xbee1, xbee2, xbeeZB, xbee5; mode.c).                             *)
(*                                                                          *)
(* A frame is a record of the fields the code writes or reads, and its      *)
(* length in bytes; where they stand in the buffer is left out.  Settings   *)
(* and the option bits they become are sets of names.                       *)
(***************************************************************************)
EXTENDS XBeeAddress

NoId == -1
NoPacket == -1
Broadcast == 65535    \* 0x000000000000FFFF
Unknown16 == 65534    \* 0xFFFE
DataEndpoints == <<232, 232>>

Frame == [id |-> NoId, frameId |-> 0, status |-> 0, addr64 |-> None, addr16 |-> None,
          endpoints |-> NoEndpoints, profile |-> None, cluster |-> None,
          options |-> {}, len |-> 0]

\* What a txHandler returns, and what an rxHandler does.
Fails(error) == [ret |-> error, frame |-> Frame]
Sends(frame) == [ret |-> "ENONE", frame |-> frame]

Parsed == [ret |-> "ENONE", active |-> FALSE, frameId |-> 0, retVal |-> 0,
           address |-> NoAddress, dataLen |-> NoPacket]
Short == [Parsed EXCEPT !.ret = "ELENGTH"]
Packet(address, dataLen) == [Parsed EXCEPT !.address = address, !.dataLen = dataLen]
From64(f) == [NoAddress EXCEPT !.addr64 = f.addr64]
From16(f) == [NoAddress EXCEPT !.addr16 = f.addr16]
FromBoth(f) == [From64(f) EXCEPT !.addr16 = f.addr16]

ConType == [name |-> "", rxId |-> NoId, txId |-> NoId, allowFrameId |-> FALSE,
            timeout |-> 1000, addressRules |-> ADDR_NONE,
            save_addr16 |-> FALSE, save_addr64 |-> FALSE]

-----------------------------------------------------------------------------
(***************************************************************************)
(* XBee Series 1: the address is of one of the two kinds.                   *)
(***************************************************************************)
s1_data_rx(f) ==
  LET header == IF f.id = \h80 THEN 11 ELSE 5 IN
  IF f.len < header THEN Short
  ELSE Packet(IF f.id = \h80 THEN From64(f) ELSE From16(f), f.len - header)

s1_data_tx(id, frameId, a, settings, len) ==
  LET to64 == id = \h00 IN
  IF len > 100 THEN Fails("ELENGTH")
  ELSE IF (IF to64 THEN a.addr64 ELSE a.addr16) = None THEN Fails("EINVAL")
  ELSE Sends([Frame EXCEPT !.id = id, !.frameId = frameId,
                           !.addr64 = IF to64 THEN a.addr64 ELSE None,
                           !.addr16 = IF to64 THEN None ELSE a.addr16,
                           !.options = settings \cap {"disableAck", "broadcast"},
                           !.len = (IF to64 THEN 11 ELSE 5) + len])

s1_16bitData == [ConType EXCEPT !.name = "16-bit Data", !.rxId = \h81, !.txId = \h01,
                                !.allowFrameId = TRUE, !.addressRules = ADDR_16_ONLY]
s1_64bitData == [ConType EXCEPT !.name = "64-bit Data", !.rxId = \h80, !.txId = \h00,
                                !.allowFrameId = TRUE, !.addressRules = ADDR_64_ONLY]

\* A reply that reports an error carries no packet, and no address.
s1_at_rx(f) ==
  LET header == IF f.id = \h97 THEN 15 ELSE 5 IN
  IF f.len < header THEN Short
  ELSE [Packet(IF f.id = \h97 /\ f.status = 0 THEN FromBoth(f) ELSE NoAddress,
               IF f.status = 0 THEN f.len - header ELSE NoPacket)
        EXCEPT !.active = TRUE, !.frameId = f.frameId, !.retVal = f.status]

\* Changes that are not queued are applied at once.
Apply(settings) == IF "queueChanges" \in settings THEN {} ELSE {"apply"}

s1_at_tx(id, frameId, a, settings, len) ==
  LET local == [Frame EXCEPT !.id = IF "queueChanges" \in settings THEN \h09 ELSE \h08,
                             !.frameId = frameId, !.len = 2 + len] IN
  IF len \notin 2..22 THEN Fails("ELENGTH")
  ELSE IF id = \h08 THEN Sends(local)
  ELSE IF a.addr64 = None /\ a.addr16 = None THEN Fails("EINVAL")
  ELSE Sends([local EXCEPT !.id = id, !.len = 13 + len, !.addr64 = a.addr64,
                           !.addr16 = IF a.addr64 # None THEN Unknown16 ELSE a.addr16,
                           !.options = Apply(settings)])

s1_localAt == [ConType EXCEPT !.name = "Local AT", !.rxId = \h88, !.txId = \h08,
                              !.allowFrameId = TRUE, !.timeout = 250]
s1_remoteAt == [ConType EXCEPT !.name = "Remote AT", !.rxId = \h97, !.txId = \h17,
                               !.allowFrameId = TRUE, !.timeout = 750,
                               !.addressRules = ADDR_16XOR64_NOEP]

s1_io_rx(f) ==
  LET header == IF f.id = \h82 THEN 11 ELSE 5 IN
  IF f.len < header THEN Short
  ELSE Packet(IF f.id = \h82 THEN From64(f) ELSE From16(f), f.len - header)

s1_16bitIo == [ConType EXCEPT !.name = "16-bit I/O", !.rxId = \h83,
                              !.addressRules = ADDR_16_ONLY]
s1_64bitIo == [ConType EXCEPT !.name = "64-bit I/O", !.rxId = \h82,
                              !.addressRules = ADDR_64_ONLY]

s1_transmitStatus_rx(f) ==
  IF f.len # 3 THEN Short
  ELSE [Parsed EXCEPT !.active = TRUE, !.frameId = f.frameId, !.retVal = f.status]
s1_transmitStatus ==
  [ConType EXCEPT !.name = "Transmit Status", !.rxId = \h89, !.allowFrameId = TRUE]

s1_modemStatus_rx(f) == IF f.len # 2 THEN Short ELSE Packet(NoAddress, 1)
s1_modemStatus == [ConType EXCEPT !.name = "Modem Status", !.rxId = \h8A]

s1_conTypes == {s1_modemStatus, s1_transmitStatus, s1_localAt, s1_remoteAt,
                s1_16bitData, s1_64bitData, s1_16bitIo, s1_64bitIo}

-----------------------------------------------------------------------------
(***************************************************************************)
(* XBee Series 2: a 64-bit address and, where known, the 16-bit network     *)
(* address; received frames have both.                                      *)
(***************************************************************************)
s2_data_rx(f) == IF f.len < 12 THEN Short ELSE Packet(FromBoth(f), f.len - 12)

\* Both data connections address their frames alike.
ToDevice(frame, a, settings) ==
  IF "broadcast" \in settings
  THEN [frame EXCEPT !.addr64 = Broadcast, !.addr16 = Unknown16]
  ELSE [frame EXCEPT !.addr64 = a.addr64,
                     !.addr16 = IF a.addr16 # None THEN a.addr16 ELSE Unknown16]

s2_data_tx(id, frameId, a, settings, len) ==
  IF len > 72 THEN Fails("ELENGTH")
  ELSE IF a.addr64 = None THEN Fails("EINVAL")
  ELSE Sends(ToDevice([Frame EXCEPT !.id = id, !.frameId = frameId, !.len = 14 + len,
                                    !.options = settings \cap {"broadcast"}], a, settings))

s2_data == [ConType EXCEPT !.name = "Data", !.rxId = \h90, !.txId = \h10,
                           !.allowFrameId = TRUE, !.addressRules = ADDR_64_16OPT_NOEP,
                           !.save_addr16 = TRUE]

\* The remote end's endpoint is the frame's source.
s2_dataExp_rx(f) ==
  IF f.len < 18 THEN Short
  ELSE Packet([FromBoth(f) EXCEPT !.endpoints = <<f.endpoints[2], f.endpoints[1]>>],
              f.len - 18)

EndpointsOf(a) == IF a.endpoints = NoEndpoints THEN DataEndpoints ELSE a.endpoints

s2_dataExp_tx(id, frameId, a, settings, len) ==
  IF len > 72 THEN Fails("ELENGTH")
  ELSE IF a.addr64 = None THEN Fails("EINVAL")
  ELSE Sends(ToDevice([Frame EXCEPT !.id = id, !.frameId = frameId, !.len = 20 + len,
                                    !.endpoints = EndpointsOf(a),
                                    !.cluster = DefaultCluster, !.profile = DefaultProfile,
                                    !.options = settings \cap {"broadcast"}], a, settings))

s2_dataExp == [s2_data EXCEPT !.name = "Data (explicit)", !.rxId = \h91, !.txId = \h11,
                              !.addressRules = ADDR_64_16OPT_EP]

s2_at_rx(f) == s1_at_rx(f)

s2_at_tx(id, frameId, a, settings, len) ==
  IF len \notin 2..22 THEN Fails("ELENGTH")
  ELSE IF id = \h08 THEN s1_at_tx(id, frameId, a, settings, len)
  ELSE IF a.addr64 = None THEN Fails("EINVAL")
  ELSE Sends(ToDevice([Frame EXCEPT !.id = id, !.frameId = frameId, !.len = 13 + len,
                                    !.options = Apply(settings)], a, {}))

s2_localAt == s1_localAt
s2_remoteAt == [s1_remoteAt EXCEPT !.addressRules = ADDR_64_16OPT_NOEP, !.save_addr16 = TRUE]

s2_io_rx(f) == IF f.len < 16 THEN Short ELSE Packet(FromBoth(f), f.len - 12)
s2_io == [ConType EXCEPT !.name = "I/O", !.rxId = \h92, !.addressRules = ADDR_16OR64_NOEP,
                         !.save_addr16 = TRUE, !.save_addr64 = TRUE]

\* Eleven bytes are copied of the ten that the frame has left.
s2_sensor_rx(f) == IF f.len # 22 THEN Short ELSE Packet(FromBoth(f), 11)
s2_sensor == [s2_io EXCEPT !.name = "Sensor", !.rxId = \h94]

\* The node's addresses are kept with the packet's data, not as its address.
s2_identify_rx(f) == IF f.len < 30 THEN Short ELSE Packet(NoAddress, f.len - 12)
s2_identify == [ConType EXCEPT !.name = "Identify", !.rxId = \h95]

s2_transmitStatus_rx(f) ==
  IF f.len # 7 THEN Short
  ELSE [Parsed EXCEPT !.active = TRUE, !.frameId = f.frameId, !.retVal = f.status]
s2_transmitStatus == [s1_transmitStatus EXCEPT !.rxId = \h8B]
s2_modemStatus_rx(f) == s1_modemStatus_rx(f)
s2_modemStatus == s1_modemStatus

s2_conTypes == {s2_modemStatus, s2_transmitStatus, s2_localAt, s2_remoteAt, s2_data,
                s2_dataExp, s2_io, s2_sensor, s2_identify}

-----------------------------------------------------------------------------
(***************************************************************************)
(* XBee ZigBee: like Series 2, with clusters, profiles and more options.    *)
(***************************************************************************)
ZBOptions(settings) == settings \cap {"disableRetries", "enableEncryption", "extendTimeout"}

sZB_data_rx(f) == s2_data_rx(f)

sZB_data_tx(id, frameId, a, settings, len) ==
  LET sent == s2_data_tx(id, frameId, a, settings, len) IN
  IF sent.ret # "ENONE" THEN sent
  ELSE [sent EXCEPT !.frame.options = ZBOptions(settings)]

sZB_data == s2_data

sZB_dataExp_rx(f) ==
  LET read == s2_dataExp_rx(f) IN
  IF read.ret # "ENONE" THEN read
  ELSE [read EXCEPT !.address.cluster = f.cluster, !.address.profile = f.profile]

ClusterOf(a) == IF a.cluster = None THEN DefaultCluster ELSE a.cluster
ProfileOf(a) == IF a.profile = None THEN DefaultProfile ELSE a.profile

sZB_dataExp_tx(id, frameId, a, settings, len) ==
  LET sent == s2_dataExp_tx(id, frameId, a, settings, len) IN
  IF sent.ret # "ENONE" THEN sent
  ELSE [sent EXCEPT !.frame.cluster = ClusterOf(a), !.frame.profile = ProfileOf(a),
                    !.frame.options = ZBOptions(settings)]

sZB_dataExp == [s2_dataExp EXCEPT !.addressRules = ADDR_64_16OPT_EPOPT]

sZB_at_rx(f) == s1_at_rx(f)

sZB_at_tx(id, frameId, a, settings, len) ==
  LET sent == s2_at_tx(id, frameId, a, settings, len) IN
  IF sent.ret # "ENONE" \/ id = \h08 THEN sent
  ELSE [sent EXCEPT !.frame.options = @ \cup ZBOptions(settings)]

sZB_localAt == [s2_localAt EXCEPT !.timeout = 1000]
sZB_remoteAt == [s2_remoteAt EXCEPT !.timeout = 5000]

sZB_io_rx(f) == s2_io_rx(f)
sZB_io == s2_io
sZB_sensor_rx(f) == s2_sensor_rx(f)
sZB_sensor == s2_sensor
sZB_identify_rx(f) == s2_identify_rx(f)
sZB_identify == s2_identify

sZB_ota_rx(f) == IF f.len # 22 THEN Short ELSE Packet(FromBoth(f), 2)
sZB_ota == [s2_io EXCEPT !.name = "OTA Update Status", !.rxId = \hA0]

sZB_transmitStatus_rx(f) == s2_transmitStatus_rx(f)
sZB_transmitStatus == s2_transmitStatus
sZB_modemStatus_rx(f) == s1_modemStatus_rx(f)
sZB_modemStatus == s1_modemStatus

sZB_conTypes == {sZB_transmitStatus, sZB_modemStatus, sZB_localAt, sZB_remoteAt, sZB_data,
                 sZB_dataExp, sZB_io, sZB_sensor, sZB_identify, sZB_ota}

-----------------------------------------------------------------------------
(***************************************************************************)
(* XBee 5 (868/900 MHz): no 16-bit addresses.                               *)
(***************************************************************************)
s5_data_rx(f) == IF f.len < 12 THEN Short ELSE Packet(From64(f), f.len - 12)

S5ToDevice(frame, a, settings) ==
  [frame EXCEPT !.addr64 = IF "broadcast" \in settings THEN Broadcast ELSE a.addr64,
                !.addr16 = Unknown16,
                !.options = settings \cap {"disableAck", "noRoute"}]

s5_data_tx(id, frameId, a, settings, len) ==
  IF len > 72 THEN Fails("ELENGTH")
  ELSE IF a.addr64 = None THEN Fails("EINVAL")
  ELSE Sends(S5ToDevice([Frame EXCEPT !.id = id, !.frameId = frameId, !.len = 14 + len],
                        a, settings))

s5_data == [s2_data EXCEPT !.addressRules = ADDR_64_ONLY, !.save_addr16 = FALSE]

s5_dataExp_rx(f) ==
  LET read == sZB_dataExp_rx(f) IN [read EXCEPT !.address.addr16 = None]

\* Mutant: the profile goes by its own flag, the cluster by none.
s5_dataExp_tx_NoCluster(id, frameId, a, settings, len) ==
  IF len > 72 THEN Fails("ELENGTH")
  ELSE IF a.addr64 = None THEN Fails("EINVAL")
  ELSE Sends(S5ToDevice([Frame EXCEPT !.id = id, !.frameId = frameId, !.len = 20 + len,
                                      !.endpoints = EndpointsOf(a),
                                      !.cluster = DefaultCluster,
                                      !.profile = ProfileOf(a)], a, settings))

\* Whether the profile is the address's own hangs on the cluster's flag.
s5_dataExp_tx(id, frameId, a, settings, len) ==
  IF len > 72 THEN Fails("ELENGTH")
  ELSE IF a.addr64 = None THEN Fails("EINVAL")
  ELSE Sends(S5ToDevice([Frame EXCEPT !.id = id, !.frameId = frameId, !.len = 20 + len,
                                      !.endpoints = EndpointsOf(a),
                                      !.cluster = ClusterOf(a),
                                      !.profile = IF a.cluster # None THEN a.profile
                                                  ELSE DefaultProfile], a, settings))

s5_dataExp == [s2_dataExp EXCEPT !.addressRules = {"64_REQUIRED", "16_NOTALLOW"},
                                 !.save_addr16 = FALSE]

s5_at_rx(f) == LET read == s1_at_rx(f) IN [read EXCEPT !.address.addr16 = None]

s5_at_tx(id, frameId, a, settings, len) ==
  LET sent == s2_at_tx(id, frameId, a, settings, len) IN
  IF sent.ret # "ENONE" \/ id = \h08 THEN sent
  ELSE [sent EXCEPT !.frame.addr16 = Unknown16]

s5_localAt == s1_localAt
s5_remoteAt == [s1_remoteAt EXCEPT !.addressRules = ADDR_64_ONLY]

s5_identify_rx(f) == s2_identify_rx(f)
s5_identify == s2_identify

s5_transmitStatus_rx(f) == s2_transmitStatus_rx(f)
s5_transmitStatus == s2_transmitStatus
s5_modemStatus_rx(f) == s1_modemStatus_rx(f)
s5_modemStatus == s1_modemStatus

s5_conTypes == {s5_modemStatus, s5_transmitStatus, s5_localAt, s5_remoteAt, s5_data,
                s5_dataExp, s5_identify}

-----------------------------------------------------------------------------
(***************************************************************************)
(* The tables of the modes (mode.c).                                        *)
(***************************************************************************)
Modes == {"xbee1", "xbee2", "xbeeZB", "xbee5"}

\* xbee_modeImport
ConTypes(mode) ==
  CASE mode = "xbee1" -> s1_conTypes
    [] mode = "xbee2" -> s2_conTypes
    [] mode = "xbeeZB" -> sZB_conTypes
    [] mode = "xbee5" -> s5_conTypes

\* xbee_modeLocateConType, for the first byte of a received frame.
TypesFor(mode, id) == {t \in ConTypes(mode) : t.rxId = id}

\* The handlers that the tables give to a type, by its name.
s1_rx(name, f) ==
  CASE name \in {"16-bit Data", "64-bit Data"} -> s1_data_rx(f)
    [] name \in {"16-bit I/O", "64-bit I/O"} -> s1_io_rx(f)
    [] name \in {"Local AT", "Remote AT"} -> s1_at_rx(f)
    [] name = "Transmit Status" -> s1_transmitStatus_rx(f)
    [] name = "Modem Status" -> s1_modemStatus_rx(f)
s2_rx(name, f) ==
  CASE name = "Data" -> s2_data_rx(f)
    [] name = "Data (explicit)" -> s2_dataExp_rx(f)
    [] name \in {"Local AT", "Remote AT"} -> s2_at_rx(f)
    [] name = "I/O" -> s2_io_rx(f)
    [] name = "Sensor" -> s2_sensor_rx(f)
    [] name = "Identify" -> s2_identify_rx(f)
    [] name = "Transmit Status" -> s2_transmitStatus_rx(f)
    [] name = "Modem Status" -> s2_modemStatus_rx(f)
sZB_rx(name, f) ==
  CASE name = "Data" -> sZB_data_rx(f)
    [] name = "Data (explicit)" -> sZB_dataExp_rx(f)
    [] name \in {"Local AT", "Remote AT"} -> sZB_at_rx(f)
    [] name = "I/O" -> sZB_io_rx(f)
    [] name = "Sensor" -> sZB_sensor_rx(f)
    [] name = "Identify" -> sZB_identify_rx(f)
    [] name = "OTA Update Status" -> sZB_ota_rx(f)
    [] name = "Transmit Status" -> sZB_transmitStatus_rx(f)
    [] name = "Modem Status" -> sZB_modemStatus_rx(f)
s5_rx(name, f) ==
  CASE name = "Data" -> s5_data_rx(f)
    [] name = "Data (explicit)" -> s5_dataExp_rx(f)
    [] name \in {"Local AT", "Remote AT"} -> s5_at_rx(f)
    [] name = "Identify" -> s5_identify_rx(f)
    [] name = "Transmit Status" -> s5_transmitStatus_rx(f)
    [] name = "Modem Status" -> s5_modemStatus_rx(f)

RxFunc(mode, type, f) ==
  CASE mode = "xbee1" -> s1_rx(type.name, f)
    [] mode = "xbee2" -> s2_rx(type.name, f)
    [] mode = "xbeeZB" -> sZB_rx(type.name, f)
    [] mode = "xbee5" -> s5_rx(type.name, f)

TxFunc(mode, type, frameId, a, settings, len) ==
  LET Tx(F(_, _, _, _, _)) == F(type.txId, frameId, a, settings, len)
      data == CASE mode = "xbee1" -> Tx(s1_data_tx)
                [] mode = "xbee2" -> Tx(s2_data_tx)
                [] mode = "xbeeZB" -> Tx(sZB_data_tx)
                [] mode = "xbee5" -> Tx(s5_data_tx)
      dataExp == CASE mode = "xbee2" -> Tx(s2_dataExp_tx)
                   [] mode = "xbeeZB" -> Tx(sZB_dataExp_tx)
                   [] mode = "xbee5" -> Tx(s5_dataExp_tx)
      at == CASE mode = "xbee1" -> Tx(s1_at_tx)
              [] mode = "xbee2" -> Tx(s2_at_tx)
              [] mode = "xbeeZB" -> Tx(sZB_at_tx)
              [] mode = "xbee5" -> Tx(s5_at_tx)
  IN CASE type.name \in {"Data", "16-bit Data", "64-bit Data"} -> data
       [] type.name = "Data (explicit)" -> dataExp
       [] type.name \in {"Local AT", "Remote AT"} -> at
=============================================================================
