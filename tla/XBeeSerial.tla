----------------------------- MODULE XBeeSerial -----------------------------
(***************************************************************************)
(* How messages come in over the serial line (src/lib/xbee/modes/common.c,   *)
(* xsys_linux.c): the receive thread reads bytes, finds the frames among     *)
(* them and lists their contents; the receive handler makes packets of them, *)
(* reads the samples they carry and gives them to the connection; the        *)
(* program takes and reads them, and frees them when it likes.  Bytes are    *)
(* numbers and checksums are computed, since what a lost byte does depends   *)
(* on them.                                                                  *)
(***************************************************************************)
EXTENDS XBeeList, XBeeSamples

CONSTANTS
    Frames,       \* what the board may send, by mode: a function from modes
                  \* to sets of records msg (the bytes) and readings
    MaxFrames,    \* how many frames it sends in all
    Stale,        \* the bytes that may follow a message in the write buffer
    MaxFaults     \* how many bytes are lost, pauses made and calls interrupted

\* A message is of bytes, one at least and no more than xbee_xbeeRxIo accepts,
\* and makes a packet.  (Those that make none come of faults.)
FramesAssumption ==
    \A series \in DOMAIN Frames : \A f \in Frames[series] :
        /\ f.msg \in Seq(0..255) /\ Len(f.msg) \in 1..256
        /\ MakesPacket(series, f.msg)
ASSUME FramesAssumption

VARIABLES
    mode,         \* the series of the board
    api2,         \* whether the library was built with XBEE_API2
    line,         \* the bytes that have come and are not read
    reader,       \* the receive thread in xbee_xbeeRxIo
    bufs,         \* info->bufList, a list of what was read
    handler,      \* the receive handler: the packet it makes, and its step
    packets,      \* the packets allocated, by pointer
    pktList,      \* the registry of live packets
    conList,      \* the packets of the connection
    sent,         \* the frames the board has sent
    got,          \* the packets as the program took them, in order
    held,         \* those it has not freed, by pointer
    due,          \* the frames sent while the reader was in step
    spoiled,      \* the reader may be out of step
    faults

lists == <<bufs, handler, packets, pktList, conList, got, held>>
vars  == <<mode, api2, line, reader, lists, sent, due, spoiled, faults>>

-----------------------------------------------------------------------------
(* Writing a frame: xbee_xbeeTxIo and escaped_write.  The board (external)   *)
(* frames what it sends in the same way.                                    *)

Special == {126, 125, 17, 19}
Flip(b) == IF Bit(b, 5) = 1 THEN b - 32 ELSE b + 32

Checksum(msg) == 255 - FoldLeft(LAMBDA sum, b : (sum + b) % 256, 0, msg)

Escaped(bytes) ==
    FlattenSeq([i \in DOMAIN bytes |->
        IF bytes[i] \in Special THEN <<125, Flip(bytes[i])>> ELSE <<bytes[i]>>])

\* What follows the delimiter: the length, the message and its checksum.
Body(msg) == <<Len(msg) \div 256, Len(msg) % 256>> \o msg \o <<Checksum(msg)>>

Framed(msg, escape) == <<126>> \o IF escape THEN Escaped(Body(msg)) ELSE Body(msg)

\* With XBEE_API2 the loop over special bytes runs past the last: what
\* follows it in the buffer, when special, is written too.
Beyond(msg, escape) ==
    IF escape /\ Checksum(msg) \in Special
    THEN {IF b \in Special THEN <<125, Flip(b)>> ELSE <<>> : b \in Stale} ELSE {<<>>}

-----------------------------------------------------------------------------
(* Reading: escaped_read, called for the delimiter, the length, the data and *)
(* the checksum.                                                            *)

Want(at, length) == CASE at = "length" -> 2 [] at = "data" -> length [] OTHER -> 1

\* dest holds the bytes of this call that are final, esc is nextIsEscaped.  The
\* bytes of one xsys_serialRead, a chunk, are read in one step.
Call(at, length, msg) ==
    [at |-> at, length |-> length, msg |-> msg, dest |-> <<>>, esc |-> FALSE]
Restart == Call("delimiter", 0, <<>>)

\* A build whose escaper starts each chunk afresh.
Unescape_Forgets(chunk, esc) ==
    LET Step(a, i) ==
            IF a.esc THEN [a EXCEPT !.out = Append(@, Flip(chunk[i])), !.esc = FALSE]
            ELSE IF chunk[i] = 125 /\ i < Len(chunk) THEN [a EXCEPT !.esc = TRUE]
            ELSE IF chunk[i] \in {17, 19, 125} THEN a
            ELSE [a EXCEPT !.out = Append(@, chunk[i])]
    IN  FoldLeft(Step, [out |-> <<>>, esc |-> FALSE, cut |-> FALSE], [i \in DOMAIN chunk |-> i])

\* The escaper on byte i of a chunk.  An escape at the end is remembered for the
\* next chunk, unless this one has shrunk before it: then it is dropped (cut).
Escapes(a, chunk, i) ==
    LET b == chunk[i]
    IN  IF a.esc THEN [a EXCEPT !.out = Append(@, Flip(b)), !.esc = FALSE]
        ELSE IF b = 125 /\ i = Len(chunk) /\ Len(a.out) < i - 1 THEN [a EXCEPT !.cut = TRUE]
        ELSE IF b = 125 THEN [a EXCEPT !.esc = TRUE]
        ELSE IF b \in {17, 19} THEN a
        ELSE [a EXCEPT !.out = Append(@, b)]

Unescape(chunk, esc) ==
    LET after[i \in 0..Len(chunk)] ==
            IF i = 0 THEN [out |-> <<>>, esc |-> esc, cut |-> FALSE]
            ELSE Escapes(after[i-1], chunk, i)
    IN  after[Len(chunk)]

Needed(r) == Want(r.at, r.length) - Len(r.dest)

EscaperOf(r, chunk) ==
    IF api2 /\ r.at # "delimiter" THEN Unescape(chunk, r.esc)
    ELSE [out |-> chunk, esc |-> FALSE, cut |-> FALSE]

\* The reader after a chunk.
Received(r, chunk) ==
    LET read == EscaperOf(r, chunk)
    IN  [r EXCEPT !.dest = @ \o read.out, !.esc = read.esc]

Full(r) == Len(r.dest) = Want(r.at, r.length)

ChecksumHolds(r) == Checksum(r.msg) = r.dest[1]

\* What follows a full call.  A frame of no length fails the next call and the
\* loop of xbee_rx begins anew, as after a frame too long or a bad checksum.
Follows(r) ==
    LET length == r.dest[1] * 256 + r.dest[2]
    IN  CASE r.at = "delimiter" -> IF r.dest = <<126>> THEN Call("length", 0, <<>>) ELSE Restart
          [] r.at = "length" -> IF length \in 1..256 THEN Call("data", length, <<>>) ELSE Restart
          [] r.at = "data" -> Call("checksum", 0, r.dest)
          [] r.at = "checksum" -> Restart

Accepts(r) == r.at = "checksum" /\ Full(r) /\ ChecksumHolds(r)

-----------------------------------------------------------------------------
Init ==
    /\ mode \in DOMAIN Frames
    /\ api2 \in BOOLEAN
    /\ line = <<>> /\ reader = Restart
    /\ bufs = Empty /\ conList = Empty /\ pktList = Empty
    /\ handler = [at |-> "wait", pkt |-> 0]
    /\ packets = <<>>
    /\ sent = <<>> /\ got = <<>> /\ held = {} /\ due = <<>>
    /\ spoiled = FALSE /\ faults = 0

\* The board sends a frame (external).  It is due when the reader is in step.
Send(f) ==
    /\ reader.at # "ended"
    /\ Len(sent) < MaxFrames
    /\ \E beyond \in Beyond(f.msg, api2) : line' = line \o Framed(f.msg, api2) \o beyond
    /\ sent' = Append(sent, f)
    /\ LET inStep == ~spoiled \/ (line = <<>> /\ reader = Restart)
       IN  /\ spoiled' = ~inStep
           /\ due' = IF inStep THEN Append(due, f.msg) ELSE due
    /\ UNCHANGED <<mode, api2, reader, lists, faults>>

Spoil ==
    /\ spoiled' = TRUE
    /\ due' = <<>>

Fault ==
    /\ faults < MaxFaults
    /\ faults' = faults + 1
    /\ Spoil

\* xsys_serialRead returns all it was asked for; at the end of a frame the
\* receive thread lists it.
ReadChunk ==
    /\ reader.at # "ended" /\ Len(line) >= Needed(reader)
    /\ LET n     == Needed(reader)
           chunk == SubSeq(line, 1, n)
           r     == Received(reader, chunk)
       IN  /\ line' = SubSeq(line, n + 1, Len(line))
           /\ reader' = IF Full(r) THEN Follows(r) ELSE r
           /\ bufs' = IF Accepts(r)
                      THEN AddTail(bufs, [msg |-> r.msg])
                      ELSE bufs
           /\ IF EscaperOf(reader, chunk).cut THEN Spoil ELSE UNCHANGED <<due, spoiled>>
    /\ UNCHANGED <<mode, api2, handler, packets, pktList, conList, sent, got, held, faults>>

\* Two seconds without a byte inside a chunk: xsys_serialRead gives up, and the
\* next call for the same bytes writes over the n it had.
TimedOut(n) ==
    /\ reader.at # "ended" /\ n < Needed(reader)
    /\ line' = SubSeq(line, n + 1, Len(line))
    /\ UNCHANGED <<mode, api2, reader, lists, sent>>

\* The line falls silent; or the board pauses inside a frame.
Silence == line # <<>> /\ TimedOut(Len(line)) /\ UNCHANGED <<due, spoiled, faults>>
Pause == \E n \in 1..(Len(line) - 1) : TimedOut(n) /\ Fault

\* A byte is lost on the way.
Lose ==
    /\ \E i \in DOMAIN line : line' = RemoveAt(line, i)
    /\ Fault
    /\ UNCHANGED <<mode, api2, reader, lists, sent>>

\* A signal ends select, or the port reports an error, with n bytes of a chunk
\* read: xbee_xbeeRxIo returns and xbee_rx calls it again from the delimiter.
Interrupted ==
    /\ reader.at # "ended"
    /\ \E n \in 0..Len(line) :
          /\ n < Needed(reader)
          /\ n > 0 \/ reader # Restart
          /\ line' = SubSeq(line, n + 1, Len(line))
    /\ reader' = Restart
    /\ Fault
    /\ UNCHANGED <<mode, api2, lists, sent>>

\* The port is gone: xbee_rx calls eofCallback and its thread ends for good.
EndOfFile ==
    /\ reader.at # "ended"
    /\ reader' = [Restart EXCEPT !.at = "ended"]
    /\ line' = <<>>
    /\ Fault
    /\ UNCHANGED <<mode, api2, lists, sent>>

-----------------------------------------------------------------------------
(* The receive handler and the program.                                     *)

\* A message of which no packet is made: of an unknown type, a mere status, or of
\* a length that ends the handler's thread, to be started again.
HandlerDrops ==
    /\ handler.at = "wait"
    /\ bufs.head # 0
    /\ LET r == ExtHead(bufs)
       IN  ~MakesPacket(mode, r.item.msg) /\ bufs' = r.list
    /\ UNCHANGED <<handler, packets, pktList, conList, got, held>>

\* xbee_pktAlloc: a packet without data, registered.
HandlerTakes ==
    /\ handler.at = "wait"
    /\ bufs.head # 0
    /\ LET r == ExtHead(bufs)
           p == Len(packets) + 1
       IN  /\ MakesPacket(mode, r.item.msg)
           /\ bufs' = r.list
           /\ packets' = Append(packets, [msg |-> r.item.msg, keys |-> <<>>])
           /\ pktList' = AddTail(pktList, p)
           /\ handler' = [at |-> "post", pkt |-> p]
    /\ UNCHANGED <<conList, got, held>>

\* A handler that does not call funcPost.
HandlerReads_Skipped ==
    /\ handler.at = "post"
    /\ handler' = [handler EXCEPT !.at = "link"]
    /\ UNCHANGED <<bufs, packets, conList, pktList, got, held>>

\* funcPost, before the packet can be seen.
HandlerReads ==
    /\ handler.at = "post"
    /\ LET p == handler.pkt
       IN  packets' = [packets EXCEPT ![p].keys =
                          IF CarriesSample(mode, packets[p].msg) THEN PacketOf(mode, packets[p].msg)
                          ELSE <<>>]
    /\ handler' = [handler EXCEPT !.at = "link"]
    /\ UNCHANGED <<bufs, conList, pktList, got, held>>

\* xbee_conLinkPacket.
HandlerLinks ==
    /\ handler.at = "link"
    /\ conList' = AddTail(conList, handler.pkt)
    /\ handler' = [at |-> "wait", pkt |-> 0]
    /\ UNCHANGED <<bufs, packets, pktList, got, held>>

\* xbee_conRx: the program takes the first packet and reads it.
ProgramTakes ==
    /\ conList.head # 0
    /\ LET r == ExtHead(conList)
       IN  /\ conList' = r.list
           /\ got' = Append(got, packets[r.item])
           /\ held' = held \cup {r.item}
    /\ UNCHANGED <<bufs, handler, packets, pktList>>

\* A free that leaves the packet in the registry.
ProgramFrees_Listed ==
    /\ \E p \in held : held' = held \ {p}
    /\ UNCHANGED <<bufs, handler, packets, pktList, conList, got>>

\* xbee_pktFree.
ProgramFrees ==
    /\ \E p \in held :
          /\ held' = held \ {p}
          /\ pktList' = ExtItem(pktList, p).list
    /\ UNCHANGED <<bufs, handler, packets, conList, got>>

Consume ==
    /\ \/ HandlerDrops \/ HandlerTakes \/ HandlerReads \/ HandlerLinks
       \/ ProgramTakes \/ ProgramFrees
    /\ UNCHANGED <<mode, api2, line, reader, sent, due, spoiled, faults>>

Next ==
    \/ \E f \in Frames[mode] : Send(f)
    \/ ReadChunk \/ Silence \/ Pause \/ Lose \/ Interrupted \/ EndOfFile
    \/ Consume

Spec == Init /\ [][Next]_vars

-----------------------------------------------------------------------------
Quiet == line = <<>> /\ bufs.head = 0 /\ conList.head = 0 /\ handler.at = "wait"

Messages(s) == [i \in DOMAIN s |-> s[i].msg]

\* s is what is left of t when some of its elements are taken out.
IsPartOf(s, t) ==
    LET after[i \in 0..Len(s)] ==
            IF i = 0 THEN 0
            ELSE Min({k \in 1..Len(t) : k > after[i-1] /\ t[k] = s[i]} \cup {Len(t) + 1})
    IN  after[Len(s)] <= Len(t)

\* Whatever is lost, no frame the board sent comes twice or before one sent
\* earlier.  (A fault may make up a frame: the checksum is a sum of bytes.)
ArriveInOrder ==
    LET Genuine(m) == \E i \in DOMAIN sent : sent[i].msg = m
    IN  IsPartOf(SelectSeq(Messages(got), Genuine), Messages(sent))

\* However the reader fell out of step, once it waits for a delimiter on a
\* silent line every frame sent arrives, until the next fault or until the
\* escaper drops an escape at the end of a chunk that has shrunk (ReadChunk).
BackInStep == Quiet => IsPartOf(due, Messages(got))

\* A packet the program takes answers for every pin and sample of its frame
\* what the board measured, and nothing for the pins that are not sampled.  Not
\* in a build that puts the high half of a pointer first, where every reading is
\* -1 and every level high, nor in one that guards the stack, where the program
\* is aborted.
SamplesReadBack ==
    got # <<>> =>
        \A f \in Frames[mode], build \in Builds \ {"64 bits, guarded", "64 bits, high half first"} :
            f.readings # <<>> /\ f.msg = Last(got).msg
                => ReadsBack(build, mode, f.readings, Last(got).keys)

\* A packet is registered from the time the handler makes it until the program
\* frees it: it is the handler's, listed by the connection, or held.  The
\* program gets each once, in the order they were made and with what the handler
\* has read out of it.
EachPacketOnce ==
    LET linked == Len(packets) - IF handler.at = "wait" THEN 0 ELSE 1
    IN  /\ got = SubSeq(packets, 1, Len(got))
        /\ Items(conList) = [i \in 1..(linked - Len(got)) |-> Len(got) + i]
        /\ held \subseteq 1..Len(got)
        /\ Range(Items(pktList)) = held \cup (Len(got) + 1)..Len(packets)

\* Every operation of ll.c, at each registry of packets that is met, gives what
\* it gives on the sequence of its items, and leaves the chains whole in both
\* directions, wherever in the list it adds or takes out.
ListOperations == OperationsAgree(pktList, Items(pktList), 0)
=============================================================================
