---------------------------- MODULE XBeeSamples ----------------------------
(***************************************************************************)
(* The packets of libxbee and what a board has sampled on its pins: the     *)
(* keyed data of a packet (src/lib/xbee/pkt.c), and the four functions that  *)
(* read an I/O sample into it (src/lib/xbee/modes/.../io.c).  A packet's data  *)
(* is a sequence of keys, each with the sequence of its items.               *)
(***************************************************************************)
EXTENDS Integers, FiniteSetsExt, SequencesExt

Bit(value, k) == (value \div 2^k) % 2

-----------------------------------------------------------------------------
(* Keys and items.                                                          *)

\* The index of the first key of that name and identifier, or 0; the
\* identifier -1 is any.
DataKeyGet(keys, name, id) ==
    LET found == {i \in DOMAIN keys : keys[i].name = name /\ id \in {-1, keys[i].id}}
    IN  IF found = {} THEN 0 ELSE Min(found)

DataKeyAdd(keys, name, id) ==
    IF DataKeyGet(keys, name, id) # 0 THEN keys
    ELSE Append(keys, [name |-> name, id |-> id, items |-> <<>>])

\* An item is a pointer, and NULL is refused.
DataAdd(keys, name, id, data) ==
    IF data = 0 THEN keys
    ELSE LET with == DataKeyAdd(keys, name, id)
             k    == DataKeyGet(with, name, id)
         IN  [with EXCEPT ![k].items = Append(@, data)]

DataGet(keys, name, id, index) ==
    LET k == DataKeyGet(keys, name, id)
    IN  IF k = 0 THEN [err |-> "failed"]
        ELSE IF index >= Len(keys[k].items) THEN [err |-> "range"]
        ELSE [err |-> "none", data |-> keys[k].items[index + 1]]

\* How the program is built: the width of a pointer, which of its halves comes
\* first, and whether the stack is guarded.
Builds == {"32 bits", "64 bits, low half first", "64 bits, guarded", "64 bits, high half first"}

\* A getter has xbee_pktDataGet store the item, a whole pointer, in an int: the
\* int has what comes first of it, and in 64 bits what is next to the int is
\* written over, which a guarded stack may find.  (Items are below 2^32.)
AsInt(build, r) ==
    IF r.err # "none" THEN r
    ELSE CASE build = "64 bits, guarded" -> [err |-> "aborted"]
           [] build = "64 bits, high half first" -> [r EXCEPT !.data = 0]
           [] OTHER -> r

\* The values are kept one higher, for a reading of 0 would be NULL.
AnalogAdd(keys, channel, value) == DataAdd(keys, "analog", channel, value + 1)

AnalogGet(build, keys, channel, index) ==
    LET r == AsInt(build, DataGet(keys, "analog", channel, index))
    IN  IF r.err = "none" THEN [r EXCEPT !.data = @ - 1] ELSE r

DigitalAdd(keys, channel, value) ==
    DataAdd(keys, "digital", channel, IF value = 0 THEN 1 ELSE 2)

DigitalGet(build, keys, channel, index) ==
    LET r == AsInt(build, DataGet(keys, "digital", channel, index))
    IN  IF r.err = "none" THEN [r EXCEPT !.data = IF @ = 1 THEN 0 ELSE 1] ELSE r

-----------------------------------------------------------------------------
(* The four readers.  A sample is a count, a mask of the channels, and for   *)
(* each of count samples one word for all digital channels, if there are     *)
(* any, and one for each analog channel.                                    *)

Layout(series) ==
    CASE series = "s1" -> [mask |-> 2, digital |-> 0..8, analog |-> [c \in 0..5 |-> 9 + c]]
      [] series \in {"s2", "zb"} ->
            [mask |-> 3, digital |-> 0..7 \cup 10..12,
             analog |-> [c \in 0..4 |-> IF c = 4 THEN 23 ELSE 16 + c]]
      [] series = "s5" -> [mask |-> 3, digital |-> 0..12, analog |-> [c \in 0..5 |-> 16 + c]]

\* The third byte of the longer masks is the highest.
IoMask(series, data) ==
    data[2] * 256 + data[3] + IF Layout(series).mask = 3 THEN data[4] * 65536 ELSE 0

DigitalChannels(series, data) ==
    {c \in Layout(series).digital : Bit(IoMask(series, data), c) = 1}
AnalogChannels(series, data) ==
    {c \in DOMAIN Layout(series).analog : Bit(IoMask(series, data), Layout(series).analog[c]) = 1}

\* What the word at data[at], data[at + 1] adds, the slot-th of its sample.
AddWord(series, data, keys, at, slot) ==
    LET digital == DigitalChannels(series, data)
        analog  == SetToSortSeq(AnalogChannels(series, data), <)
        word    == data[at] * 256 + data[at + 1]
        first   == IF digital = {} THEN 0 ELSE 1
    IN  IF slot < first
        THEN FoldLeft(LAMBDA ks, c : DigitalAdd(ks, c, Bit(word, c)),
                      keys, SetToSortSeq(digital, <))
        ELSE AnalogAdd(keys, analog[slot - first + 1], word % 16384)

\* Reading stops without a word at the first that is cut off.
ParseInputs(series, data) ==
    LET start == Layout(series).mask + 2
        slots == Cardinality(AnalogChannels(series, data))
                 + IF DigitalChannels(series, data) = {} THEN 0 ELSE 1
        words == Min({data[1] * slots, (Len(data) + 1 - start) \div 2})
        Step(keys, w) == AddWord(series, data, keys, start + 2 * w, w % slots)
    IN  IF Len(data) < start - 1 THEN <<>>
        ELSE FoldLeft(Step, <<>>, [i \in 1..words |-> i - 1])

-----------------------------------------------------------------------------
(* The messages that make packets, and those that carry samples.             *)

\* The answer to a local or a remote AT command: its status comes last before
\* the value, its command before that.
IsAnswer(msg) == msg[1] \in {136, 151}

\* The bytes before the value or the sample: 0x97, 0x82 and 0x92 have a 64-bit
\* address in it, the last and 0x97 a 16-bit one too, and 0x83 that only.
Header(msg) == (136 :> 5 @@ 151 :> 15 @@ 130 :> 11 @@ 131 :> 5 @@ 146 :> 12)[msg[1]]

\* The lengths the rxHandlers take, of the types that make packets.
Lengths(series) ==
    LET from(n) == n..256
        every   == 138 :> {2} @@ 136 :> from(5) @@ 151 :> from(15)
        data    == 144 :> from(12) @@ 145 :> from(18) @@ 149 :> from(30)
        pins    == 146 :> from(16) @@ 148 :> {22}
    IN  CASE series = "s1" ->
                every @@ 128 :> from(11) @@ 129 :> from(5) @@ 130 :> from(11) @@ 131 :> from(5)
          [] series = "s2" -> every @@ data @@ pins
          [] series = "zb" -> every @@ data @@ pins @@ 160 :> {22}
          [] series = "s5" -> every @@ data

\* Of other types or lengths there is none, nor of a command that failed.
MakesPacket(series, msg) ==
    /\ msg[1] \in DOMAIN Lengths(series)
    /\ Len(msg) \in Lengths(series)[msg[1]]
    /\ IsAnswer(msg) => msg[Header(msg)] = 0

\* funcPost is that of the I/O types, and of answers to the command IS.
CarriesSample(series, msg) ==
    \/ series = "s1" /\ msg[1] \in {130, 131}
    \/ series \in {"s2", "zb"} /\ msg[1] = 146
    \/ /\ IsAnswer(msg)
       /\ msg[Header(msg) - 2] \in {73, 105} /\ msg[Header(msg) - 1] \in {83, 115}

\* The key data read out of a message with a sample.
PacketOf(series, msg) == ParseInputs(series, SubSeq(msg, Header(msg) + 1, Len(msg)))

-----------------------------------------------------------------------------
(* The board (external): the pins it is set to sample and their readings.    *)
(* readings is the sequence of its samples, each a pair of a function from   *)
(* the digital channels to 0..1 and one from the analog to 0..1023.          *)

SampleData(series, readings) ==
    LET dig  == DOMAIN readings[1].digital
        ana  == DOMAIN readings[1].analog
        mask == MapThenSumSet(LAMBDA c : 2^c, dig)
                + MapThenSumSet(LAMBDA c : 2^Layout(series).analog[c], ana)
        word(v)   == <<v \div 256, v % 256>>
        levels(r) == MapThenSumSet(LAMBDA c : r.digital[c] * 2^c, dig)
        one(r)    == (IF dig = {} THEN <<>> ELSE word(levels(r)))
                     \o FlattenSeq([i \in 1..Cardinality(ana) |->
                                      word(r.analog[SetToSortSeq(ana, <)[i]])])
    IN  <<Len(readings)>> \o word(mask % 65536)
        \o (IF Layout(series).mask = 3 THEN <<mask \div 65536>> ELSE <<>>)
        \o FlattenSeq([i \in DOMAIN readings |-> one(readings[i])])

\* The packet gives back each reading, and nothing of other channels.
ReadsBack(build, series, readings, keys) ==
    /\ \A i \in DOMAIN readings :
          /\ \A c \in DOMAIN readings[i].digital :
                DigitalGet(build, keys, c, i - 1)
                    = [err |-> "none", data |-> readings[i].digital[c]]
          /\ \A c \in DOMAIN readings[i].analog :
                AnalogGet(build, keys, c, i - 1)
                    = [err |-> "none", data |-> readings[i].analog[c]]
    /\ \A c \in Layout(series).digital \ DOMAIN readings[1].digital :
          DigitalGet(build, keys, c, 0).err = "failed"
    /\ \A c \in DOMAIN Layout(series).analog \ DOMAIN readings[1].analog :
          AnalogGet(build, keys, c, 0).err = "failed"
=============================================================================
