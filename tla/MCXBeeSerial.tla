---------------------------- MODULE MCXBeeSerial ----------------------------
(* XBeeSerial with short real messages of three modes; the code of the      *)
(* fourth, XBee ZB, is that of XBee 2.                                      *)
EXTENDS XBeeSerial

\* Two samples of pin 0, of the highest digital pin and of an analog pin; the
\* analog values need an escape, or are 0, or have both bytes.
Two(high, channel) ==
    << [digital |-> 0 :> 1 @@ high :> 0, analog |-> channel :> 126],
       [digital |-> 0 :> 0 @@ high :> 1, analog |-> channel :> 0] >>
One(high, channel) ==
    << [digital |-> high :> 1, analog |-> 0 :> 1021 @@ channel :> 0] >>

Sample(header, series, readings) ==
    [msg |-> header \o SampleData(series, readings), readings |-> readings]
Plain(msg) == [msg |-> msg, readings |-> <<>>]

\* What comes before the samples: an I/O message, or the answer to IS.
Board == <<0, 19, 162, 0, 64, 1, 2, 3>>
Local == <<136, 1, 73, 83, 0>>
Remote == <<151, 1>> \o Board \o <<5, 6, 105, 115, 0>>
Headers ==
    [series \in {"s1", "s2", "zb", "s5"} |->
        {Local, Remote} \cup
            CASE series = "s1" -> {<<131, 1, 2, 40, 0>>, <<130>> \o Board \o <<40, 0>>}
              [] series = "s5" -> {}
              [] OTHER -> {<<146>> \o Board \o <<5, 6, 1>>}]

\* Whatever the mode and the type of the message, a packet made of it answers
\* for the samples it carries.
ASSUME
    \A series \in DOMAIN Headers : \A header \in Headers[series] :
    \A readings \in {Two(8, 2), Two(7, 4), One(7, 3), One(0, 1)} :
        DOMAIN readings[1].digital \subseteq Layout(series).digital =>
            LET f == Sample(header, series, readings)
            IN  /\ MakesPacket(series, f.msg) /\ CarriesSample(series, f.msg)
                /\ \A build \in {"32 bits", "64 bits, low half first"} :
                      ReadsBack(build, series, readings, PacketOf(series, f.msg))

\* Data that holds a whole frame, a transmit status; and bytes to be escaped, so
\* that a chunk shrinks and ends with an escape.
Data == <<129, 0, 1, 40, 0, 126, 0, 3, 137, 5, 0, 113, 17, 0>>

\* With each message that has a sample one without: data, or a modem status of
\* which a byte or the checksum is to be escaped.
MCFrames ==
    [series \in {"s1", "s2", "s5"} |->
        CASE series = "s1" -> {Sample(<<131, 1, 2, 40, 0>>, "s1", Two(8, 5)), Plain(Data)}
          [] series = "s2" -> {Sample(<<146>> \o Board \o <<5, 6, 1>>, "s2", One(12, 4)), Plain(<<138, 125>>)}
          [] series = "s5" -> {Sample(Local, "s5", Two(9, 5)), Plain(<<138, 247>>)}]
=============================================================================
