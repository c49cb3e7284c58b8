---------------------------- MODULE MCServerStart ----------------------------
(***************************************************************************)
(* The config.ini in the repository, and short files with a value that goes *)
(* on in the next line, a heading without its bracket and a line that is    *)
(* nothing.                                                                 *)
(***************************************************************************)
EXTENDS ServerStart, SequencesExt

Plain(text, atoi, htoi) == [text |-> text, atoi |-> atoi, htoi |-> htoi]
Nothing == Plain("", 0, 0)

Line(kind, indented, section_, name, value) ==
  [kind |-> kind, indented |-> indented, section |-> section_, name |-> name,
   prev_name |-> name, value |-> value, whole |-> value]
Headed(s) == Line("heading", FALSE, s, "", Nothing)
Given(n, text, atoi, htoi) == Line("pair", FALSE, "", n, Plain(text, atoi, htoi))
Odd(kind, indented) == Line(kind, indented, "", "", Nothing)

\* A hexadecimal text is 0 to atoi; the addresses are kept small.
ShippedFile == <<
  Odd("comment", FALSE), Odd("blank", FALSE),
  Headed("SocketServer"), Given("ServerPort", "3940", 3940, 14656),
  Headed("XBeeControl"), Given("XBeeMode", "xbee2", 0, 0),
  Given("DevicePath", "/dev/ttyUSB0", 0, 0), Given("BaudRate", "9600", 9600, 38400),
  Headed("RadioNetwork"), Given("CommandPoolSize", "16", 16, 22),
  Given("NetworkTopology", "star", 0, 0), Given("StarEndPoints", "2", 2, 2),
  Given("StarNumberSwitches", "4", 4, 4),
  Given("AddressHi", "0x0013A200", 0, 1286656),
  Given("AddressLo", "0x409c27bc", 0, 4096)>>

SomeLines == {
  Headed("SocketServer"), Given("XBeeMode", "xbee2", 0, 0),
  Given("ServerPort", "3940", 3940, 14656),
  Line("pair", TRUE, "", "DevicePath", Plain("/dev/ttyUSB0", 0, 0)),
  Odd("unclosed", FALSE), Odd("other", TRUE)}

SomeFiles == {ShippedFile} \cup TupleOf(SomeLines, 3)
Modes == {"xbee1", "xbee2", "xbee5", "xbeeZB", "net", "debug"}
=============================================================================
