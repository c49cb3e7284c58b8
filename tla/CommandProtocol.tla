--------------------------- MODULE CommandProtocol ---------------------------
(***************************************************************************)
(* The command protocol byte by byte: how the Java client encodes a command *)
(* (AbstractCommand.BuildByteBuffer and its subclasses), how a TCP stream   *)
(* cuts it up, and how the server takes what recv returns for a command     *)
(* (SocketServerRun, GetCommandLength, ParseCommand).                       *)
(*                                                                          *)
(* The server's receive buffer is cleared when a client connects and never  *)
(* between two messages: bytes of earlier messages stay behind a shorter    *)
(* one, and GetCommandLength, which is not told how many bytes have come,   *)
(* reads on into them.                                                      *)
(***************************************************************************)
EXTENDS Integers, Sequences, SequencesExt

CONSTANTS
  Commands,     \* the commands a client's script may have
  MaxCommands,  \* bound: commands sent in a behaviour
  MaxNesting    \* bound: the depth of recursion that the stack holds

CmdSetSingleSwitch == 193
CmdGetSingleSwitch == 194
CmdSetMultipleSwitches == 195
CmdGetMultipleSwitches == 196
CmdGetNumSwitches == 197
CmdSetSingleSwitchDelay == 198
CmdPassThrough == 199
CmdSetScheduledTask == 49
CmdGetScheduledTask == 50
CmdDeleteScheduledTask == 51
MultipleCommandHeader == 172

Byte == 0..255
UInt16 == 0..65535
Masks == SUBSET (0..63)        \* positions of one bits, 0 the highest
Weight == <<128, 64, 32, 16, 8, 4, 2, 1>>    \* of a byte's bits, the highest first

(***************************************************************************)
(* A command of one type, and a pack of them.  Fields a type does not use   *)
(* are 0, {} or empty, as ParseCommand's calls leave them out.              *)
(***************************************************************************)
SimpleTypes == CmdSetSingleSwitch..CmdPassThrough
Fields == [type : SimpleTypes, index : UInt16, status : Byte, mask : Masks,
           delay : UInt16, data : Seq(Byte)]
Simple ==
  {c \in Fields :
     /\ c.type \in {CmdGetNumSwitches, CmdPassThrough} => c.index = 0
     /\ c.type \notin {CmdSetSingleSwitch, CmdSetSingleSwitchDelay} => c.status = 0
     /\ c.type # CmdSetMultipleSwitches => c.mask = {}
     /\ c.type # CmdSetSingleSwitchDelay => c.delay = 0
     /\ c.type # CmdPassThrough => c.data = <<>>}
Pack == [type : {MultipleCommandHeader}, commands : Seq(Simple)]

CommandsAssumption ==
  /\ \A c \in Commands :
       IF c.type = MultipleCommandHeader THEN c \in Pack ELSE c \in Simple
  /\ MaxCommands \in Nat
  /\ MaxNesting \in Nat /\ MaxNesting >= 2
ASSUME CommandsAssumption

IsPack(type) ==  \* IS_COMMAND_PACK: has every bit of the header, 1010_1100
  /\ type \div 128 = 1
  /\ (type \div 32) % 2 = 1
  /\ (type \div 8) % 2 = 1
  /\ (type \div 4) % 2 = 1

-----------------------------------------------------------------------------
(***************************************************************************)
(* The client.                                                              *)
(***************************************************************************)
Short(n) == <<n \div 256, n % 256>>

Long(mask) ==
  [k \in 1..8 |->
     LET bit(j) == IF 8 * (k - 1) + j - 1 \in mask THEN Weight[j] ELSE 0
     IN  bit(1) + bit(2) + bit(3) + bit(4) + bit(5) + bit(6) + bit(7) + bit(8)]

ClientParameters(c) ==
  CASE c.type = CmdSetSingleSwitch -> Short(c.index) \o <<c.status>>
    [] c.type \in {CmdGetSingleSwitch, CmdGetMultipleSwitches} -> Short(c.index)
    [] c.type = CmdSetMultipleSwitches -> Short(c.index) \o Long(c.mask)
    [] c.type = CmdGetNumSwitches -> <<>>
    [] c.type = CmdSetSingleSwitchDelay ->
         Short(c.index) \o <<c.status>> \o Short(c.delay)
    [] c.type = CmdPassThrough -> <<Len(c.data) % 256>> \o c.data

BuildSimple(c) == <<c.type>> \o ClientParameters(c)

BuildByteBuffer(c) ==
  IF c.type = MultipleCommandHeader
  THEN <<MultipleCommandHeader, Len(c.commands) % 256>>
       \o FlattenSeq([i \in DOMAIN c.commands |-> BuildSimple(c.commands[i])])
  ELSE BuildSimple(c)

-----------------------------------------------------------------------------
(***************************************************************************)
(* The server.  at(data, p) is the byte at position p of the buffer; behind *)
(* all that has been written it is 0.                                       *)
(***************************************************************************)
at(data, p) == IF p \in 1..Len(data) THEN data[p] ELSE 0

Unhandled == -1        \* GetCommandLength's result for a type it does not know
Crash == -1000000      \* an assertion fails, or the recursion does not end

\* The length of one command that is no pack, at position p.
SimpleLength(data, p) ==
  CASE at(data, p) = CmdSetSingleSwitch -> 4
    [] at(data, p) = CmdGetSingleSwitch -> 3
    [] at(data, p) = CmdSetMultipleSwitches -> 11
    [] at(data, p) = CmdGetMultipleSwitches -> 2
    [] at(data, p) = CmdGetNumSwitches -> 1
    [] at(data, p) = CmdSetSingleSwitchDelay -> 6
    [] at(data, p) = CmdPassThrough -> 2 + at(data, p + 1)
    [] at(data, p) \in {CmdGetScheduledTask, CmdDeleteScheduledTask} -> 2
    [] OTHER -> Unhandled

ScheduledLength(data, p) ==
  IF at(data, p + 1) \in {CmdSetSingleSwitch, CmdSetMultipleSwitches}
  THEN 4 + SimpleLength(data, p + 1)
  ELSE Crash

\* The pointer in a pack at position p: it moves by the length of each of the
\* pack's commands in turn, back by one for a type GetCommandLength does not know.
Positions(length, count, p) ==
  LET next[i \in 0..count] ==
        IF i = 0 THEN p + 2
        ELSE LET pointer == next[i - 1]
                 step    == length[pointer]
             IN  IF Crash \in {pointer, step} THEN Crash ELSE pointer + step
  IN  next

\* A pack's length is the way the pointer has come; length is that of the
\* commands in it, found one level deeper in the recursion.
LengthAt(length, data, p) ==
  LET count == at(data, p + 1)
      end   == Positions(length, count, p)[count]
  IN  IF IsPack(at(data, p)) THEN IF end = Crash THEN Crash ELSE end - p
      ELSE IF at(data, p) = CmdSetScheduledTask THEN ScheduledLength(data, p)
      ELSE SimpleLength(data, p)

Lengths(data) ==
  LET length[depth \in 0..MaxNesting] ==
        [p \in Int |-> IF depth = 0 THEN Crash ELSE LengthAt(length[depth - 1], data, p)]
  IN  length[MaxNesting]

GetCommandLength(data, p) == Lengths(data)[p]

\* Mutant: the low byte first.
GetParamInt16_LowFirst(data, p) == at(data, p) + 256 * at(data, p + 1)
GetParamInt16(data, p) == 256 * at(data, p) + at(data, p + 1)

GetParamInt64(data, p) ==
  {b \in 0..63 : (at(data, p + (b \div 8)) \div Weight[(b % 8) + 1]) % 2 = 1}

\* The call of RadioNetworkAppendCommand, if any, for the command at position p.
ParseSimple(data, p) ==
  LET type == at(data, p)
      Call(index, status, mask, delay, bytes) ==
        <<[type |-> type, index |-> index, status |-> status, mask |-> mask,
           delay |-> delay, data |-> bytes]>>
  IN  CASE type = CmdSetSingleSwitch ->
             Call(GetParamInt16(data, p + 1), at(data, p + 3), {}, 0, <<>>)
        [] type \in {CmdGetSingleSwitch, CmdGetMultipleSwitches} ->
             Call(GetParamInt16(data, p + 1), 0, {}, 0, <<>>)
        [] type = CmdSetMultipleSwitches ->
             Call(GetParamInt16(data, p + 1), 0, GetParamInt64(data, p + 3), 0, <<>>)
        [] type = CmdGetNumSwitches -> Call(0, 0, {}, 0, <<>>)
        [] type = CmdSetSingleSwitchDelay ->
             Call(GetParamInt16(data, p + 1), at(data, p + 3), {},
                  GetParamInt16(data, p + 4), <<>>)
        [] type = CmdPassThrough ->
             Call(0, 0, {}, 0, [i \in 1..at(data, p + 1) |-> at(data, p + 1 + i)])
        [] OTHER -> <<>>

\* The calls for the command at position p; calls are those of the commands in
\* a pack, one level deeper.
CallsAt(calls, data, p) ==
  LET count == at(data, p + 1)
      next  == Positions(Lengths(data), count, p)
  IN  IF IsPack(at(data, p)) THEN FlattenSeq([i \in 1..count |-> calls[next[i - 1]]])
      ELSE ParseSimple(data, p)

\* ParseCommand behind its assertion.
ParseCommand(data, position) ==
  LET calls[depth \in 0..MaxNesting] ==
        [p \in Int |-> IF depth = 0 THEN <<>> ELSE CallsAt(calls[depth - 1], data, p)]
  IN  calls[MaxNesting][position]

-----------------------------------------------------------------------------
VARIABLES
  sent,    \* history: the commands the clients have sent
  stream,  \* external: the bytes on their way to recv
  data,    \* SocketServerRun's buffer, as far as it has been written
  calls,   \* history: the calls of RadioNetworkAppendCommand
  ended    \* an assertion has failed, or the stack is used up

vars == <<sent, stream, data, calls, ended>>

Init ==
  /\ sent = <<>>
  /\ stream = <<>>
  /\ data = <<>>
  /\ calls = <<>>
  /\ ended = FALSE

Send(c) ==
  /\ ~ended
  /\ Len(sent) < MaxCommands
  /\ sent' = Append(sent, c)
  /\ stream' = stream \o BuildByteBuffer(c)
  /\ UNCHANGED <<data, calls, ended>>

\* The buffer after recv has put n bytes at its start.
Received(n) == SubSeq(stream, 1, n) \o SubSeq(data, n + 1, Len(data))

\* recv returns n bytes, and ParseCommand is called with them.
\*
\* Mutant: without the assertion.
Receive_Unchecked(n) ==
  /\ ~ended
  /\ n <= 1024
  /\ data' = Received(n)
  /\ stream' = SubSeq(stream, n + 1, Len(stream))
  /\ calls' = calls \o ParseCommand(data', 1)
  /\ UNCHANGED <<sent, ended>>
Receive(n) ==
  /\ ~ended
  /\ n <= 1024
  /\ data' = Received(n)
  /\ stream' = SubSeq(stream, n + 1, Len(stream))
  /\ ended' = (GetCommandLength(data', 1) # n)
  /\ calls' = IF ended' THEN calls ELSE calls \o ParseCommand(data', 1)
  /\ UNCHANGED sent

\* The client leaves and another connects: the buffer is cleared.
Reconnect ==
  /\ ~ended
  /\ stream = <<>>
  /\ data' = <<>>
  /\ UNCHANGED <<sent, stream, calls, ended>>

Stopped == ended /\ UNCHANGED vars

Next ==
  \/ \E c \in Commands : Send(c)
  \/ \E n \in 1..Len(stream) : Receive(n)
  \/ Reconnect
  \/ Stopped

Spec == Init /\ [][Next]_vars

-----------------------------------------------------------------------------
(***************************************************************************)
(* Properties.                                                              *)
(***************************************************************************)
SimpleCommands(c) == IF c.type = MultipleCommandHeader THEN c.commands ELSE <<c>>

\* The calls that commands stand for, and their bytes.
Meaning(commands) ==
  FlattenSeq([i \in DOMAIN commands |-> SimpleCommands(commands[i])])
BytesOf(commands) ==
  FlattenSeq([i \in DOMAIN commands |-> BuildByteBuffer(commands[i])])

\* However TCP cuts the stream when a single command is next, and whatever
\* earlier messages left in the buffer, no piece of it and no two commands
\* together are taken for a command: that very command is carried out, or the
\* assertion ends the program.
CutsAreNotMistaken ==
  [][\A k \in DOMAIN sent :
       /\ sent[k].type # MultipleCommandHeader
       /\ stream = BytesOf(SubSeq(sent, k, Len(sent)))
       /\ calls = Meaning(SubSeq(sent, 1, k - 1))
       /\ stream' # stream /\ sent' = sent
       => IF ended' THEN calls' = calls ELSE calls' = Append(calls, sent[k])]_vars

\* A command or a pack that recv returns whole is understood: GetCommandLength
\* finds the length the client gave it, whatever the buffer still holds behind
\* it, and every command of it is carried out.
WholeCommandUnderstood ==
  [][\A c \in Commands :
       stream = BuildByteBuffer(c) /\ stream' = <<>> =>
         ~ended' /\ calls' = calls \o SimpleCommands(c)]_vars

-----------------------------------------------------------------------------
(***************************************************************************)
(* What the theorems about these two assume of the commands.                *)
(***************************************************************************)
\* A command both sides agree on: the server expects two bytes of a
\* GetMultipleSwitches, of which the client sends three, and a length of more
\* than a byte is cut.
Fits(c) == c \in Simple /\ c.type # CmdGetMultipleSwitches /\ Len(c.data) <= 255

\* A command the two sides agree on, a pack of such among them.
FitsOrPack(c) ==
  IF c.type = MultipleCommandHeader
  THEN Len(c.commands) <= 255 /\ \A i \in DOMAIN c.commands : Fits(c.commands[i])
  ELSE Fits(c)

\* Every command of a script is one.
FitTheProtocol == \A c \in Commands : FitsOrPack(c)
=============================================================================
