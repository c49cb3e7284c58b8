------------------------------ MODULE AppConfig ------------------------------
(***************************************************************************)
(* What Util.c's iniHandler makes of gAppConfig, one entry at a time: an    *)
(* entry is the section it stands in, its name and its value, as ini_parse  *)
(* hands them over (ServerStart).  The RadioNetworkConfig in gAppConfig is  *)
(* what RadioNetworkInit takes EndpointCount and SwitchCount of             *)
(* RadioNetwork from.                                                       *)
(***************************************************************************)
EXTENDS Integers, Sequences

\* A value is what each conversion the handler uses makes of it: strdup, atoi
\* and htoi.
Value == [text : STRING, atoi : Nat, htoi : Nat]

\* The handler's cascade of MATCHes, in order.  (AddressHi and AddressLo share
\* a branch.)
Settings == <<
  <<"SocketServer", "ServerPort">>,
  <<"XBeeControl", "XBeeMode">>,
  <<"XBeeControl", "DevicePath">>,
  <<"XBeeControl", "BaudRate">>,
  <<"RadioNetwork", "NetworkTopology">>,
  <<"RadioNetwork", "CommandPoolSize">>,
  <<"RadioNetwork", "StarEndPoints">>,
  <<"RadioNetwork", "StarNumberSwitches">>,
  <<"RadioNetwork", "AddressHi">>,
  <<"RadioNetwork", "AddressLo">> >>

NULL == <<>>    \* no string, no buffer; a string s is <<s>>

VARIABLES
  gAppConfig,   \* the fields of the three sections
  file          \* history: the entries handled

configVars == <<gAppConfig, file>>

\* main() clears gAppConfig before it parses.
ClearedConfig ==
  [uServerPort |-> 0, szXBeeMode |-> NULL, szDevicePath |-> NULL,
   iBaudRate |-> 0, topology |-> "pair", commandPoolSize |-> 0,
   endPointCount |-> 0, switchCountPerEndPoint |-> 0, addressBuffer |-> NULL]

InitConfig == gAppConfig = ClearedConfig /\ file = <<>>

-----------------------------------------------------------------------------
\* MATCH(s, n) compares with 0 the conjunction of "the section is s" and
\* "the name differs from n": the parenthesis closes after strcmp(name, n).
MATCH(e, s, n) == ~(e.section = s /\ e.name # n)

\* The handler's else-ifs: the first that matches handles the entry.
HandledAs(e, i) ==
  /\ MATCH(e, Settings[i][1], Settings[i][2])
  /\ \A j \in 1..i-1 : ~MATCH(e, Settings[j][1], Settings[j][2])

\* The first zero word of the buffer takes the address, if there is one.
FillAddress(buffer, word) ==
  LET zeros == {i \in DOMAIN buffer : buffer[i] = 0}
      first == CHOOSE i \in zeros : \A j \in zeros : i <= j
  IN  IF zeros = {} THEN buffer ELSE [buffer EXCEPT ![first] = word]

Assigned(c, i, v) ==
  CASE i = 1 -> [c EXCEPT !.uServerPort = v.atoi]
    [] i = 2 -> [c EXCEPT !.szXBeeMode = <<v.text>>]
    [] i = 3 -> [c EXCEPT !.szDevicePath = <<v.text>>]
    [] i = 4 -> [c EXCEPT !.iBaudRate = v.atoi]
    [] i = 5 -> IF v.text = "star" THEN [c EXCEPT !.topology = "star"] ELSE c
    [] i = 6 -> [c EXCEPT !.commandPoolSize = v.atoi]
    [] i = 7 -> [c EXCEPT !.endPointCount = v.atoi,
                          !.addressBuffer = [w \in 1..2*v.atoi |-> 0]]
    [] i = 8 -> [c EXCEPT !.switchCountPerEndPoint = v.atoi]
    [] i \in {9, 10} ->
         [c EXCEPT !.addressBuffer = FillAddress(@, v.htoi)]

\* The handler's result is 0 for an entry it does not know and for an address
\* that has no place.
Handled(c, e) ==
  \E i \in DOMAIN Settings :
    /\ HandledAs(e, i)
    /\ i \in {9, 10} => \E w \in DOMAIN c.addressBuffer : c.addressBuffer[w] = 0

iniHandler(e) ==
  /\ IF \E i \in DOMAIN Settings : HandledAs(e, i)
     THEN \E i \in DOMAIN Settings :
            /\ HandledAs(e, i)
            /\ gAppConfig' = Assigned(gAppConfig, i, e.value)
     ELSE gAppConfig' = gAppConfig      \* unrecognised
  /\ file' = Append(file, e)

-----------------------------------------------------------------------------
(***************************************************************************)
(* What the repository says of the configuration, and the code does not do. *)
(***************************************************************************)
\* The i-th entry of the file is the last one for setting n of the network.
Sets(i, n) ==
  /\ file[i].section = "RadioNetwork" /\ file[i].name = n
  /\ \A j \in i+1..Len(file) :
       ~(file[j].section = "RadioNetwork" /\ file[j].name = n)

\* The design document has the ini file set up the number of endpoints and the
\* number of switches each end point controls: after iniHandler, gAppConfig has
\* the numbers the file gives.
ConfigurableByIniFile ==
  \A i \in DOMAIN file :
    /\ Sets(i, "StarEndPoints")
         => gAppConfig.endPointCount = file[i].value.atoi
    /\ Sets(i, "StarNumberSwitches")
         => gAppConfig.switchCountPerEndPoint = file[i].value.atoi
=============================================================================
