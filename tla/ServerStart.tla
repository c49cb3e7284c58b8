----------------------------- MODULE ServerStart -----------------------------
(***************************************************************************)
(* main() up to SocketServerRun: the logger, config.ini, the socket server, *)
(* the XBee, the radio network, and the processing thread.  Of all their    *)
(* results main looks at two: zLogInit's, and whether ini_parse could open  *)
(* the file.                                                                *)
(*                                                                          *)
(* The file is the sequence of chunks fgets returns: a line, or 199 bytes   *)
(* of a longer one.                                                         *)
(***************************************************************************)
EXTENDS AppConfig

CONSTANTS
  Files,       \* the files config.ini may be
  NoFile,      \* TRUE when there may be none
  KnownModes   \* the names in libxbee's modeList

(***************************************************************************)
(* What ini_parse_file's scanning makes of a chunk.                         *)
(*   kind       what its first byte that is not blank makes it: "unclosed"  *)
(*              is a heading without ']', "other" has no '=' and no ':'     *)
(*   indented   it has blanks before that byte                              *)
(*   section    of a heading: the name in the brackets, cut to 49 bytes     *)
(*   name       of a pair                                                   *)
(*   prev_name  of a pair: the name, cut to 49 bytes                        *)
(*   value      of a pair: without the comment behind it                    *)
(*   whole      the chunk without the blanks around it, comment and all     *)
(***************************************************************************)
Kinds == {"blank", "comment", "heading", "unclosed", "pair", "other"}
Chunk == [kind : Kinds, indented : BOOLEAN, section : STRING, name : STRING,
          prev_name : STRING, value : Value, whole : Value]

VARIABLES
  pc,          \* where main is; "exited" and "crashed" are the ends
  rest,        \* the chunks of the file that fgets has not read
  section, prev_name, lineno, error,   \* ini_parse_file's
  servinfo,    \* the address SocketServerInit looked up, by its port
  xbee,        \* the instance xbee_setup made
  g_radio_network_spec,
  processing,  \* the processing thread has been created
  listening    \* the socket is bound and listens

parseVars == <<rest, section, prev_name, lineno, error>>
serverVars == <<servinfo, xbee, g_radio_network_spec, processing, listening>>
startVars == <<pc, configVars, parseVars, serverVars>>

NoSpec == [endpoint_count |-> 0, switch_count |-> 0, endpoint_address_list |-> NULL]

StartInit ==
  /\ InitConfig
  /\ pc = "log"
  /\ rest = <<>> /\ section = "" /\ prev_name = "" /\ lineno = 0 /\ error = 0
  /\ servinfo = NULL /\ xbee = NULL /\ g_radio_network_spec = NoSpec
  /\ processing = FALSE /\ listening = FALSE

-----------------------------------------------------------------------------
\* zlog_init, or one of zlog_get_category, may fail.
zLogInit ==
  /\ pc = "log"
  /\ pc' \in {"open", "exited"}
  /\ UNCHANGED <<configVars, parseVars, serverVars>>

ini_parse ==
  /\ pc = "open"
  /\ \/ /\ NoFile
        /\ pc' = "exited"
        /\ UNCHANGED rest
     \/ /\ rest' \in Files
        /\ pc' = "parse"
  /\ UNCHANGED <<configVars, section, prev_name, lineno, error, serverVars>>

\* Only the first error is kept, by its line; parsing goes on.
FirstError(failed) ==
  error' = IF failed /\ error = 0 THEN lineno + 1 ELSE error

Comment(c) ==
  /\ c.kind = "comment"
  /\ UNCHANGED <<configVars, section, prev_name, error>>

\* An indented line behind an entry, a heading too, is one more value of its name.
Continues(c) ==
  c.kind \notin {"comment", "blank"} /\ c.indented /\ prev_name # ""

Continuation(c) ==
  LET e == [section |-> section, name |-> prev_name, value |-> c.whole]
  IN  /\ Continues(c)
      /\ iniHandler(e)
      /\ FirstError(~Handled(gAppConfig, e))
      /\ UNCHANGED <<section, prev_name>>

Heading(c) ==
  /\ ~Continues(c)
  /\ c.kind = "heading"
  /\ section' = c.section
  /\ prev_name' = ""
  /\ UNCHANGED <<configVars, error>>

Pair(c) ==
  LET e == [section |-> section, name |-> c.name, value |-> c.value]
  IN  /\ ~Continues(c)
      /\ c.kind = "pair"
      /\ prev_name' = c.prev_name
      /\ iniHandler(e)
      /\ FirstError(~Handled(gAppConfig, e))
      /\ UNCHANGED section

Neither(c) ==
  /\ ~Continues(c)
  /\ c.kind \in {"blank", "unclosed", "other"}
  /\ FirstError(c.kind # "blank")
  /\ UNCHANGED <<configVars, section, prev_name>>

ini_parse_file ==
  /\ pc = "parse"
  /\ rest # <<>>
  /\ LET c == Head(rest)
     IN  Comment(c) \/ Continuation(c) \/ Heading(c) \/ Pair(c) \/ Neither(c)
  /\ rest' = Tail(rest)
  /\ lineno' = lineno + 1
  /\ UNCHANGED <<pc, serverVars>>

\* The line of an error is no reason for main to stop.
Parsed ==
  /\ pc = "parse"
  /\ rest = <<>>
  /\ pc' = "socket"
  /\ UNCHANGED <<configVars, parseVars, serverVars>>

\* getaddrinfo may fail; main goes on.
SocketServerInit ==
  /\ pc = "socket"
  /\ servinfo' \in {NULL, <<gAppConfig.uServerPort>>}
  /\ pc' = "radio"
  /\ UNCHANGED <<configVars, parseVars, xbee, g_radio_network_spec, processing,
                 listening>>

\* Without a mode of libxbee's xbee_setup fails, and main goes on.  With one it may
\* fail too; but the mode's init takes the length of the device path, which may
\* be NULL, and only debug's looks at that first.
XBeeRadioInit ==
  LET mode == gAppConfig.szXBeeMode
      known == \E m \in KnownModes : mode = <<m>>
      path == gAppConfig.szDevicePath # NULL
  IN  /\ pc = "radio"
      /\ \/ pc' = "network" /\ UNCHANGED xbee
         \/ known /\ path /\ pc' = "network" /\ xbee' = mode
         \/ known /\ ~path /\ mode # <<"debug">> /\ pc' = "crashed" /\ UNCHANGED xbee
      /\ UNCHANGED <<configVars, parseVars, servinfo, g_radio_network_spec,
                     processing, listening>>

RadioNetworkInit ==
  LET n == gAppConfig.endPointCount
      buffer == gAppConfig.addressBuffer
  IN  /\ pc = "network"
      /\ IF n > 0 /\ buffer = NULL
         THEN pc' = "crashed" /\ UNCHANGED g_radio_network_spec
         ELSE /\ pc' = "thread"
              /\ g_radio_network_spec' =
                   [endpoint_count |-> n,
                    switch_count |-> gAppConfig.switchCountPerEndPoint,
                    endpoint_address_list |->
                      [i \in 1..n |-> <<buffer[2*i - 1], buffer[2*i]>>]]
      /\ UNCHANGED <<configVars, parseVars, servinfo, xbee, processing, listening>>

\* _SocketIdInit, and pthread_create, whose result is not looked at.
CreateProcessingThread ==
  /\ pc = "thread"
  /\ processing' \in BOOLEAN
  /\ pc' = "listen"
  /\ UNCHANGED <<configVars, parseVars, servinfo, xbee, g_radio_network_spec,
                 listening>>

\* socket() is given servinfo's family, whether there is a servinfo or not; bind
\* and listen may fail.
SocketServerStart ==
  /\ pc = "listen"
  /\ IF servinfo = NULL
     THEN pc' = "crashed" /\ UNCHANGED listening
     ELSE pc' = "serving" /\ listening' \in BOOLEAN
  /\ UNCHANGED <<configVars, parseVars, servinfo, xbee, g_radio_network_spec,
                 processing>>

StartNext ==
  \/ zLogInit \/ ini_parse \/ ini_parse_file \/ Parsed
  \/ SocketServerInit \/ XBeeRadioInit \/ RadioNetworkInit
  \/ CreateProcessingThread \/ SocketServerStart

StartSpec == StartInit /\ [][StartNext]_startVars
=============================================================================
