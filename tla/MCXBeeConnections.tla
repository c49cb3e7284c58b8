------------------------- MODULE MCXBeeConnections --------------------------
(***************************************************************************)
(* XBeeConnections for TLC.                                                 *)
(***************************************************************************)
EXTENDS XBeeConnections, TLC

\* Two connections of the types whose addresses, learning or frames differ most.
OneAtATime ==
  {<<m, t.name>> : m \in Modes, t \in UNION {ConTypes(n) : n \in Modes}} \
  {<<"xbee1", "64-bit Data">>, <<"xbee1", "Remote AT">>, <<"xbeeZB", "Data">>,
   <<"xbeeZB", "I/O">>, <<"xbee5", "Data (explicit)">>}
ExplicitUses == {<<NoEndpoints, None, None>>} \cup
                {<<<<8, 9>>, None, None>>, <<<<8, 9>>, 7, 6>>}
SettingsUsed == {{"catchAll"}}
AnyConnection == Permutations(Cons)
=============================================================================
