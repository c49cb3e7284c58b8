------------------------- MODULE ServerInputProofs --------------------------
(***************************************************************************)
(* What the server makes of what it reads: of config.ini at its start       *)
(* (ServerStart), and of its clients' bytes (CommandProtocol).              *)
(*                                                                          *)
(* Both GetCommandLength and ParseCommand recurse into packs.  The model    *)
(* has them as functions of the depth, and a pack's pointer as one of the   *)
(* commands passed; that such a function is what its rule says, and what it *)
(* holds at each argument, is shown once for all iterations (Iterates) from *)
(* the well-foundedness of the naturals.                                    *)
(***************************************************************************)
EXTENDS ServerStart, CommandProtocol, SequenceTheorems, WellFoundedInduction, TLAPS

-----------------------------------------------------------------------------
(***************************************************************************)
(* Why: only the first two branches of the cascade are ever taken.          *)
(***************************************************************************)
StarUnset ==
  /\ DOMAIN gAppConfig = DOMAIN ClearedConfig
  /\ gAppConfig.szDevicePath = NULL
  /\ gAppConfig.endPointCount = 0
  /\ gAppConfig.switchCountPerEndPoint = 0
  /\ gAppConfig.addressBuffer = NULL

\* An entry of any section but SocketServer is handled as ServerPort, and one of
\* SocketServer as ServerPort or as XBeeMode (iniHandler's MATCH).
LEMMA FirstTwoBranches ==
  ASSUME NEW e, NEW i \in DOMAIN Settings, HandledAs(e, i)
  PROVE  i \in {1, 2}
<1>1. Settings[1] = <<"SocketServer", "ServerPort">>
      /\ Settings[2] = <<"XBeeControl", "XBeeMode">>
      /\ DOMAIN Settings = 1..10
  BY DEF Settings
<1>2. SUFFICES ASSUME i \notin {1, 2} PROVE FALSE
  OBVIOUS
<1>3. 1 \in 1..i-1 /\ 2 \in 1..i-1
  BY <1>1, <1>2
<1>4. e.section = "SocketServer" /\ e.section = "XBeeControl"
  BY <1>1, <1>3 DEF HandledAs, MATCH
<1> QED
  BY <1>4

\* Any entry leaves the device path, the endpoints, the switches and the
\* addresses as memset left them (iniHandler).
LEMMA HandlerKeepsStarUnset ==
  ASSUME NEW e, StarUnset, iniHandler(e)
  PROVE  StarUnset'
<1>1. CASE gAppConfig' = gAppConfig
  BY <1>1 DEF StarUnset
<1>2. ASSUME NEW i \in DOMAIN Settings, HandledAs(e, i),
             gAppConfig' = Assigned(gAppConfig, i, e.value)
      PROVE  StarUnset'
  <2>1. i \in {1, 2}
    BY <1>2, FirstTwoBranches
  <2>2. \/ gAppConfig' = [gAppConfig EXCEPT !.uServerPort = e.value.atoi]
        \/ gAppConfig' = [gAppConfig EXCEPT !.szXBeeMode = <<e.value.text>>]
    <3>1. CASE i = 1
      BY <1>2, <3>1 DEF Assigned
    <3>2. CASE i = 2
      BY <1>2, <3>2 DEF Assigned
    <3> QED
      BY <2>1, <3>1, <3>2
  <2>3. {"szDevicePath", "endPointCount", "switchCountPerEndPoint",
         "addressBuffer"} \subseteq DOMAIN gAppConfig
    BY DEF StarUnset, ClearedConfig
  <2> QED
    BY <2>2, <2>3 DEF StarUnset
<1> QED
  BY <1>1, <1>2 DEF iniHandler

-----------------------------------------------------------------------------
(***************************************************************************)
(* What every file leads to.                                                *)
(***************************************************************************)
ServesNoSwitch ==
  /\ xbee = NULL
  /\ g_radio_network_spec.endpoint_count = 0
  /\ g_radio_network_spec.switch_count = 0

StartInv == StarUnset /\ ServesNoSwitch

LEMMA StartInvInit == StartInit => StartInv
<1> SUFFICES ASSUME StartInit PROVE StartInv
  OBVIOUS
<1>1. StarUnset
  BY DEF StartInit, InitConfig, StarUnset, ClearedConfig
<1>2. ServesNoSwitch
  BY DEF StartInit, ServesNoSwitch, NoSpec
<1> QED
  BY <1>1, <1>2 DEF StartInv

\* A chunk changes gAppConfig through the handler or not at all.
LEMMA ChunkKeepsStarUnset ==
  ASSUME StarUnset, ini_parse_file
  PROVE  StarUnset'
<1>1. CASE UNCHANGED configVars
  BY <1>1 DEF StarUnset, configVars
<1>2. ASSUME NEW e, iniHandler(e) PROVE StarUnset'
  BY <1>2, HandlerKeepsStarUnset
<1>3. \/ UNCHANGED configVars
      \/ \E e : iniHandler(e)
  <2>1. PICK c : Comment(c) \/ Continuation(c) \/ Heading(c) \/ Pair(c) \/ Neither(c)
    BY DEF ini_parse_file
  <2>2. CASE Comment(c) \/ Heading(c) \/ Neither(c)
    BY <2>2 DEF Comment, Heading, Neither
  <2>3. CASE Continuation(c) \/ Pair(c)
    BY <2>3 DEF Continuation, Pair
  <2> QED
    BY <2>1, <2>2, <2>3
<1> QED
  BY <1>1, <1>2, <1>3

LEMMA StartInvNext == StartInv /\ [StartNext]_startVars => StartInv'
<1> SUFFICES ASSUME StartInv, [StartNext]_startVars PROVE StartInv'
  OBVIOUS
<1>1. CASE ini_parse_file
  BY <1>1, ChunkKeepsStarUnset
  DEF StartInv, ServesNoSwitch, ini_parse_file, serverVars
<1>2. CASE XBeeRadioInit
  <2>1. xbee' = NULL
    BY <1>2 DEF XBeeRadioInit, StartInv, StarUnset, ServesNoSwitch
  <2> QED
    BY <1>2, <2>1
    DEF XBeeRadioInit, StartInv, StarUnset, ServesNoSwitch, configVars
<1>3. CASE RadioNetworkInit
  BY <1>3 DEF RadioNetworkInit, StartInv, StarUnset, ServesNoSwitch, configVars
<1>4. CASE zLogInit \/ ini_parse \/ Parsed \/ SocketServerInit
           \/ CreateProcessingThread \/ SocketServerStart \/ UNCHANGED startVars
  <2>1. UNCHANGED <<configVars, xbee, g_radio_network_spec>>
    BY <1>4 DEF zLogInit, ini_parse, Parsed, SocketServerInit,
                CreateProcessingThread, SocketServerStart, serverVars, startVars
  <2> QED
    BY <2>1 DEF StartInv, StarUnset, ServesNoSwitch, configVars
<1> QED
  BY <1>1, <1>2, <1>3, <1>4 DEF StartNext

\* Whatever config.ini says, line by line, iniHandler leaves gAppConfig without
\* a device path, endpoints, switches and addresses.
THEOREM StarIsNeverConfigured == StartSpec => []StarUnset
<1>1. StartInv => StarUnset
  BY DEF StartInv
<1> QED
  BY <1>1, StartInvInit, StartInvNext, PTL DEF StartSpec

\* Whatever config.ini says and whichever call fails, a server that main brings
\* up has no XBee instance, and its radio network no endpoint and no switch: the
\* first SetSingleSwitch divides by switch_count, which is 0.
THEOREM NeverServesSwitches == StartSpec => []ServesNoSwitch
<1>1. StartInv => ServesNoSwitch
  BY DEF StartInv
<1> QED
  BY <1>1, StartInvInit, StartInvNext, PTL DEF StartSpec

-----------------------------------------------------------------------------
(***************************************************************************)
(* Induction over the numbers up to n, and iteration.                       *)
(***************************************************************************)

\* Every set of naturals that is not empty has a least element.
LEMMA Least ==
  ASSUME NEW S, S \subseteq Nat, S # {}
  PROVE  \E i \in S : \A j \in S : i <= j
<1>1. PICK i \in S : \A j \in S : <<j, i>> \notin OpToRel(<, Nat)
  BY WFMin, NatLessThanWellFounded, Zenon
<1>2. \A j \in S : ~(j < i)
  BY <1>1 DEF OpToRel
<1>3. \A j \in S : i <= j
  BY <1>2
<1> QED BY <1>3

\* Induction over the steps 0..n, the good ones being a set.
LEMMA Induction ==
  ASSUME NEW n \in Nat, NEW Good, 0 \in Good,
         \A i \in 1..n : i - 1 \in Good => i \in Good
  PROVE  \A i \in 0..n : i \in Good
<1> DEFINE Bad == {i \in 0..n : i \notin Good}
<1>1. \A i \in Bad : i \in Nat /\ i \in 0..n /\ i \notin Good
  OBVIOUS
<1>2. SUFFICES ASSUME Bad # {} PROVE FALSE
  <2>1. \A i \in 0..n : i \notin Good => i \in Bad
    OBVIOUS
  <2> QED BY <2>1
<1>3. PICK m \in Bad : \A k \in Bad : m <= k
  BY <1>1, <1>2, Least, Bad \subseteq Nat
<1>4. m \in 1..n /\ m \notin Good
  <2>1. m # 0
    BY <1>1
  <2> QED BY <1>1, <2>1
<1>5. m - 1 \notin Bad
  BY <1>3, <1>4
<1>6. m - 1 \in Good
  BY <1>4, <1>5
<1> QED BY <1>4, <1>6

\* f has the results of iterating F from b, for up to n times.
Runs(f, n, V, b, F) ==
  /\ f \in [0..n -> V] /\ f[0] = b
  /\ \A i \in 1..n : f[i] = F[i][f[i - 1]]

\* There is such an f, for every n.
LEMMA Iterates ==
  ASSUME NEW n \in Nat, NEW V, NEW b \in V, NEW F \in [1..n -> [V -> V]]
  PROVE  \E f : Runs(f, n, V, b, F)
<1> DEFINE Good == {m \in 0..n : \E f : Runs(f, m, V, b, F)}
<1>1. 0 \in Good
  <2> DEFINE f == [i \in 0..0 |-> b]
  <2>1. Runs(f, 0, V, b, F)
    BY DEF Runs
  <2> QED BY <2>1
<1>2. ASSUME NEW m \in 1..n, m - 1 \in Good PROVE m \in Good
  <2>0. m \in Nat /\ m >= 1 /\ m <= n /\ m \in 0..n
    OBVIOUS
  <2>1. PICK f : Runs(f, m - 1, V, b, F)
    BY <1>2
  <2> HIDE DEF Good
  <2> DEFINE g == [i \in 0..m |-> IF i = m THEN F[m][f[m - 1]] ELSE f[i]]
  <2>2. F[m] \in [V -> V] /\ f[m - 1] \in V
    BY <2>0, <2>1 DEF Runs
  <2>3. g \in [0..m -> V]
    BY <2>0, <2>1, <2>2 DEF Runs
  <2>4. g[0] = b
    BY <2>0, <2>1 DEF Runs
  <2>5. ASSUME NEW i \in 1..m PROVE g[i] = F[i][g[i-1]]
    <3>1. i - 1 \in 0..(m - 1) /\ i - 1 # m /\ i - 1 \in 0..m /\ i \in 0..m
      BY <2>0
    <3>2. g[i - 1] = f[i - 1]
      BY <3>1
    <3>3. CASE i = m
      BY <3>1, <3>2, <3>3
    <3>4. CASE i # m
      <4>1. i \in 1..(m - 1)
        BY <2>0, <3>4
      <4> QED BY <2>1, <3>1, <3>2, <3>4, <4>1 DEF Runs
    <3> QED BY <3>3, <3>4
  <2>6. Runs(g, m, V, b, F)
    BY <2>3, <2>4, <2>5 DEF Runs
  <2> QED BY <2>0, <2>6 DEF Good
<1>3. n \in 0..n
  OBVIOUS
<1> HIDE DEF Good
<1>4. n \in Good
  BY <1>1, <1>2, <1>3, Induction
<1> QED BY <1>4 DEF Good

-----------------------------------------------------------------------------
(***************************************************************************)
(* Sequences of sequences.                                                  *)
(***************************************************************************)

\* The elements of two sequences joined.
LEMMA Joined ==
  ASSUME NEW S, NEW s \in Seq(S), NEW t \in Seq(S)
  PROVE  /\ s \o t \in Seq(S) /\ Len(s \o t) = Len(s) + Len(t)
         /\ Len(s) \in Nat /\ Len(t) \in Nat
         /\ \A j \in 1..Len(s) : (s \o t)[j] = s[j]
         /\ \A j \in 1..Len(t) : (s \o t)[Len(s) + j] = t[j]
OBVIOUS

\* Nothing is added by the empty sequence.
LEMMA JoinedToNone ==
  ASSUME NEW S, NEW s \in Seq(S)
  PROVE  <<>> \o s = s /\ s \o <<>> = s
OBVIOUS

\* h has what the first sequences make joined, for each number of them.
Joins(h, ss, S) ==
  /\ h \in [0..Len(ss) -> Seq(S)] /\ h[0] = <<>>
  /\ \A i \in 1..Len(ss) : h[i] = h[i - 1] \o ss[i]

\* FlattenSeq joins the sequences one after the other.
LEMMA FlattenJoins ==
  ASSUME NEW S, NEW ss \in Seq(Seq(S))
  PROVE  \E h : Joins(h, ss, S) /\ h[Len(ss)] = FlattenSeq(ss)
<1> DEFINE n == Len(ss)
           F == [i \in 1..n |-> [a \in Seq(S) |-> a \o ss[i]]]
           Rule(g) == g = [i \in 1..n |-> IF i = 1 THEN ss[i] ELSE g[i - 1] \o ss[i]]
           flat == CHOOSE g : Rule(g)
<1>1. n \in Nat /\ DOMAIN ss = 1..n /\ \A i \in 1..n : ss[i] \in Seq(S)
  OBVIOUS
<1>2. PICK h : Runs(h, n, Seq(S), <<>>, F)
  <2>1. F \in [1..n -> [Seq(S) -> Seq(S)]]
    BY <1>1
  <2>2. <<>> \in Seq(S)
    OBVIOUS
  <2> HIDE DEF F, n
  <2> QED BY <1>1, <2>1, <2>2, Iterates
<1>3. ASSUME NEW i \in 1..n PROVE h[i] = h[i - 1] \o ss[i]
  <2>1. h[i - 1] \in Seq(S) /\ h[i] = F[i][h[i - 1]]
    <3>1. i - 1 \in 0..n
      BY <1>1
    <3> HIDE DEF F, n
    <3> QED BY <1>2, <3>1 DEF Runs
  <2> QED BY <2>1
<1>4. Joins(h, ss, S)
  BY <1>2, <1>3 DEF Joins, Runs
<1>5. CASE n = 0
  <2>1. FlattenSeq(ss) = ss
    BY <1>5 DEF FlattenSeq
  <2>2. ss = <<>> /\ h[0] = <<>>
    BY <1>2, <1>5 DEF Runs
  <2> QED BY <1>4, <1>5, <2>1, <2>2
<1>6. CASE n # 0
  <2>1. FlattenSeq(ss) = flat[n]
    BY <1>6, Zenon DEF FlattenSeq
  <2> DEFINE g == [i \in 1..n |-> h[i]]
  <2>2. ASSUME NEW i \in 1..n PROVE g[i] = IF i = 1 THEN ss[i] ELSE g[i - 1] \o ss[i]
    <3>1. CASE i = 1
      <4>1. h[0] = <<>> /\ h[1] = h[1 - 1] \o ss[1] /\ ss[1] \in Seq(S)
        BY <1>1, <1>2, <1>3, <3>1 DEF Runs
      <4>2. h[1] = ss[1]
        <5> HIDE DEF n, Rule, F, g, flat
        <5>1. <<>> \o ss[1] = ss[1]
          BY <4>1, JoinedToNone
        <5>2. h[1] = <<>> \o ss[1]
          <6>1. 1 - 1 = 0
            OBVIOUS
          <6> QED BY <4>1, <6>1, Zenon
        <5> QED BY <5>1, <5>2
      <4> QED BY <3>1, <4>2
    <3>2. CASE i # 1
      <4>1. i - 1 \in 1..n
        BY <1>1, <3>2
      <4> QED BY <1>3, <3>2, <4>1
    <3> QED BY <3>1, <3>2
  <2>3. Rule(g)
    BY <2>2
  <2>4. Rule(flat)
    <3> HIDE DEF Rule, g
    <3> QED BY <2>3
  <2> DEFINE Good == {i \in 0..n : i # 0 => flat[i] = h[i]}
  <2>5. 0 \in Good
    BY <1>1
  <2>6. ASSUME NEW i \in 1..n, i - 1 \in Good PROVE i \in Good
    <3>0. flat[i] = IF i = 1 THEN ss[i] ELSE flat[i - 1] \o ss[i]
      <4> HIDE DEF flat
      <4> QED BY <2>4
    <3>1. CASE i = 1
      <4>1. h[i] = ss[i]
        BY <2>2, <3>1
      <4> HIDE DEF flat
      <4> QED BY <3>0, <3>1, <4>1
    <3>2. CASE i # 1
      <4>1. flat[i - 1] = h[i - 1]
        BY <1>1, <2>6, <3>2
      <4>2. h[i] = h[i - 1] \o ss[i]
        BY <1>3
      <4> HIDE DEF flat
      <4>3. flat[i] = h[i]
        BY <3>0, <3>2, <4>1, <4>2
      <4> QED BY <1>1, <4>3
    <3> QED BY <3>1, <3>2
  <2>7. n \in Good
    <3>1. n \in 0..n
      BY <1>1
    <3> HIDE DEF Good, n
    <3> QED BY <1>1, <2>5, <2>6, <3>1, Induction
  <2> QED BY <1>4, <1>6, <2>1, <2>7
<1> QED BY <1>5, <1>6

\* What is joined first stays in front.
LEMMA JoinsGrow ==
  ASSUME NEW S, NEW ss \in Seq(Seq(S)), NEW h, Joins(h, ss, S), NEW i \in 0..Len(ss)
  PROVE  \A k \in i..Len(ss) :
            Len(h[i]) <= Len(h[k]) /\ \A j \in 1..Len(h[i]) : h[k][j] = h[i][j]
<1> DEFINE n == Len(ss)
           Good == {m \in 0..n : m >= i =>
                       Len(h[i]) <= Len(h[m]) /\ \A j \in 1..Len(h[i]) : h[m][j] = h[i][j]}
<1>1. n \in Nat /\ i \in Nat /\ \A k \in 1..n : ss[k] \in Seq(S)
  OBVIOUS
<1>2. \A k \in 0..n : h[k] \in Seq(S) /\ Len(h[k]) \in Nat
  BY DEF Joins
<1>3. 0 \in Good
  BY <1>1, <1>2
<1>4. ASSUME NEW m \in 1..n, m - 1 \in Good PROVE m \in Good
  <2>1. CASE m < i
    BY <1>1, <2>1
  <2>2. CASE m = i
    BY <1>1, <1>2, <2>2
  <2>3. CASE m > i
    <3>1. m - 1 >= i /\ m - 1 \in 0..n /\ m \in 0..n
      BY <1>1, <2>3
    <3>2. Len(h[i]) <= Len(h[m - 1]) /\ \A j \in 1..Len(h[i]) : h[m - 1][j] = h[i][j]
      BY <1>4, <3>1
    <3>3. h[m] = h[m - 1] \o ss[m] /\ ss[m] \in Seq(S)
      BY <1>1 DEF Joins
    <3>4. /\ Len(h[m]) = Len(h[m - 1]) + Len(ss[m])
          /\ \A j \in 1..Len(h[m - 1]) : h[m][j] = h[m - 1][j]
      <4>1. h[m - 1] \in Seq(S)
        BY <1>2, <3>1
      <4> DEFINE u == h[m - 1]
                 v == ss[m]
      <4>2. u \in Seq(S) /\ v \in Seq(S) /\ h[m] = u \o v
        BY <3>3, <4>1
      <4> HIDE DEF u, v
      <4>3. Len(h[m]) = Len(u) + Len(v) /\ \A j \in 1..Len(u) : h[m][j] = u[j]
        BY <4>2, Joined
      <4> QED BY <4>3 DEF u, v
    <3>5. Len(h[i]) <= Len(h[m]) /\ \A j \in 1..Len(h[i]) : h[m][j] = h[i][j]
      <4>1. Len(ss[m]) \in Nat /\ Len(h[i]) \in Nat /\ Len(h[m - 1]) \in Nat
        BY <1>1, <1>2, <3>1, <3>3
      <4>2. \A j \in 1..Len(h[i]) : j \in 1..Len(h[m - 1])
        BY <3>2, <4>1
      <4>3. \A j \in 1..Len(h[i]) : h[m][j] = h[i][j]
        BY <3>2, <3>4, <4>2
      <4> HIDE DEF Good
      <4>4. Len(h[m]) = Len(h[m - 1]) + Len(ss[m]) /\ Len(h[i]) <= Len(h[m - 1])
        BY <3>2, <3>4
      <4>5. Len(h[i]) <= Len(h[m])
        <5> DEFINE a == Len(h[i])
                   b == Len(h[m - 1])
                   c == Len(ss[m])
                   d == Len(h[m])
        <5>1. a \in Nat /\ b \in Nat /\ c \in Nat /\ d = b + c /\ a <= b
          BY <4>1, <4>4
        <5> HIDE DEF a, b, c, d
        <5>2. a <= d
          BY <5>1
        <5> QED BY <5>2 DEF a, d
      <4> QED BY <4>3, <4>5
    <3> QED BY <3>5
  <2> QED BY <1>1, <2>1, <2>2, <2>3
<1>5. \A m \in 0..n : m \in Good
  <2> HIDE DEF Good, n
  <2> QED BY <1>1, <1>3, <1>4, Induction
<1> QED BY <1>1, <1>5

\* FlattenSeq of sequences over a set is one over it.
LEMMA FlattenType ==
  ASSUME NEW S, NEW ss \in Seq(Seq(S))
  PROVE  FlattenSeq(ss) \in Seq(S)
<1>1. PICK h : Joins(h, ss, S) /\ h[Len(ss)] = FlattenSeq(ss)
  BY FlattenJoins
<1> QED BY <1>1 DEF Joins

\* Sequences of one element each, joined.
LEMMA FlattenSingles ==
  ASSUME NEW S, NEW s \in Seq(S)
  PROVE  FlattenSeq([i \in 1..Len(s) |-> <<s[i]>>]) = s
<1> DEFINE n == Len(s)
           ss == [i \in 1..n |-> <<s[i]>>]
<1>1. n \in Nat /\ \A i \in 1..n : s[i] \in S
  OBVIOUS
<1>2. ss \in Seq(Seq(S)) /\ Len(ss) = n
  BY <1>1
<1>3. PICK h : Joins(h, ss, S) /\ h[Len(ss)] = FlattenSeq(ss)
  BY <1>2, FlattenJoins
<1>4. \A k \in 0..n : h[k] \in Seq(S)
  BY <1>2, <1>3 DEF Joins
<1> DEFINE Good == {k \in 0..n : Len(h[k]) = k /\ \A j \in 1..k : h[k][j] = s[j]}
<1>5. 0 \in Good
  BY <1>1, <1>2, <1>3 DEF Joins
<1>6. ASSUME NEW k \in 1..n, k - 1 \in Good PROVE k \in Good
  <2>1. k - 1 \in 0..n /\ Len(h[k - 1]) = k - 1 /\ \A j \in 1..(k - 1) : h[k - 1][j] = s[j]
    BY <1>6
  <2>2. h[k] = h[k - 1] \o <<s[k]>>
    BY <1>2, <1>3 DEF Joins
  <2>3. h[k - 1] \in Seq(S) /\ <<s[k]>> \in Seq(S) /\ Len(<<s[k]>>) = 1 /\ <<s[k]>>[1] = s[k]
    BY <1>1, <1>4, <2>1
  <2>4. /\ Len(h[k]) = k /\ \A j \in 1..(k - 1) : h[k][j] = h[k - 1][j]
        /\ h[k][(k - 1) + 1] = s[k]
    <3> HIDE DEF Good, ss
    <3>1. 1 \in 1..1 /\ (k - 1) + 1 = k
      BY <1>1
    <3> QED BY <2>1, <2>2, <2>3, <3>1, Joined
  <2>5. \A j \in 1..k : h[k][j] = s[j]
    <3>1. \A j \in 1..k : j \in 1..(k - 1) \/ (j = k /\ j = (k - 1) + 1)
      BY <1>1
    <3> QED BY <2>1, <2>4, <3>1
  <2> QED BY <2>4, <2>5
<1>7. n \in Good
  <2>1. n \in 0..n
    BY <1>1
  <2> HIDE DEF Good, n
  <2> QED BY <1>1, <1>5, <1>6, <2>1, Induction
<1>8. h[n] = s
  BY <1>1, <1>4, <1>7
<1> QED BY <1>2, <1>3, <1>8

-----------------------------------------------------------------------------
(***************************************************************************)
(* One command of a client, as the server finds it at position p.           *)
(***************************************************************************)

\* The bytes of s stand at position p and behind it.
Holds(data_, p, s) == \A j \in 1..Len(s) : at(data_, p + j - 1) = s[j]

\* A 16-bit number is its two bytes.
LEMMA TwoBytes ==
  ASSUME NEW n \in UInt16
  PROVE  /\ n \div 256 \in Byte /\ n % 256 \in Byte
         /\ 256 * (n \div 256) + (n % 256) = n
<1>1. n \in Nat /\ n <= 65535
  BY DEF UInt16
<1>2. PICK q \in Int, r \in Int : q = n \div 256 /\ r = n % 256
  BY <1>1
<1>3. n = 256 * q + r /\ 0 <= r /\ r < 256
  BY <1>1, <1>2
<1>4. q \in 0..255 /\ r \in 0..255
  BY <1>1, <1>3
<1> QED BY <1>2, <1>3, <1>4 DEF Byte

\* The bit of weight w in a byte.
LEMMA BitOfByte ==
  ASSUME NEW q \in Nat, NEW x \in {0, 1}, NEW w \in {1, 2, 4, 8, 16, 32, 64, 128},
         NEW r \in Nat, r < w, NEW v, v = 2 * (w * q) + w * x + r
  PROVE  (v \div w) % 2 = x
<1>1. CASE w = 1 BY <1>1
<1>2. CASE w = 2 BY <1>2
<1>3. CASE w = 4 BY <1>3
<1>4. CASE w = 8 BY <1>4
<1>5. CASE w = 16 BY <1>5
<1>6. CASE w = 32 BY <1>6
<1>7. CASE w = 64 BY <1>7
<1>8. CASE w = 128 BY <1>8
<1> QED BY <1>1, <1>2, <1>3, <1>4, <1>5, <1>6, <1>7, <1>8

\* Each bit of a byte of the mask.
LEMMA LongBits ==
  ASSUME NEW m \in Masks, NEW k \in 1..8
  PROVE  /\ Long(m)[k] \in Byte
         /\ \A j \in 1..8 : (Long(m)[k] \div Weight[j]) % 2 = 1 <=> 8 * (k - 1) + j - 1 \in m
<1> DEFINE x(j) == IF 8 * (k - 1) + j - 1 \in m THEN 1 ELSE 0
           v == Long(m)[k]
<1>1. \A j \in 1..8 : x(j) \in {0, 1} /\ (x(j) = 1 <=> 8 * (k - 1) + j - 1 \in m)
  OBVIOUS
<1>2. v = 128 * x(1) + 64 * x(2) + 32 * x(3) + 16 * x(4) + 8 * x(5) + 4 * x(6) + 2 * x(7) + x(8)
  BY DEF Long, Weight
<1>3. PICK x1 \in {0, 1}, x2 \in {0, 1}, x3 \in {0, 1}, x4 \in {0, 1},
           x5 \in {0, 1}, x6 \in {0, 1}, x7 \in {0, 1}, x8 \in {0, 1} :
         /\ x1 = x(1) /\ x2 = x(2) /\ x3 = x(3) /\ x4 = x(4)
         /\ x5 = x(5) /\ x6 = x(6) /\ x7 = x(7) /\ x8 = x(8)
  OBVIOUS
<1> HIDE DEF x, v
<1>14. v = 128 * x1 + 64 * x2 + 32 * x3 + 16 * x4 + 8 * x5 + 4 * x6 + 2 * x7 + x8
  BY <1>2, <1>3
<1>4. v \in Byte
  BY <1>14 DEF Byte
<1>5. (v \div 128) % 2 = x1
  <2> DEFINE q == 0
             r == 64 * x2 + 32 * x3 + 16 * x4 + 8 * x5 + 4 * x6 + 2 * x7 + x8
  <2>1. q \in Nat /\ r \in Nat /\ r < 128 /\ v = 2 * (128 * q) + 128 * x1 + r
    BY <1>14
  <2> HIDE DEF q, r
  <2> QED BY <2>1, BitOfByte
<1>6. (v \div 64) % 2 = x2
  <2> DEFINE q == x1
             r == 32 * x3 + 16 * x4 + 8 * x5 + 4 * x6 + 2 * x7 + x8
  <2>1. q \in Nat /\ r \in Nat /\ r < 64 /\ v = 2 * (64 * q) + 64 * x2 + r
    BY <1>14
  <2> HIDE DEF q, r
  <2> QED BY <2>1, BitOfByte
<1>7. (v \div 32) % 2 = x3
  <2> DEFINE q == 2 * x1 + x2
             r == 16 * x4 + 8 * x5 + 4 * x6 + 2 * x7 + x8
  <2>1. q \in Nat /\ r \in Nat /\ r < 32 /\ v = 2 * (32 * q) + 32 * x3 + r
    BY <1>14
  <2> HIDE DEF q, r
  <2> QED BY <2>1, BitOfByte
<1>8. (v \div 16) % 2 = x4
  <2> DEFINE q == 4 * x1 + 2 * x2 + x3
             r == 8 * x5 + 4 * x6 + 2 * x7 + x8
  <2>1. q \in Nat /\ r \in Nat /\ r < 16 /\ v = 2 * (16 * q) + 16 * x4 + r
    BY <1>14
  <2> HIDE DEF q, r
  <2> QED BY <2>1, BitOfByte
<1>9. (v \div 8) % 2 = x5
  <2> DEFINE q == 8 * x1 + 4 * x2 + 2 * x3 + x4
             r == 4 * x6 + 2 * x7 + x8
  <2>1. q \in Nat /\ r \in Nat /\ r < 8 /\ v = 2 * (8 * q) + 8 * x5 + r
    BY <1>14
  <2> HIDE DEF q, r
  <2> QED BY <2>1, BitOfByte
<1>10. (v \div 4) % 2 = x6
  <2> DEFINE q == 16 * x1 + 8 * x2 + 4 * x3 + 2 * x4 + x5
             r == 2 * x7 + x8
  <2>1. q \in Nat /\ r \in Nat /\ r < 4 /\ v = 2 * (4 * q) + 4 * x6 + r
    BY <1>14
  <2> HIDE DEF q, r
  <2> QED BY <2>1, BitOfByte
<1>11. (v \div 2) % 2 = x7
  <2> DEFINE q == 32 * x1 + 16 * x2 + 8 * x3 + 4 * x4 + 2 * x5 + x6
             r == x8
  <2>1. q \in Nat /\ r \in Nat /\ r < 2 /\ v = 2 * (2 * q) + 2 * x7 + r
    BY <1>14
  <2> HIDE DEF q, r
  <2> QED BY <2>1, BitOfByte
<1>12. (v \div 1) % 2 = x8
  <2> DEFINE q == 64 * x1 + 32 * x2 + 16 * x3 + 8 * x4 + 4 * x5 + 2 * x6 + x7
             r == 0
  <2>1. q \in Nat /\ r \in Nat /\ r < 1 /\ v = 2 * (1 * q) + 1 * x8 + r
    BY <1>14
  <2> HIDE DEF q, r
  <2> QED BY <2>1, BitOfByte
<1>13. \A j \in 1..8 : (v \div Weight[j]) % 2 = x(j)
  <2>1. SUFFICES ASSUME NEW j \in 1..8 PROVE (v \div Weight[j]) % 2 = x(j)
    OBVIOUS
  <2>2. j = 1 \/ j = 2 \/ j = 3 \/ j = 4 \/ j = 5 \/ j = 6 \/ j = 7 \/ j = 8
    OBVIOUS
  <2> QED BY <1>3, <1>5, <1>6, <1>7, <1>8, <1>9, <1>10, <1>11, <1>12, <2>2 DEF Weight
<1> QED BY <1>1, <1>4, <1>13 DEF v

\* The eight bytes of a mask are bytes.
LEMMA LongBytes ==
  ASSUME NEW m \in Masks
  PROVE  Long(m) \in Seq(Byte) /\ Len(Long(m)) = 8
<1>1. \A k \in 1..8 : Long(m)[k] \in Byte
  BY LongBits
<1>2. Long(m) = [k \in 1..8 |-> Long(m)[k]]
  BY DEF Long
<1> QED BY <1>1, <1>2

\* The mask comes back from its eight bytes.
LEMMA LongReadBack ==
  ASSUME NEW m \in Masks, NEW d \in Seq(Byte), NEW p \in Nat, Holds(d, p, Long(m))
  PROVE  GetParamInt64(d, p) = m
<1>1. ASSUME NEW b \in 0..63
      PROVE  (at(d, p + (b \div 8)) \div Weight[(b % 8) + 1]) % 2 = 1 <=> b \in m
  <2>1. PICK k \in 1..8, j \in 1..8 : k = (b \div 8) + 1 /\ j = (b % 8) + 1 /\ b = 8 * (k - 1) + j - 1
    <3>1. (b \div 8) + 1 \in 1..8 /\ (b % 8) + 1 \in 1..8 /\ b = 8 * (b \div 8) + (b % 8)
      OBVIOUS
    <3> QED BY <3>1
  <2>2. at(d, p + (b \div 8)) = Long(m)[k]
    <3>1. Len(Long(m)) = 8
      BY LongBytes
    <3>2. at(d, p + k - 1) = Long(m)[k]
      BY <3>1 DEF Holds
    <3>3. p + k - 1 = p + (b \div 8)
      BY <2>1
    <3> QED BY <3>2, <3>3
  <2>3. (Long(m)[k] \div Weight[j]) % 2 = 1 <=> b \in m
    BY <2>1, LongBits
  <2> QED BY <2>1, <2>2, <2>3
<1>2. m \subseteq 0..63
  BY DEF Masks
<1> QED BY <1>1, <1>2 DEF GetParamInt64

\* Every position of the buffer holds a byte, 0 behind what has been written.
LEMMA ByteAt ==
  ASSUME NEW d \in Seq(Byte), NEW p \in Int
  PROVE  at(d, p) \in Byte
<1>1. CASE p \in 1..Len(d)
  BY <1>1 DEF at
<1>2. CASE p \notin 1..Len(d)
  BY <1>2 DEF at, Byte
<1> QED BY <1>1, <1>2

\* What a byte is, and what 16 bits are.
LEMMA ByteBound ==
  \A x : x \in Byte <=> x \in Nat /\ x <= 255
BY DEF Byte

LEMMA UInt16Bound ==
  \A x \in Int : x \in UInt16 <=> 0 <= x /\ x < 65536
BY SMT DEF UInt16

\* The types of a simple command's fields.
LEMMA SimpleFields ==
  ASSUME NEW c \in Simple
  PROVE  /\ c.type \in 193..199 /\ c.index \in UInt16 /\ c.status \in Byte
         /\ c.mask \in Masks /\ c.delay \in UInt16 /\ c.data \in Seq(Byte)
         /\ c = [type |-> c.type, index |-> c.index, status |-> c.status, mask |-> c.mask,
                 delay |-> c.delay, data |-> c.data]
BY DEF Simple, Fields, SimpleTypes, CmdSetSingleSwitch, CmdPassThrough

\* No type of a simple command has all bits of the header of a pack.
LEMMA SimpleIsNoPack ==
  ASSUME NEW t \in 193..199
  PROVE  ~IsPack(t) /\ t # CmdSetScheduledTask /\ t # MultipleCommandHeader
<1>1. \/ t = 193 \/ t = 194 \/ t = 195 \/ t = 196 \/ t = 197 \/ t = 198 \/ t = 199
  OBVIOUS
<1>2. (t \div 32) % 2 = 0
  BY <1>1
<1> QED BY <1>2 DEF IsPack, CmdSetScheduledTask, MultipleCommandHeader

\* The bytes of a 16-bit field.
LEMMA ShortBytes ==
  ASSUME NEW n \in UInt16
  PROVE  /\ Short(n) \in Seq(Byte) /\ Len(Short(n)) = 2
         /\ Short(n)[1] = n \div 256 /\ Short(n)[2] = n % 256
BY TwoBytes DEF Short

\* _GetParamInt16 reads what the client's Short wrote.
LEMMA Int16ReadBack ==
  ASSUME NEW n \in UInt16, NEW d, NEW p \in Nat, at(d, p) = n \div 256, at(d, p + 1) = n % 256
  PROVE  GetParamInt16(d, p) = n
BY TwoBytes DEF GetParamInt16

\* What a client sends for each type.
LEMMA BuiltBytes ==
  ASSUME NEW c, Fits(c)
  PROVE  LET b == BuildSimple(c)
             n == Len(b)
         IN  /\ b \in Seq(Byte) /\ n \in Nat /\ n >= 1 /\ b[1] = c.type
             /\ c.type = CmdSetSingleSwitch =>
                  n = 4 /\ b[2] = c.index \div 256 /\ b[3] = c.index % 256 /\ b[4] = c.status
             /\ c.type = CmdGetSingleSwitch =>
                  n = 3 /\ b[2] = c.index \div 256 /\ b[3] = c.index % 256
             /\ c.type = CmdSetMultipleSwitches =>
                  n = 11 /\ b[2] = c.index \div 256 /\ b[3] = c.index % 256
                  /\ \A j \in 1..8 : b[3 + j] = Long(c.mask)[j]
             /\ c.type = CmdGetNumSwitches => n = 1
             /\ c.type = CmdSetSingleSwitchDelay =>
                  n = 6 /\ b[2] = c.index \div 256 /\ b[3] = c.index % 256 /\ b[4] = c.status
                  /\ b[5] = c.delay \div 256 /\ b[6] = c.delay % 256
             /\ c.type = CmdPassThrough =>
                  n = 2 + Len(c.data) /\ b[2] = Len(c.data)
                  /\ \A j \in 1..Len(c.data) : b[2 + j] = c.data[j]
<1> DEFINE b == BuildSimple(c)
           n == Len(b)
           a == ClientParameters(c)
<1>1. c \in Simple /\ c.type # CmdGetMultipleSwitches /\ Len(c.data) <= 255
  BY DEF Fits
<1>2. /\ c.type \in 193..199 /\ c.index \in UInt16 /\ c.status \in Byte
      /\ c.mask \in Masks /\ c.delay \in UInt16 /\ c.data \in Seq(Byte)
  BY <1>1, SimpleFields
<1>3. /\ Short(c.index) \in Seq(Byte) /\ Len(Short(c.index)) = 2
      /\ Short(c.index)[1] = c.index \div 256 /\ Short(c.index)[2] = c.index % 256
      /\ Short(c.delay) \in Seq(Byte) /\ Len(Short(c.delay)) = 2
      /\ Short(c.delay)[1] = c.delay \div 256 /\ Short(c.delay)[2] = c.delay % 256
  BY <1>2, ShortBytes
<1>4. Long(c.mask) \in Seq(Byte) /\ Len(Long(c.mask)) = 8
  BY <1>2, LongBytes
<1>5. <<c.status>> \in Seq(Byte) /\ Len(<<c.status>>) = 1 /\ <<c.status>>[1] = c.status
  BY <1>2
<1>6. ASSUME a \in Seq(Byte)
      PROVE  /\ b \in Seq(Byte) /\ n \in Nat /\ n = 1 + Len(a) /\ b[1] = c.type
             /\ \A j \in 1..Len(a) : b[1 + j] = a[j]
  <2>1. <<c.type>> \in Seq(Byte) /\ Len(<<c.type>>) = 1 /\ <<c.type>>[1] = c.type /\ 1 \in 1..1
    BY <1>2 DEF Byte
  <2>2. b = <<c.type>> \o a
    BY DEF BuildSimple
  <2> HIDE DEF a, b
  <2>3. /\ b \in Seq(Byte) /\ Len(b) = 1 + Len(a)
        /\ \A j \in 1..1 : b[j] = <<c.type>>[j]
        /\ \A j \in 1..Len(a) : b[1 + j] = a[j]
    BY <1>6, <2>1, <2>2, Joined
  <2> QED BY <2>1, <2>3
<1>7. CASE c.type = CmdSetSingleSwitch
  <2>1. a = Short(c.index) \o <<c.status>>
    BY <1>7 DEF ClientParameters, CmdSetSingleSwitch, CmdGetSingleSwitch,
        CmdSetMultipleSwitches, CmdGetMultipleSwitches, CmdGetNumSwitches, CmdSetSingleSwitchDelay,
        CmdPassThrough
  <2> HIDE DEF a
  <2>2. /\ a \in Seq(Byte) /\ Len(a) = 3 /\ a[1] = c.index \div 256 /\ a[2] = c.index % 256
        /\ a[3] = c.status
    BY <1>3, <1>5, <2>1
  <2>3. n = 4 /\ b[2] = a[1] /\ b[3] = a[2] /\ b[4] = a[3]
    BY <1>6, <2>2
  <2> QED BY <1>6, <1>7, <2>2, <2>3 DEF CmdSetSingleSwitch, CmdGetSingleSwitch, CmdSetMultipleSwitches,
        CmdGetMultipleSwitches, CmdGetNumSwitches, CmdSetSingleSwitchDelay, CmdPassThrough
<1>8. CASE c.type = CmdGetSingleSwitch
  <2>1. a = Short(c.index)
    BY <1>8 DEF ClientParameters, CmdSetSingleSwitch, CmdGetSingleSwitch,
        CmdSetMultipleSwitches, CmdGetMultipleSwitches, CmdGetNumSwitches, CmdSetSingleSwitchDelay,
        CmdPassThrough
  <2> HIDE DEF a
  <2>2. /\ a \in Seq(Byte) /\ Len(a) = 2 /\ a[1] = c.index \div 256 /\ a[2] = c.index % 256
    BY <1>3, <2>1
  <2>3. n = 3 /\ b[2] = a[1] /\ b[3] = a[2]
    BY <1>6, <2>2
  <2> QED BY <1>6, <1>8, <2>2, <2>3 DEF CmdSetSingleSwitch, CmdGetSingleSwitch, CmdSetMultipleSwitches,
        CmdGetMultipleSwitches, CmdGetNumSwitches, CmdSetSingleSwitchDelay, CmdPassThrough
<1>9. CASE c.type = CmdSetMultipleSwitches
  <2>1. a = Short(c.index) \o Long(c.mask)
    BY <1>9 DEF ClientParameters, CmdSetSingleSwitch, CmdGetSingleSwitch,
        CmdSetMultipleSwitches, CmdGetMultipleSwitches, CmdGetNumSwitches, CmdSetSingleSwitchDelay,
        CmdPassThrough
  <2> HIDE DEF a
  <2>2. /\ a \in Seq(Byte) /\ Len(a) = 10 /\ a[1] = c.index \div 256 /\ a[2] = c.index % 256
        /\ \A j \in 1..8 : a[2 + j] = Long(c.mask)[j]
    <3> DEFINE u == Short(c.index)
               v == Long(c.mask)
    <3>0. u \in Seq(Byte) /\ v \in Seq(Byte) /\ Len(u) = 2 /\ Len(v) = 8 /\ a = u \o v
      BY <1>3, <1>4, <2>1
    <3> HIDE DEF u, v
    <3>3. /\ u \o v \in Seq(Byte) /\ Len(u \o v) = Len(u) + Len(v)
          /\ \A j \in 1..Len(u) : (u \o v)[j] = u[j]
          /\ \A j \in 1..Len(v) : (u \o v)[Len(u) + j] = v[j]
      <4>1. u \in Seq(Byte) /\ v \in Seq(Byte)
        BY <3>0
      <4> QED BY <4>1, Joined
    <3>2. /\ a \in Seq(Byte) /\ Len(a) = Len(u) + Len(v)
          /\ \A j \in 1..Len(u) : a[j] = u[j]
          /\ \A j \in 1..Len(v) : a[Len(u) + j] = v[j]
      BY <3>0, <3>3, Zenon
    <3>1. /\ a \in Seq(Byte) /\ Len(a) = 10
          /\ \A j \in 1..2 : a[j] = Short(c.index)[j]
          /\ \A j \in 1..8 : a[2 + j] = Long(c.mask)[j]
      BY <3>0, <3>2 DEF u, v
    <3> QED BY <1>3, <3>1
  <2>3. n = 11 /\ b[2] = a[1] /\ b[3] = a[2]
    BY <1>6, <2>2
  <2>4. ASSUME NEW j \in 1..8 PROVE b[3 + j] = Long(c.mask)[j]
    <3>1. 2 + j \in 1..10 /\ 1 + (2 + j) = 3 + j
      OBVIOUS
    <3>2. b[1 + (2 + j)] = a[2 + j]
      BY <1>6, <2>2, <3>1
    <3> QED BY <2>2, <3>1, <3>2
  <2> QED BY <1>6, <1>9, <2>2, <2>3, <2>4 DEF CmdSetSingleSwitch, CmdGetSingleSwitch, CmdSetMultipleSwitches,
        CmdGetMultipleSwitches, CmdGetNumSwitches, CmdSetSingleSwitchDelay, CmdPassThrough
<1>10. CASE c.type = CmdGetNumSwitches
  <2>1. a = <<>>
    BY <1>10 DEF ClientParameters, CmdSetSingleSwitch, CmdGetSingleSwitch,
        CmdSetMultipleSwitches, CmdGetMultipleSwitches, CmdGetNumSwitches, CmdSetSingleSwitchDelay,
        CmdPassThrough
  <2> HIDE DEF a
  <2>2. n = 1
    BY <1>6, <2>1
  <2>3. a \in Seq(Byte)
    BY <2>1
  <2> QED BY <1>6, <1>10, <2>2, <2>3 DEF CmdSetSingleSwitch, CmdGetSingleSwitch, CmdSetMultipleSwitches,
        CmdGetMultipleSwitches, CmdGetNumSwitches, CmdSetSingleSwitchDelay, CmdPassThrough
<1>11. CASE c.type = CmdSetSingleSwitchDelay
  <2>1. a = Short(c.index) \o <<c.status>> \o Short(c.delay)
    BY <1>11 DEF ClientParameters, CmdSetSingleSwitch, CmdGetSingleSwitch,
        CmdSetMultipleSwitches, CmdGetMultipleSwitches, CmdGetNumSwitches, CmdSetSingleSwitchDelay,
        CmdPassThrough
  <2> HIDE DEF a
  <2>2. /\ a \in Seq(Byte) /\ Len(a) = 5 /\ a[1] = c.index \div 256 /\ a[2] = c.index % 256
        /\ a[3] = c.status /\ a[4] = c.delay \div 256 /\ a[5] = c.delay % 256
    BY <1>3, <1>5, <2>1
  <2>3. n = 6 /\ b[2] = a[1] /\ b[3] = a[2] /\ b[4] = a[3] /\ b[5] = a[4] /\ b[6] = a[5]
    BY <1>6, <2>2
  <2> QED BY <1>6, <1>11, <2>2, <2>3 DEF CmdSetSingleSwitch, CmdGetSingleSwitch, CmdSetMultipleSwitches,
        CmdGetMultipleSwitches, CmdGetNumSwitches, CmdSetSingleSwitchDelay, CmdPassThrough
<1>12. CASE c.type = CmdPassThrough
  <2>1. a = <<Len(c.data) % 256>> \o c.data
    BY <1>12 DEF ClientParameters, CmdSetSingleSwitch, CmdGetSingleSwitch,
        CmdSetMultipleSwitches, CmdGetMultipleSwitches, CmdGetNumSwitches, CmdSetSingleSwitchDelay,
        CmdPassThrough
  <2>0. Len(c.data) \in Nat /\ Len(c.data) % 256 = Len(c.data) /\ Len(c.data) \in Byte
    <3>1. PICK k : k = Len(c.data)
      OBVIOUS
    <3>2. k \in Nat
      BY <1>2, <3>1
    <3>3. k <= 255
      BY <1>1, <3>1
    <3>4. k % 256 = k /\ k \in Byte
      BY <3>2, <3>3 DEF Byte
    <3> QED BY <3>1, <3>2, <3>4
  <2> HIDE DEF a
  <2>2. /\ a \in Seq(Byte) /\ Len(a) = 1 + Len(c.data) /\ a[1] = Len(c.data)
        /\ \A j \in 1..Len(c.data) : a[1 + j] = c.data[j]
    <3> DEFINE v == c.data
               u == <<Len(v)>>
    <3>4. Len(v) \in Byte /\ v \in Seq(Byte) /\ a = u \o v
      BY <1>2, <2>0, <2>1
    <3>0. u \in Seq(Byte) /\ Len(u) = 1 /\ u[1] = Len(v) /\ v \in Seq(Byte) /\ a = u \o v
      <4> HIDE DEF v
      <4> QED BY <3>4
    <3> HIDE DEF u, v
    <3>3. /\ u \o v \in Seq(Byte) /\ Len(u \o v) = Len(u) + Len(v)
          /\ \A j \in 1..Len(u) : (u \o v)[j] = u[j]
          /\ \A j \in 1..Len(v) : (u \o v)[Len(u) + j] = v[j]
      <4>1. u \in Seq(Byte) /\ v \in Seq(Byte)
        BY <3>0
      <4> QED BY <4>1, Joined
    <3>1. /\ a \in Seq(Byte) /\ Len(a) = Len(u) + Len(v)
          /\ \A j \in 1..Len(u) : a[j] = u[j]
          /\ \A j \in 1..Len(v) : a[Len(u) + j] = v[j]
      BY <3>0, <3>3, Zenon
    <3>2. /\ Len(a) = 1 + Len(v) /\ a[1] = Len(v) /\ \A j \in 1..Len(v) : a[1 + j] = v[j]
      BY <3>0, <3>1
    <3> QED BY <3>1, <3>2 DEF v
  <2>3. n = 2 + Len(c.data) /\ b[2] = a[1]
    BY <1>6, <2>0, <2>2
  <2>4. ASSUME NEW j \in 1..Len(c.data) PROVE b[2 + j] = c.data[j]
    <3>1. 1 + j \in 1..Len(a) /\ 1 + (1 + j) = 2 + j
      BY <2>0, <2>2
    <3>2. b[1 + (1 + j)] = a[1 + j]
      BY <1>6, <2>2, <3>1
    <3> QED BY <2>2, <3>1, <3>2
  <2> QED BY <1>6, <1>12, <2>0, <2>2, <2>3, <2>4 DEF CmdSetSingleSwitch, CmdGetSingleSwitch, CmdSetMultipleSwitches,
        CmdGetMultipleSwitches, CmdGetNumSwitches, CmdSetSingleSwitchDelay, CmdPassThrough
<1>13. \/ c.type = CmdSetSingleSwitch \/ c.type = CmdGetSingleSwitch
       \/ c.type = CmdSetMultipleSwitches \/ c.type = CmdGetNumSwitches
       \/ c.type = CmdSetSingleSwitchDelay \/ c.type = CmdPassThrough
  BY <1>1, <1>2 DEF CmdSetSingleSwitch, CmdGetSingleSwitch, CmdSetMultipleSwitches,
        CmdGetMultipleSwitches, CmdGetNumSwitches, CmdSetSingleSwitchDelay, CmdPassThrough
<1> QED BY <1>7, <1>8, <1>9, <1>10, <1>11, <1>12, <1>13

\* A simple command the server finds whole at position p: it knows its length,
\* and carries out that very command.
LEMMA SimpleAt ==
  ASSUME NEW c, Fits(c), NEW d \in Seq(Byte), NEW p \in Nat, Holds(d, p, BuildSimple(c))
  PROVE  /\ at(d, p) = c.type /\ c.type \in 193..199
         /\ SimpleLength(d, p) = Len(BuildSimple(c))
         /\ ParseSimple(d, p) = <<c>>
<1> DEFINE b == BuildSimple(c)
           n == Len(b)
           call == ParseSimple(d, p)
           Made(index, status, mask, delay, bytes) ==
             <<[type |-> at(d, p), index |-> index, status |-> status, mask |-> mask,
                delay |-> delay, data |-> bytes]>>
<1>1. /\ c.type \in 193..199 /\ c.index \in UInt16 /\ c.status \in Byte
      /\ c.mask \in Masks /\ c.delay \in UInt16 /\ c.data \in Seq(Byte)
      /\ c = [type |-> c.type, index |-> c.index, status |-> c.status, mask |-> c.mask,
              delay |-> c.delay, data |-> c.data]
      /\ c.type # CmdGetMultipleSwitches
  BY SimpleFields DEF Fits
<1>2. /\ c.type \in {CmdGetNumSwitches, CmdPassThrough} => c.index = 0
      /\ c.type \notin {CmdSetSingleSwitch, CmdSetSingleSwitchDelay} => c.status = 0
      /\ c.type # CmdSetMultipleSwitches => c.mask = {}
      /\ c.type # CmdSetSingleSwitchDelay => c.delay = 0
      /\ c.type # CmdPassThrough => c.data = <<>>
  BY DEF Fits, Simple
<1>3. /\ b \in Seq(Byte) /\ n \in Nat /\ n >= 1 /\ b[1] = c.type
      /\ c.type = CmdSetSingleSwitch =>
           n = 4 /\ b[2] = c.index \div 256 /\ b[3] = c.index % 256 /\ b[4] = c.status
      /\ c.type = CmdGetSingleSwitch =>
           n = 3 /\ b[2] = c.index \div 256 /\ b[3] = c.index % 256
      /\ c.type = CmdSetMultipleSwitches =>
           n = 11 /\ b[2] = c.index \div 256 /\ b[3] = c.index % 256
           /\ \A j \in 1..8 : b[3 + j] = Long(c.mask)[j]
      /\ c.type = CmdGetNumSwitches => n = 1
      /\ c.type = CmdSetSingleSwitchDelay =>
           n = 6 /\ b[2] = c.index \div 256 /\ b[3] = c.index % 256 /\ b[4] = c.status
           /\ b[5] = c.delay \div 256 /\ b[6] = c.delay % 256
      /\ c.type = CmdPassThrough =>
           n = 2 + Len(c.data) /\ b[2] = Len(c.data)
           /\ \A j \in 1..Len(c.data) : b[2 + j] = c.data[j]
  BY BuiltBytes
<1>4. \A j \in 1..n : at(d, p + j - 1) = b[j]
  BY DEF Holds
<1> HIDE DEF b, n
<1>5. /\ at(d, p) = c.type
      /\ n >= 2 => at(d, p + 1) = b[2]
      /\ n >= 3 => at(d, p + 2) = b[3]
      /\ n >= 4 => at(d, p + 3) = b[4]
      /\ n >= 5 => at(d, p + 4) = b[5]
      /\ n >= 6 => at(d, p + 5) = b[6]
  <2>1. at(d, p + 1 - 1) = b[1] /\ p + 1 - 1 = p
    BY <1>3, <1>4
  <2>2. n >= 2 => at(d, p + 2 - 1) = b[2] /\ p + 2 - 1 = p + 1
    BY <1>3, <1>4
  <2>3. n >= 3 => at(d, p + 3 - 1) = b[3] /\ p + 3 - 1 = p + 2
    BY <1>3, <1>4
  <2>4. n >= 4 => at(d, p + 4 - 1) = b[4] /\ p + 4 - 1 = p + 3
    BY <1>3, <1>4
  <2>5. n >= 5 => at(d, p + 5 - 1) = b[5] /\ p + 5 - 1 = p + 4
    BY <1>3, <1>4
  <2>6. n >= 6 => at(d, p + 6 - 1) = b[6] /\ p + 6 - 1 = p + 5
    BY <1>3, <1>4
  <2> QED BY <1>3, <2>1, <2>2, <2>3, <2>4, <2>5, <2>6
<1>6. c.type \notin {CmdGetNumSwitches, CmdPassThrough} => GetParamInt16(d, p + 1) = c.index
  <2>1. SUFFICES ASSUME c.type \notin {CmdGetNumSwitches, CmdPassThrough}
                 PROVE  GetParamInt16(d, p + 1) = c.index
    OBVIOUS
  <2>2. n >= 3 /\ b[2] = c.index \div 256 /\ b[3] = c.index % 256
    BY <1>1, <1>3, <2>1 DEF CmdSetSingleSwitch, CmdGetSingleSwitch, CmdSetMultipleSwitches,
        CmdGetMultipleSwitches, CmdGetNumSwitches, CmdSetSingleSwitchDelay, CmdPassThrough
  <2>3. at(d, p + 1) = c.index \div 256 /\ at(d, (p + 1) + 1) = c.index % 256
    <3>1. (p + 1) + 1 = p + 2 /\ n >= 2
      BY <1>3, <2>2
    <3> QED BY <1>5, <2>2, <3>1
  <2>4. p + 1 \in Nat
    OBVIOUS
  <2> QED BY <1>1, <2>3, <2>4, Int16ReadBack
<1>7. CASE c.type = CmdSetSingleSwitch
  <2>0. /\ at(d, p) = CmdSetSingleSwitch
        /\ \A t \in {CmdGetSingleSwitch, CmdSetMultipleSwitches, CmdGetMultipleSwitches,
                   CmdGetNumSwitches, CmdSetSingleSwitchDelay, CmdPassThrough} : at(d, p) # t
    BY <1>5, <1>7 DEF CmdSetSingleSwitch, CmdGetSingleSwitch, CmdSetMultipleSwitches,
        CmdGetMultipleSwitches, CmdGetNumSwitches, CmdSetSingleSwitchDelay, CmdPassThrough
  <2>1. n = 4 /\ at(d, p + 3) = c.status
    BY <1>3, <1>5, <1>7
  <2>2. SimpleLength(d, p) = n
    BY <1>5, <1>7, <2>1 DEF SimpleLength, CmdSetSingleSwitch, CmdGetSingleSwitch, CmdSetMultipleSwitches,
        CmdGetMultipleSwitches, CmdGetNumSwitches, CmdSetSingleSwitchDelay, CmdPassThrough,
        CmdGetScheduledTask, CmdDeleteScheduledTask
  <2>3. call = Made(GetParamInt16(d, p + 1), at(d, p + 3), {}, 0, <<>>)
    BY <2>0, Zenon DEF ParseSimple
  <2>4. call = Made(c.index, c.status, c.mask, c.delay, c.data)
    <3>1. c.mask = {} /\ c.delay = 0 /\ c.data = <<>>
      BY <1>2, <1>7 DEF CmdSetSingleSwitch, CmdGetSingleSwitch, CmdSetMultipleSwitches,
        CmdGetMultipleSwitches, CmdGetNumSwitches, CmdSetSingleSwitchDelay, CmdPassThrough
    <3>2. GetParamInt16(d, p + 1) = c.index
      BY <1>6, <1>7 DEF CmdSetSingleSwitch, CmdGetSingleSwitch, CmdSetMultipleSwitches,
        CmdGetMultipleSwitches, CmdGetNumSwitches, CmdSetSingleSwitchDelay, CmdPassThrough
    <3> QED BY <3>1, <3>2, <2>1, <2>3, Zenon
  <2> QED BY <1>1, <1>5, <2>2, <2>4 DEF b, n
<1>8. CASE c.type = CmdGetSingleSwitch
  <2>0. /\ at(d, p) = CmdGetSingleSwitch
        /\ \A t \in {CmdSetSingleSwitch, CmdSetMultipleSwitches, CmdGetMultipleSwitches,
                   CmdGetNumSwitches, CmdSetSingleSwitchDelay, CmdPassThrough} : at(d, p) # t
    BY <1>5, <1>8 DEF CmdSetSingleSwitch, CmdGetSingleSwitch, CmdSetMultipleSwitches,
        CmdGetMultipleSwitches, CmdGetNumSwitches, CmdSetSingleSwitchDelay, CmdPassThrough
  <2>1. SimpleLength(d, p) = n
    BY <1>3, <1>5, <1>8 DEF SimpleLength, CmdSetSingleSwitch, CmdGetSingleSwitch, CmdSetMultipleSwitches,
        CmdGetMultipleSwitches, CmdGetNumSwitches, CmdSetSingleSwitchDelay, CmdPassThrough,
        CmdGetScheduledTask, CmdDeleteScheduledTask
  <2>2. call = Made(GetParamInt16(d, p + 1), 0, {}, 0, <<>>)
    BY <2>0, Zenon DEF ParseSimple
  <2>3. call = Made(c.index, c.status, c.mask, c.delay, c.data)
    <3>1. c.status = 0 /\ c.mask = {} /\ c.delay = 0 /\ c.data = <<>>
      BY <1>2, <1>8 DEF CmdSetSingleSwitch, CmdGetSingleSwitch, CmdSetMultipleSwitches,
        CmdGetMultipleSwitches, CmdGetNumSwitches, CmdSetSingleSwitchDelay, CmdPassThrough
    <3>2. GetParamInt16(d, p + 1) = c.index
      BY <1>6, <1>8 DEF CmdSetSingleSwitch, CmdGetSingleSwitch, CmdSetMultipleSwitches,
        CmdGetMultipleSwitches, CmdGetNumSwitches, CmdSetSingleSwitchDelay, CmdPassThrough
    <3> QED BY <3>1, <3>2, <2>2, Zenon
  <2> QED BY <1>1, <1>5, <2>1, <2>3 DEF b, n
<1>9. CASE c.type = CmdSetMultipleSwitches
  <2>0. /\ at(d, p) = CmdSetMultipleSwitches
        /\ \A t \in {CmdSetSingleSwitch, CmdGetSingleSwitch, CmdGetMultipleSwitches,
                   CmdGetNumSwitches, CmdSetSingleSwitchDelay, CmdPassThrough} : at(d, p) # t
    BY <1>5, <1>9 DEF CmdSetSingleSwitch, CmdGetSingleSwitch, CmdSetMultipleSwitches,
        CmdGetMultipleSwitches, CmdGetNumSwitches, CmdSetSingleSwitchDelay, CmdPassThrough
  <2>1. n = 11 /\ \A j \in 1..8 : b[3 + j] = Long(c.mask)[j]
    BY <1>3, <1>9
  <2>2. SimpleLength(d, p) = n
    BY <1>5, <1>9, <2>1 DEF SimpleLength, CmdSetSingleSwitch, CmdGetSingleSwitch, CmdSetMultipleSwitches,
        CmdGetMultipleSwitches, CmdGetNumSwitches, CmdSetSingleSwitchDelay, CmdPassThrough,
        CmdGetScheduledTask, CmdDeleteScheduledTask
  <2>3. GetParamInt64(d, p + 3) = c.mask
    <3>1. ASSUME NEW j \in 1..Len(Long(c.mask)) PROVE at(d, p + 3 + j - 1) = Long(c.mask)[j]
      <4>1. j \in 1..8
        BY <1>1, LongBytes
      <4>2. 3 + j \in 1..n /\ p + (3 + j) - 1 = p + 3 + j - 1
        BY <2>1, <4>1
      <4>3. at(d, p + (3 + j) - 1) = b[3 + j]
        BY <1>4, <4>2
      <4> QED BY <2>1, <4>1, <4>2, <4>3
    <3>2. Holds(d, p + 3, Long(c.mask)) /\ p + 3 \in Nat
      BY <3>1 DEF Holds
    <3> QED BY <1>1, <3>2, LongReadBack
  <2>4. call = Made(GetParamInt16(d, p + 1), 0, GetParamInt64(d, p + 3), 0, <<>>)
    BY <2>0, Zenon DEF ParseSimple
  <2>5. call = Made(c.index, c.status, c.mask, c.delay, c.data)
    <3>1. c.status = 0 /\ c.delay = 0 /\ c.data = <<>>
      BY <1>2, <1>9 DEF CmdSetSingleSwitch, CmdGetSingleSwitch, CmdSetMultipleSwitches,
        CmdGetMultipleSwitches, CmdGetNumSwitches, CmdSetSingleSwitchDelay, CmdPassThrough
    <3>2. GetParamInt16(d, p + 1) = c.index
      BY <1>6, <1>9 DEF CmdSetSingleSwitch, CmdGetSingleSwitch, CmdSetMultipleSwitches,
        CmdGetMultipleSwitches, CmdGetNumSwitches, CmdSetSingleSwitchDelay, CmdPassThrough
    <3> QED BY <3>1, <3>2, <2>3, <2>4, Zenon
  <2> QED BY <1>1, <1>5, <2>2, <2>5 DEF b, n
<1>10. CASE c.type = CmdGetNumSwitches
  <2>0. /\ at(d, p) = CmdGetNumSwitches
        /\ \A t \in {CmdSetSingleSwitch, CmdGetSingleSwitch, CmdSetMultipleSwitches,
                   CmdGetMultipleSwitches, CmdSetSingleSwitchDelay, CmdPassThrough} : at(d, p) # t
    BY <1>5, <1>10 DEF CmdSetSingleSwitch, CmdGetSingleSwitch, CmdSetMultipleSwitches,
        CmdGetMultipleSwitches, CmdGetNumSwitches, CmdSetSingleSwitchDelay, CmdPassThrough
  <2>1. SimpleLength(d, p) = n
    BY <1>3, <1>5, <1>10 DEF SimpleLength, CmdSetSingleSwitch, CmdGetSingleSwitch, CmdSetMultipleSwitches,
        CmdGetMultipleSwitches, CmdGetNumSwitches, CmdSetSingleSwitchDelay, CmdPassThrough,
        CmdGetScheduledTask, CmdDeleteScheduledTask
  <2>2. call = Made(0, 0, {}, 0, <<>>)
    BY <2>0, Zenon DEF ParseSimple
  <2>3. call = Made(c.index, c.status, c.mask, c.delay, c.data)
    <3>1. c.index = 0 /\ c.status = 0 /\ c.mask = {} /\ c.delay = 0 /\ c.data = <<>>
      BY <1>2, <1>10 DEF CmdSetSingleSwitch, CmdGetSingleSwitch, CmdSetMultipleSwitches,
        CmdGetMultipleSwitches, CmdGetNumSwitches, CmdSetSingleSwitchDelay, CmdPassThrough
    <3> QED BY <3>1, <2>2, Zenon
  <2> QED BY <1>1, <1>5, <2>1, <2>3 DEF b, n
<1>11. CASE c.type = CmdSetSingleSwitchDelay
  <2>0. /\ at(d, p) = CmdSetSingleSwitchDelay
        /\ \A t \in {CmdSetSingleSwitch, CmdGetSingleSwitch, CmdSetMultipleSwitches,
                   CmdGetMultipleSwitches, CmdGetNumSwitches, CmdPassThrough} : at(d, p) # t
    BY <1>5, <1>11 DEF CmdSetSingleSwitch, CmdGetSingleSwitch, CmdSetMultipleSwitches,
        CmdGetMultipleSwitches, CmdGetNumSwitches, CmdSetSingleSwitchDelay, CmdPassThrough
  <2>1. n = 6 /\ at(d, p + 3) = c.status
    BY <1>3, <1>5, <1>11
  <2>2. SimpleLength(d, p) = n
    BY <1>5, <1>11, <2>1 DEF SimpleLength, CmdSetSingleSwitch, CmdGetSingleSwitch, CmdSetMultipleSwitches,
        CmdGetMultipleSwitches, CmdGetNumSwitches, CmdSetSingleSwitchDelay, CmdPassThrough,
        CmdGetScheduledTask, CmdDeleteScheduledTask
  <2>3. GetParamInt16(d, p + 4) = c.delay
    <3>1. at(d, p + 4) = c.delay \div 256 /\ at(d, p + 5) = c.delay % 256
      BY <1>3, <1>5, <1>11
    <3>2. (p + 4) + 1 = p + 5 /\ p + 4 \in Nat
      OBVIOUS
    <3> QED BY <1>1, <3>1, <3>2, Int16ReadBack
  <2>4. call = Made(GetParamInt16(d, p + 1), at(d, p + 3), {}, GetParamInt16(d, p + 4), <<>>)
    BY <2>0, Zenon DEF ParseSimple
  <2>5. call = Made(c.index, c.status, c.mask, c.delay, c.data)
    <3>1. c.mask = {} /\ c.data = <<>>
      BY <1>2, <1>11 DEF CmdSetSingleSwitch, CmdGetSingleSwitch, CmdSetMultipleSwitches,
        CmdGetMultipleSwitches, CmdGetNumSwitches, CmdSetSingleSwitchDelay, CmdPassThrough
    <3>2. GetParamInt16(d, p + 1) = c.index
      BY <1>6, <1>11 DEF CmdSetSingleSwitch, CmdGetSingleSwitch, CmdSetMultipleSwitches,
        CmdGetMultipleSwitches, CmdGetNumSwitches, CmdSetSingleSwitchDelay, CmdPassThrough
    <3> QED BY <3>1, <3>2, <2>1, <2>3, <2>4, Zenon
  <2> QED BY <1>1, <1>5, <2>2, <2>5 DEF b, n
<1>12. CASE c.type = CmdPassThrough
  <2>0. /\ at(d, p) = CmdPassThrough
        /\ \A t \in {CmdSetSingleSwitch, CmdGetSingleSwitch, CmdSetMultipleSwitches,
                   CmdGetMultipleSwitches, CmdGetNumSwitches, CmdSetSingleSwitchDelay} : at(d, p) # t
    BY <1>5, <1>12 DEF CmdSetSingleSwitch, CmdGetSingleSwitch, CmdSetMultipleSwitches,
        CmdGetMultipleSwitches, CmdGetNumSwitches, CmdSetSingleSwitchDelay, CmdPassThrough
  <2> DEFINE m == Len(c.data)
  <2>1. n = 2 + m /\ b[2] = m /\ \A j \in 1..m : b[2 + j] = c.data[j]
    BY <1>3, <1>12
  <2>2. m \in Nat /\ c.data = [j \in 1..m |-> c.data[j]]
    BY <1>1
  <2> HIDE DEF m
  <2>3. at(d, p + 1) = m
    BY <1>5, <2>1, <2>2
  <2>4. SimpleLength(d, p) = n
    BY <1>5, <1>12, <2>1, <2>3 DEF SimpleLength, CmdSetSingleSwitch, CmdGetSingleSwitch, CmdSetMultipleSwitches,
        CmdGetMultipleSwitches, CmdGetNumSwitches, CmdSetSingleSwitchDelay, CmdPassThrough,
        CmdGetScheduledTask, CmdDeleteScheduledTask
  <2>5. call = Made(0, 0, {}, 0, [i \in 1..at(d, p + 1) |-> at(d, p + 1 + i)])
    BY <2>0, Zenon DEF ParseSimple
  <2>6. [i \in 1..at(d, p + 1) |-> at(d, p + 1 + i)] = c.data
    <3>1. ASSUME NEW j \in 1..m PROVE at(d, p + 1 + j) = c.data[j]
      <4>1. 2 + j \in 1..n /\ p + (2 + j) - 1 = p + 1 + j
        BY <2>1, <2>2
      <4>2. at(d, p + (2 + j) - 1) = b[2 + j]
        BY <1>4, <4>1
      <4> QED BY <2>1, <4>1, <4>2
    <3> QED BY <2>2, <2>3, <3>1
  <2>7. call = Made(c.index, c.status, c.mask, c.delay, c.data)
    <3>1. c.index = 0 /\ c.status = 0 /\ c.mask = {} /\ c.delay = 0
      BY <1>2, <1>12 DEF CmdSetSingleSwitch, CmdGetSingleSwitch, CmdSetMultipleSwitches,
        CmdGetMultipleSwitches, CmdGetNumSwitches, CmdSetSingleSwitchDelay, CmdPassThrough
    <3> QED BY <3>1, <2>5, <2>6, Zenon
  <2> QED BY <1>1, <1>5, <2>4, <2>7 DEF b, n
<1>13. \/ c.type = CmdSetSingleSwitch \/ c.type = CmdGetSingleSwitch
       \/ c.type = CmdSetMultipleSwitches \/ c.type = CmdGetNumSwitches
       \/ c.type = CmdSetSingleSwitchDelay \/ c.type = CmdPassThrough
  BY <1>1 DEF CmdSetSingleSwitch, CmdGetSingleSwitch, CmdSetMultipleSwitches,
        CmdGetMultipleSwitches, CmdGetNumSwitches, CmdSetSingleSwitchDelay, CmdPassThrough
<1> QED BY <1>7, <1>8, <1>9, <1>10, <1>11, <1>12, <1>13

\* Once its first byte has come, no length but its own is found for a simple
\* command: whatever stands behind the bytes that have come.
LEMMA CutSimple ==
  ASSUME NEW c, Fits(c), NEW d \in Seq(Byte), NEW p \in Nat, NEW n \in Nat, n >= 1,
         \A j \in 1..n : j <= Len(BuildSimple(c)) => at(d, p + j - 1) = BuildSimple(c)[j],
         SimpleLength(d, p) = n
  PROVE  Len(BuildSimple(c)) = n
<1> DEFINE b == BuildSimple(c)
           l == Len(b)
<1>1. /\ l \in Nat /\ l >= 1 /\ b[1] = c.type
      /\ c.type = CmdSetSingleSwitch => l = 4
      /\ c.type = CmdGetSingleSwitch => l = 3
      /\ c.type = CmdSetMultipleSwitches => l = 11
      /\ c.type = CmdGetNumSwitches => l = 1
      /\ c.type = CmdSetSingleSwitchDelay => l = 6
      /\ c.type = CmdPassThrough => l = 2 + Len(c.data) /\ b[2] = Len(c.data)
  BY BuiltBytes
<1>2. c.type \in 193..199 /\ c.data \in Seq(Byte) /\ c.type # CmdGetMultipleSwitches
  BY SimpleFields DEF Fits
<1> HIDE DEF b, l
<1>3. at(d, p) = c.type
  <2>1. at(d, p + 1 - 1) = b[1] /\ p + 1 - 1 = p
    BY <1>1 DEF b, l
  <2>2. b[1] = c.type
    BY <1>1
  <2> QED BY <2>1, <2>2
<1>4. CASE c.type # CmdPassThrough
  <2>1. SimpleLength(d, p) = l
    BY <1>1, <1>2, <1>3, <1>4 DEF SimpleLength, CmdSetSingleSwitch, CmdGetSingleSwitch, CmdSetMultipleSwitches,
        CmdGetMultipleSwitches, CmdGetNumSwitches, CmdSetSingleSwitchDelay, CmdPassThrough,
        CmdGetScheduledTask, CmdDeleteScheduledTask
  <2> QED BY <2>1 DEF b, l
<1>5. CASE c.type = CmdPassThrough
  <2>1. p + 1 \in Int
    OBVIOUS
  <2>2. at(d, p + 1) \in Nat
    <3>1. at(d, p + 1) \in Byte
      BY <2>1, ByteAt
    <3> QED BY <3>1, ByteBound
  <2>3. SimpleLength(d, p) = 2 + at(d, p + 1) /\ at(d, p + 1) \in Nat
    BY <1>3, <1>5, <2>2 DEF SimpleLength, CmdSetSingleSwitch, CmdGetSingleSwitch, CmdSetMultipleSwitches,
        CmdGetMultipleSwitches, CmdGetNumSwitches, CmdSetSingleSwitchDelay, CmdPassThrough,
        CmdGetScheduledTask, CmdDeleteScheduledTask
  <2>4. n >= 2 /\ l >= 2 /\ Len(c.data) \in Nat
    BY <1>1, <1>2, <1>5, <2>3
  <2>5. at(d, p + 2 - 1) = b[2] /\ p + 2 - 1 = p + 1
    BY <2>4 DEF b, l
  <2>6. at(d, p + 1) = Len(c.data)
    BY <1>1, <1>5, <2>5
  <2> QED BY <1>1, <1>5, <2>3, <2>6 DEF b, l
<1> QED BY <1>4, <1>5

-----------------------------------------------------------------------------
(***************************************************************************)
(* The recursion of GetCommandLength and ParseCommand.                      *)
(***************************************************************************)

\* A failed length is below every length.
LEMMA CrashIsNegative ==
  Crash \in Int /\ Crash < 0
BY SMT DEF Crash

\* The pointer in a pack moves by its rule, from behind the header.
LEMMA PositionsMove ==
  ASSUME NEW length \in [Int -> Int], NEW count \in Nat, NEW p \in Int
  PROVE  LET next == Positions(length, count, p)
         IN  /\ next \in [0..count -> Int] /\ next[0] = p + 2
             /\ \A i \in 1..count :
                  next[i] = IF Crash \in {next[i - 1], length[next[i - 1]]} THEN Crash
                            ELSE next[i - 1] + length[next[i - 1]]
<1> DEFINE Step(x) == IF Crash \in {x, length[x]} THEN Crash ELSE x + length[x]
           Rule(g) == g = [i \in 0..count |-> IF i = 0 THEN p + 2 ELSE Step(g[i - 1])]
           F == [i \in 1..count |-> [x \in Int |-> Step(x)]]
           next == Positions(length, count, p)
<1>1. \A x \in Int : Step(x) \in Int
  BY CrashIsNegative
<1>2. PICK h : Runs(h, count, Int, p + 2, F)
  <2>1. F \in [1..count -> [Int -> Int]] /\ p + 2 \in Int
    BY <1>1
  <2> HIDE DEF F
  <2> QED BY <2>1, Iterates
<1>3. Rule(h)
  <2>1. h \in [0..count -> Int] /\ h[0] = p + 2
    BY <1>2 DEF Runs
  <2>2. ASSUME NEW i \in 1..count PROVE h[i] = Step(h[i - 1])
    <3>1. i - 1 \in 0..count
      OBVIOUS
    <3>2. h[i - 1] \in Int
      BY <2>1, <3>1
    <3>3. h[i] = F[i][h[i - 1]]
      BY <1>2 DEF Runs
    <3>4. F[i] = [x \in Int |-> Step(x)]
      OBVIOUS
    <3> HIDE DEF F, Step
    <3> QED BY <3>2, <3>3, <3>4
  <2> HIDE DEF Step
  <2>3. \A i \in 0..count : h[i] = IF i = 0 THEN p + 2 ELSE Step(h[i - 1])
    BY <2>1, <2>2
  <2> QED BY <2>1, <2>3
<1>4. next = CHOOSE g : Rule(g)
  BY Zenon DEF Positions
<1>5. Rule(next)
  <2> HIDE DEF Rule, next
  <2> QED BY <1>3, <1>4
<1> HIDE DEF next, Step, F
<1>6. next = [i \in 0..count |-> next[i]] /\ next[0] = p + 2 /\ \A i \in 1..count : next[i] = Step(next[i - 1])
  <2>1. \A i \in 0..count : next[i] = IF i = 0 THEN p + 2 ELSE Step(next[i - 1])
    BY <1>5
  <2>2. next = [i \in 0..count |-> next[i]]
    <3>1. next = [i \in 0..count |-> IF i = 0 THEN p + 2 ELSE Step(next[i - 1])]
      BY <1>5
    <3> QED BY <2>1, <3>1
  <2>3. 0 \in 0..count /\ \A i \in 1..count : i \in 0..count /\ i # 0
    OBVIOUS
  <2> QED BY <2>1, <2>2, <2>3
<1> DEFINE Good == {i \in 0..count : next[i] \in Int}
<1>7. 0 \in Good
  BY <1>6
<1>8. ASSUME NEW i \in 1..count, i - 1 \in Good PROVE i \in Good
  <2>1. next[i - 1] \in Int /\ i \in 0..count
    BY <1>8
  <2>2. next[i] \in Int
    BY <1>1, <1>6, <2>1
  <2> QED BY <2>1, <2>2
<1>9. \A i \in 0..count : i \in Good
  <2> HIDE DEF Good
  <2> QED BY <1>7, <1>8, Induction
<1>10. next \in [0..count -> Int]
  BY <1>6, <1>9
<1> QED BY <1>6, <1>10 DEF next, Step

\* The length of a simple command is a number.
LEMMA SimpleLengthType ==
  ASSUME NEW d \in Seq(Byte), NEW p \in Int
  PROVE  SimpleLength(d, p) \in Int
<1>1. at(d, p + 1) \in Nat
  <2>1. p + 1 \in Int
    OBVIOUS
  <2> QED BY <2>1, ByteAt, ByteBound
<1> DEFINE n == at(d, p + 1)
<1> HIDE DEF n
<1>2. CASE at(d, p) = CmdPassThrough
  <2>1. SimpleLength(d, p) = 2 + n
    BY <1>2, SMT DEF SimpleLength, n, CmdSetSingleSwitch, CmdGetSingleSwitch, CmdSetMultipleSwitches,
         CmdGetMultipleSwitches, CmdGetNumSwitches, CmdSetSingleSwitchDelay, CmdPassThrough,
         CmdGetScheduledTask, CmdDeleteScheduledTask
  <2> QED BY <1>1, <2>1 DEF n
<1>3. CASE at(d, p) # CmdPassThrough
  <2>1. SimpleLength(d, p) \in {4, 3, 11, 2, 1, 6, Unhandled}
    BY <1>3, SMT DEF SimpleLength, CmdSetSingleSwitch, CmdGetSingleSwitch, CmdSetMultipleSwitches,
         CmdGetMultipleSwitches, CmdGetNumSwitches, CmdSetSingleSwitchDelay, CmdPassThrough,
         CmdGetScheduledTask, CmdDeleteScheduledTask
  <2> QED BY <2>1, SMT DEF Unhandled
<1> QED BY <1>2, <1>3

\* So is that of any command, if the lengths one level deeper are numbers.
LEMMA LengthAtType ==
  ASSUME NEW length \in [Int -> Int], NEW d \in Seq(Byte), NEW p \in Int
  PROVE  LengthAt(length, d, p) \in Int
<1>1. p + 1 \in Int
  OBVIOUS
<1>2. at(d, p + 1) \in Nat
  BY <1>1, ByteAt, ByteBound
<1>3. SimpleLength(d, p) \in Int /\ SimpleLength(d, p + 1) \in Int
  BY <1>1, SimpleLengthType
<1>4. ScheduledLength(d, p) \in Int
  BY <1>3, CrashIsNegative DEF ScheduledLength
<1> DEFINE count == at(d, p + 1)
           end == Positions(length, count, p)[count]
<1>5. end \in Int
  <2> DEFINE next == Positions(length, count, p)
  <2>1. next \in [0..count -> Int]
    <3> HIDE DEF count
    <3> QED BY <1>2, PositionsMove DEF count
  <2>2. count \in 0..count
    BY <1>2
  <2> HIDE DEF next, count
  <2>3. next[count] \in Int
    BY <2>1, <2>2
  <2> QED BY <2>3 DEF next
<1> HIDE DEF count, end
<1>6. \/ LengthAt(length, d, p) = Crash \/ LengthAt(length, d, p) = end - p
      \/ LengthAt(length, d, p) = ScheduledLength(d, p)
      \/ LengthAt(length, d, p) = SimpleLength(d, p)
  BY Zenon DEF LengthAt, count, end
<1>7. end - p \in Int
  BY <1>5
<1> QED BY <1>3, <1>4, <1>6, <1>7, CrashIsNegative, Zenon

\* The recursion is two levels deep at least.
LEMMA LengthsNest ==
  ASSUME NEW d \in Seq(Byte), CommandsAssumption
  PROVE  \E below \in [Int -> Int], inner \in [Int -> Int] :
           /\ inner = [p \in Int |-> LengthAt(below, d, p)]
           /\ Lengths(d) = [p \in Int |-> LengthAt(inner, d, p)]
<1> DEFINE n == MaxNesting
           V == [Int -> Int]
           b == [p \in Int |-> Crash]
           Step(l) == [p \in Int |-> LengthAt(l, d, p)]
           Rule(g) == g = [depth \in 0..n |->
                             [p \in Int |-> IF depth = 0 THEN Crash ELSE LengthAt(g[depth - 1], d, p)]]
           F == [i \in 1..n |-> [l \in V |-> Step(l)]]
           length == CHOOSE g : Rule(g)
<1>1. n \in Nat /\ n >= 2
  BY DEF CommandsAssumption
<1>2. \A l \in V : Step(l) \in V
  BY LengthAtType
<1>3. b \in V
  BY CrashIsNegative
<1>4. PICK h : Runs(h, n, V, b, F)
  <2>1. F \in [1..n -> [V -> V]]
    BY <1>2
  <2> HIDE DEF F, V, b, n
  <2> QED BY <1>1, <1>3, <2>1, Iterates
<1>5. h \in [0..n -> V] /\ h[0] = b
  BY <1>4 DEF Runs
<1>6. ASSUME NEW i \in 1..n PROVE h[i] = Step(h[i - 1])
  <2>1. i - 1 \in 0..n
    BY <1>1
  <2>2. h[i - 1] \in V
    BY <1>5, <2>1
  <2>3. h[i] = F[i][h[i - 1]]
    BY <1>4 DEF Runs
  <2>4. F[i] = [l \in V |-> Step(l)]
    OBVIOUS
  <2> HIDE DEF F, Step, V
  <2> QED BY <2>2, <2>3, <2>4
<1>7. Rule(h)
  <2>1. ASSUME NEW i \in 0..n
        PROVE  h[i] = [p \in Int |-> IF i = 0 THEN Crash ELSE LengthAt(h[i - 1], d, p)]
    <3>1. CASE i = 0
      BY <1>5, <3>1
    <3>2. CASE i # 0
      <4>1. i \in 1..n
        BY <3>2
      <4>2. h[i] = Step(h[i - 1])
        BY <1>6, <4>1
      <4> QED BY <3>2, <4>2, Zenon
    <3> QED BY <3>1, <3>2
  <2>2. h = [i \in 0..n |-> h[i]]
    <3> HIDE DEF V, n
    <3> QED BY <1>5
  <2> QED BY <2>1, <2>2
<1>8. Rule(length)
  <2> HIDE DEF Rule
  <2> QED BY <1>7
<1>9. Lengths(d) = length[n]
  BY Zenon DEF Lengths
<1> HIDE DEF length
<1>10. length[0] = b
  BY <1>1, <1>8
<1>11. ASSUME NEW i \in 1..n PROVE length[i] = Step(length[i - 1])
  <2>1. i \in 0..n /\ i # 0
    BY <1>1
  <2>2. length[i] = [p \in Int |-> IF i = 0 THEN Crash ELSE LengthAt(length[i - 1], d, p)]
    BY <1>8, <2>1
  <2> QED BY <2>1, <2>2, Zenon
<1> DEFINE Good == {i \in 0..n : length[i] \in V}
<1>12. 0 \in Good
  BY <1>1, <1>3, <1>10
<1>13. ASSUME NEW i \in 1..n, i - 1 \in Good PROVE i \in Good
  <2>1. length[i - 1] \in V /\ i \in 0..n
    BY <1>1, <1>13
  <2>2. length[i] \in V
    <3> HIDE DEF V, Step
    <3> QED BY <1>2, <1>11, <2>1
  <2> QED BY <2>1, <2>2
<1>14. \A i \in 0..n : i \in Good
  <2> HIDE DEF Good, n
  <2> QED BY <1>1, <1>12, <1>13, Induction
<1>15. n \in 1..n /\ n - 1 \in 1..n /\ n - 1 \in 0..n /\ (n - 1) - 1 \in 0..n
  BY <1>1
<1>16. length[n - 1] \in V /\ length[(n - 1) - 1] \in V
  BY <1>14, <1>15
<1>17. length[n] = Step(length[n - 1])
  <2> HIDE DEF n, Step
  <2> QED BY <1>11, <1>15
<1>18. length[n - 1] = Step(length[(n - 1) - 1])
  <2> HIDE DEF n, Step
  <2> QED BY <1>11, <1>15
<1> QED BY <1>9, <1>16, <1>17, <1>18, Zenon

\* What RadioNetworkAppendCommand is called with.
Call == [type : Byte, index : UInt16, status : Byte, mask : Masks, delay : UInt16,
         data : Seq(Byte)]

\* _GetParamInt16 yields 16 bits.
LEMMA Int16Type ==
  ASSUME NEW d \in Seq(Byte), NEW p \in Int
  PROVE  GetParamInt16(d, p) \in UInt16
<1>1. p + 1 \in Int
  OBVIOUS
<1>2. PICK x \in Byte, y \in Byte : x = at(d, p) /\ y = at(d, p + 1)
  BY <1>1, ByteAt
<1>3. x \in Nat /\ y \in Nat /\ x <= 255 /\ y <= 255
  BY ByteBound
<1>4. 256 * x + y \in UInt16
  BY <1>3, UInt16Bound, SMT
<1> QED BY <1>2, <1>4 DEF GetParamInt16

\* At most one call, with values in range.
LEMMA ParseSimpleType ==
  ASSUME NEW d \in Seq(Byte), NEW p \in Int
  PROVE  ParseSimple(d, p) \in Seq(Call)
<1> DEFINE type == at(d, p)
           i == GetParamInt16(d, p + 1)
           m == GetParamInt64(d, p + 3)
           Made(index, status, mask, delay, bytes) ==
             <<[type |-> type, index |-> index, status |-> status, mask |-> mask,
                delay |-> delay, data |-> bytes]>>
<1>1. p + 1 \in Int /\ p + 3 \in Int /\ p + 4 \in Int
  OBVIOUS
<1>2. i \in UInt16 /\ GetParamInt16(d, p + 4) \in UInt16
  BY <1>1, Int16Type
<1>3. type \in Byte /\ at(d, p + 1) \in Byte /\ at(d, p + 3) \in Byte
  BY <1>1, ByteAt
<1>4. m \in Masks
  BY DEF Masks, GetParamInt64
<1>5. 0 \in UInt16 /\ 0 \in Byte /\ {} \in Masks /\ <<>> \in Seq(Byte)
  BY ByteBound, UInt16Bound, SMT DEF Masks
<1>6. [k \in 1..at(d, p + 1) |-> at(d, p + 1 + k)] \in Seq(Byte)
  <2>1. at(d, p + 1) \in Nat
    BY <1>3, ByteBound
  <2>2. \A k \in 1..at(d, p + 1) : p + 1 + k \in Int
    BY <2>1
  <2>3. \A k \in 1..at(d, p + 1) : at(d, p + 1 + k) \in Byte
    BY <2>2, ByteAt
  <2> QED BY <2>1, <2>3
<1>7. \A a, b, c, e, f : a \in UInt16 /\ b \in Byte /\ c \in Masks /\ e \in UInt16 /\ f \in Seq(Byte)
        => Made(a, b, c, e, f) \in Seq(Call)
  <2> HIDE DEF type
  <2> QED BY <1>3 DEF Call
<1>8. CASE type = CmdSetSingleSwitch
  <2>1. /\ at(d, p) = CmdSetSingleSwitch
        /\ \A t \in {CmdGetSingleSwitch, CmdSetMultipleSwitches, CmdGetMultipleSwitches,
                   CmdGetNumSwitches, CmdSetSingleSwitchDelay, CmdPassThrough} : at(d, p) # t
    BY <1>8 DEF CmdSetSingleSwitch, CmdGetSingleSwitch, CmdSetMultipleSwitches,
        CmdGetMultipleSwitches, CmdGetNumSwitches, CmdSetSingleSwitchDelay, CmdPassThrough
  <2>2. ParseSimple(d, p) = Made(i, at(d, p + 3), {}, 0, <<>>)
    BY <2>1, Zenon DEF ParseSimple
  <2> HIDE DEF Made, i, m
  <2> QED BY <1>2, <1>3, <1>4, <1>5, <1>6, <1>7, <2>2, Zenon
<1>9. CASE type = CmdGetSingleSwitch
  <2>1. /\ at(d, p) = CmdGetSingleSwitch
        /\ \A t \in {CmdSetSingleSwitch, CmdSetMultipleSwitches, CmdGetMultipleSwitches,
                   CmdGetNumSwitches, CmdSetSingleSwitchDelay, CmdPassThrough} : at(d, p) # t
    BY <1>9 DEF CmdSetSingleSwitch, CmdGetSingleSwitch, CmdSetMultipleSwitches,
        CmdGetMultipleSwitches, CmdGetNumSwitches, CmdSetSingleSwitchDelay, CmdPassThrough
  <2>2. ParseSimple(d, p) = Made(i, 0, {}, 0, <<>>)
    BY <2>1, Zenon DEF ParseSimple
  <2> HIDE DEF Made, i, m
  <2> QED BY <1>2, <1>3, <1>4, <1>5, <1>6, <1>7, <2>2, Zenon
<1>10. CASE type = CmdSetMultipleSwitches
  <2>1. /\ at(d, p) = CmdSetMultipleSwitches
        /\ \A t \in {CmdSetSingleSwitch, CmdGetSingleSwitch, CmdGetMultipleSwitches,
                   CmdGetNumSwitches, CmdSetSingleSwitchDelay, CmdPassThrough} : at(d, p) # t
    BY <1>10 DEF CmdSetSingleSwitch, CmdGetSingleSwitch, CmdSetMultipleSwitches,
        CmdGetMultipleSwitches, CmdGetNumSwitches, CmdSetSingleSwitchDelay, CmdPassThrough
  <2>2. ParseSimple(d, p) = Made(i, 0, m, 0, <<>>)
    BY <2>1, Zenon DEF ParseSimple
  <2> HIDE DEF Made, i, m
  <2> QED BY <1>2, <1>3, <1>4, <1>5, <1>6, <1>7, <2>2, Zenon
<1>11. CASE type = CmdGetMultipleSwitches
  <2>1. /\ at(d, p) = CmdGetMultipleSwitches
        /\ \A t \in {CmdSetSingleSwitch, CmdGetSingleSwitch, CmdSetMultipleSwitches,
                   CmdGetNumSwitches, CmdSetSingleSwitchDelay, CmdPassThrough} : at(d, p) # t
    BY <1>11 DEF CmdSetSingleSwitch, CmdGetSingleSwitch, CmdSetMultipleSwitches,
        CmdGetMultipleSwitches, CmdGetNumSwitches, CmdSetSingleSwitchDelay, CmdPassThrough
  <2>2. ParseSimple(d, p) = Made(i, 0, {}, 0, <<>>)
    BY <2>1, Zenon DEF ParseSimple
  <2> HIDE DEF Made, i, m
  <2> QED BY <1>2, <1>3, <1>4, <1>5, <1>6, <1>7, <2>2, Zenon
<1>12. CASE type = CmdGetNumSwitches
  <2>1. /\ at(d, p) = CmdGetNumSwitches
        /\ \A t \in {CmdSetSingleSwitch, CmdGetSingleSwitch, CmdSetMultipleSwitches,
                   CmdGetMultipleSwitches, CmdSetSingleSwitchDelay, CmdPassThrough} : at(d, p) # t
    BY <1>12 DEF CmdSetSingleSwitch, CmdGetSingleSwitch, CmdSetMultipleSwitches,
        CmdGetMultipleSwitches, CmdGetNumSwitches, CmdSetSingleSwitchDelay, CmdPassThrough
  <2>2. ParseSimple(d, p) = Made(0, 0, {}, 0, <<>>)
    BY <2>1, Zenon DEF ParseSimple
  <2> HIDE DEF Made, i, m
  <2> QED BY <1>2, <1>3, <1>4, <1>5, <1>6, <1>7, <2>2, Zenon
<1>13. CASE type = CmdSetSingleSwitchDelay
  <2>1. /\ at(d, p) = CmdSetSingleSwitchDelay
        /\ \A t \in {CmdSetSingleSwitch, CmdGetSingleSwitch, CmdSetMultipleSwitches,
                   CmdGetMultipleSwitches, CmdGetNumSwitches, CmdPassThrough} : at(d, p) # t
    BY <1>13 DEF CmdSetSingleSwitch, CmdGetSingleSwitch, CmdSetMultipleSwitches,
        CmdGetMultipleSwitches, CmdGetNumSwitches, CmdSetSingleSwitchDelay, CmdPassThrough
  <2>2. ParseSimple(d, p) = Made(i, at(d, p + 3), {}, GetParamInt16(d, p + 4), <<>>)
    BY <2>1, Zenon DEF ParseSimple
  <2> HIDE DEF Made, i, m
  <2> QED BY <1>2, <1>3, <1>4, <1>5, <1>6, <1>7, <2>2, Zenon
<1>14. CASE type = CmdPassThrough
  <2>1. /\ at(d, p) = CmdPassThrough
        /\ \A t \in {CmdSetSingleSwitch, CmdGetSingleSwitch, CmdSetMultipleSwitches,
                   CmdGetMultipleSwitches, CmdGetNumSwitches, CmdSetSingleSwitchDelay} : at(d, p) # t
    BY <1>14 DEF CmdSetSingleSwitch, CmdGetSingleSwitch, CmdSetMultipleSwitches,
        CmdGetMultipleSwitches, CmdGetNumSwitches, CmdSetSingleSwitchDelay, CmdPassThrough
  <2>2. ParseSimple(d, p) = Made(0, 0, {}, 0, [k \in 1..at(d, p + 1) |-> at(d, p + 1 + k)])
    BY <2>1, Zenon DEF ParseSimple
  <2> HIDE DEF Made, i, m
  <2> QED BY <1>2, <1>3, <1>4, <1>5, <1>6, <1>7, <2>2, Zenon
<1>15. CASE type \notin {CmdSetSingleSwitch, CmdGetSingleSwitch, CmdSetMultipleSwitches, CmdGetMultipleSwitches,
                      CmdGetNumSwitches, CmdSetSingleSwitchDelay, CmdPassThrough}
  <2>1. \A t \in {CmdSetSingleSwitch, CmdGetSingleSwitch, CmdSetMultipleSwitches, CmdGetMultipleSwitches,
                 CmdGetNumSwitches, CmdSetSingleSwitchDelay, CmdPassThrough} : at(d, p) # t
    BY <1>15
  <2>2. ParseSimple(d, p) = <<>>
    BY <2>1, Zenon DEF ParseSimple
  <2> QED BY <2>2
<1> HIDE DEF type
<1> QED BY <1>8, <1>9, <1>10, <1>11, <1>12, <1>13, <1>14, <1>15

\* GetCommandLength yields a number at every position.
LEMMA LengthsType ==
  ASSUME NEW d \in Seq(Byte), CommandsAssumption
  PROVE  Lengths(d) \in [Int -> Int]
<1>1. PICK inner \in [Int -> Int] : Lengths(d) = [p \in Int |-> LengthAt(inner, d, p)]
  BY LengthsNest
<1>2. \A p \in Int : LengthAt(inner, d, p) \in Int
  BY LengthAtType
<1> QED BY <1>1, <1>2

\* A pack's calls are in range if those one level deeper are.
LEMMA CallsAtType ==
  ASSUME NEW called \in [Int -> Seq(Call)], NEW d \in Seq(Byte), NEW p \in Int, CommandsAssumption
  PROVE  CallsAt(called, d, p) \in Seq(Call)
<1> DEFINE count == at(d, p + 1)
           next == Positions(Lengths(d), count, p)
           ss == [i \in 1..count |-> called[next[i - 1]]]
<1>1. count \in Nat
  <2>1. p + 1 \in Int
    OBVIOUS
  <2> QED BY <2>1, ByteAt, ByteBound
<1>2. next \in [0..count -> Int]
  <2> HIDE DEF count
  <2> QED BY <1>1, LengthsType, PositionsMove
<1>3. FlattenSeq(ss) \in Seq(Call)
  <2> HIDE DEF next, count
  <2>1. \A i \in 1..count : called[next[i - 1]] \in Seq(Call)
    <3>1. \A i \in 1..count : i - 1 \in 0..count
      BY <1>1
    <3> QED BY <1>2, <3>1
  <2>2. ss \in Seq(Seq(Call))
    BY <1>1, <2>1
  <2> HIDE DEF ss
  <2> QED BY <2>2, FlattenType
<1>4. CallsAt(called, d, p) = FlattenSeq(ss) \/ CallsAt(called, d, p) = ParseSimple(d, p)
  BY Zenon DEF CallsAt
<1> HIDE DEF ss
<1> QED BY <1>3, <1>4, ParseSimpleType, Zenon

\* ParseCommand's recursion is two levels deep at least.
LEMMA CallsNest ==
  ASSUME NEW d \in Seq(Byte), CommandsAssumption
  PROVE  \E below \in [Int -> Seq(Call)], inner \in [Int -> Seq(Call)] :
           /\ inner = [p \in Int |-> CallsAt(below, d, p)]
           /\ \A p \in Int : ParseCommand(d, p) = CallsAt(inner, d, p)
<1> DEFINE n == MaxNesting
           V == [Int -> Seq(Call)]
           b == [p \in Int |-> <<>>]
           Step(l) == [p \in Int |-> CallsAt(l, d, p)]
           Rule(g) == g = [depth \in 0..n |->
                             [p \in Int |-> IF depth = 0 THEN <<>> ELSE CallsAt(g[depth - 1], d, p)]]
           F == [i \in 1..n |-> [l \in V |-> Step(l)]]
           called == CHOOSE g : Rule(g)
<1>1. n \in Nat /\ n >= 2
  BY DEF CommandsAssumption
<1>2. \A l \in V : Step(l) \in V
  BY CallsAtType
<1>3. b \in V
  OBVIOUS
<1>4. PICK h : Runs(h, n, V, b, F)
  <2>1. F \in [1..n -> [V -> V]]
    BY <1>2
  <2> HIDE DEF F, V, b, n
  <2> QED BY <1>1, <1>3, <2>1, Iterates
<1>5. h \in [0..n -> V] /\ h[0] = b
  BY <1>4 DEF Runs
<1>6. ASSUME NEW i \in 1..n PROVE h[i] = Step(h[i - 1])
  <2>1. i - 1 \in 0..n
    BY <1>1
  <2>2. h[i - 1] \in V
    BY <1>5, <2>1
  <2>3. h[i] = F[i][h[i - 1]]
    BY <1>4 DEF Runs
  <2>4. F[i] = [l \in V |-> Step(l)]
    OBVIOUS
  <2> HIDE DEF F, Step, V
  <2> QED BY <2>2, <2>3, <2>4
<1>7. Rule(h)
  <2>1. ASSUME NEW i \in 0..n
        PROVE  h[i] = [p \in Int |-> IF i = 0 THEN <<>> ELSE CallsAt(h[i - 1], d, p)]
    <3>1. CASE i = 0
      BY <1>5, <3>1
    <3>2. CASE i # 0
      <4>1. i \in 1..n
        BY <3>2
      <4>2. h[i] = Step(h[i - 1])
        BY <1>6, <4>1
      <4> QED BY <3>2, <4>2, Zenon
    <3> QED BY <3>1, <3>2
  <2>2. h = [i \in 0..n |-> h[i]]
    <3> HIDE DEF V, n
    <3> QED BY <1>5
  <2> QED BY <2>1, <2>2
<1>8. Rule(called)
  <2> HIDE DEF Rule
  <2> QED BY <1>7
<1>9. \A p : ParseCommand(d, p) = called[n][p]
  BY Zenon DEF ParseCommand
<1> HIDE DEF called
<1>10. called[0] = b
  BY <1>1, <1>8
<1>11. ASSUME NEW i \in 1..n PROVE called[i] = Step(called[i - 1])
  <2>1. i \in 0..n /\ i # 0
    BY <1>1
  <2>2. called[i] = [p \in Int |-> IF i = 0 THEN <<>> ELSE CallsAt(called[i - 1], d, p)]
    BY <1>8, <2>1
  <2> QED BY <2>1, <2>2, Zenon
<1> DEFINE Good == {i \in 0..n : called[i] \in V}
<1>12. 0 \in Good
  <2>1. called[0] \in V
    <3> HIDE DEF V, b
    <3> QED BY <1>3, <1>10
  <2>2. 0 \in 0..n
    BY <1>1
  <2> HIDE DEF V, n
  <2> QED BY <2>1, <2>2
<1>13. ASSUME NEW i \in 1..n, i - 1 \in Good PROVE i \in Good
  <2>1. called[i - 1] \in V /\ i \in 0..n
    BY <1>1, <1>13
  <2>2. called[i] \in V
    <3> HIDE DEF V, Step
    <3> QED BY <1>2, <1>11, <2>1
  <2> QED BY <2>1, <2>2
<1>14. \A i \in 0..n : i \in Good
  <2> HIDE DEF Good, n
  <2> QED BY <1>1, <1>12, <1>13, Induction
<1>15. n \in 1..n /\ n - 1 \in 1..n /\ n - 1 \in 0..n /\ (n - 1) - 1 \in 0..n
  BY <1>1
<1>16. called[n - 1] \in V /\ called[(n - 1) - 1] \in V
  BY <1>14, <1>15
<1>17. called[n] = Step(called[n - 1])
  <2> HIDE DEF n, Step
  <2> QED BY <1>11, <1>15
<1>18. called[n - 1] = Step(called[(n - 1) - 1])
  <2> HIDE DEF n, Step
  <2> QED BY <1>11, <1>15
<1>19. \A p \in Int : ParseCommand(d, p) = CallsAt(called[n - 1], d, p)
  BY <1>9, <1>17
<1> QED BY <1>16, <1>18, <1>19, Zenon

\* The header of a pack passes IS_COMMAND_PACK.
LEMMA HeaderIsPack ==
  IsPack(MultipleCommandHeader)
BY SMT DEF IsPack, MultipleCommandHeader

\* One level of the recursion, for a simple command.
LEMMA LengthOfSimple ==
  ASSUME NEW length, NEW d, NEW p, at(d, p) \in 193..199
  PROVE  LengthAt(length, d, p) = SimpleLength(d, p)
<1>1. ~IsPack(at(d, p)) /\ at(d, p) # CmdSetScheduledTask
  BY SimpleIsNoPack
<1> QED BY <1>1, Zenon DEF LengthAt

\* One level of ParseCommand's recursion, for a simple command.
LEMMA CallsOfSimple ==
  ASSUME NEW called, NEW d, NEW p, at(d, p) \in 193..199
  PROVE  CallsAt(called, d, p) = ParseSimple(d, p)
<1>1. ~IsPack(at(d, p))
  BY SimpleIsNoPack
<1> QED BY <1>1, Zenon DEF CallsAt

\* At each level but the last the simple commands have their lengths.
LEMMA Measured ==
  ASSUME NEW d \in Seq(Byte), CommandsAssumption
  PROVE  \E inner \in [Int -> Int] :
           /\ \A q \in Int : at(d, q) \in 193..199 => inner[q] = SimpleLength(d, q)
           /\ \A q \in Int : at(d, q) \in 193..199 => Lengths(d)[q] = SimpleLength(d, q)
           /\ \A q \in Int : Lengths(d)[q] = LengthAt(inner, d, q)
<1>1. PICK below \in [Int -> Int], inner \in [Int -> Int] :
        /\ inner = [p \in Int |-> LengthAt(below, d, p)]
        /\ Lengths(d) = [p \in Int |-> LengthAt(inner, d, p)]
  BY LengthsNest
<1>2. \A q \in Int : inner[q] = LengthAt(below, d, q) /\ Lengths(d)[q] = LengthAt(inner, d, q)
  BY <1>1
<1>3. ASSUME NEW q \in Int, at(d, q) \in 193..199
      PROVE  inner[q] = SimpleLength(d, q) /\ Lengths(d)[q] = SimpleLength(d, q)
  BY <1>2, <1>3, LengthOfSimple
<1> QED BY <1>1, <1>2, <1>3

\* At each level but the last the simple commands have their calls.
LEMMA Carried ==
  ASSUME NEW d \in Seq(Byte), CommandsAssumption
  PROVE  \E inner \in [Int -> Seq(Call)] :
           /\ \A q \in Int : at(d, q) \in 193..199 => inner[q] = ParseSimple(d, q)
           /\ \A q \in Int : ParseCommand(d, q) = CallsAt(inner, d, q)
<1>1. PICK below \in [Int -> Seq(Call)], inner \in [Int -> Seq(Call)] :
        /\ inner = [p \in Int |-> CallsAt(below, d, p)]
        /\ \A p \in Int : ParseCommand(d, p) = CallsAt(inner, d, p)
  BY CallsNest
<1>2. \A q \in Int : inner[q] = CallsAt(below, d, q)
  BY <1>1
<1>3. ASSUME NEW q \in Int, at(d, q) \in 193..199
      PROVE  inner[q] = ParseSimple(d, q)
  BY <1>2, <1>3, CallsOfSimple
<1> QED BY <1>1, <1>3

\* A simple command found whole at a position: its length and its call.
LEMMA SimpleUnderstood ==
  ASSUME NEW c, Fits(c), NEW d \in Seq(Byte), NEW p \in Nat, Holds(d, p, BuildSimple(c)),
         CommandsAssumption
  PROVE  GetCommandLength(d, p) = Len(BuildSimple(c)) /\ ParseCommand(d, p) = <<c>>
<1>1. /\ at(d, p) \in 193..199 /\ SimpleLength(d, p) = Len(BuildSimple(c))
      /\ ParseSimple(d, p) = <<c>>
  BY SimpleAt
<1>2. p \in Int
  OBVIOUS
<1>3. Lengths(d)[p] = SimpleLength(d, p)
  BY <1>1, <1>2, Measured
<1>4. ParseCommand(d, p) = ParseSimple(d, p)
  <2>1. PICK inner \in [Int -> Seq(Call)] : ParseCommand(d, p) = CallsAt(inner, d, p)
    BY <1>2, Carried
  <2> QED BY <1>1, <2>1, CallsOfSimple
<1> QED BY <1>1, <1>3, <1>4 DEF GetCommandLength

\* The simple commands of a pack, each of which fits, and their bytes.
AllFit(cs) == cs \in Seq(Simple) /\ \A i \in 1..Len(cs) : Fits(cs[i])
Pieces(cs) == [i \in 1..Len(cs) |-> BuildSimple(cs[i])]

\* A level of the recursion that knows the length of a simple command.
Measures(length, d) ==
  /\ length \in [Int -> Int]
  /\ \A q \in Int : at(d, q) \in 193..199 => length[q] = SimpleLength(d, q)

\* The commands of a pack are sent as bytes.
LEMMA PiecesType ==
  ASSUME NEW cs, AllFit(cs)
  PROVE  /\ Pieces(cs) \in Seq(Seq(Byte)) /\ Len(Pieces(cs)) = Len(cs) /\ Len(cs) \in Nat
         /\ \A i \in 1..Len(cs) : Pieces(cs)[i] = BuildSimple(cs[i])
<1>1. Len(cs) \in Nat
  BY DEF AllFit
<1>2. \A i \in 1..Len(cs) : BuildSimple(cs[i]) \in Seq(Byte)
  BY BuiltBytes DEF AllFit
<1> DEFINE m == Len(cs)
           B(i) == BuildSimple(cs[i])
<1> HIDE DEF m, B
<1>3. Pieces(cs) = [i \in 1..m |-> B(i)]
  BY Zenon DEF Pieces, m, B
<1>4. m \in Nat /\ \A i \in 1..m : B(i) \in Seq(Byte)
  BY <1>1, <1>2 DEF m, B
<1>5. [i \in 1..m |-> B(i)] \in Seq(Seq(Byte)) /\ Len([i \in 1..m |-> B(i)]) = m
  BY <1>4
<1> QED BY <1>3, <1>4, <1>5 DEF m, B

\* The pieces stand one behind the other from position s on; h has their joins.
Placed(d, s, h, ss) == Joins(h, ss, Byte) /\ Holds(d, s, h[Len(ss)])

\* Each piece stands where the joins before it end.
LEMMA PieceAt ==
  ASSUME NEW ss \in Seq(Seq(Byte)), NEW i \in 1..Len(ss), NEW d, NEW s \in Nat, NEW h,
         Placed(d, s, h, ss)
  PROVE  /\ Holds(d, s + Len(h[i - 1]), ss[i])
         /\ Len(h[i - 1]) \in Nat /\ Len(ss[i]) \in Nat /\ Len(h[i]) = Len(h[i - 1]) + Len(ss[i])
<1> DEFINE n == Len(ss)
           u == h[i - 1]
           v == ss[i]
           w == h[i]
           x == h[n]
<1>0. Joins(h, ss, Byte) /\ Holds(d, s, h[n])
  BY DEF Placed
<1>1. i - 1 \in 0..n /\ i \in 0..n /\ n \in i..n /\ n \in 0..n
  OBVIOUS
<1>2. u \in Seq(Byte) /\ v \in Seq(Byte) /\ w = u \o v /\ x \in Seq(Byte)
  <2>1. h \in [0..n -> Seq(Byte)]
    BY <1>0 DEF Joins
  <2>2. u \in Seq(Byte) /\ x \in Seq(Byte)
    BY <1>1, <2>1
  <2>3. v \in Seq(Byte)
    OBVIOUS
  <2>4. w = u \o v
    BY <1>0 DEF Joins
  <2> QED BY <2>2, <2>3, <2>4
<1>3. Len(w) <= Len(x) /\ \A j \in 1..Len(w) : x[j] = w[j]
  BY <1>0, <1>1, JoinsGrow
<1>4. \A j \in 1..Len(x) : at(d, s + j - 1) = x[j]
  BY <1>0 DEF Holds
<1> HIDE DEF u, v, w, x
<1>5. /\ Len(u \o v) = Len(u) + Len(v) /\ Len(u) \in Nat /\ Len(v) \in Nat
      /\ \A j \in 1..Len(v) : (u \o v)[Len(u) + j] = v[j]
  <2>1. u \in Seq(Byte) /\ v \in Seq(Byte)
    BY <1>2
  <2> QED BY <2>1, Joined
<1>6. Len(w) = Len(u) + Len(v) /\ \A j \in 1..Len(v) : w[Len(u) + j] = v[j]
  BY <1>2, <1>5, Zenon
<1> DEFINE a == Len(u)
           b == Len(v)
           l == Len(w)
           t == Len(x)
<1>7. t \in Nat
  BY <1>2
<1>8. /\ a \in Nat /\ b \in Nat /\ t \in Nat /\ l = a + b /\ l <= t
      /\ \A j \in 1..b : w[a + j] = v[j]
      /\ \A j \in 1..l : x[j] = w[j]
      /\ \A j \in 1..t : at(d, s + j - 1) = x[j]
  BY <1>3, <1>4, <1>5, <1>6, <1>7, Zenon
<1> HIDE DEF a, b, l, t
<1>9. ASSUME NEW j \in 1..b PROVE at(d, s + a + j - 1) = v[j]
  <2>1. a + j \in 1..l /\ a + j \in 1..t
    BY <1>8
  <2>2. s + (a + j) - 1 = s + a + j - 1
    BY <1>8
  <2>3. at(d, s + (a + j) - 1) = x[a + j]
    BY <1>8, <2>1
  <2> QED BY <1>8, <2>1, <2>2, <2>3
<1>10. Holds(d, s + Len(u), v)
  BY <1>9 DEF Holds, a, b
<1> QED BY <1>5, <1>6, <1>10 DEF u, v, w

\* The commands of a pack at position p stand behind its header.
Behind(d, p, h, cs) == Placed(d, p + 2, h, Pieces(cs))

\* The pointer stands at one after the other of them.
Follows(length, d, p, h, cs) ==
  LET next == Positions(length, Len(cs), p)
  IN  /\ \A i \in 0..Len(cs) : next[i] = p + 2 + Len(h[i])
      /\ \A i \in 1..Len(cs) :
           next[i - 1] \in Nat /\ Holds(d, next[i - 1], BuildSimple(cs[i]))

\* The pointer in a pack stands at each of its commands, and ends behind the last.
LEMMA PackPositions ==
  ASSUME NEW cs, AllFit(cs), NEW d \in Seq(Byte), NEW p \in Nat,
         NEW length, Measures(length, d), NEW h, Behind(d, p, h, cs)
  PROVE  Follows(length, d, p, h, cs)
<1> DEFINE m == Len(cs)
           next == Positions(length, m, p)
           ss == Pieces(cs)
<1>0. m \in Nat /\ Joins(h, Pieces(cs), Byte) /\ Holds(d, p + 2, h[m])
  BY PiecesType DEF Behind, Placed
<1>1. /\ next \in [0..m -> Int] /\ next[0] = p + 2
      /\ \A i \in 1..m :
           next[i] = IF Crash \in {next[i - 1], length[next[i - 1]]} THEN Crash
                     ELSE next[i - 1] + length[next[i - 1]]
  <2>1. p \in Int /\ length \in [Int -> Int]
    BY DEF Measures
  <2> HIDE DEF m
  <2> QED BY <1>0, <2>1, PositionsMove
<1> HIDE DEF next
<1>2. ss \in Seq(Seq(Byte)) /\ Len(ss) = m /\ \A i \in 1..m : ss[i] = BuildSimple(cs[i])
  BY PiecesType
<1>3. h[0] = <<>> /\ Joins(h, ss, Byte)
  BY <1>0 DEF Joins
<1> HIDE DEF ss
<1> DEFINE s == p + 2
<1>4. s \in Nat /\ Holds(d, s, h[m]) /\ next[0] = s
  BY <1>0, <1>1
<1> HIDE DEF s, m
<1>5. ASSUME NEW i \in 1..m, next[i - 1] = s + Len(h[i - 1])
      PROVE  /\ next[i] = s + Len(h[i]) /\ next[i - 1] \in Nat
             /\ Holds(d, next[i - 1], BuildSimple(cs[i]))
  <2> DEFINE q == next[i - 1]
             c == cs[i]
             a == Len(h[i - 1])
             b == Len(ss[i])
             l == Len(h[i])
  <2>1. Holds(d, s + a, ss[i]) /\ a \in Nat /\ b \in Nat /\ l = a + b
    <3>1. ss \in Seq(Seq(Byte)) /\ i \in 1..Len(ss)
      BY <1>2
    <3>2. Placed(d, s, h, ss)
      BY <1>2, <1>3, <1>4 DEF Placed
    <3>3. /\ Holds(d, s + Len(h[i - 1]), ss[i]) /\ Len(h[i - 1]) \in Nat /\ Len(ss[i]) \in Nat
          /\ Len(h[i]) = Len(h[i - 1]) + Len(ss[i])
      BY <1>4, <3>1, <3>2, PieceAt, Zenon
    <3> QED BY <3>3
  <2>2. q = s + a /\ ss[i] = BuildSimple(c) /\ b = Len(BuildSimple(c)) /\ Fits(c)
    BY <1>2, <1>5 DEF AllFit, m
  <2>3. next[i] = IF Crash \in {q, length[q]} THEN Crash ELSE q + length[q]
    BY <1>1
  <2> HIDE DEF q, c, a, b, l
  <2>4. q \in Nat /\ Holds(d, q, BuildSimple(c))
    <3>1. s + a \in Nat
      BY <1>4, <2>1
    <3> QED BY <2>1, <2>2, <3>1, Zenon
  <2>5. at(d, q) \in 193..199 /\ SimpleLength(d, q) = b
    BY <2>2, <2>4, SimpleAt
  <2>6. length[q] = b
    <3>1. q \in Int
      BY <2>4
    <3> QED BY <2>5, <3>1 DEF Measures
  <2>7. Crash \notin {q, length[q]}
    BY <2>1, <2>4, <2>6, CrashIsNegative
  <2>8. next[i] = q + b
    BY <2>3, <2>6, <2>7
  <2>9. next[i] = s + l
    <3>1. (s + a) + b = s + (a + b)
      BY <1>4, <2>1
    <3> QED BY <2>1, <2>2, <2>8, <3>1, Zenon
  <2> QED BY <2>4, <2>9 DEF q, c, l
<1> DEFINE Where(i) == next[i] = s + Len(h[i])
           Good == {i \in 0..m : Where(i)}
<1>6. 0 \in Good
  <2>1. Len(h[0]) = 0 /\ 0 \in 0..m
    BY <1>0, <1>3
  <2>2. Where(0)
    BY <1>4, <2>1
  <2> HIDE DEF Where
  <2> QED BY <2>1, <2>2
<1>7. ASSUME NEW i \in 1..m, i - 1 \in Good PROVE i \in Good
  <2>1. Where(i - 1) /\ i \in 0..m
    <3> HIDE DEF Where
    <3> QED BY <1>7
  <2>2. Where(i)
    BY <1>5, <2>1
  <2> HIDE DEF Where
  <2> QED BY <2>1, <2>2
<1>8. \A i \in 0..m : i \in Good
  <2> HIDE DEF Good
  <2> QED BY <1>0, <1>6, <1>7, Induction
<1>9. ASSUME NEW i \in 1..m
      PROVE  next[i - 1] \in Nat /\ Holds(d, next[i - 1], BuildSimple(cs[i]))
  <2>1. i - 1 \in 0..m
    BY <1>0
  <2>2. next[i - 1] = s + Len(h[i - 1])
    BY <1>8, <2>1
  <2> QED BY <1>5, <2>2
<1> QED BY <1>8, <1>9 DEF Follows, next, s, m

\* The bytes of a pack: its header, the number of its commands, and theirs.
LEMMA PackBytes ==
  ASSUME NEW c, c \in Pack, FitsOrPack(c)
  PROVE  LET cs == c.commands
             b  == BuildByteBuffer(c)
             f  == FlattenSeq(Pieces(cs))
         IN  /\ AllFit(cs) /\ f \in Seq(Byte) /\ b \in Seq(Byte) /\ Len(b) = 2 + Len(f)
             /\ Len(f) \in Nat /\ b[1] = MultipleCommandHeader /\ b[2] = Len(cs)
             /\ \A j \in 1..Len(f) : b[2 + j] = f[j]
<1> DEFINE cs == c.commands
           b == BuildByteBuffer(c)
           f == FlattenSeq(Pieces(cs))
           m == Len(cs)
<1>1. c.type = MultipleCommandHeader /\ cs \in Seq(Simple)
  BY DEF Pack
<1>2. m <= 255 /\ \A i \in DOMAIN cs : Fits(cs[i])
  BY <1>1 DEF FitsOrPack
<1>3. DOMAIN cs = 1..m /\ m \in Nat
  BY <1>1
<1>4. AllFit(cs)
  BY <1>1, <1>2, <1>3 DEF AllFit
<1>5. f \in Seq(Byte)
  BY <1>4, PiecesType, FlattenType
<1>6. m % 256 = m /\ m \in Byte
  <2> HIDE DEF m
  <2>1. m % 256 = m
    BY <1>2, <1>3
  <2> QED BY <1>2, <1>3, <2>1, ByteBound
<1> DEFINE u == <<MultipleCommandHeader, m>>
<1>7. b = u \o f
  <2>1. [i \in DOMAIN cs |-> BuildSimple(cs[i])] = Pieces(cs)
    BY <1>3, Zenon DEF Pieces
  <2>2. b = <<MultipleCommandHeader, m % 256>> \o FlattenSeq([i \in DOMAIN cs |-> BuildSimple(cs[i])])
    BY <1>1, Zenon DEF BuildByteBuffer
  <2> QED BY <1>6, <2>1, <2>2, Zenon
<1>8. u \in Seq(Byte) /\ Len(u) = 2 /\ u[1] = MultipleCommandHeader /\ u[2] = m
  <2> HIDE DEF m
  <2>1. MultipleCommandHeader \in Byte
    BY ByteBound DEF MultipleCommandHeader
  <2> QED BY <1>6, <2>1
<1> HIDE DEF u, f, b
<1>9. /\ u \o f \in Seq(Byte) /\ Len(u \o f) = Len(u) + Len(f) /\ Len(f) \in Nat
      /\ \A j \in 1..Len(u) : (u \o f)[j] = u[j]
      /\ \A j \in 1..Len(f) : (u \o f)[Len(u) + j] = f[j]
  <2>1. u \in Seq(Byte) /\ f \in Seq(Byte)
    BY <1>5, <1>8
  <2> QED BY <2>1, Joined
<1>10. /\ b \in Seq(Byte) /\ Len(b) = Len(u) + Len(f)
       /\ \A j \in 1..Len(u) : b[j] = u[j]
       /\ \A j \in 1..Len(f) : b[Len(u) + j] = f[j]
  BY <1>7, <1>9, Zenon
<1>11. /\ Len(b) = 2 + Len(f) /\ b[1] = u[1] /\ b[2] = u[2]
       /\ \A j \in 1..Len(f) : b[2 + j] = f[j]
  BY <1>8, <1>10
<1> QED BY <1>4, <1>5, <1>8, <1>9, <1>10, <1>11 DEF b, f

\* What every command's bytes are.
LEMMA BufferType ==
  ASSUME NEW c, CommandsAssumption, FitTheProtocol, c \in Commands
  PROVE  /\ BuildByteBuffer(c) \in Seq(Byte) /\ Len(BuildByteBuffer(c)) \in Nat
         /\ Len(BuildByteBuffer(c)) >= 1
<1>1. FitsOrPack(c) /\ (c.type = MultipleCommandHeader => c \in Pack)
  BY DEF CommandsAssumption, FitTheProtocol
<1>2. CASE c.type = MultipleCommandHeader
  <2> DEFINE f == FlattenSeq(Pieces(c.commands))
  <2>1. /\ BuildByteBuffer(c) \in Seq(Byte) /\ Len(BuildByteBuffer(c)) = 2 + Len(f)
        /\ Len(f) \in Nat
    BY <1>1, <1>2, PackBytes
  <2> HIDE DEF f
  <2> QED BY <2>1
<1>3. CASE c.type # MultipleCommandHeader
  <2>1. Fits(c)
    BY <1>1, <1>3 DEF FitsOrPack
  <2>2. BuildByteBuffer(c) = BuildSimple(c)
    BY <1>3, Zenon DEF BuildByteBuffer
  <2> QED BY <2>1, <2>2, BuiltBytes
<1> QED BY <1>2, <1>3

\* A pack found whole: its length, and the calls for its commands in order.
LEMMA PackUnderstood ==
  ASSUME NEW c, c \in Pack, FitsOrPack(c), NEW d \in Seq(Byte), NEW p \in Nat,
         Holds(d, p, BuildByteBuffer(c)), CommandsAssumption
  PROVE  /\ GetCommandLength(d, p) = Len(BuildByteBuffer(c))
         /\ ParseCommand(d, p) = c.commands
<1> DEFINE cs == c.commands
           b == BuildByteBuffer(c)
           f == FlattenSeq(Pieces(cs))
           m == Len(cs)
<1>1. /\ AllFit(cs) /\ f \in Seq(Byte) /\ b \in Seq(Byte) /\ Len(b) = 2 + Len(f)
      /\ Len(f) \in Nat /\ b[1] = MultipleCommandHeader /\ b[2] = m
      /\ \A j \in 1..Len(f) : b[2 + j] = f[j]
  BY PackBytes
<1>2. m \in Nat /\ Pieces(cs) \in Seq(Seq(Byte)) /\ Len(Pieces(cs)) = m
  BY <1>1, PiecesType
<1>3. PICK h : Joins(h, Pieces(cs), Byte) /\ h[m] = f
  BY <1>2, FlattenJoins
<1>4. \A j \in 1..Len(b) : at(d, p + j - 1) = b[j]
  BY DEF Holds
<1> HIDE DEF b, f, m, cs
<1>5. at(d, p) = MultipleCommandHeader /\ at(d, p + 1) = m
  <2>1. at(d, p + 1 - 1) = b[1] /\ at(d, p + 2 - 1) = b[2]
    BY <1>1, <1>4
  <2>2. p + 1 - 1 = p /\ p + 2 - 1 = p + 1
    OBVIOUS
  <2> QED BY <1>1, <2>1, <2>2
<1>6. Holds(d, p + 2, f)
  <2>1. ASSUME NEW j \in 1..Len(f) PROVE at(d, p + 2 + j - 1) = f[j]
    <3>1. 2 + j \in 1..Len(b) /\ p + (2 + j) - 1 = p + 2 + j - 1
      BY <1>1
    <3>2. at(d, p + (2 + j) - 1) = b[2 + j]
      BY <1>4, <3>1
    <3> QED BY <1>1, <3>1, <3>2
  <2> QED BY <2>1 DEF Holds
<1>6a. Behind(d, p, h, cs)
  BY <1>2, <1>3, <1>6 DEF Behind, Placed
<1>7. IsPack(at(d, p)) /\ p \in Int
  BY <1>5, HeaderIsPack
<1>8. PICK inner \in [Int -> Int] :
        /\ Measures(inner, d) /\ Measures(Lengths(d), d)
        /\ Lengths(d)[p] = LengthAt(inner, d, p)
  <2>1. Lengths(d) \in [Int -> Int]
    BY LengthsType
  <2>2. PICK inner \in [Int -> Int] :
          /\ \A q \in Int : at(d, q) \in 193..199 => inner[q] = SimpleLength(d, q)
          /\ \A q \in Int : at(d, q) \in 193..199 => Lengths(d)[q] = SimpleLength(d, q)
          /\ \A q \in Int : Lengths(d)[q] = LengthAt(inner, d, q)
    BY Measured
  <2> QED BY <1>7, <2>1, <2>2 DEF Measures
<1>9. GetCommandLength(d, p) = Len(b)
  <2> DEFINE end == Positions(inner, m, p)[m]
  <2>1. Positions(inner, m, p)[m] = p + 2 + Len(h[m])
    <3>1. Follows(inner, d, p, h, cs)
      BY <1>1, <1>6a, <1>8, PackPositions
    <3>2. m \in 0..m
      BY <1>2
    <3> QED BY <3>1, <3>2 DEF Follows, m
  <2>2. end = p + 2 + Len(f)
    BY <1>3, <2>1
  <2>3. end # Crash /\ end - p = Len(b)
    <3> DEFINE t == Len(f)
    <3>1. t \in Nat /\ end = p + 2 + t /\ Len(b) = 2 + t
      BY <1>1, <2>2
    <3> HIDE DEF t, end
    <3> QED BY <3>1, CrashIsNegative
  <2>4. LengthAt(inner, d, p) = IF end = Crash THEN Crash ELSE end - p
    BY <1>5, <1>7, Zenon DEF LengthAt
  <2> HIDE DEF end
  <2> QED BY <1>8, <2>3, <2>4 DEF GetCommandLength
<1>10. ParseCommand(d, p) = cs
  <2> DEFINE next == Positions(Lengths(d), m, p)
  <2>1. \A i \in 1..m : next[i - 1] \in Nat /\ Holds(d, next[i - 1], BuildSimple(cs[i]))
    <3>1. Follows(Lengths(d), d, p, h, cs)
      BY <1>1, <1>6a, <1>8, PackPositions
    <3> QED BY <3>1 DEF Follows, m
  <2>2. PICK inside \in [Int -> Seq(Call)] :
          /\ \A q \in Int : at(d, q) \in 193..199 => inside[q] = ParseSimple(d, q)
          /\ ParseCommand(d, p) = CallsAt(inside, d, p)
    BY <1>7, Carried
  <2> HIDE DEF next
  <2>3. ASSUME NEW i \in 1..m PROVE inside[next[i - 1]] = <<cs[i]>>
    <3> DEFINE q == next[i - 1]
               e == cs[i]
    <3>1. q \in Nat /\ Holds(d, q, BuildSimple(e)) /\ Fits(e)
      BY <1>1, <2>1 DEF AllFit, m
    <3> HIDE DEF q, e
    <3>2. at(d, q) \in 193..199 /\ ParseSimple(d, q) = <<e>>
      <4>1. at(d, q) = e.type /\ e.type \in 193..199 /\ ParseSimple(d, q) = <<e>>
        BY <3>1, SimpleAt, Zenon
      <4> QED BY <4>1, Zenon
    <3>3. q \in Int
      BY <3>1
    <3> QED BY <2>2, <3>2, <3>3 DEF q, e
  <2>4. CallsAt(inside, d, p) = FlattenSeq([i \in 1..m |-> inside[next[i - 1]]])
    BY <1>5, <1>7, Zenon DEF CallsAt, next
  <2>5. [i \in 1..m |-> inside[next[i - 1]]] = [i \in 1..m |-> <<cs[i]>>]
    BY <2>3, Zenon
  <2>6. FlattenSeq([i \in 1..m |-> <<cs[i]>>]) = cs
    <3>1. cs \in Seq(Simple)
      BY <1>1 DEF AllFit
    <3> QED BY <3>1, FlattenSingles DEF m
  <2> QED BY <2>2, <2>4, <2>5, <2>6, Zenon
<1> QED BY <1>9, <1>10 DEF b, cs

\* A stream of commands begins with the bytes of the first of them.
LEMMA StreamHead ==
  ASSUME CommandsAssumption, FitTheProtocol, NEW cs \in Seq(Commands), Len(cs) >= 1
  PROVE  /\ Len(BuildByteBuffer(cs[1])) <= Len(BytesOf(cs))
         /\ \A j \in 1..Len(BuildByteBuffer(cs[1])) : BytesOf(cs)[j] = BuildByteBuffer(cs[1])[j]
<1> DEFINE n == Len(cs)
           B(i) == BuildByteBuffer(cs[i])
           ss == [i \in 1..n |-> B(i)]
<1>1. n \in Nat /\ n >= 1 /\ DOMAIN cs = 1..n /\ \A i \in 1..n : cs[i] \in Commands
  OBVIOUS
<1>2. \A i \in 1..n : B(i) \in Seq(Byte)
  BY <1>1, BufferType
<1>3. BytesOf(cs) = FlattenSeq(ss)
  BY <1>1, Zenon DEF BytesOf
<1> HIDE DEF n, B
<1>4. ss \in Seq(Seq(Byte)) /\ Len(ss) = n /\ ss[1] = B(1)
  BY <1>1, <1>2
<1> HIDE DEF ss
<1>5. PICK h : Joins(h, ss, Byte) /\ h[Len(ss)] = FlattenSeq(ss)
  BY <1>4, FlattenJoins
<1>6. h[1] = B(1)
  <2>1. h[0] = <<>> /\ h[1] = h[1 - 1] \o ss[1]
    <3>1. 1 \in 1..Len(ss)
      BY <1>1, <1>4
    <3> QED BY <1>5, <3>1 DEF Joins
  <2>2. 1 - 1 = 0
    OBVIOUS
  <2>3. h[1] = <<>> \o B(1)
    BY <1>4, <2>1, <2>2, Zenon
  <2>4. B(1) \in Seq(Byte)
    BY <1>1, <1>2
  <2> QED BY <2>3, <2>4, JoinedToNone
<1>7. Len(h[1]) <= Len(h[n]) /\ \A j \in 1..Len(h[1]) : h[n][j] = h[1][j]
  <2>1. 1 \in 0..Len(ss) /\ Len(ss) \in 1..Len(ss)
    BY <1>1, <1>4
  <2>2. ss \in Seq(Seq(Byte)) /\ Joins(h, ss, Byte)
    BY <1>4, <1>5
  <2>3. \A k \in 1..Len(ss) : Len(h[1]) <= Len(h[k]) /\ \A j \in 1..Len(h[1]) : h[k][j] = h[1][j]
    BY <2>1, <2>2, JoinsGrow
  <2> QED BY <1>4, <2>1, <2>3
<1>8. h[n] = BytesOf(cs)
  BY <1>3, <1>4, <1>5
<1> QED BY <1>6, <1>7, <1>8, Zenon DEF B

-----------------------------------------------------------------------------
(***************************************************************************)
(* The types of the variables.                                              *)
(***************************************************************************)

TypeOK ==
  /\ sent \in Seq(Commands)
  /\ stream \in Seq(Byte)
  /\ data \in Seq(Byte)
  /\ calls \in Seq(Call)
  /\ ended \in BOOLEAN

\* What recv leaves in the buffer begins with what it has taken.
LEMMA ReceivedBytes ==
  ASSUME TypeOK, NEW n \in 1..Len(stream), Receive(n)
  PROVE  /\ data' \in Seq(Byte) /\ stream' \in Seq(Byte)
         /\ \A j \in 1..n : at(data', 1 + j - 1) = stream[j]
<1> DEFINE s == stream
           t == data
           r == data'
           u == SubSeq(s, 1, n)
           v == SubSeq(t, n + 1, Len(t))
<1>0. s \in Seq(Byte) /\ t \in Seq(Byte) /\ n \in 1..Len(s) /\ r = u \o v
      /\ stream' = SubSeq(s, n + 1, Len(s))
  BY DEF TypeOK, Receive, Received
<1> HIDE DEF s, t, r
<1>1. n \in Nat /\ n >= 1 /\ n <= Len(s) /\ Len(s) \in Nat /\ Len(t) \in Nat
  BY <1>0
<1>2. u \in Seq(Byte) /\ Len(u) = n /\ \A j \in 1..n : u[j] = s[j]
  BY <1>0, <1>1
<1>3. v \in Seq(Byte) /\ SubSeq(s, n + 1, Len(s)) \in Seq(Byte)
  BY <1>0, <1>1
<1> HIDE DEF u, v
<1>4. /\ u \o v \in Seq(Byte) /\ Len(u \o v) = Len(u) + Len(v) /\ Len(v) \in Nat
      /\ \A j \in 1..Len(u) : (u \o v)[j] = u[j]
  <2>1. u \in Seq(Byte) /\ v \in Seq(Byte)
    BY <1>2, <1>3
  <2> QED BY <2>1, Joined
<1>5. r = u \o v
  BY <1>0
<1>6. r \in Seq(Byte) /\ n <= Len(r) /\ Len(r) \in Nat /\ \A j \in 1..n : r[j] = s[j]
  <2>1. r \in Seq(Byte) /\ Len(r) = n + Len(v) /\ \A j \in 1..n : r[j] = u[j]
    BY <1>2, <1>4, <1>5, Zenon
  <2> QED BY <1>1, <1>2, <1>4, <2>1
<1>7. ASSUME NEW j \in 1..n PROVE at(r, 1 + j - 1) = s[j]
  <2>1. 1 + j - 1 = j /\ j \in 1..Len(r)
    BY <1>1, <1>6
  <2> QED BY <1>6, <2>1 DEF at
<1> QED BY <1>0, <1>3, <1>6, <1>7 DEF r, s

\* Whatever the buffer holds, the calls are in range.
LEMMA ParseCommandType ==
  ASSUME NEW d \in Seq(Byte), CommandsAssumption, NEW p \in Int
  PROVE  ParseCommand(d, p) \in Seq(Call)
<1>1. PICK inner \in [Int -> Seq(Call)] : ParseCommand(d, p) = CallsAt(inner, d, p)
  BY Carried
<1> QED BY <1>1, CallsAtType

\* A simple command is what RadioNetworkAppendCommand may be called with.
LEMMA SimpleIsCall ==
  ASSUME NEW c \in Simple
  PROVE  c \in Call
<1>1. /\ c.type \in 193..199 /\ c.index \in UInt16 /\ c.status \in Byte
      /\ c.mask \in Masks /\ c.delay \in UInt16 /\ c.data \in Seq(Byte)
      /\ c = [type |-> c.type, index |-> c.index, status |-> c.status, mask |-> c.mask,
              delay |-> c.delay, data |-> c.data]
  BY SimpleFields
<1>2. c.type \in Byte
  BY <1>1, ByteBound
<1> QED BY <1>1, <1>2 DEF Call

\* Every step keeps the types.
LEMMA TypesKept ==
  ASSUME CommandsAssumption, FitTheProtocol, TypeOK, [Next]_vars
  PROVE  TypeOK'
<1> USE DEF TypeOK
<1>1. ASSUME NEW c \in Commands, Send(c) PROVE TypeOK'
  <2>1. BuildByteBuffer(c) \in Seq(Byte)
    BY BufferType
  <2>2. stream' \in Seq(Byte)
    BY <1>1, <2>1 DEF Send
  <2>3. sent' \in Seq(Commands)
    BY <1>1 DEF Send
  <2> QED BY <1>1, <2>2, <2>3 DEF Send
<1>2. ASSUME NEW n \in 1..Len(stream), Receive(n) PROVE TypeOK'
  <2>1. data' \in Seq(Byte) /\ stream' \in Seq(Byte)
    <3> HIDE DEF TypeOK
    <3> QED BY <1>2, ReceivedBytes
  <2>2. ParseCommand(data', 1) \in Seq(Call)
    BY <2>1, ParseCommandType
  <2>3. calls' \in Seq(Call)
    <3>1. calls' = calls \/ calls' = calls \o ParseCommand(data', 1)
      BY <1>2 DEF Receive
    <3>2. PICK called : called = ParseCommand(data', 1)
      OBVIOUS
    <3>3. calls \o called \in Seq(Call)
      <4>1. calls \in Seq(Call) /\ called \in Seq(Call)
        BY <2>2, <3>2
      <4> QED BY <4>1, Joined
    <3> QED BY <3>1, <3>2, <3>3
  <2>4. ended' \in BOOLEAN /\ sent' = sent
    BY <1>2 DEF Receive
  <2> QED BY <2>1, <2>3, <2>4
<1>3. CASE Reconnect
  BY <1>3 DEF Reconnect
<1>4. CASE UNCHANGED vars
  BY <1>4 DEF vars
<1> QED BY <1>1, <1>2, <1>3, <1>4 DEF Next, Stopped

\* Whatever the clients send that fits the protocol, the stream and the buffer
\* hold bytes, and RadioNetworkAppendCommand is called with values in range.
THEOREM ProtocolTypes ==
  ASSUME FitTheProtocol
  PROVE  Spec => []TypeOK
<1>1. Init => TypeOK
  <2>1. \A S : <<>> \in Seq(S)
    OBVIOUS
  <2> QED BY <2>1 DEF Init, TypeOK
<1>2. TypeOK /\ [Next]_vars => TypeOK'
  BY CommandsAssumption, TypesKept
<1> QED BY <1>1, <1>2, PTL DEF Spec

-----------------------------------------------------------------------------
(***************************************************************************)
(* What a step of the server does.                                          *)
(***************************************************************************)

\* A single command is next in the stream, and recv takes n bytes of it.
LEMMA CutStep ==
  ASSUME CommandsAssumption, FitTheProtocol, TypeOK, NEW n \in 1..Len(stream), Receive(n),
         NEW k \in DOMAIN sent, sent[k].type # MultipleCommandHeader,
         stream = BytesOf(SubSeq(sent, k, Len(sent))), ~ended'
  PROVE  calls' = Append(calls, sent[k])
<1> DEFINE c == sent[k]
           cs == SubSeq(sent, k, Len(sent))
           b == BuildSimple(c)
           d == data'
<1>1. /\ sent \in Seq(Commands) /\ stream \in Seq(Byte) /\ data \in Seq(Byte)
      /\ calls \in Seq(Call) /\ k \in 1..Len(sent) /\ c \in Commands
  BY DEF TypeOK
<1>2. cs \in Seq(Commands) /\ Len(cs) >= 1 /\ cs[1] = c
  BY <1>1
<1>3. Fits(c) /\ BuildByteBuffer(c) = b
  <2>1. FitsOrPack(c)
    BY <1>1 DEF FitTheProtocol
  <2> QED BY <2>1 DEF FitsOrPack, BuildByteBuffer
<1> HIDE DEF c, cs, b
<1>4. Len(b) \in Nat /\ b \in Seq(Byte)
  BY <1>3, BuiltBytes DEF b
<1>5. \A j \in 1..Len(b) : stream[j] = b[j]
  BY <1>2, <1>3, StreamHead DEF cs
<1>7. d \in Seq(Byte) /\ \A j \in 1..n : at(d, 1 + j - 1) = stream[j]
  BY ReceivedBytes
<1>8. GetCommandLength(d, 1) = n /\ calls' = calls \o ParseCommand(d, 1)
  BY DEF Receive
<1>9. n \in Nat /\ n >= 1
  OBVIOUS
<1> HIDE DEF d
<1>10. ASSUME NEW j \in 1..n, j <= Len(b) PROVE at(d, 1 + j - 1) = b[j]
  <2>1. j \in 1..Len(b)
    BY <1>4, <1>10
  <2> QED BY <1>5, <1>7, <2>1
<1>11. SimpleLength(d, 1) = n
  <2>1. at(d, 1) \in 193..199
    <3>1. b[1] = c.type /\ Len(b) >= 1 /\ c.type \in 193..199
      <4>1. c \in Simple
        BY <1>3 DEF Fits
      <4> QED BY <1>3, <4>1, BuiltBytes, SimpleFields DEF b
    <3>2. at(d, 1 + 1 - 1) = b[1] /\ 1 + 1 - 1 = 1
      BY <1>9, <1>10, <3>1
    <3> QED BY <3>1, <3>2
  <2>2. Lengths(d)[1] = SimpleLength(d, 1)
    BY <1>7, <2>1, Measured
  <2> QED BY <1>8, <2>2 DEF GetCommandLength
<1>12. Len(b) = n
  BY <1>3, <1>7, <1>9, <1>10, <1>11, CutSimple DEF b
<1>13. Holds(d, 1, b)
  BY <1>9, <1>10, <1>12 DEF Holds
<1>14. ParseCommand(d, 1) = <<c>>
  BY <1>3, <1>7, <1>13, SimpleUnderstood DEF b
<1>15. c \in Call /\ calls \in Seq(Call)
  BY <1>1, <1>3, SimpleIsCall DEF Fits
<1>16. Append(calls, c) = calls \o <<c>>
  BY <1>15, AppendIsConcat
<1> QED BY <1>8, <1>14, <1>16 DEF c

\* recv returns a command whole.
LEMMA WholeStep ==
  ASSUME CommandsAssumption, FitTheProtocol, TypeOK, NEW n \in 1..Len(stream), Receive(n),
         NEW c \in Commands, stream = BuildByteBuffer(c), stream' = <<>>
  PROVE  ~ended' /\ calls' = calls \o SimpleCommands(c)
<1> DEFINE b == BuildByteBuffer(c)
           d == data'
<1>1. stream \in Seq(Byte) /\ data \in Seq(Byte)
  BY DEF TypeOK
<1>2. n = Len(b)
  <2>1. stream' = SubSeq(stream, n + 1, Len(stream))
    BY DEF Receive
  <2>2. CASE n < Len(stream)
    <3>1. Len(SubSeq(stream, n + 1, Len(stream))) = Len(stream) - n
      BY <1>1, <2>2
    <3>2. Len(stream') = Len(stream) - n /\ Len(stream') = 0
      BY <2>1, <3>1
    <3> QED BY <1>1, <2>2, <3>2
  <2> QED BY <1>1, <2>2
<1>4. d \in Seq(Byte) /\ \A j \in 1..n : at(d, 1 + j - 1) = stream[j]
  BY ReceivedBytes
<1>5. /\ ended' = (GetCommandLength(d, 1) # n)
      /\ calls' = IF ended' THEN calls ELSE calls \o ParseCommand(d, 1)
  BY DEF Receive
<1> HIDE DEF d
<1>6. Holds(d, 1, b)
  BY <1>2, <1>4 DEF Holds
<1>7. FitsOrPack(c) /\ (c.type = MultipleCommandHeader => c \in Pack)
  BY DEF CommandsAssumption, FitTheProtocol
<1>8. GetCommandLength(d, 1) = Len(b) /\ ParseCommand(d, 1) = SimpleCommands(c)
  <2>1. CASE c.type = MultipleCommandHeader
    <3>1. GetCommandLength(d, 1) = Len(b) /\ ParseCommand(d, 1) = c.commands
      BY <1>4, <1>6, <1>7, <2>1, PackUnderstood
    <3> QED BY <2>1, <3>1 DEF SimpleCommands
  <2>2. CASE c.type # MultipleCommandHeader
    <3>1. Fits(c) /\ b = BuildSimple(c)
      BY <1>7, <2>2 DEF FitsOrPack, BuildByteBuffer
    <3>2. GetCommandLength(d, 1) = Len(b) /\ ParseCommand(d, 1) = <<c>>
      BY <1>4, <1>6, <3>1, SimpleUnderstood
    <3> QED BY <2>2, <3>2 DEF SimpleCommands
  <2> QED BY <2>1, <2>2
<1> QED BY <1>2, <1>5, <1>8

-----------------------------------------------------------------------------

\* If every command fits the protocol, then however TCP cuts the stream and
\* whatever earlier messages left in SocketServerRun's buffer, what the server
\* takes for a command when a single command is next is that very command.
THEOREM CutsAreHarmless ==
  ASSUME FitTheProtocol
  PROVE  Spec => CutsAreNotMistaken
<1>1. ASSUME TypeOK, [Next]_vars
      PROVE  [\A k \in DOMAIN sent :
                /\ sent[k].type # MultipleCommandHeader
                /\ stream = BytesOf(SubSeq(sent, k, Len(sent)))
                /\ calls = Meaning(SubSeq(sent, 1, k - 1))
                /\ stream' # stream /\ sent' = sent
                => IF ended' THEN calls' = calls ELSE calls' = Append(calls, sent[k])]_vars
  <2>1. SUFFICES ASSUME Next, NEW k \in DOMAIN sent, sent[k].type # MultipleCommandHeader,
                        stream = BytesOf(SubSeq(sent, k, Len(sent))),
                        stream' # stream, sent' = sent
                 PROVE  IF ended' THEN calls' = calls ELSE calls' = Append(calls, sent[k])
    BY <1>1, Zenon
  <2>2. ASSUME NEW c \in Commands, Send(c) PROVE FALSE
    <3>1. sent' = Append(sent, c) /\ sent \in Seq(Commands)
      BY <1>1, <2>2 DEF Send, TypeOK
    <3>2. Len(sent') = Len(sent) + 1 /\ Len(sent) \in Nat
      BY <3>1
    <3> QED BY <2>1, <3>2
  <2>3. ASSUME NEW n \in 1..Len(stream), Receive(n)
        PROVE  IF ended' THEN calls' = calls ELSE calls' = Append(calls, sent[k])
    <3>1. CASE ended'
      BY <2>3, <3>1 DEF Receive
    <3>2. CASE ~ended'
      <4>1. calls' = Append(calls, sent[k])
        BY <1>1, <2>1, <2>3, <3>2, CommandsAssumption, CutStep
      <4> QED BY <3>2, <4>1
    <3> QED BY <3>1, <3>2
  <2>4. ~Reconnect /\ ~Stopped
    BY <2>1 DEF Reconnect, Stopped, vars
  <2> QED BY <2>1, <2>2, <2>3, <2>4 DEF Next
<1> QED BY <1>1, ProtocolTypes, PTL DEF Spec, CutsAreNotMistaken

\* If every command fits the protocol, a command or a pack of up to 255 that
\* recv returns whole passes the assertion in SocketServerRun, and ParseCommand
\* calls RadioNetworkAppendCommand with every command of it.
THEOREM WholeCommandsAreUnderstood ==
  ASSUME FitTheProtocol
  PROVE  Spec => WholeCommandUnderstood
<1>1. ASSUME TypeOK, [Next]_vars
      PROVE  [\A c \in Commands :
                stream = BuildByteBuffer(c) /\ stream' = <<>> =>
                  ~ended' /\ calls' = calls \o SimpleCommands(c)]_vars
  <2>1. SUFFICES ASSUME Next, NEW c \in Commands, stream = BuildByteBuffer(c), stream' = <<>>
                 PROVE  ~ended' /\ calls' = calls \o SimpleCommands(c)
    BY <1>1, Zenon
  <2>2. stream \in Seq(Byte) /\ Len(stream) \in Nat /\ Len(stream) >= 1 /\ Len(stream') = 0
    BY <1>1, <2>1, CommandsAssumption, BufferType
  <2>3. ASSUME NEW e \in Commands, Send(e) PROVE FALSE
    <3>1. stream' = stream \o BuildByteBuffer(e) /\ BuildByteBuffer(e) \in Seq(Byte)
      BY <1>1, <2>3, CommandsAssumption, BufferType DEF Send
    <3>2. Len(stream') = Len(stream) + Len(BuildByteBuffer(e)) /\ Len(BuildByteBuffer(e)) \in Nat
      BY <2>2, <3>1
    <3> QED BY <2>2, <3>2
  <2>4. ASSUME NEW n \in 1..Len(stream), Receive(n)
        PROVE  ~ended' /\ calls' = calls \o SimpleCommands(c)
    BY <1>1, <2>1, <2>4, CommandsAssumption, WholeStep
  <2>5. ~Reconnect /\ ~Stopped
    BY <2>2 DEF Reconnect, Stopped, vars
  <2> QED BY <2>1, <2>3, <2>4, <2>5 DEF Next
<1> QED BY <1>1, ProtocolTypes, PTL DEF Spec, WholeCommandUnderstood
=============================================================================
