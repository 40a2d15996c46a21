-------------------------- MODULE RuntimeLayersProofs --------------------------
(* Proofs about RuntimeLayers for every number of ports and of tries, and    *)
(* every set of lists of servers.                                            *)
EXTENDS RuntimeLayers, TLAPS

-----------------------------------------------------------------------------
(* Configurations: what is in one that is made from others.                  *)

LEMMA MergeKeys ==
  ASSUME NEW under, NEW over, NEW key
  PROVE  /\ Has(Merge(under, over), key) <=> (Has(over, key) \/ Has(under, key))
         /\ Has(over, key) => Merge(under, over)[key] = over[key]
         /\ Has(under, key) /\ ~Has(over, key) => Merge(under, over)[key] = under[key]
BY DEF Has, Merge

LEMMA SetKeys ==
  ASSUME NEW c, NEW at, NEW value, NEW key
  PROVE  /\ Has(Set(c, at, value), key) <=> (key = at \/ Has(c, key))
         /\ Set(c, at, value)[at] = value
         /\ Has(c, key) /\ key # at => Set(c, at, value)[key] = c[key]
BY DEF Has, Set, Merge

LEMMA SetIfAbsentKeys ==
  ASSUME NEW c, NEW at, NEW value, NEW key
  PROVE  /\ Has(SetIfAbsent(c, at, value), key) <=> (key = at \/ Has(c, key))
         /\ Has(c, key) => SetIfAbsent(c, at, value)[key] = c[key]
BY DEF Has, SetIfAbsent, Merge

\* Going around another TUN adds an interface and DNS servers and nothing else.
LEMMA CompatibleKeys ==
  ASSUME NEW c, NEW key, key # "iface", key # "dns_psn"
  PROVE  /\ Has(Compatible(c), key) <=> Has(c, key)
         /\ Has(c, key) => Compatible(c)[key] = c[key]
<1> DEFINE bound == IF foreign = "known" THEN SetIfAbsent(c, "iface", "auto") ELSE c
           full == SetIfAbsent(bound, "dns_psn", Get(c, "dns_ns", "system"))
<1>1. (Has(bound, key) <=> Has(c, key)) /\ (Has(c, key) => bound[key] = c[key])
  BY SetIfAbsentKeys
<1>2. Compatible(c) = IF foreign = "none" THEN c ELSE full
  BY DEF Compatible
<1> HIDE DEF bound
<1>3. (Has(full, key) <=> Has(bound, key)) /\ (Has(bound, key) => full[key] = bound[key])
  BY SetIfAbsentKeys
<1> HIDE DEF full
<1>4. QED
  BY <1>1, <1>2, <1>3

\* What is merged with the layers of MioProxy before another TUN is looked for.
LayersOf(b, rt) ==
    LET merged == Owned(Set(Merge(b, rt), "tun_enable", Has(rt, "tun_enable")))
    IN IF Has(stable, "mixed_port") THEN Set(merged, "mixed_port", stable.mixed_port) ELSE merged

PortOk(c) == Get(c, "mixed_port", 1) \in Ports

LEMMA LayersKeys ==
  ASSUME NEW b, NEW rt, NEW key, key # "controller", key # "tun_enable",
         key # "mixed_port" \/ ~Has(stable, "mixed_port"), ~Has(rt, key)
  PROVE  /\ Has(LayersOf(b, rt), key) <=> Has(b, key)
         /\ Has(b, key) => LayersOf(b, rt)[key] = b[key]
<1> DEFINE m == Merge(b, rt)
           t == Set(m, "tun_enable", Has(rt, "tun_enable"))
           o == Owned(t)
           p == Set(o, "mixed_port", stable.mixed_port)
<1>1. (Has(m, key) <=> Has(b, key)) /\ (Has(b, key) => m[key] = b[key])
  BY MergeKeys
<1>2. LayersOf(b, rt) = IF Has(stable, "mixed_port") THEN p ELSE o
  BY DEF LayersOf
<1> HIDE DEF m
<1>3. (Has(t, key) <=> Has(m, key)) /\ (Has(m, key) => t[key] = m[key])
  BY SetKeys
<1> HIDE DEF t
<1>4. (Has(o, key) <=> Has(t, key)) /\ (Has(t, key) => o[key] = t[key])
  BY SetKeys DEF Owned
<1> HIDE DEF o
<1>5. Has(stable, "mixed_port") =>
        (Has(p, key) <=> Has(o, key)) /\ (Has(o, key) => p[key] = o[key])
  BY SetKeys
<1> HIDE DEF p
<1>6. QED
  BY <1>1, <1>2, <1>3, <1>4, <1>5

LEMMA LayersOwn ==
  ASSUME NEW b, NEW rt
  PROVE  /\ Has(LayersOf(b, rt), "controller") /\ LayersOf(b, rt)["controller"] = "own"
         /\ Has(LayersOf(b, rt), "tun_enable")
         /\ LayersOf(b, rt)["tun_enable"] = Has(rt, "tun_enable")
         /\ Has(stable, "mixed_port") =>
               /\ Has(LayersOf(b, rt), "mixed_port")
               /\ LayersOf(b, rt)["mixed_port"] = stable.mixed_port
<1> DEFINE m == Merge(b, rt)
           t == Set(m, "tun_enable", Has(rt, "tun_enable"))
           o == Owned(t)
           p == Set(o, "mixed_port", stable.mixed_port)
<1>1. LayersOf(b, rt) = IF Has(stable, "mixed_port") THEN p ELSE o
  BY DEF LayersOf
<1>2. Has(t, "tun_enable") /\ t["tun_enable"] = Has(rt, "tun_enable")
  BY SetKeys
<1> HIDE DEF t
<1>3. /\ Has(o, "controller") /\ o["controller"] = "own"
      /\ Has(o, "tun_enable") /\ o["tun_enable"] = t["tun_enable"]
  BY <1>2, SetKeys DEF Owned
<1> HIDE DEF o
<1>4. /\ Has(p, "controller") /\ p["controller"] = o["controller"]
      /\ Has(p, "tun_enable") /\ p["tun_enable"] = o["tun_enable"]
      /\ Has(p, "mixed_port") /\ p["mixed_port"] = stable.mixed_port
  BY <1>3, SetKeys
<1> HIDE DEF p
<1>5. QED
  BY <1>1, <1>2, <1>3, <1>4

LEMMA LayeredIs ==
  ASSUME NEW b, NEW rt
  PROVE  Layered(b, rt) = Compatible(LayersOf(b, rt))
BY DEF Layered, LayersOf

LEMMA LayeredKeys ==
  ASSUME NEW b, NEW rt, NEW key, ~Has(rt, key),
         key \notin {"controller", "tun_enable", "iface", "dns_psn"},
         key # "mixed_port" \/ ~Has(stable, "mixed_port")
  PROVE  /\ Has(Layered(b, rt), key) <=> Has(b, key)
         /\ Has(b, key) => Layered(b, rt)[key] = b[key]
<1>1. /\ Has(LayersOf(b, rt), key) <=> Has(b, key)
      /\ Has(b, key) => LayersOf(b, rt)[key] = b[key]
  BY LayersKeys
<1>2. QED
  BY <1>1, LayeredIs, CompatibleKeys

LEMMA LayeredOwn ==
  ASSUME NEW b, NEW rt
  PROVE  /\ Has(Layered(b, rt), "controller") /\ Layered(b, rt)["controller"] = "own"
         /\ Get(Layered(b, rt), "tun_enable", FALSE) = Has(rt, "tun_enable")
         /\ Has(stable, "mixed_port") =>
               /\ Has(Layered(b, rt), "mixed_port")
               /\ Layered(b, rt)["mixed_port"] = stable["mixed_port"]
<1> DEFINE l == LayersOf(b, rt)
<1>1. \A key \in {"controller", "tun_enable", "mixed_port"} :
        /\ Has(Layered(b, rt), key) <=> Has(l, key)
        /\ Has(l, key) => Layered(b, rt)[key] = l[key]
  BY LayeredIs, CompatibleKeys
<1>2. /\ Has(l, "controller") /\ l["controller"] = "own"
      /\ Has(l, "tun_enable") /\ l["tun_enable"] = Has(rt, "tun_enable")
      /\ Has(stable, "mixed_port") =>
            Has(l, "mixed_port") /\ l["mixed_port"] = stable.mixed_port
  BY LayersOwn
<1>3. QED
  BY <1>1, <1>2 DEF Get

\* A layer says nothing of ports, so a port that was good stays so.
LEMMA LayeredPort ==
  ASSUME NEW b, NEW rt \in {Empty, TunLayer}, PortOk(b), PortOk(stable)
  PROVE  PortOk(Layered(b, rt))
<1>1. ~Has(rt, "mixed_port")
  BY DEF Has, Empty, TunLayer
<1>2. CASE Has(stable, "mixed_port")
  BY <1>2, LayeredOwn DEF PortOk, Get
<1>3. CASE ~Has(stable, "mixed_port")
  <2>1. /\ Has(Layered(b, rt), "mixed_port") <=> Has(b, "mixed_port")
        /\ Has(b, "mixed_port") => Layered(b, rt)["mixed_port"] = b["mixed_port"]
    BY <1>1, <1>3, LayeredKeys
  <2>2. QED
    BY <2>1 DEF PortOk, Get
<1>4. QED
  BY <1>2, <1>3

\* TUN is off in c, and what it changes is as in b.
AsIn(c, b) ==
    /\ ~Get(c, "tun_enable", FALSE)
    /\ \A key \in {"dns_enable", "dns_ns", "tun_device", "socks_port"} :
          /\ Has(c, key) <=> Has(b, key)
          /\ Has(c, key) => c[key] = b[key]

LEMMA LayeredWithoutTun ==
  ASSUME NEW b
  PROVE  AsIn(Layered(b, Empty), b)
<1>1. \A key : ~Has(Empty, key)
  BY DEF Has, Empty
<1>2. ASSUME NEW key \in {"dns_enable", "dns_ns", "tun_device", "socks_port"}
      PROVE  /\ Has(Layered(b, Empty), key) <=> Has(b, key)
             /\ Has(b, key) => Layered(b, Empty)[key] = b[key]
  <2>1. key \notin {"controller", "tun_enable", "iface", "dns_psn", "mixed_port"}
    OBVIOUS
  <2>2. QED
    BY <1>1, <2>1, LayeredKeys
<1>3. ~Get(Layered(b, Empty), "tun_enable", FALSE)
  BY <1>1, LayeredOwn
<1>4. QED
  BY <1>2, <1>3 DEF AsIn

\* A candidate of start_inner differs from the stable configuration in its port.
LEMMA CandidateKeys ==
  ASSUME NEW port
  PROVE  LET c == Owned(Set(stable, "mixed_port", port))
         IN /\ Has(c, "mixed_port") /\ c["mixed_port"] = port
            /\ Has(c, "controller") /\ c["controller"] = "own"
            /\ \A key : key \notin {"mixed_port", "controller"} =>
                  /\ Has(c, key) <=> Has(stable, key)
                  /\ Has(stable, key) => c[key] = stable[key]
<1> DEFINE t == Set(stable, "mixed_port", port)
           c == Owned(t)
<1>1. /\ Has(t, "mixed_port") /\ t["mixed_port"] = port
      /\ \A key : key # "mixed_port" =>
            /\ Has(t, key) <=> Has(stable, key)
            /\ Has(stable, key) => t[key] = stable[key]
  BY SetKeys
<1> HIDE DEF t
<1>2. /\ Has(c, "controller") /\ c["controller"] = "own"
      /\ \A key : key # "controller" =>
            /\ Has(c, key) <=> Has(t, key)
            /\ Has(t, key) => c[key] = t[key]
  BY SetKeys DEF Owned
<1> HIDE DEF c
<1>3. "mixed_port" # "controller"
  OBVIOUS
<1>4. QED
  BY <1>1, <1>2, <1>3 DEF c, t

-----------------------------------------------------------------------------
(* The inductive invariant, in the order in which its parts need each other. *)

\* Where a start is, and all that is not a configuration.
Staged ==
    /\ session \in BOOLEAN /\ foreign \in Outbounds /\ busy \subseteq Ports
    /\ actual \in Ports \cup {0} /\ layer \in {Empty, TunLayer}
    /\ start \in [pc : {"idle", "try", "wait"}, min : Ports \cup {0}, left : 0..Candidates]
    /\ IF start.pc = "idle" THEN start = Resting ELSE start.left # 0

Ported == PortOk(local) /\ PortOk(base) /\ PortOk(stable) /\ PortOk(run)

\* The core runs the stable configuration.
Agreed ==
    /\ Running => /\ run = stable
                  /\ Has(run, "mixed_port")
                  /\ Has(run, "controller") /\ run["controller"] = "own"
    /\ start.pc = "wait" => Running
    /\ start.pc = "try" => ~Running

\* No port but its own is on record for it, or none.
Recorded ==
    /\ start.pc = "wait" => actual = 0
    /\ Ready => actual = 0 \/ actual = run["mixed_port"]

\* The TUN layer goes with the session, and what was made without it is as the base.
Restored ==
    /\ session <=> layer = TunLayer
    /\ Starting => ~session
    /\ (Running \/ Starting) /\ ~session => AsIn(stable, Base)

\* No base has what another TUN makes necessary.
Unforced ==
    /\ profile \in Sources /\ ~Has(local, "dns_psn") /\ ~Has(base, "dns_psn")
    /\ base = NoConfig => ~session /\ ~Has(stable, "dns_psn")

Inv == Staged /\ Ported /\ Agreed /\ Recorded /\ Restored /\ Unforced

\* The actions that change no configuration the core runs with.
Edits == Download \/ OverrideSet \/ DnsGet \/ DnsSave
OfOthers == PortTaken \/ PortLeft \/ ForeignTun

LEMMA Distinct ==
    /\ Empty # TunLayer
    /\ \A c : Has(c, "mixed_port") \/ Has(c, "socks_port") => c # NoConfig
<1>1. "tun_enable" \in DOMAIN TunLayer /\ "tun_enable" \notin DOMAIN Empty
  BY DEF TunLayer, Empty
<1>2. DOMAIN NoConfig = {"none"}
  BY DEF NoConfig
<1>3. QED
  BY <1>1, <1>2 DEF Has

LEMMA InitIsInv == Init => Inv
<1> SUFFICES ASSUME Init PROVE Inv
  OBVIOUS
<1>0. 1 \in Ports /\ 0 \in 0..Candidates
  BY LayersAssumption DEF Ports
<1>1. Staged
  BY <1>0 DEF Init, Staged, Resting
<1>2. PortOk(Empty) /\ PortOk(NoConfig) /\ PortOk(Legacy)
  BY <1>0 DEF PortOk, Get, Has, Empty, NoConfig, Legacy, Merge, TunLayer
<1>3. Ported
  BY <1>2 DEF Init, Ported
<1>4. Agreed /\ Recorded
  BY DEF Init, Agreed, Recorded, Running, Ready, Resting
<1>5. Restored
  BY Distinct DEF Init, Restored, Running, Starting
<1>6. Unforced
  BY DEF Init, Unforced, Has, Empty, NoConfig, Legacy, Merge, TunLayer
<1>7. QED
  BY <1>1, <1>3, <1>4, <1>5, <1>6 DEF Inv

LEMMA StagedStep == Staged /\ Ported /\ Agreed /\ [Next]_vars => Staged'
<1> SUFFICES ASSUME Staged, Ported, Agreed, [Next]_vars PROVE Staged'
  OBVIOUS
<1> USE DEF Staged
<1>0. 0 \in 0..Candidates /\ Candidates \in 0..Candidates /\ Candidates # 0
  BY LayersAssumption
<1>1. CASE Edits \/ UNCHANGED vars
  BY <1>1 DEF Edits, Download, OverrideSet, DnsGet, DnsSave, DnsSet, edit, vars, world
<1>2. CASE Apply \/ TunOn \/ TunOff \/ Exit
  BY <1>2 DEF Apply, TunOn, TunOff, Exit, world, files
<1>3. CASE StartBegins
  BY <1>0, <1>3 DEF StartBegins, world
<1>4. CASE StartRefused \/ StartUnprobed
  BY <1>0, <1>4 DEF StartRefused, StartUnprobed, Resting, world, files
<1>5. CASE StartReady
  <2>1. run["mixed_port"] \in Ports
    BY <1>5 DEF StartReady, Agreed, Ported, PortOk, Get
  <2>2. QED
    BY <1>0, <1>5, <2>1 DEF StartReady, Resting, world, files
<1>6. CASE StartRetries
  <2>1. run["mixed_port"] \in Ports
    BY <1>6 DEF StartRetries, Agreed, Ported, PortOk, Get
  <2>2. start.left \in 0..Candidates /\ start.left # 0
    BY <1>6 DEF StartRetries
  <2>3. start.left # 1 => start.left - 1 \in 0..Candidates /\ start.left - 1 # 0
    BY <2>2, LayersAssumption
  <2>4. run["mixed_port"] # MaxPort => run["mixed_port"] + 1 \in Ports
    BY <2>1, LayersAssumption DEF Ports
  <2>5. QED
    BY <1>0, <1>6, <2>3, <2>4 DEF StartRetries, Resting, world, files
<1>7. CASE \E port \in Ports : StartTries(port)
  BY <1>7 DEF StartTries, world
<1>8. CASE OfOthers
  BY <1>8 DEF OfOthers, PortTaken, PortLeft, ForeignTun, files
<1>9. QED
  BY <1>1, <1>2, <1>3, <1>4, <1>5, <1>6, <1>7, <1>8 DEF Next, Edits, OfOthers

LEMMA PortedStep == Staged /\ Ported /\ [Next]_vars => Ported'
<1> SUFFICES ASSUME Staged, Ported, [Next]_vars PROVE Ported'
  OBVIOUS
<1>0. Empty \in {Empty, TunLayer} /\ TunLayer \in {Empty, TunLayer}
  OBVIOUS
<1>1. PortOk(Base)
  BY DEF Ported, Base
<1>2. ASSUME NEW b, NEW rt \in {Empty, TunLayer}, PortOk(b)
      PROVE  PortOk(Layered(b, rt))
  BY <1>2, LayeredPort DEF Ported
<1>3. PortOk(NoConfig) /\ PortOk(DefaultConfig)
  BY LayersAssumption DEF PortOk, Get, Has, NoConfig, DefaultConfig, Ports
<1>4. \A c : Valid(c) => PortOk(c)
  BY DEF Valid, PortOk
<1> USE DEF Ported
<1>5. CASE \/ UNCHANGED vars \/ OfOthers \/ Exit
           \/ StartRefused \/ StartReady \/ StartUnprobed \/ StartRetries
  BY <1>3, <1>5 DEF vars, OfOthers, PortTaken, PortLeft, ForeignTun, StartRefused, StartReady,
                    StartUnprobed, StartRetries, Exit, files
<1>6. CASE Edits
  BY <1>4, <1>6 DEF Edits, Download, OverrideSet, DnsGet, DnsSave, DnsSet, Writes, edit
<1>7. CASE Apply
  <2>1. PortOk(Built)
    BY <1>4, <1>7 DEF Apply
  <2>2. layer \in {Empty, TunLayer}
    BY DEF Staged
  <2>3. PortOk(Layered(Built, layer))
    BY <1>2, <2>1, <2>2
  <2>4. QED
    BY <1>7, <2>1, <2>3 DEF Apply, Loads
<1>8. CASE TunOn
  <2>1. PortOk(Layered(Base, TunLayer))
    BY <1>0, <1>1, <1>2
  <2>2. QED
    BY <1>1, <1>8, <2>1 DEF TunOn, Loads
<1>9. CASE TunOff
  <2>1. PortOk(Layered(Base, Empty))
    BY <1>0, <1>1, <1>2
  <2>2. layer' = Empty
    BY <1>9 DEF TunOff
  <2>3. QED
    BY <1>1, <1>9, <2>1, <2>2 DEF TunOff, Loads
<1>10. CASE StartBegins
  <2>1. layer' \in {Empty, TunLayer}
    BY <1>10 DEF StartBegins, Staged
  <2>2. PortOk(Layered(Base, layer'))
    BY <1>1, <1>2, <2>1
  <2>3. QED
    BY <1>1, <1>3, <1>10, <2>2 DEF StartBegins
<1>11. ASSUME NEW port \in Ports, StartTries(port) PROVE Ported'
  <2>1. PortOk(Owned(Set(stable, "mixed_port", port)))
    BY CandidateKeys DEF PortOk, Get
  <2>2. QED
    BY <1>11, <2>1 DEF StartTries
<1>12. QED
  BY <1>5, <1>6, <1>7, <1>8, <1>9, <1>10, <1>11 DEF Next, Edits, OfOthers

LEMMA AgreedStep == Staged /\ Agreed /\ [Next]_vars => Agreed'
<1> SUFFICES ASSUME Staged, Agreed, [Next]_vars PROVE Agreed'
  OBVIOUS
<1>1. ASSUME Ready, NEW b, NEW rt, Loads(b, rt), start' = start
      PROVE  Agreed'
  <2>1. Has(stable, "mixed_port")
    BY <1>1 DEF Agreed, Ready
  <2>2. /\ run' = stable' /\ Has(run', "mixed_port")
        /\ Has(run', "controller") /\ run'["controller"] = "own"
    BY <1>1, <2>1, LayeredOwn DEF Loads
  <2>3. start'.pc = "idle"
    BY <1>1 DEF Ready, Resting
  <2>4. QED
    BY <2>2, <2>3 DEF Agreed
<1>2. CASE UNCHANGED vars \/ OfOthers \/ Edits
  BY <1>2 DEF vars, OfOthers, PortTaken, PortLeft, ForeignTun, files, Edits, Download,
              OverrideSet, DnsGet, DnsSave, DnsSet, edit, Agreed, Running
<1>3. CASE Apply \/ TunOn
  BY <1>1, <1>3 DEF Apply, TunOn
<1>4. CASE TunOff
  <2>1. CASE Running
    <3>1. Ready
      BY <1>4, <2>1 DEF TunOff, Ready, Starting
    <3>2. Loads(Base, Empty)
      BY <1>4, <2>1 DEF TunOff
    <3>3. QED
      BY <1>1, <1>4, <3>1, <3>2 DEF TunOff
  <2>2. CASE ~Running
    BY <1>4, <2>2 DEF TunOff, Agreed, Running
  <2>3. QED
    BY <2>1, <2>2
<1>5. CASE Exit
  BY <1>5 DEF Exit, Ready, Running, Resting, Agreed
<1>6. CASE StartBegins
  BY <1>6 DEF StartBegins, Running, Agreed
<1>7. ASSUME NEW port \in Ports, StartTries(port) PROVE Agreed'
  <2>1. /\ run' = stable' /\ Has(run', "mixed_port")
        /\ Has(run', "controller") /\ run'["controller"] = "own"
    BY <1>7, CandidateKeys DEF StartTries
  <2>2. run' # NoConfig
    BY <2>1, Distinct
  <2>3. start'.pc = "wait"
    BY <1>7 DEF StartTries, Staged
  <2>4. QED
    BY <2>1, <2>2, <2>3 DEF Agreed, Running
<1>8. CASE StartRefused \/ StartReady \/ StartUnprobed
  BY <1>8 DEF StartRefused, StartReady, StartUnprobed, files, Agreed, Running, Resting
<1>9. CASE StartRetries
  <2>1. start'.pc \in {"idle", "try"} /\ run' = NoConfig
    BY <1>9 DEF StartRetries, Resting
  <2>2. QED
    BY <2>1 DEF Agreed, Running
<1>10. QED
  BY <1>2, <1>3, <1>4, <1>5, <1>6, <1>7, <1>8, <1>9 DEF Next, Edits, OfOthers

\* While a core runs no configuration is made without its port.
LEMMA RecordedStep == Staged /\ Agreed /\ Recorded /\ [Next]_vars => Recorded'
<1> SUFFICES ASSUME Staged, Agreed, Recorded, [Next]_vars PROVE Recorded'
  OBVIOUS
<1>1. ASSUME Ready, NEW b, NEW rt, Loads(b, rt), start' = start, actual' = actual
      PROVE  Recorded'
  <2>1. run = stable /\ Has(stable, "mixed_port")
    BY <1>1 DEF Agreed, Ready
  <2>2. run'["mixed_port"] = run["mixed_port"]
    BY <1>1, <2>1, LayeredOwn DEF Loads
  <2>3. actual = 0 \/ actual = run["mixed_port"]
    BY <1>1 DEF Recorded
  <2>4. start'.pc = "idle"
    BY <1>1 DEF Ready, Resting
  <2>5. QED
    BY <1>1, <2>2, <2>3, <2>4 DEF Recorded
<1>2. CASE UNCHANGED vars \/ OfOthers \/ Edits
  BY <1>2 DEF vars, OfOthers, PortTaken, PortLeft, ForeignTun, files, Edits, Download,
              OverrideSet, DnsGet, DnsSave, DnsSet, edit, Recorded, Ready, Running
<1>3. CASE Apply \/ TunOn
  BY <1>1, <1>3 DEF Apply, TunOn
<1>4. CASE TunOff
  <2>1. CASE Running
    <3>1. Ready
      BY <1>4, <2>1 DEF TunOff, Ready, Starting
    <3>2. Loads(Base, Empty)
      BY <1>4, <2>1 DEF TunOff
    <3>3. QED
      BY <1>1, <1>4, <3>1, <3>2 DEF TunOff
  <2>2. CASE ~Running
    BY <1>4, <2>2 DEF TunOff, Recorded, Ready, Running, Starting, Resting
  <2>3. QED
    BY <2>1, <2>2
<1>5. CASE Exit
  BY <1>5 DEF Exit, Ready, Running, Resting, Recorded
<1>6. CASE StartBegins
  BY <1>6 DEF StartBegins, Ready, Running, Recorded
<1>7. CASE \E port \in Ports : StartTries(port)
  <2>1. actual' = 0
    BY <1>7 DEF StartTries
  <2>2. QED
    BY <2>1 DEF Recorded
<1>8. CASE StartRefused
  BY <1>8 DEF StartRefused, files, Agreed, Recorded, Ready, Running, Resting
<1>9. CASE StartReady
  BY <1>9 DEF StartReady, files, Recorded, Ready, Resting
<1>10. CASE StartUnprobed
  BY <1>10 DEF StartUnprobed, files, Recorded, Ready, Resting
<1>11. CASE StartRetries
  BY <1>11 DEF StartRetries, files, Recorded, Ready, Running, Resting
<1>12. QED
  BY <1>2, <1>3, <1>4, <1>5, <1>6, <1>7, <1>8, <1>9, <1>10, <1>11 DEF Next, Edits, OfOthers

\* What is made without TUN is as the base, or is itself the base to be.
LEMMA MadeWithoutTun ==
  ASSUME NEW b, AsIn(stable', b), base' = b \/ base' = NoConfig
  PROVE  AsIn(stable', Base')
<1>1. Base' = b \/ Base' = stable'
  BY DEF Base
<1>2. AsIn(stable', stable')
  BY DEF AsIn
<1>3. QED
  BY <1>1, <1>2

LEMMA RestoredStep == Staged /\ Agreed /\ Restored /\ [Next]_vars => Restored'
<1> SUFFICES ASSUME Staged, Agreed, Restored, [Next]_vars PROVE Restored'
  OBVIOUS
<1>0. /\ ~session => layer = Empty
      /\ Ready <=> Running /\ ~Starting
  BY Distinct DEF Restored, Staged, Ready, Starting
<1>1. ASSUME layer' = layer, session' = session, base' = base, stable' = stable,
             Starting' => Starting, Running' \/ Starting' => Running \/ Starting
      PROVE  Restored'
  <2>1. Base' = Base
    BY <1>1 DEF Base
  <2>2. QED
    BY <1>1, <2>1 DEF Restored
<1>2. CASE UNCHANGED vars \/ OfOthers \/ Edits
  BY <1>1, <1>2 DEF vars, OfOthers, PortTaken, PortLeft, ForeignTun, files, Edits, Download,
              OverrideSet, DnsGet, DnsSave, DnsSet, edit, Running, Starting
<1>3. CASE StartRefused \/ StartReady \/ StartUnprobed
  BY <1>1, <1>3 DEF StartRefused, StartReady, StartUnprobed, files, Running, Starting, Resting
<1>4. CASE Apply
  <2>1. layer = Empty => AsIn(stable', Base')
    BY <1>4, LayeredWithoutTun, MadeWithoutTun DEF Apply, Loads
  <2>2. QED
    BY <1>0, <1>4, <2>1 DEF Apply, Restored, Starting
<1>5. CASE TunOn
  BY <1>0, <1>5 DEF TunOn, Restored, Starting
<1>6. CASE TunOff
  <2>1. stable' = Layered(Base, Empty) /\ base' = Base
    BY <1>6 DEF TunOff, Loads
  <2>2. AsIn(stable', Base')
    BY <2>1, LayeredWithoutTun, MadeWithoutTun
  <2>3. QED
    BY <1>6, <2>2, Distinct DEF TunOff, Restored, Starting
<1>7. CASE StartBegins
  <2>1. layer' = Empty /\ ~session' /\ base' = Base
    BY <1>0, <1>7 DEF StartBegins
  <2>2. AsIn(stable', Base')
    <3>1. ASSUME Base = NoConfig PROVE AsIn(stable', stable') /\ Base' = stable'
      BY <1>7, <2>1, <3>1 DEF StartBegins, Base, AsIn, Get, Has, DefaultConfig
    <3>2. ASSUME Base # NoConfig PROVE AsIn(stable', Base')
      <4>1. stable' = Layered(Base, Empty)
        BY <1>7, <2>1, <3>2 DEF StartBegins
      <4>2. QED
        BY <2>1, <4>1, LayeredWithoutTun, MadeWithoutTun
    <3>3. QED
      BY <3>1, <3>2
  <2>3. QED
    BY <2>1, <2>2, Distinct DEF Restored
<1>8. ASSUME NEW port \in Ports, StartTries(port) PROVE Restored'
  <2>1. start # Resting
    BY <1>8 DEF StartTries, Resting
  <2>2. AsIn(stable, Base)
    BY <2>1 DEF Restored, Starting
  <2>3. \A key : key \notin {"mixed_port", "controller"} =>
          /\ Has(stable', key) <=> Has(stable, key)
          /\ Has(stable, key) => stable'[key] = stable[key]
    BY <1>8, CandidateKeys DEF StartTries
  <2>4. AsIn(stable', Base)
    BY <2>2, <2>3 DEF AsIn, Get
  <2>5. AsIn(stable', Base')
    BY <1>8, <2>4, MadeWithoutTun DEF StartTries, Base
  <2>6. QED
    BY <1>8, <2>1, <2>5 DEF StartTries, Restored, Starting
<1>9. CASE Exit \/ StartRetries
  BY <1>1, <1>9 DEF Exit, StartRetries, files, Running, Starting, Resting
<1>10. QED
  BY <1>2, <1>3, <1>4, <1>5, <1>6, <1>7, <1>8, <1>9 DEF Next, Edits, OfOthers

LEMMA UnforcedStep == Staged /\ Agreed /\ Restored /\ Unforced /\ [Next]_vars => Unforced'
<1> SUFFICES ASSUME Staged, Agreed, Restored, Unforced, [Next]_vars PROVE Unforced'
  OBVIOUS
<1>0. Running => stable # NoConfig
  BY DEF Agreed, Running
<1>1. ~Has(Base, "dns_psn")
  BY DEF Unforced, Base
<1>2. ASSUME base' # NoConfig, base' = Base, profile' = profile, local' = local
      PROVE  Unforced'
  BY <1>1, <1>2 DEF Unforced
<1>3. CASE \/ UNCHANGED vars \/ OfOthers \/ Exit
           \/ StartRefused \/ StartReady \/ StartUnprobed \/ StartRetries
  BY <1>3 DEF vars, OfOthers, PortTaken, PortLeft, ForeignTun, Exit, StartRefused, StartReady,
              StartUnprobed, StartRetries, files, Unforced
<1>4. CASE Download \/ DnsGet
  BY <1>4 DEF Download, DnsGet, edit, Unforced
<1>5. CASE OverrideSet
  <2>1. \A value \in Overrides : ~Has(value, "dns_psn")
    BY DEF Overrides, Has, Empty
  <2>2. QED
    BY <1>5, <2>1 DEF OverrideSet, Writes, edit, Unforced
<1>6. CASE DnsSave
  <2>1. ASSUME NEW enable, NEW ns PROVE ~Has(Merge(local, DnsValue(enable, ns)), "dns_psn")
    <3>1. ~Has(DnsValue(enable, ns), "dns_psn")
      BY DEF DnsValue, Has
    <3>2. QED
      BY <3>1, MergeKeys DEF Unforced
  <2>2. PICK enable, ns : DnsSet(enable, ns)
    BY <1>6, Zenon DEF DnsSave
  <2>3. local' = Merge(local, DnsValue(enable, ns)) /\ UNCHANGED <<profile, session, base, stable>>
    BY <2>2 DEF DnsSet, Writes, edit
  <2>4. QED
    BY <2>1, <2>3 DEF Unforced
<1>7. CASE Apply
  <2>1. ~Has(profile, "dns_psn") /\ (Has(profile, "mixed_port") \/ Has(profile, "socks_port"))
    BY DEF Unforced, Sources, Has
  <2>2. ~Has(Built, "dns_psn") /\ Built # NoConfig
    BY <2>1, MergeKeys, Distinct DEF Built, Unforced
  <2>3. QED
    BY <1>7, <2>2 DEF Apply, Unforced
<1>8. CASE TunOn
  <2>1. Base # NoConfig
    BY <1>0, <1>8 DEF TunOn, Ready, Base
  <2>2. QED
    BY <1>2, <1>8, <2>1 DEF TunOn
<1>9. CASE TunOff
  <2>1. Base # NoConfig
    BY <1>9 DEF TunOff, Unforced, Base
  <2>2. QED
    BY <1>2, <1>9, <2>1 DEF TunOff
<1>10. CASE StartBegins
  <2>1. CASE Base = NoConfig
    <3>1. base' = NoConfig /\ stable' = DefaultConfig /\ ~session'
      BY <1>10, <2>1 DEF StartBegins
    <3>2. ~Has(DefaultConfig, "dns_psn")
      BY DEF Has, DefaultConfig
    <3>3. QED
      BY <1>1, <1>10, <2>1, <3>1, <3>2 DEF StartBegins, Unforced
  <2>2. CASE Base # NoConfig
    BY <1>2, <1>10, <2>2 DEF StartBegins
  <2>3. QED
    BY <2>1, <2>2
<1>11. ASSUME NEW port \in Ports, StartTries(port) PROVE Unforced'
  <2>1. Has(stable', "dns_psn") <=> Has(stable, "dns_psn")
    BY <1>11, CandidateKeys DEF StartTries
  <2>2. QED
    BY <1>11, <2>1 DEF StartTries, Unforced
<1>12. QED
  BY <1>3, <1>4, <1>5, <1>6, <1>7, <1>8, <1>9, <1>10, <1>11 DEF Next, Edits, OfOthers

LEMMA Inductive == Inv /\ [Next]_vars => Inv'
BY StagedStep, PortedStep, AgreedStep, RecordedStep, RestoredStep, UnforcedStep DEF Inv

LEMMA Invariance == Spec => []Inv
BY InitIsInv, Inductive, PTL DEF Spec

-----------------------------------------------------------------------------
(* What follows.                                                             *)

\* Every port a configuration names is a port, a core runs with MioProxy's own
\* controller, and the start keeps within its bounds.
THEOREM LayersTyped == Spec => []TypeOK
<1>1. Inv => TypeOK
  <2> SUFFICES ASSUME Inv PROVE TypeOK
    OBVIOUS
  <2>1. \A c \in {local, base, stable, run} : Get(c, "mixed_port", 1) \in Ports
    BY DEF Inv, Ported, PortOk
  <2>2. /\ Running => run.controller = "own"
        /\ (start.pc = "wait") => Running
    BY DEF Inv, Agreed
  <2>3. QED
    BY <2>1, <2>2 DEF Inv, Staged, TypeOK
<1>2. QED
  BY <1>1, Invariance, PTL

\* Whoever asks for the port of a core that is ready, by its record or by the
\* stable configuration, is told the one it listens on.
THEOREM PortIsReported == Spec => []PortReported
<1>1. Inv => PortReported
  <2> SUFFICES ASSUME Inv, Ready
               PROVE  ReportedPort = run["mixed_port"] /\ ConfiguredPort = run["mixed_port"]
    BY DEF PortReported
  <2>1. ConfiguredPort = run["mixed_port"]
    BY DEF Inv, Agreed, Ready, ConfiguredPort, Get
  <2>2. QED
    BY <2>1 DEF Inv, Recorded, ReportedPort
<1>2. QED
  BY <1>1, Invariance, PTL

\* TUN is on only in a session, and leaves DNS and the device as it found them.
THEOREM TunLeavesNoTrace == Spec => []TunLeavesNothing
<1>1. Inv => TunLeavesNothing
  <2> SUFFICES ASSUME Inv, Ready, ~session PROVE AsIn(run, Base)
    BY DEF TunLeavesNothing, AsIn
  <2>1. run = stable
    BY DEF Inv, Agreed, Ready
  <2>2. QED
    BY <2>1 DEF Inv, Restored, Ready
<1>2. QED
  BY <1>1, Invariance, PTL

\* A configuration made while there is no other TUN binds to the interface of its
\* base and to no other.
THEOREM InterfaceIsFollowed == Spec => InterfaceFollows
<1> DEFINE Made == stable' # stable /\ start.pc # "try" /\ foreign = "none"
           Plain == /\ Get(stable', "iface", "none") = Get(base', "iface", "none")
                    /\ ~Has(stable', "dns_psn")
<1>1. ASSUME Inv, Next, Made PROVE Plain
  <2>1. ASSUME NEW b, NEW rt \in {Empty, TunLayer}, stable' = Layered(b, rt), base' = b,
               ~Has(b, "dns_psn")
        PROVE  Plain
    <3>1. stable' = LayersOf(b, rt)
      BY <1>1, <2>1, LayeredIs DEF Compatible
    <3>2. ~Has(rt, "iface") /\ ~Has(rt, "dns_psn")
      BY DEF Has, Empty, TunLayer
    <3>3. \A key \in {"iface", "dns_psn"} :
            /\ Has(stable', key) <=> Has(b, key)
            /\ Has(b, key) => stable'[key] = b[key]
      BY <3>1, <3>2, LayersKeys
    <3>4. QED
      BY <2>1, <3>3 DEF Get
  <2>2. ~Has(Base, "dns_psn")
    BY <1>1 DEF Inv, Unforced, Base
  <2>3. CASE Apply
    <3>1. ~Has(base', "dns_psn")
      BY <1>1, UnforcedStep DEF Inv, Unforced
    <3>2. QED
      BY <1>1, <2>1, <2>3, <3>1 DEF Apply, Loads, Inv, Staged
  <2>4. CASE TunOn \/ TunOff
    BY <2>1, <2>2, <2>4 DEF TunOn, TunOff, Loads
  <2>5. CASE StartBegins
    <3>1. layer' \in {Empty, TunLayer}
      BY <1>1, <2>5 DEF StartBegins, Inv, Staged
    <3>2. CASE Base = NoConfig
      BY <2>5, <3>2 DEF StartBegins, Get, Has, DefaultConfig, NoConfig
    <3>3. CASE Base # NoConfig
      BY <2>1, <2>2, <2>5, <3>1, <3>3 DEF StartBegins
    <3>4. QED
      BY <3>2, <3>3
  <2>6. ASSUME ~(Apply \/ TunOn \/ TunOff \/ StartBegins) PROVE FALSE
    BY <1>1, <2>6 DEF Next, Download, OverrideSet, DnsGet, DnsSave, DnsSet, edit, Exit,
          StartRefused, StartReady, StartUnprobed, StartRetries, StartTries,
          PortTaken, PortLeft, ForeignTun, files
  <2>7. QED
    BY <2>3, <2>4, <2>5, <2>6
<1>2. Inv /\ [Next]_vars => [Made => Plain]_vars
  BY <1>1
<1>3. QED
  BY <1>2, Invariance, PTL DEF Spec, InterfaceFollows
================================================================================
