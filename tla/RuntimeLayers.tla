---------------------------- MODULE RuntimeLayers ----------------------------
(***************************************************************************)
(* What Mihomo runs with, and where each setting of it comes from          *)
(* (src-tauri/src/config.rs): the downloaded profile, the Local Override   *)
(* of the user, the Runtime Override TUN is switched with, the settings    *)
(* MioProxy keeps to itself, and what another TUN on this machine makes    *)
(* necessary.  The active base, which is the first two merged, is what     *)
(* every later configuration is made from; mixed-port alone goes from one  *)
(* stable configuration to the next.                                       *)
(*                                                                         *)
(* A YAML document is a function from the settings it has to their values, *)
(* dns_enable being the key enable of dns, and mixed_port mixed-port.      *)
(* The keys here stand for all that the code treats alike: "dns_ns" for    *)
(* the servers and filters of DNS, "tun_device" for what the TUN layer     *)
(* adds to tun.enable, "socks_port" for the ports that are not             *)
(* mixed-port, "controller" for external-controller and secret.  Applies   *)
(* that fail are the matter of ProfileStore, TUN switches that fail half   *)
(* way that of ServiceTun.                                                 *)
(***************************************************************************)
EXTENDS Integers

CONSTANTS
    MaxPort,     \* 65535
    Candidates,  \* CORE_START_MAX_CANDIDATES
    Servers      \* lists of DNS servers a user may enter

\* The port of default_config, 7890, is port 1.
ASSUME LayersAssumption == MaxPort \in Nat \ {0} /\ Candidates \in Nat \ {0}

VARIABLES
    profile,  \* the YAML of the profile
    local,    \* local-override.yaml
    layer,    \* runtime-override.yaml
    session,  \* a TUN session is recorded
    base,     \* active-profile-base.yaml, or NoConfig
    stable,   \* config.yaml, or NoConfig
    run,      \* what the core has loaded, or NoConfig
    actual,   \* the port in the runtime listener state, 0 for none
    start,    \* start_inner: where it is, the lowest port to try, tries left
    form,     \* the DNS page: what it has loaded, or NoForm
    busy,     \* ports other programs listen on
    foreign   \* another TUN is up, and whether the interface around it is known

files == <<profile, local, layer, base, stable>>
world == <<busy, foreign>>
vars == <<profile, local, layer, session, base, stable, run, actual, start, form, busy, foreign>>

Ports == 1..MaxPort
\* outbound::decide: there is no other TUN, or no single interface around it, or one.
Outbounds == {"none", "unclear", "known"}
Empty == [k \in {} |-> 0]
NoConfig == [none |-> TRUE]
NoForm == [loaded |-> FALSE]
Resting == [pc |-> "idle", min |-> 0, left |-> 0]

\* Profiles: one that sets what MioProxy keeps to itself, one with its own ports.
\* An override is nothing, or has settings of its own, or is not valid.
Sources == {
    [mixed_port |-> 2, dns_enable |-> FALSE, tun_enable |-> TRUE, tun_device |-> "other",
     controller |-> "other"],
    [socks_port |-> 2, dns_ns |-> "isp"] }
Overrides == {Empty, [dns_enable |-> TRUE, iface |-> "lan"], [mixed_port |-> 0]}

Has(c, key) == key \in DOMAIN c
Get(c, key, default) == IF Has(c, key) THEN c[key] ELSE default

\* merge_values: mappings are merged, all else is replaced by what comes later.
Merge(under, over) ==
    [key \in DOMAIN under \cup DOMAIN over |-> IF Has(over, key) THEN over[key] ELSE under[key]]

Set(c, key, value) == Merge(c, [k \in {key} |-> value])
SetIfAbsent(c, key, value) == Merge([k \in {key} |-> value], c)

\* validate_config.
Valid(c) == Get(c, "mixed_port", 1) \in Ports /\ Get(c, "dns_enable", TRUE) \in BOOLEAN

\* set_tun_enabled_at.
TunLayer == [tun_enable |-> TRUE, tun_device |-> "MioProxy", dns_enable |-> TRUE]

\* apply_auto_outbound_compatibility_with: only what is not configured.
Compatible(c) ==
    IF foreign = "none" THEN c
    ELSE LET bound == IF foreign = "known" THEN SetIfAbsent(c, "iface", "auto") ELSE c
         IN SetIfAbsent(bound, "dns_psn", Get(c, "dns_ns", "system"))

\* What MioProxy sets whatever the profile says.
Owned(c) == Set(c, "controller", "own")

\* Mutant: a mixed port of the profile's own is left to it.
LayeredPolite(b, rt) ==
    LET merged == Owned(Set(Merge(b, rt), "tun_enable", Has(rt, "tun_enable")))
    IN Compatible(IF Has(stable, "mixed_port") THEN SetIfAbsent(merged, "mixed_port", stable.mixed_port)
                                               ELSE merged)

\* apply_runtime_layers.
Layered(b, rt) ==
    LET merged == Owned(Set(Merge(b, rt), "tun_enable", Has(rt, "tun_enable")))
    IN Compatible(IF Has(stable, "mixed_port") THEN Set(merged, "mixed_port", stable.mixed_port)
                                               ELSE merged)

\* The base of build_value_at.
Built == Merge(profile, local)

\* Mutant: every configuration is made from the last one.
BaseFromStable == stable

\* read_active_base_or_migrate_at: an installation that has none takes the
\* stable configuration for it.
Base == IF base # NoConfig THEN base ELSE stable

\* What an older version that had TUN on left behind.
Legacy == Merge([mixed_port |-> 1, dns_ns |-> "isp"], TunLayer)

DefaultConfig == [mixed_port |-> 1, controller |-> "own"]

Running == run # NoConfig
Ready == Running /\ start = Resting

\* The port of the core for the system proxy, and for the service.
ConfiguredPort == Get(stable, "mixed_port", 1)
ReportedPort == IF actual # 0 THEN actual ELSE ConfiguredPort

Starting == start # Resting

Init ==
    /\ profile \in Sources /\ local = Empty /\ layer = Empty /\ session = FALSE
    /\ base = NoConfig /\ stable \in {NoConfig, Legacy} /\ run = NoConfig /\ actual = 0
    /\ start = Resting /\ form = NoForm /\ busy = {} /\ foreign \in Outbounds

-----------------------------------------------------------------------------
(* The user: the profile page, the editor of the override, the DNS page.    *)
(* Only one page is open at a time.                                         *)

edit == <<layer, session, base, stable, run, actual, start, world>>

Download == profile' \in Sources /\ form' = NoForm /\ UNCHANGED <<local, edit>>

\* write_override_value.
Writes(value) == Valid(value) /\ local' = value

OverrideSet ==
    (\E value \in Overrides : Writes(value)) /\ form' = NoForm /\ UNCHANGED <<profile, edit>>

\* settings_from_value: what the page shows of a configuration.
Settings(c) == [loaded |-> TRUE, enable |-> Get(c, "dns_enable", FALSE),
                ns |-> Get(c, "dns_ns", "none")]

\* dns_value: every setting of the page.
DnsValue(enable, ns) == [dns_enable |-> enable, dns_ns |-> ns]

\* dns_get: of the configuration with all its layers.
DnsGet ==
    /\ Valid(Built)
    /\ form' = Settings(Layered(Built, layer)) /\ UNCHANGED <<profile, local, edit>>

DnsSet(enable, ns) ==
    /\ form.loaded
    /\ Writes(Merge(local, DnsValue(enable, ns)))
    /\ form' = [form EXCEPT !.enable = enable, !.ns = ns]
    /\ UNCHANGED <<profile, edit>>

\* One of them changed by the user.
DnsSave == \/ DnsSet(~form.enable, form.ns)
           \/ \E ns \in Servers : DnsSet(form.enable, ns)

-----------------------------------------------------------------------------
(* The core runs: a profile is applied, TUN is switched.                    *)

\* What is loaded is, once it is read back, the stable configuration too.
Loads(b, rt) == run' = Layered(b, rt) /\ stable' = run'

\* apply_profile, which holds on to the port of the core that runs.
Apply ==
    /\ Ready /\ Valid(Built)
    /\ base' = Built /\ Loads(Built, layer)
    /\ UNCHANGED <<profile, local, layer, session, actual, start, form, world>>

\* enable_tun.
TunOn ==
    /\ Ready /\ ~session
    /\ session' = TRUE /\ layer' = TunLayer
    /\ base' = Base /\ Loads(Base, TunLayer)
    /\ UNCHANGED <<profile, local, actual, start, form, world>>

\* Mutant: only the switch is taken out of the layer.
TunOffSwitched ==
    /\ session /\ ~Starting
    /\ session' = FALSE /\ layer' = [dns_enable |-> TRUE]
    /\ base' = Base
    /\ IF Running THEN Loads(Base, layer')
       ELSE run' = run /\ stable' = Layered(Base, layer')
    /\ UNCHANGED <<profile, local, actual, start, form, world>>

\* disable_tun_inner: reloaded, or restored on disk where no core runs.
TunOff ==
    /\ session /\ ~Starting
    /\ session' = FALSE /\ layer' = Empty
    /\ base' = Base
    /\ IF Running THEN Loads(Base, Empty)
       ELSE run' = run /\ stable' = Layered(Base, Empty)
    /\ UNCHANGED <<profile, local, actual, start, form, world>>

\* The core is stopped or dies; what its port was stays on record.
Exit ==
    /\ Ready
    /\ run' = NoConfig
    /\ UNCHANGED <<files, session, actual, start, form, world>>

-----------------------------------------------------------------------------
(* start_inner.                                                             *)

\* A TUN session that is still recorded is ended, the stable configuration is
\* made anew from the base, or is the default one.
StartBegins ==
    /\ ~Running /\ ~Starting
    /\ layer' = (IF session THEN Empty ELSE layer) /\ session' = FALSE
    /\ base' = Base
    /\ stable' = IF Base = NoConfig THEN DefaultConfig ELSE Layered(Base, layer')
    /\ start' = [pc |-> "try", min |-> 0, left |-> Candidates]
    /\ UNCHANGED <<profile, local, run, actual, form, world>>

\* select_available_port_from: the next free port from the preferred one or, when
\* all are taken, any.
FreePorts(from) ==
    LET above == {p \in Ports \ busy : p >= from}
    IN IF above # {} THEN {CHOOSE p \in above : \A q \in above : p <= q} ELSE Ports \ busy

Preferred == IF ConfiguredPort >= start.min THEN ConfiguredPort ELSE start.min

\* prepare_runtime_resources_from_at: the other ports of the configuration must
\* be free, or be the mixed port.
StartTries(port) ==
    /\ start.pc = "try" /\ port \in FreePorts(Preferred)
    /\ ~(Has(stable, "socks_port") /\ stable.socks_port \in busy \ {port})
    /\ stable' = Owned(Set(stable, "mixed_port", port)) /\ run' = stable'
    /\ actual' = 0
    /\ start' = [start EXCEPT !.pc = "wait"]
    /\ UNCHANGED <<profile, local, layer, session, base, form, world>>

\* One of those, or the controller's, is taken, or no port is left; or Mihomo does
\* not accept the configuration, which is found before the first try.
StartRefused ==
    /\ start.pc = "try"
    /\ actual' \in (IF start.left = Candidates THEN {0, actual} ELSE {0}) /\ start' = Resting
    /\ UNCHANGED <<files, session, run, form, world>>

\* core_ready_for_pid: the port belongs to this core.
StartReady ==
    /\ start.pc = "wait" /\ run.mixed_port \notin busy
    /\ actual' = run.mixed_port /\ start' = Resting
    /\ UNCHANGED <<files, session, run, form, world>>

\* The probe itself fails: the child stays, and nothing of its port is on record.
StartUnprobed ==
    /\ start.pc = "wait" /\ start' = Resting
    /\ UNCHANGED <<files, session, run, actual, form, world>>

\* The core has not become ready, for whatever reason; a port above the last
\* there is gives no lower bound.
StartRetries ==
    /\ start.pc = "wait"
    /\ run' = NoConfig
    /\ start' = IF start.left = 1 THEN Resting
                ELSE [pc |-> "try", left |-> start.left - 1,
                      min |-> IF run.mixed_port = MaxPort THEN 0 ELSE run.mixed_port + 1]
    /\ UNCHANGED <<files, session, actual, form, world>>

-----------------------------------------------------------------------------
(* Other programs: one takes or leaves a port the core does not listen on,  *)
(* another TUN comes up or goes.                                            *)

Listening == IF Ready THEN {run.mixed_port} ELSE {}

PortTaken == \E p \in Ports \ (busy \cup Listening) :
    busy' = busy \cup {p} /\ UNCHANGED <<files, session, run, actual, start, form, foreign>>
PortLeft == \E p \in busy :
    busy' = busy \ {p} /\ UNCHANGED <<files, session, run, actual, start, form, foreign>>
ForeignTun ==
    foreign' \in Outbounds /\ UNCHANGED <<files, session, run, actual, start, form, busy>>

Next ==
    \/ Download \/ OverrideSet \/ DnsGet \/ DnsSave
    \/ Apply \/ TunOn \/ TunOff \/ Exit
    \/ StartBegins \/ StartRefused \/ StartReady \/ StartUnprobed \/ StartRetries
    \/ \E port \in Ports : StartTries(port)
    \/ PortTaken \/ PortLeft \/ ForeignTun

Spec == Init /\ [][Next]_vars

-----------------------------------------------------------------------------
(* Properties.                                                              *)

\* What the core runs with and what every later configuration is made from has
\* a port validate_config accepts, the core is reached at MioProxy's own controller
\* and secret, and what is in the state has its type.
TypeOK ==
    /\ \A c \in {local, base, stable, run} : Get(c, "mixed_port", 1) \in Ports
    /\ layer \in {Empty, TunLayer}
    /\ Running => run.controller = "own"
    /\ session \in BOOLEAN /\ foreign \in Outbounds /\ busy \subseteq Ports /\ actual \in Ports \cup {0}
    /\ start.pc \in {"idle", "try", "wait"} /\ start.min \in Ports \cup {0}
    /\ start.left \in 0..Candidates
    /\ (start.pc = "wait") => Running

\* Windows' proxy settings are given the port in the stable configuration, the
\* service asks for the one on record: both are the port the core listens on, which
\* neither applying a profile with a port of its own nor switching TUN moves, and
\* no start leaves that of an earlier core on record (commit_actual_runtime_mixed_port_at
\* and runtime_mixed_port_at, config.rs:1073, 1090, 1237).
PortReported == Ready => ReportedPort = run.mixed_port /\ ConfiguredPort = run.mixed_port

\* However TUN was switched and by whichever profile, it is on only while a
\* session says so, and once it is off DNS and the device are again as the active
\* base has them (apply_runtime_layers, config.rs:1209, and the test at 2044-2060).
TunLeavesNothing ==
    (Ready /\ ~session) =>
        /\ ~Get(run, "tun_enable", FALSE)
        /\ \A key \in {"dns_enable", "dns_ns", "tun_device", "socks_port"} :
              /\ Has(run, key) <=> Has(Base, key)
              /\ Has(run, key) => run[key] = Base[key]

\* An interface that was chosen to go around another TUN is forgotten with it: a
\* configuration made while there is none binds to no interface but the user's,
\* whatever the one before had; only a start that has already made its own goes on
\* with it (apply_auto_outbound_compatibility_with, config.rs:1251).
InterfaceFollows ==
    [][(stable' # stable /\ start.pc # "try" /\ foreign = "none") =>
          /\ Get(stable', "iface", "none") = Get(base', "iface", "none")
          /\ ~Has(stable', "dns_psn")]_vars

\* Not so (RuntimeLayers_hand.cfg): saving a list of servers on the DNS page leaves
\* alone whether DNS is enabled when TUN is off.  dns_get shows the value the TUN
\* layer gives it, and dns_set writes it to the Local Override (config.rs:1710).
DnsSurvivesTun ==
    [][\A ns \in Servers : DnsSet(form.enable, ns) =>
          Get(Merge(profile, local'), "dns_enable", FALSE) = Get(Built, "dns_enable", FALSE)]_vars

\* Not so (RuntimeLayers_hand.cfg): the mixed port is a port of its own.  One that
\* is looked for because the preferred one is taken may be the socks-port of the
\* same profile, and so may the one a running core keeps (config.rs:889).
PortOfItsOwn == Ready => ~(Has(run, "socks_port") /\ run.socks_port = run.mixed_port)

\* Not so (RuntimeLayers_hand.cfg): a start that finds the port of the base free
\* listens there.  The stable configuration comes first, so that a port of the
\* profile's own never takes effect, and as every candidate is written to it, one
\* that failed for another reason is where the next start begins (config.rs:1237,
\* service.rs:3151-3218).
PortReturns ==
    [][\A port \in Ports :
          (StartTries(port) /\ start.left = Candidates) =>
              LET wanted == Get(base, "mixed_port", 1) IN wanted \in busy \/ port = wanted]_vars
=============================================================================
