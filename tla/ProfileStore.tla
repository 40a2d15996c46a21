---------------------------- MODULE ProfileStore ----------------------------
(***************************************************************************)
(* Subscriptions and the runtime configuration: the registry and the       *)
(* downloaded files (src-tauri/src/profiles.rs), the transaction that      *)
(* applies one to the core (src-tauri/src/config.rs, and apply_profile of  *)
(* src-tauri/src/service.rs), and the geodata files it needs               *)
(* (src-tauri/src/geodata.rs).                                             *)
(*                                                                         *)
(* The registry lock is a static of each process.  The GUI holds its own   *)
(* for as long as it waits for the service; once the request has timed out *)
(* the service works on with nothing held against the GUI.  The core may   *)
(* leave at any time, and its start takes no lock an apply holds: it reads *)
(* the active base and rewrites the stable configuration from it.          *)
(*                                                                         *)
(* The content of a subscription is a version number, given when its       *)
(* download begins, and so is that of a configuration made from it: what   *)
(* TUN adds to one is the matter of ServiceTun and GuiSession.             *)
(***************************************************************************)
EXTENDS Integers, FiniteSets

CONSTANTS
    Profiles,     \* profile ids: random, never issued twice
    NoProfile,    \* None
    Downloads,    \* profile_download calls that may be in progress
    GeoFiles,     \* GeoSite.dat, GeoIP.dat
    MaxVersion,   \* bound: downloads that get as far as the network
    MaxAccidents, \* bound: time-outs, exits of the core, deaths of a process
    Faults        \* what the environment may do, see FaultKinds

\* "disk": a write or a removal fails; "api": the controller does not answer
\* as expected; "late": the service takes longer than IPC_TIMEOUT; "exit": the
\* core dies; "crash": the GUI or the service dies; "slow": the controller
\* loads a candidate, but answers after the timeout of api_put.
FaultKinds == {"disk", "api", "late", "exit", "crash", "slow"}

ASSUME StoreAssumption ==
    /\ NoProfile \notin Profiles
    /\ Downloads \cap {"free", "remove", "apply"} = {}   \* the other holders of the lock
    /\ MaxVersion \in Nat /\ MaxAccidents \in Nat
    /\ Faults \subseteq FaultKinds

VARIABLES
    listed, fileOf,  \* profiles.json: its ids, and the file_path of each
    issued,          \* the ids given so far
    files,           \* the files under profiles/, by the version they hold
    begun, owner,    \* the number of versions given, the profile of each
    lock,            \* who holds the registry lock of the GUI process
    dl,              \* the downloads
    rm,              \* profile_remove
    asked,           \* the apply request sent and not yet taken up
    ap,              \* the apply, in progress or the last
    served,          \* a service runs the core and the applies
    base,            \* active-profile-base.yaml
    active,          \* active-profile.json
    stable,          \* config.yaml
    running,         \* what the core has loaded
    st,              \* the start of the core
    geo,             \* the geodata files
    dirty,           \* history: a clean-up of profiles/ was cut off
    torn,            \* history: the files and the core were left apart
    accidents

registry == <<listed, fileOf, issued, files, begun, owner, dirty>>
runtime == <<base, active, stable, running>>
vars == <<registry, lock, dl, rm, asked, ap, served, runtime, st, geo, torn, accidents>>

Free == "free"
Versions == 1..MaxVersion
\* A configuration file that is not there, a core that does not run; version 0
\* is the configuration MioProxy ships.
Absent == -1
Configs == Absent..MaxVersion
GeoKinds == {"absent", "own", "shipped"}
GeoStates == [GeoFiles -> GeoKinds]
Shipped == [f \in GeoFiles |-> "shipped"]
NoDownload == [pc |-> "idle", id |-> NoProfile, expect |-> 0, ver |-> 0]
NoRemoval == [pc |-> "idle", id |-> NoProfile, was |-> FALSE, path |-> 0]
NoStart == [pc |-> "idle", ver |-> Absent]
Unread == [base |-> Absent, stable |-> Absent, active |-> NoProfile]
NoApply(pc) == [pc |-> pc, id |-> NoProfile, ver |-> Absent, todo |-> {}, repair |-> FALSE,
                geo |-> Shipped, clean |-> TRUE, was |-> Unread, ran |-> Absent, old |-> Unread]

Rests == {"idle", "applied", "refused"}
Applying == ap.pc \notin Rests
Fails(f) == f \in Faults
Happens(f) == f \in Faults /\ accidents < MaxAccidents /\ accidents' = accidents + 1

Init ==
    /\ listed = {} /\ issued = {} /\ files = {} /\ begun = 0 /\ dirty = FALSE
    /\ fileOf = [p \in Profiles |-> 0] /\ owner = [v \in Versions |-> NoProfile]
    /\ lock = Free /\ dl = [d \in Downloads |-> NoDownload] /\ rm = NoRemoval
    /\ asked = NoProfile /\ ap = NoApply("idle") /\ served \in BOOLEAN
    /\ base = Absent /\ active = NoProfile /\ running = Absent /\ st = NoStart
    /\ stable \in {Absent, 0}
    /\ geo \in [GeoFiles -> {"absent", "own"}] /\ torn = FALSE /\ accidents = 0

-----------------------------------------------------------------------------
(* The registry.  Every change of it rereads it under the lock, and a file  *)
(* is there before the registry names it and goes after.                    *)

\* profile_add: the random id is new; a URL that is there already is refused.
Add(p) ==
    /\ lock = Free /\ p \notin issued
    /\ listed' = listed \cup {p} /\ issued' = issued \cup {p}
    /\ UNCHANGED <<fileOf, files, begun, owner, dirty, lock, dl, rm, asked, ap, served, runtime,
                    st, geo, torn, accidents>>

elsewhere == <<rm, asked, ap, served, runtime, st, geo, torn, accidents>>

\* The first hold of the lock: the record is read, the lock given back before
\* the request goes out.
DownloadBegins(d, p) ==
    /\ lock = Free /\ dl[d].pc = "idle" /\ p \in listed /\ begun < MaxVersion
    /\ begun' = begun + 1 /\ owner' = [owner EXCEPT ![begun'] = p]
    /\ dl' = [dl EXCEPT ![d] = [pc |-> "fetch", id |-> p, expect |-> fileOf[p], ver |-> begun']]
    /\ UNCHANGED <<listed, fileOf, issued, files, dirty, lock, elsewhere>>

\* No answer, an answer that is no subscription, or a file that cannot be written.
DownloadFails(d) ==
    /\ dl[d].pc = "fetch"
    /\ dl' = [dl EXCEPT ![d] = NoDownload]
    /\ UNCHANGED <<registry, lock, elsewhere>>

\* The second hold: the body goes to a file of its own, under a random name.
DownloadStages(d) ==
    /\ dl[d].pc = "fetch" /\ lock = Free
    /\ lock' = d /\ files' = files \cup {dl[d].ver}
    /\ dl' = [dl EXCEPT ![d].pc = "staged"]
    /\ UNCHANGED <<listed, fileOf, issued, begun, owner, dirty, elsewhere>>

\* Mutant: the revision is not compared, only that the profile is there.
SameProfile(d) == dl[d].id \in listed

\* same_profile_revision.  The random name of the file tells revisions apart.
SameRevision(d) == dl[d].id \in listed /\ fileOf[dl[d].id] = dl[d].expect

\* remove_profile_file of v; a failure is written to the log and passed over.
DropFile(v) ==
    \/ files' = files \ {v} /\ UNCHANGED dirty
    \/ Fails("disk") /\ v # 0 /\ UNCHANGED files /\ dirty' = TRUE

\* Mutant: a download that gives up takes away the file the registry names.
DownloadGivesUpSwapped(d) ==
    /\ dl[d].pc = "staged" /\ (~SameRevision(d) \/ Fails("disk"))
    /\ DropFile(fileOf[dl[d].id]) /\ lock' = Free /\ dl' = [dl EXCEPT ![d] = NoDownload]
    /\ UNCHANGED <<listed, fileOf, issued, begun, owner, elsewhere>>

\* The profile is gone or another download was faster, or the registry cannot
\* be written: the file is taken away again.
DownloadGivesUp(d) ==
    /\ dl[d].pc = "staged" /\ (~SameRevision(d) \/ Fails("disk"))
    /\ DropFile(dl[d].ver) /\ lock' = Free /\ dl' = [dl EXCEPT ![d] = NoDownload]
    /\ UNCHANGED <<listed, fileOf, issued, begun, owner, elsewhere>>

DownloadCommits(d) ==
    /\ dl[d].pc = "staged" /\ SameRevision(d)
    /\ fileOf' = [fileOf EXCEPT ![dl[d].id] = dl[d].ver]
    /\ dl' = [dl EXCEPT ![d].pc = "written"]
    /\ UNCHANGED <<listed, issued, files, begun, owner, dirty, lock, elsewhere>>

DownloadEnds(d) ==
    /\ dl[d].pc = "written" /\ DropFile(dl[d].expect)
    /\ lock' = Free /\ dl' = [dl EXCEPT ![d] = NoDownload]
    /\ UNCHANGED <<listed, fileOf, issued, begun, owner, elsewhere>>

away == <<dl, asked, served, base, stable, running, st, geo, accidents>>

\* profile_remove.  An apply that a late answer left running is not waited for.
RemoveBegins(p) ==
    /\ lock = Free /\ p \in listed
    /\ lock' = "remove"
    /\ rm' = [pc |-> "clear", id |-> p, was |-> active = p, path |-> fileOf[p]]
    /\ ap' = [ap EXCEPT !.clean = ~Applying]
    /\ UNCHANGED <<registry, active, torn, away>>

\* clear_active_profile_if_matches_at; profile_remove fails if it does.
RemoveClears ==
    /\ rm.pc = "clear"
    /\ \/ /\ active' = IF active = rm.id THEN NoProfile ELSE active
          /\ rm' = [rm EXCEPT !.pc = "write"] /\ UNCHANGED lock
       \/ Fails("disk") /\ active = rm.id /\ lock' = Free /\ rm' = NoRemoval /\ UNCHANGED active
    /\ UNCHANGED <<registry, ap, torn, away>>

RemoveWrites ==
    /\ rm.pc = "write"
    /\ listed' = listed \ {rm.id} /\ fileOf' = [fileOf EXCEPT ![rm.id] = 0]
    /\ rm' = [rm EXCEPT !.pc = "delete"]
    /\ UNCHANGED <<issued, files, begun, owner, dirty, lock, ap, active, torn, away>>

\* The registry cannot be written: the pointer is put back, if it can be.
RemoveUndone ==
    /\ rm.pc = "write" /\ Fails("disk")
    /\ active' \in (IF rm.was THEN {rm.id, active} ELSE {active})
    /\ lock' = Free /\ rm' = NoRemoval
    /\ UNCHANGED <<registry, ap, torn, away>>

RemoveEnds ==
    /\ rm.pc = "delete" /\ DropFile(rm.path)
    /\ lock' = Free /\ rm' = NoRemoval
    /\ UNCHANGED <<listed, fileOf, issued, begun, owner, ap, active, torn, away>>

-----------------------------------------------------------------------------
(* An apply: the candidate is built from the registry, the file and the     *)
(* layers, loaded into the core, read back, and only then written to the    *)
(* three files, which are put back if one of them cannot be written.        *)

others == <<registry, dl, rm, served, accidents>>
Files == [base |-> base, stable |-> stable, active |-> active]
Answered == lock' = IF lock = "apply" /\ asked' = NoProfile THEN Free ELSE lock

\* apply_profile and config_apply in the GUI, which hold the registry lock
\* until they have an answer; one request at a time waits to be taken up.
Request(p) ==
    /\ lock = Free /\ asked = NoProfile /\ p \in listed
    /\ lock' = "apply" /\ asked' = p
    /\ UNCHANGED <<others, ap, runtime, st, geo, torn>>

\* IPC_TIMEOUT: the GUI gives up, the service does not.
TimesOut ==
    /\ Happens("late") /\ served /\ lock = "apply"
    /\ lock' = Free
    /\ UNCHANGED <<registry, dl, rm, served, asked, ap, runtime, st, geo, torn>>

\* The end of an apply that changed none of the files.
Refused ==
    /\ ap' = NoApply("refused") /\ torn' = (torn \/ ~ap.clean)
    /\ UNCHANGED asked /\ Answered /\ UNCHANGED others

ApplyBegins ==
    /\ asked # NoProfile /\ ~Applying
    /\ asked' = NoProfile
    /\ IF running # Absent /\ asked \in listed /\ fileOf[asked] # 0
       THEN /\ ap' = [NoApply("build") EXCEPT !.id = asked, !.ver = fileOf[asked],
                         !.was = Files, !.ran = running, !.clean = (rm.pc = "idle")]
            /\ UNCHANGED lock
       ELSE ap' = NoApply("refused") /\ Answered
    /\ UNCHANGED <<others, runtime, st, geo, torn>>

\* The candidate is written, and ensure_for_candidate sees to its geodata: every
\* candidate here has rules for all of GeoFiles.
ApplyReads ==
    /\ ap.pc = "build" /\ ap.ver \in files
    /\ ap' = IF \E f \in GeoFiles : geo[f] = "absent"
             THEN [ap EXCEPT !.pc = "geo", !.todo = GeoFiles, !.geo = geo]
             ELSE [ap EXCEPT !.pc = "put", !.geo = geo]
    /\ UNCHANGED <<others, lock, asked, runtime, st, geo, torn>>

\* The file went while nothing was held against the GUI, or what it gives
\* with the override merged into it is not a configuration.
ApplyUnread ==
    /\ ap.pc = "build" /\ Refused
    /\ UNCHANGED <<runtime, st, geo>>

\* replacement_for: one file after the other, in an order of no importance.  What
\* ensure_for_candidate has replaced it cannot put back once all is replaced.
ApplyReplaces(f) ==
    /\ ap.pc = "geo" /\ f \in ap.todo
    /\ geo' = [geo EXCEPT ![f] = "shipped"]
    /\ ap' = IF ap.todo # {f} THEN [ap EXCEPT !.todo = @ \ {f}]
             ELSE IF ap.repair THEN [ap EXCEPT !.pc = "retry", !.todo = {}]
             ELSE [ap EXCEPT !.pc = "put", !.todo = {}]
    /\ UNCHANGED <<others, lock, asked, runtime, st, torn>>

\* GeodataReplacement::restore: every file, whatever becomes of the others.
GeoRestored ==
    \/ geo' = ap.geo
    \/ /\ Fails("disk")
       /\ geo' \in {g \in GeoStates : \A f \in GeoFiles : g[f] \in {geo[f], ap.geo[f]}}

\* Refused, with the geodata put back as far as it can be.
RefusedRestored ==
    /\ GeoRestored
    /\ ap' = NoApply("refused") /\ torn' = (torn \/ ~ap.clean \/ geo' # ap.geo)
    /\ UNCHANGED asked /\ Answered
    /\ UNCHANGED <<others, runtime, st>>

ApplyUnshipped == ap.pc = "geo" /\ RefusedRestored
ApplyRetryFails == ap.pc = "retry" /\ RefusedRestored

\* The controller takes the candidate.
ApplyLoads ==
    /\ ap.pc \in {"put", "retry"} /\ running # Absent
    /\ running' = ap.ver /\ ap' = [ap EXCEPT !.pc = "verify"]
    /\ UNCHANGED <<others, lock, asked, base, active, stable, st, geo, torn>>

\* It does not, or is gone.
ApplyRejected ==
    /\ ap.pc = "put" /\ Refused
    /\ UNCHANGED <<runtime, st, geo>>

\* It takes it after api_put has given up on it, the first time or the second: the
\* answer is an error.
ApplySlow ==
    /\ Fails("slow") /\ ap.pc \in {"put", "retry"} /\ running # Absent
    /\ IF ap.pc = "retry" THEN GeoRestored ELSE UNCHANGED geo
    /\ running' = ap.ver
    /\ ap' = NoApply("refused") /\ torn' = TRUE
    /\ UNCHANGED asked /\ Answered
    /\ UNCHANGED <<others, base, active, stable, st>>

\* It names the geodata in its error: they are replaced and the load is tried
\* once more.
ApplyRepairs ==
    /\ ap.pc = "put" /\ running # Absent /\ geo # Shipped
    /\ ap' = [ap EXCEPT !.pc = "geo", !.todo = GeoFiles, !.repair = TRUE, !.geo = geo]
    /\ UNCHANGED <<others, lock, asked, runtime, st, geo, torn>>

\* verify_controller_runtime does not ask which configuration runs.  Then
\* commit_runtime_state_at reads what it would put back.
ApplyVerifies ==
    /\ ap.pc = "verify" /\ running # Absent
    /\ ap' = [ap EXCEPT !.pc = "base", !.old = Files]
    /\ UNCHANGED <<others, lock, asked, runtime, st, geo, torn>>

ApplyUnverified ==
    /\ ap.pc = "verify"
    /\ Fails("api") \/ running = Absent
    /\ ap' = [ap EXCEPT !.pc = "undo"]
    /\ UNCHANGED <<others, lock, asked, runtime, st, geo, torn>>

ApplyWritesBase ==
    /\ ap.pc = "base"
    /\ base' = ap.ver /\ ap' = [ap EXCEPT !.pc = "stable"]
    /\ UNCHANGED <<others, lock, asked, active, stable, running, st, geo, torn>>

ApplyWritesStable ==
    /\ ap.pc = "stable"
    /\ stable' = ap.ver /\ ap' = [ap EXCEPT !.pc = "active"]
    /\ UNCHANGED <<others, lock, asked, base, active, running, st, geo, torn>>

ApplyEnds ==
    /\ ap.pc = "active"
    /\ active' = ap.id /\ ap' = NoApply("applied") /\ torn' = ~ap.clean
    /\ UNCHANGED asked /\ Answered
    /\ UNCHANGED <<others, base, stable, running, st, geo>>

\* Mutant: the base is not put back.
ApplyRollsBackHalf ==
    /\ Fails("disk") /\ ap.pc \in {"base", "stable", "active"}
    /\ stable' \in {ap.old.stable, stable} /\ active' \in {ap.old.active, active}
    /\ torn' = (torn \/ stable' # ap.old.stable \/ active' # ap.old.active)
    /\ ap' = [ap EXCEPT !.pc = "undo", !.old = Unread]
    /\ UNCHANGED <<others, lock, asked, base, running, st, geo>>

\* One of the writes fails.  The rollback tries all three files, whatever becomes
\* of the others.
ApplyRollsBack ==
    /\ Fails("disk") /\ ap.pc \in {"base", "stable", "active"}
    /\ base' \in {ap.old.base, base} /\ stable' \in {ap.old.stable, stable}
    /\ active' \in {ap.old.active, active}
    /\ torn' = (torn \/ Files' # ap.old)
    /\ ap' = [ap EXCEPT !.pc = "undo", !.old = Unread]
    /\ UNCHANGED <<others, lock, asked, running, st, geo>>

\* Mutant: the file is restored and the core is not told.
ApplyUndoesQuietly ==
    /\ ap.pc = "undo"
    /\ stable' = ap.was.stable /\ ap' = NoApply("refused") /\ torn' = (torn \/ ~ap.clean)
    /\ UNCHANGED asked /\ Answered
    /\ UNCHANGED <<others, base, active, running, st, geo>>

\* The stable configuration of before is written back and the core told to
\* load it.
ApplyUndoes ==
    /\ ap.pc = "undo"
    /\ \/ /\ stable' = ap.was.stable
          /\ \/ running' = IF running = Absent THEN Absent ELSE stable'
             \/ Fails("api") /\ UNCHANGED running
       \/ Fails("disk") /\ UNCHANGED <<stable, running>>
    /\ ap' = NoApply("refused")
    /\ torn' = (torn \/ ~ap.clean \/ stable' # ap.was.stable \/ running' \notin {Absent, stable'})
    /\ UNCHANGED asked /\ Answered
    /\ UNCHANGED <<others, base, active, st, geo>>

-----------------------------------------------------------------------------
(* The core, and the processes.                                             *)

places == <<registry, lock, dl, rm, asked, served>>

\* read_active_base_or_migrate_at: an installation from before the base file
\* has its configuration taken for the base.
Migrated == IF base = Absent THEN stable ELSE base

\* A switch of TUN rebuilds the configuration from the base, and goes back to
\* it when it fails.  It excludes applies.
SwitchTun ==
    /\ ~Applying /\ (served \/ lock # "apply") /\ running # Absent
    /\ base' = Migrated /\ stable' = base' /\ running' = stable'
    /\ UNCHANGED <<places, ap, active, st, geo, torn, accidents>>

\* A start, which waits for no apply (unless there is a TUN session to undo).
StartReads ==
    /\ running = Absent /\ st.pc = "idle"
    /\ base' = Migrated /\ st' = [pc |-> "write", ver |-> base']
    /\ ap' = [ap EXCEPT !.clean = ~Applying]
    /\ UNCHANGED <<places, active, stable, running, geo, torn, accidents>>

\* restore_active_runtime_config_at, and the shipped configuration where there
\* is none.
StartWrites ==
    /\ st.pc = "write"
    /\ stable' = IF st.ver # Absent THEN st.ver ELSE IF stable # Absent THEN stable ELSE 0
    /\ st' = [pc |-> "spawn", ver |-> Absent]
    /\ UNCHANGED <<places, ap, base, active, running, geo, torn, accidents>>

\* The geodata are completed, or replaced because the core does not take its
\* configuration with them.
StartSpawns ==
    /\ st.pc = "spawn"
    /\ running' = stable /\ st' = NoStart /\ geo' \in {geo, Shipped}
    /\ UNCHANGED <<places, ap, base, active, stable, torn, accidents>>

StartFails ==
    /\ st.pc # "idle" /\ st' = NoStart
    /\ UNCHANGED <<places, ap, runtime, geo, torn, accidents>>

CoreExits ==
    /\ running # Absent /\ Happens("exit")
    /\ running' = Absent
    /\ UNCHANGED <<places, ap, base, active, stable, st, geo, torn>>

\* The process that applies dies, and the core with it; it is torn if that is
\* between two of the three writes.
ApplierDies ==
    /\ ap' = NoApply("idle") /\ asked' = NoProfile /\ st' = NoStart /\ running' = Absent
    /\ torn' = (torn \/ (Applying /\ ~ap.clean) \/ ap.pc \in {"stable", "active"})

GuiDies ==
    /\ Happens("crash")
    /\ lock' = Free /\ dl' = [d \in Downloads |-> NoDownload] /\ rm' = NoRemoval
    /\ dirty' = (dirty \/ rm.pc = "delete" \/ \E d \in Downloads : dl[d].pc \in {"staged", "written"})
    /\ IF served THEN UNCHANGED <<asked, ap, st, running, torn>> ELSE ApplierDies
    /\ UNCHANGED <<listed, fileOf, issued, files, begun, owner, served, base, active, stable, geo>>

ServiceDies ==
    /\ served /\ Happens("crash") /\ ApplierDies
    /\ lock' = IF lock = "apply" THEN Free ELSE lock
    /\ UNCHANGED <<registry, dl, rm, served, base, active, stable, geo>>

Next ==
    \/ \E p \in Profiles : Add(p) \/ RemoveBegins(p) \/ Request(p)
    \/ \E d \in Downloads :
          \/ \E p \in Profiles : DownloadBegins(d, p)
          \/ DownloadFails(d) \/ DownloadStages(d) \/ DownloadGivesUp(d)
          \/ DownloadCommits(d) \/ DownloadEnds(d)
    \/ RemoveClears \/ RemoveWrites \/ RemoveUndone \/ RemoveEnds
    \/ TimesOut \/ ApplyBegins \/ ApplyReads \/ ApplyUnread
    \/ \E f \in GeoFiles : ApplyReplaces(f)
    \/ ApplyUnshipped \/ ApplyRetryFails \/ ApplyLoads \/ ApplyRejected \/ ApplySlow
    \/ ApplyRepairs \/ ApplyVerifies \/ ApplyUnverified \/ ApplyWritesBase
    \/ ApplyWritesStable \/ ApplyEnds \/ ApplyRollsBack \/ ApplyUndoes
    \/ SwitchTun \/ StartReads \/ StartWrites \/ StartSpawns \/ StartFails
    \/ CoreExits \/ GuiDies \/ ServiceDies

Spec == Init /\ [][Next]_vars

-----------------------------------------------------------------------------
TypeOK ==
    /\ listed \subseteq issued /\ issued \subseteq Profiles /\ files \subseteq Versions
    /\ fileOf \in [Profiles -> 0..MaxVersion] /\ \A p \in Profiles \ listed : fileOf[p] = 0
    /\ begun \in 0..MaxVersion /\ owner \in [Versions -> Profiles \cup {NoProfile}]
    /\ lock \in Downloads \cup {Free, "remove", "apply"}
    /\ asked \in Profiles \cup {NoProfile} /\ active \in Profiles \cup {NoProfile}
    /\ {base, stable, running} \subseteq Configs /\ {served, dirty, torn} \subseteq BOOLEAN /\ geo \in GeoStates
    /\ st.pc = "spawn" => stable # Absent
    /\ lock = "remove" <=> rm.pc # "idle"
    /\ \A d \in Downloads : lock = d <=> dl[d].pc \in {"staged", "written"}

\* profiles.json never names a file that is not there or holds another
\* profile's subscription, at no step of concurrent downloads and removals, of a
\* failing write or of a crash; and unless a clean-up failed or was cut off, no
\* file stays behind that it does not name.
RegistryMatchesFiles ==
    /\ \A p \in listed : fileOf[p] # 0 => fileOf[p] \in files /\ owner[fileOf[p]] = p
    /\ (~dirty /\ lock \in {Free, "apply"}) => files \subseteq {fileOf[p] : p \in listed}

\* A download that has been overtaken changes nothing: no profile goes back to
\* a subscription requested earlier than the one it has, and one that was
\* removed while its download ran does not come back (the reread under the
\* lock and same_profile_revision in profile_download).
NewestWins ==
    [][/\ \A p \in listed' : fileOf'[p] >= fileOf[p]
       /\ (listed' \ listed) \cap issued = {}]_vars

\* Between the transactions the base, the runtime configuration, the pointer to
\* the active profile and the core all tell of the same profile, whatever write
\* failed and was rolled back.  Left out is what `torn' records: a process that
\* dies between two of the three writes, a rollback that fails too, a controller
\* that answers too late, a core that is started again or a profile that is
\* removed while an apply the GUI no longer waits for goes on.
RuntimeAgrees ==
    (~Applying /\ st.pc = "idle" /\ rm.pc = "idle" /\ ~torn) =>
        /\ base # Absent => stable = base
        /\ running \in {Absent, stable}
        /\ active # NoProfile => active \in listed /\ owner[base] = active

\* A file of geodata was missing when the candidate was read.
Incomplete == \E f \in GeoFiles : ap.geo[f] = "absent"

\* An apply that reports success has changed all three files and the core, one
\* that reports failure none of them.  Unless its candidate had been loaded the
\* geodata are then as they were too, or, if one of them was missing, all of them
\* those MioProxy ships: ensure_for_candidate completes them before the load and
\* drops what it has replaced (geodata.rs:294, config.rs:223-263).
AllOrNothing ==
    [][Applying =>
       /\ (ap'.pc = "applied" /\ ~torn') =>
             /\ Files' = [base |-> ap.ver, stable |-> ap.ver, active |-> ap.id]
             /\ running' \in {Absent, ap.ver}
       /\ (ap'.pc = "refused" /\ ~torn') =>
             /\ Files' = ap.was /\ running' \in {Absent, ap.ran}
             /\ ap.pc \in {"put", "retry", "geo"} =>
                   geo' = ap.geo \/ (ap.pc = "put" /\ Incomplete /\ geo' = Shipped)]_vars

\* A refused apply has left the geodata alone.
GeodataKept ==
    [][Applying /\ ap'.pc = "refused" /\ ~torn' /\ ap.pc \in {"put", "retry", "geo"} =>
         geo' = ap.geo]_vars

\* "The current configuration has been kept": an apply that reports failure has
\* left the core with the configuration it ran, or without one.
RefusedKeeps ==
    [][Applying /\ ap'.pc = "refused" /\ ap.clean => running' \in {Absent, ap.ran}]_vars
=============================================================================
