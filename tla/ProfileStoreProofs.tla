------------------------- MODULE ProfileStoreProofs -------------------------
(* Proofs about ProfileStore for every set of profiles, of downloads and of *)
(* geodata files, every choice of faults and every bound on versions.       *)
EXTENDS ProfileStore, TLAPS
-----------------------------------------------------------------------------
(* The registry: what is known of it, of the downloads and of a removal.    *)

Given == 1..begun

DownloadRecord == [pc : {"idle", "fetch", "staged", "written"}, id : Profiles \cup {NoProfile},
                   expect : 0..MaxVersion, ver : 0..MaxVersion]
RemovalRecord == [pc : {"idle", "clear", "write", "delete"}, id : Profiles \cup {NoProfile},
                  was : BOOLEAN, path : 0..MaxVersion]

Held(d) == dl[d].pc \in {"staged", "written"}

RegistryTypes ==
    /\ listed \subseteq issued /\ issued \subseteq Profiles /\ files \subseteq Versions
    /\ fileOf \in [Profiles -> 0..MaxVersion] /\ \A p \in Profiles \ listed : fileOf[p] = 0
    /\ begun \in 0..MaxVersion /\ owner \in [Versions -> Profiles \cup {NoProfile}]
    /\ dirty \in BOOLEAN

LockTypes ==
    /\ dl \in [Downloads -> DownloadRecord] /\ rm \in RemovalRecord
    /\ lock \in Downloads \cup {Free, "remove", "apply"}
    /\ lock = "remove" <=> rm.pc # "idle"
    /\ \A d \in Downloads : lock = d <=> Held(d)

\* The files that profiles.json names are there, and each is its profile's.
NamedOk == \A p \in listed : fileOf[p] # 0 => fileOf[p] \in files /\ owner[fileOf[p]] = p

\* A download has a version of its own, later than the one it would replace.
\* While it fetches its file is not there; once staged it is, and unnamed; once
\* written the registry names it.
DownloadOk(d) ==
    /\ dl[d].pc # "idle" =>
         /\ dl[d].ver \in Given /\ dl[d].id \in issued /\ owner[dl[d].ver] = dl[d].id
         /\ dl[d].expect < dl[d].ver
         /\ dl[d].expect # 0 => owner[dl[d].expect] = dl[d].id
    /\ dl[d].pc = "fetch" => dl[d].ver \notin files
    /\ dl[d].pc = "staged" => dl[d].ver \in files /\ fileOf[dl[d].id] # dl[d].ver
    /\ dl[d].pc = "written" => dl[d].id \in listed /\ fileOf[dl[d].id] = dl[d].ver

DownloadsOk ==
    /\ \A d \in Downloads : DownloadOk(d)
    /\ \A d, e \in Downloads :
          d # e /\ dl[d].pc # "idle" /\ dl[e].pc # "idle" => dl[d].ver # dl[e].ver

RemovalOk ==
    /\ rm.pc \in {"clear", "write"} => rm.id \in listed /\ rm.path = fileOf[rm.id]
    /\ rm.pc = "delete" => \A p \in listed : fileOf[p] # 0 => fileOf[p] # rm.path

\* A file that is not named is about to be named or taken away.
NothingLeftBehind ==
    ~dirty => \A v \in files :
        \/ \E p \in listed : fileOf[p] = v
        \/ \E d \in Downloads : dl[d].pc = "staged" /\ dl[d].ver = v
        \/ \E d \in Downloads : dl[d].pc = "written" /\ dl[d].expect = v
        \/ rm.pc = "delete" /\ rm.path = v

RegistryOk ==
    /\ RegistryTypes /\ LockTypes
    /\ files \subseteq Given
    /\ NamedOk /\ DownloadsOk /\ RemovalOk /\ NothingLeftBehind

LEMMA RegistryInit == Init => RegistryOk
<1> SUFFICES ASSUME Init PROVE RegistryOk
  OBVIOUS
<1>1. /\ listed = {} /\ issued = {} /\ files = {} /\ begun = 0 /\ dirty = FALSE
      /\ fileOf = [p \in Profiles |-> 0] /\ owner = [v \in Versions |-> NoProfile]
      /\ lock = Free /\ dl = [d \in Downloads |-> NoDownload] /\ rm = NoRemoval
  BY DEF Init
<1>2. 0 \in 0..MaxVersion
  BY StoreAssumption
<1>3. RegistryTypes
  BY <1>1, <1>2 DEF RegistryTypes
<1>4. NoDownload \in DownloadRecord /\ NoRemoval \in RemovalRecord
  BY <1>2 DEF NoDownload, NoRemoval, DownloadRecord, RemovalRecord
<1>5. \A d \in Downloads : dl[d].pc = "idle" /\ ~Held(d)
  BY <1>1 DEF NoDownload, Held
<1>6. LockTypes
  BY <1>1, <1>4, <1>5, StoreAssumption DEF LockTypes, Free, NoRemoval
<1>7. NamedOk /\ DownloadsOk /\ RemovalOk /\ NothingLeftBehind
  BY <1>1, <1>5 DEF NamedOk, DownloadsOk, DownloadOk, RemovalOk, NothingLeftBehind, NoRemoval
<1>8. QED
  BY <1>1, <1>3, <1>6, <1>7 DEF RegistryOk

\* The lock is held once.
LEMMA HeldOnce ==
  ASSUME LockTypes
  PROVE  /\ \A d, e \in Downloads : Held(d) /\ Held(e) => d = e
         /\ \A d \in Downloads : Held(d) => rm.pc = "idle"
         /\ lock \in {Free, "apply"} => rm.pc = "idle" /\ \A d \in Downloads : ~Held(d)
         /\ Free \notin Downloads /\ "apply" \notin Downloads /\ "remove" \notin Downloads
         /\ \A d \in Downloads : dl[d].pc # "idle" /\ ~Held(d) => dl[d].pc = "fetch"
<1>1. Free \notin Downloads /\ "apply" \notin Downloads /\ "remove" \notin Downloads
  BY StoreAssumption DEF Free
<1>2. \A d \in Downloads : dl[d].pc # "idle" /\ ~Held(d) => dl[d].pc = "fetch"
  BY DEF LockTypes, Held, DownloadRecord
<1>3. QED
  BY <1>1, <1>2 DEF LockTypes, Free

\* Steps that are not about subscriptions.
LEMMA RegistryUntouched ==
  ASSUME RegistryOk, UNCHANGED <<registry, dl, rm>>,
         lock' = lock \/ (lock \in {Free, "apply"} /\ lock' \in {Free, "apply"})
  PROVE  RegistryOk'
<1>1. UNCHANGED <<listed, fileOf, issued, files, begun, owner, dirty, dl, rm>>
  BY DEF registry
<1>2. RegistryTypes' /\ (files \subseteq Given)' /\ NamedOk' /\ RemovalOk'
  BY <1>1 DEF RegistryOk, RegistryTypes, Given, NamedOk, RemovalOk
<1>3. DownloadsOk' /\ NothingLeftBehind'
  BY <1>1 DEF RegistryOk, DownloadsOk, DownloadOk, Given, NothingLeftBehind
<1>4. LockTypes'
  BY <1>1, HeldOnce DEF RegistryOk, LockTypes, Held, Free
<1>5. QED
  BY <1>2, <1>3, <1>4 DEF RegistryOk

LEMMA AddKeepsRegistry ==
  ASSUME RegistryOk, NEW p \in Profiles, Add(p)
  PROVE  RegistryOk'
<1>1. /\ listed' = listed \cup {p} /\ issued' = issued \cup {p} /\ p \notin issued
      /\ UNCHANGED <<fileOf, files, begun, owner, dirty, lock, dl, rm>>
  BY DEF Add
<1>2. RegistryTypes' /\ (files \subseteq Given)'
  BY <1>1 DEF RegistryOk, RegistryTypes, Given
<1>3. LockTypes'
  BY <1>1 DEF RegistryOk, LockTypes, Held
<1>4. p \notin listed /\ fileOf[p] = 0
  BY <1>1 DEF RegistryOk, RegistryTypes
<1>5. NamedOk' /\ RemovalOk'
  BY <1>1, <1>4 DEF RegistryOk, NamedOk, RemovalOk
<1>6. DownloadsOk'
  BY <1>1 DEF RegistryOk, DownloadsOk, DownloadOk, Given
<1>7. NothingLeftBehind'
  BY <1>1 DEF RegistryOk, NothingLeftBehind
<1>8. QED
  BY <1>2, <1>3, <1>5, <1>6, <1>7 DEF RegistryOk

LEMMA DownloadBeginsKeepsRegistry ==
  ASSUME RegistryOk, NEW d \in Downloads, NEW p \in Profiles, DownloadBegins(d, p)
  PROVE  RegistryOk'
<1> DEFINE r == [pc |-> "fetch", id |-> p, expect |-> fileOf[p], ver |-> begun']
<1>1. /\ dl[d].pc = "idle" /\ p \in listed /\ begun < MaxVersion /\ begun' = begun + 1
      /\ owner' = [owner EXCEPT ![begun'] = p] /\ dl' = [dl EXCEPT ![d] = r]
      /\ UNCHANGED <<listed, fileOf, issued, files, dirty, lock, rm>>
  BY DEF DownloadBegins, elsewhere
<1>2. RegistryTypes /\ LockTypes /\ files \subseteq Given /\ NamedOk /\ DownloadsOk
      /\ RemovalOk /\ NothingLeftBehind /\ MaxVersion \in Nat
  BY StoreAssumption DEF RegistryOk
<1>3. /\ begun \in 0..MaxVersion /\ begun' \in Versions /\ begun' \in 0..MaxVersion
      /\ begun' \notin Given /\ Given \subseteq Given' /\ begun' \in Given'
  BY <1>1, <1>2 DEF RegistryTypes, Versions, Given
<1>4. /\ owner' \in [Versions -> Profiles \cup {NoProfile}] /\ owner'[begun'] = p
      /\ \A v \in Given : v \in Versions /\ owner'[v] = owner[v]
  BY <1>1, <1>2, <1>3 DEF RegistryTypes, Versions, Given
<1>5. RegistryTypes'
  BY <1>1, <1>2, <1>3, <1>4 DEF RegistryTypes
<1>6. r \in DownloadRecord
  BY <1>1, <1>2, <1>3 DEF RegistryTypes, DownloadRecord
<1> HIDE DEF r
<1>7. /\ dl' \in [Downloads -> DownloadRecord] /\ dl'[d] = r
      /\ \A e \in Downloads : e # d => dl'[e] = dl[e]
  BY <1>1, <1>2, <1>6 DEF LockTypes
<1>8. r.pc = "fetch" /\ r.id = p /\ r.expect = fileOf[p] /\ r.ver = begun'
  BY DEF r
<1>9. LockTypes'
  BY <1>1, <1>2, <1>7, <1>8 DEF LockTypes, Held
<1>10. NamedOk' /\ RemovalOk'
  BY <1>1, <1>2, <1>4 DEF NamedOk, RemovalOk
<1>11. \A e \in Downloads : dl[e].pc # "idle" => dl[e].ver \in Given
  BY <1>2 DEF DownloadsOk, DownloadOk
<1>12. ASSUME NEW e \in Downloads PROVE DownloadOk(e)'
  <2>1. CASE e = d
    <3>1. fileOf[p] # 0 => fileOf[p] \in Given /\ owner'[fileOf[p]] = p
      BY <1>1, <1>2, <1>4 DEF NamedOk
    <3>2. fileOf[p] < begun'
      BY <1>1, <1>2, <1>3, <3>1 DEF Given, RegistryTypes
    <3>3. begun' \notin files
      BY <1>2, <1>3
    <3>4. p \in issued
      BY <1>1, <1>2 DEF RegistryTypes
    <3>5. QED
      BY <1>1, <1>3, <1>4, <1>7, <1>8, <2>1, <3>1, <3>2, <3>3, <3>4 DEF DownloadOk
  <2>2. CASE e # d
    <3>1. DownloadOk(e) /\ dl'[e] = dl[e]
      BY <1>2, <1>7, <2>2 DEF DownloadsOk
    <3>2. dl[e].pc # "idle" /\ dl[e].expect # 0 => owner'[dl[e].expect] = owner[dl[e].expect]
      <4>1. dl[e].expect \in Nat /\ dl[e].ver \in Nat
        BY <1>2 DEF LockTypes, DownloadRecord
      <4>2. dl[e].pc # "idle" /\ dl[e].expect # 0 => dl[e].expect \in Given
        BY <1>11, <3>1, <4>1, <1>3 DEF DownloadOk, Given
      <4>3. QED
        BY <1>4, <4>2
    <3>3. dl[e].pc # "idle" =>
            /\ dl[e].ver \in Given' /\ owner'[dl[e].ver] = dl[e].id /\ dl[e].id \in issued'
            /\ dl[e].expect < dl[e].ver
            /\ dl[e].expect # 0 => owner'[dl[e].expect] = dl[e].id
      BY <1>1, <1>3, <1>4, <3>1, <3>2 DEF DownloadOk
    <3>4. /\ dl[e].pc = "fetch" => dl[e].ver \notin files'
          /\ dl[e].pc = "staged" => dl[e].ver \in files' /\ fileOf'[dl[e].id] # dl[e].ver
          /\ dl[e].pc = "written" => dl[e].id \in listed' /\ fileOf'[dl[e].id] = dl[e].ver
      BY <1>1, <3>1 DEF DownloadOk
    <3>5. QED
      BY <3>1, <3>3, <3>4 DEF DownloadOk
  <2>3. QED
    BY <2>1, <2>2
<1>13. DownloadsOk'
  BY <1>2, <1>3, <1>7, <1>8, <1>11, <1>12 DEF DownloadsOk
<1>14. NothingLeftBehind'
  <2>1. \A e \in Downloads : dl[e].pc = "staged" => dl'[e] = dl[e]
    BY <1>1, <1>7
  <2>2. \A e \in Downloads : dl[e].pc = "written" => dl'[e] = dl[e]
    BY <1>1, <1>7
  <2>3. QED
    BY <1>1, <1>2, <2>1, <2>2 DEF NothingLeftBehind
<1>15. QED
  BY <1>2, <1>1, <1>3, <1>5, <1>9, <1>10, <1>13, <1>14 DEF RegistryOk

\* A download is over: it holds nothing, and its file is named or gone.
LEMMA DownloadOverKeepsRegistry ==
  ASSUME RegistryOk, NEW d \in Downloads, dl' = [dl EXCEPT ![d] = NoDownload],
         UNCHANGED <<listed, fileOf, issued, begun, owner, rm>>,
         IF Held(d) THEN lock' = Free ELSE lock' = lock,
         files' \subseteq files, dirty' \in BOOLEAN,
         \A p \in listed : fileOf[p] # 0 => fileOf[p] \in files',
         \A e \in Downloads : e # d /\ Held(e) => files' = files,
         ~dirty' => ~dirty /\ \A v \in files' :
            (dl[d].pc = "staged" => dl[d].ver # v) /\ (dl[d].pc = "written" => dl[d].expect # v)
  PROVE  RegistryOk'
<1>1. /\ RegistryTypes /\ LockTypes /\ files \subseteq Given /\ NamedOk /\ DownloadsOk
      /\ RemovalOk /\ NothingLeftBehind
  BY DEF RegistryOk
<1>2. NoDownload \in DownloadRecord /\ NoDownload.pc = "idle"
  BY StoreAssumption DEF NoDownload, DownloadRecord
<1>3. /\ dl' \in [Downloads -> DownloadRecord] /\ dl'[d].pc = "idle"
      /\ \A e \in Downloads : e # d => dl'[e] = dl[e]
  BY <1>1, <1>2 DEF LockTypes
<1>4. RegistryTypes'
  BY <1>1 DEF RegistryTypes
<1>5. LockTypes'
  <2>1. rm' = rm /\ ~Held(d)'
    BY <1>3 DEF Held
  <2>2. \A e \in Downloads : e # d => (Held(e)' <=> Held(e))
    BY <1>3 DEF Held
  <2>3. (lock' = "remove" <=> rm.pc # "idle") /\ lock' \in Downloads \cup {Free, "remove", "apply"}
    BY <1>1, HeldOnce DEF LockTypes, Free
  <2>4. \A e \in Downloads : lock' = e <=> Held(e)'
    BY <1>1, <2>1, <2>2, HeldOnce DEF LockTypes
  <2>5. QED
    BY <1>1, <1>3, <2>1, <2>3, <2>4 DEF LockTypes
<1>6. NamedOk' /\ RemovalOk'
  BY <1>1 DEF NamedOk, RemovalOk
<1>7. DownloadsOk'
  <2>1. ASSUME NEW e \in Downloads PROVE DownloadOk(e)'
    <3>1. CASE e = d
      BY <1>3, <3>1 DEF DownloadOk
    <3>2. CASE e # d
      BY <1>1, <1>3, <3>2 DEF DownloadsOk, DownloadOk, Given, Held
    <3>3. QED
      BY <3>1, <3>2
  <2>2. QED
    BY <1>1, <1>3, <2>1 DEF DownloadsOk
<1>8. NothingLeftBehind'
  BY <1>1, <1>3 DEF NothingLeftBehind
<1>9. QED
  BY <1>1, <1>4, <1>5, <1>6, <1>7, <1>8 DEF RegistryOk, Given

LEMMA DropFileTypes ==
  ASSUME NEW v, DropFile(v), dirty \in BOOLEAN
  PROVE  /\ files' \subseteq files /\ files \ {v} \subseteq files' /\ dirty' \in BOOLEAN
         /\ ~dirty' => ~dirty /\ v \notin files'
<1>1. CASE files' = files \ {v} /\ UNCHANGED dirty
  BY <1>1
<1>2. CASE UNCHANGED files /\ dirty' = TRUE
  BY <1>2
<1>3. QED
  BY <1>1, <1>2 DEF DropFile

LEMMA DownloadLeavesKeepsRegistry ==
  ASSUME RegistryOk, NEW d \in Downloads,
         DownloadFails(d) \/ DownloadGivesUp(d) \/ DownloadEnds(d)
  PROVE  RegistryOk'
<1>1. /\ RegistryTypes /\ LockTypes /\ NamedOk /\ DownloadOk(d) /\ dirty \in BOOLEAN
      /\ \A e \in Downloads : Held(e) /\ Held(d) => e = d
  BY HeldOnce DEF RegistryOk, DownloadsOk, RegistryTypes
<1>2. CASE DownloadFails(d)
  <2>1. ~Held(d) /\ dl[d].pc = "fetch" /\ UNCHANGED <<registry, lock, rm>>
        /\ dl' = [dl EXCEPT ![d] = NoDownload]
    BY <1>2 DEF DownloadFails, Held, elsewhere
  <2>2. UNCHANGED <<listed, fileOf, issued, files, begun, owner, dirty, lock, rm>>
    BY <2>1 DEF registry
  <2>3. \A p \in listed : fileOf[p] # 0 => fileOf[p] \in files'
    BY <1>1, <2>2 DEF NamedOk
  <2>4. QED
    BY <1>1, <2>1, <2>2, <2>3, DownloadOverKeepsRegistry
<1>3. CASE DownloadGivesUp(d)
  <2>1. /\ dl[d].pc = "staged" /\ Held(d) /\ DropFile(dl[d].ver) /\ lock' = Free
        /\ dl' = [dl EXCEPT ![d] = NoDownload]
        /\ UNCHANGED <<listed, fileOf, issued, begun, owner, rm>>
    BY <1>3 DEF DownloadGivesUp, Held, elsewhere
  <2>2. \A p \in listed : fileOf[p] # 0 => fileOf[p] \in files /\ fileOf[p] # dl[d].ver
    BY <1>1, <2>1 DEF NamedOk, DownloadOk
  <2>3. QED
    BY <1>1, <2>1, <2>2, DropFileTypes, DownloadOverKeepsRegistry
<1>4. CASE DownloadEnds(d)
  <2>1. /\ dl[d].pc = "written" /\ Held(d) /\ DropFile(dl[d].expect) /\ lock' = Free
        /\ dl' = [dl EXCEPT ![d] = NoDownload]
        /\ UNCHANGED <<listed, fileOf, issued, begun, owner, rm>>
    BY <1>4 DEF DownloadEnds, Held, elsewhere
  <2>2. \A p \in listed : fileOf[p] # 0 => fileOf[p] \in files /\ fileOf[p] # dl[d].expect
    <3>1. dl[d].expect < dl[d].ver /\ dl[d].expect \in Nat /\ dl[d].ver \in Nat
      BY <1>1, <2>1 DEF DownloadOk, LockTypes, DownloadRecord
    <3>2. fileOf[dl[d].id] # dl[d].expect
      BY <1>1, <2>1, <3>1 DEF DownloadOk
    <3>3. QED
      BY <1>1, <2>1, <3>2 DEF NamedOk, DownloadOk
  <2>3. QED
    BY <1>1, <2>1, <2>2, DropFileTypes, DownloadOverKeepsRegistry
<1>5. QED
  BY <1>2, <1>3, <1>4

LEMMA DownloadStagesKeepsRegistry ==
  ASSUME RegistryOk, NEW d \in Downloads, DownloadStages(d)
  PROVE  RegistryOk'
<1>1. /\ dl[d].pc = "fetch" /\ lock = Free /\ lock' = d /\ files' = files \cup {dl[d].ver}
      /\ dl' = [dl EXCEPT ![d].pc = "staged"]
      /\ UNCHANGED <<listed, fileOf, issued, begun, owner, dirty, rm>>
  BY DEF DownloadStages, elsewhere
<1>2. /\ RegistryTypes /\ LockTypes /\ files \subseteq Given /\ NamedOk /\ DownloadsOk
      /\ RemovalOk /\ NothingLeftBehind /\ DownloadOk(d)
  BY DEF RegistryOk, DownloadsOk
<1>3. /\ rm.pc = "idle" /\ (\A e \in Downloads : ~Held(e)) /\ Free \notin Downloads
      /\ "remove" \notin Downloads
  BY <1>1, <1>2, HeldOnce
<1>4. /\ dl[d].ver \in Given /\ dl[d].ver \notin files /\ dl[d].ver \in Versions
      /\ Given \subseteq Versions
  <2>1. Given \subseteq Versions
    BY <1>2, StoreAssumption DEF Given, RegistryTypes, Versions
  <2>2. dl[d].ver \in Given /\ dl[d].ver \notin files
    BY <1>1, <1>2 DEF DownloadOk
  <2>3. QED
    BY <2>1, <2>2
<1> DEFINE r == [dl[d] EXCEPT !.pc = "staged"]
<1>5. dl' = [dl EXCEPT ![d] = r] /\ dl[d] \in DownloadRecord
  BY <1>1, <1>2 DEF LockTypes
<1>6. /\ r.pc = "staged" /\ r.id = dl[d].id /\ r.expect = dl[d].expect /\ r.ver = dl[d].ver
      /\ r \in DownloadRecord
  BY <1>5 DEF DownloadRecord
<1> HIDE DEF r
<1>7. /\ dl' \in [Downloads -> DownloadRecord] /\ dl'[d] = r
      /\ \A e \in Downloads : e # d => dl'[e] = dl[e]
  BY <1>2, <1>5, <1>6 DEF LockTypes
<1>8. RegistryTypes' /\ files' \subseteq Given
  BY <1>1, <1>2, <1>4 DEF RegistryTypes
<1>9. LockTypes'
  <2>1. Held(d)' /\ \A e \in Downloads : e # d => ~Held(e)'
    BY <1>3, <1>6, <1>7 DEF Held
  <2>2. QED
    BY <1>1, <1>2, <1>3, <1>7, <2>1 DEF LockTypes
<1>10. NamedOk' /\ RemovalOk'
  BY <1>1, <1>2 DEF NamedOk, RemovalOk
<1>11. ASSUME NEW e \in Downloads PROVE DownloadOk(e)'
  <2>1. CASE e = d
    <3>1. fileOf[dl[d].id] # dl[d].ver
      <4>1. dl[d].id \in Profiles /\ 0 \notin Given
        BY <1>1, <1>2 DEF DownloadOk, RegistryTypes, Given
      <4>2. fileOf[dl[d].id] = 0 \/ fileOf[dl[d].id] \in files
        BY <1>2, <4>1 DEF NamedOk, RegistryTypes
      <4>3. QED
        BY <1>4, <4>1, <4>2
    <3>2. QED
      BY <1>1, <1>2, <1>6, <1>7, <2>1, <3>1 DEF DownloadOk, Given
  <2>2. CASE e # d
    <3>1. DownloadOk(e) /\ dl'[e] = dl[e] /\ (dl[e].pc # "idle" => dl[e].ver # dl[d].ver)
          /\ dl[e].pc # "staged" /\ dl[e].pc # "written"
      BY <1>1, <1>2, <1>3, <1>7, <2>2 DEF DownloadsOk, Held
    <3>2. QED
      BY <1>1, <3>1 DEF DownloadOk, Given
  <2>3. QED
    BY <2>1, <2>2
<1>12. DownloadsOk'
  <2>1. \A e \in Downloads : dl'[e].ver = dl[e].ver /\ (dl'[e].pc # "idle" => dl[e].pc # "idle")
    BY <1>1, <1>6, <1>7
  <2>2. QED
    BY <1>2, <1>11, <2>1 DEF DownloadsOk
<1>13. NothingLeftBehind'
  <2>1. SUFFICES ASSUME ~dirty', NEW v \in files', v \in files
                 PROVE  \E p \in listed : fileOf[p] = v
    <3>1. (\E e \in Downloads : dl[e].pc = "staged" /\ dl[e].ver = dl[d].ver)'
      BY <1>1, <1>6, <1>7
    <3>2. QED
      BY <1>1, <3>1 DEF NothingLeftBehind
  <2>2. QED
    BY <1>1, <1>2, <1>3, <2>1 DEF NothingLeftBehind, Held
<1>14. QED
  BY <1>1, <1>2, <1>8, <1>9, <1>10, <1>12, <1>13 DEF RegistryOk, Given

LEMMA DownloadCommitsKeepsRegistry ==
  ASSUME RegistryOk, NEW d \in Downloads, DownloadCommits(d)
  PROVE  RegistryOk'
<1> DEFINE i == dl[d].id
<1>1. /\ dl[d].pc = "staged" /\ i \in listed /\ fileOf[i] = dl[d].expect
      /\ fileOf' = [fileOf EXCEPT ![i] = dl[d].ver]
      /\ dl' = [dl EXCEPT ![d].pc = "written"]
      /\ UNCHANGED <<listed, issued, files, begun, owner, dirty, lock, rm>>
  BY DEF DownloadCommits, SameRevision, elsewhere
<1>2. /\ RegistryTypes /\ LockTypes /\ files \subseteq Given /\ NamedOk /\ DownloadsOk
      /\ RemovalOk /\ NothingLeftBehind /\ DownloadOk(d)
  BY DEF RegistryOk, DownloadsOk
<1>3. /\ rm.pc = "idle" /\ \A e \in Downloads : e # d => ~Held(e)
      /\ Held(d)
  BY <1>1, <1>2, HeldOnce DEF Held
<1>4. /\ dl[d].ver \in files /\ owner[dl[d].ver] = i /\ i \in Profiles
      /\ dl[d].ver \in 0..MaxVersion
  BY <1>1, <1>2 DEF DownloadOk, RegistryTypes, LockTypes, DownloadRecord
<1> DEFINE r == [dl[d] EXCEPT !.pc = "written"]
<1>5. dl' = [dl EXCEPT ![d] = r] /\ dl[d] \in DownloadRecord
  BY <1>1, <1>2 DEF LockTypes
<1>6. /\ r.pc = "written" /\ r.id = i /\ r.expect = dl[d].expect /\ r.ver = dl[d].ver
      /\ r \in DownloadRecord
  BY <1>5 DEF DownloadRecord
<1> HIDE DEF r
<1>7. /\ dl' \in [Downloads -> DownloadRecord] /\ dl'[d] = r
      /\ \A e \in Downloads : e # d => dl'[e] = dl[e]
  BY <1>2, <1>5, <1>6 DEF LockTypes
<1>8. /\ fileOf'[i] = dl[d].ver /\ \A p \in Profiles : p # i => fileOf'[p] = fileOf[p]
      /\ fileOf' \in [Profiles -> 0..MaxVersion]
  BY <1>1, <1>2, <1>4 DEF RegistryTypes
<1>9. RegistryTypes'
  BY <1>1, <1>2, <1>8 DEF RegistryTypes
<1>10. LockTypes'
  <2>1. Held(d)' /\ \A e \in Downloads : e # d => (Held(e)' <=> Held(e))
    BY <1>6, <1>7 DEF Held
  <2>2. QED
    BY <1>1, <1>2, <1>3, <1>7, <2>1 DEF LockTypes
<1>11. NamedOk' /\ RemovalOk'
  <2>1. listed \subseteq Profiles
    BY <1>2 DEF RegistryTypes
  <2>2. NamedOk'
    BY <1>1, <1>2, <1>4, <1>8, <2>1 DEF NamedOk
  <2>3. RemovalOk'
    BY <1>1, <1>3 DEF RemovalOk
  <2>4. QED
    BY <2>2, <2>3
<1>12. ASSUME NEW e \in Downloads PROVE DownloadOk(e)'
  <2>1. CASE e = d
    BY <1>1, <1>2, <1>6, <1>7, <1>8, <2>1 DEF DownloadOk, Given
  <2>2. CASE e # d
    <3>1. DownloadOk(e) /\ dl'[e] = dl[e] /\ dl[e].pc # "staged" /\ dl[e].pc # "written"
      BY <1>2, <1>3, <1>7, <2>2 DEF DownloadsOk, Held
    <3>2. QED
      BY <1>1, <3>1 DEF DownloadOk, Given
  <2>3. QED
    BY <2>1, <2>2
<1>13. DownloadsOk'
  <2>1. \A e \in Downloads : dl'[e].ver = dl[e].ver /\ (dl'[e].pc # "idle" => dl[e].pc # "idle")
    BY <1>1, <1>6, <1>7
  <2>2. QED
    BY <1>2, <1>12, <2>1 DEF DownloadsOk
<1>14. NothingLeftBehind'
  <2>1. SUFFICES ASSUME ~dirty', NEW v \in files'
                 PROVE  \/ \E p \in listed : fileOf'[p] = v
                        \/ \E e \in Downloads : dl'[e].pc = "written" /\ dl'[e].expect = v
    BY <1>1 DEF NothingLeftBehind
  <2>2. \/ \E p \in listed : fileOf[p] = v
        \/ dl[d].ver = v
    BY <1>1, <1>2, <1>3, <2>1 DEF NothingLeftBehind, Held
  <2>3. listed \subseteq Profiles
    BY <1>2 DEF RegistryTypes
  <2>4. QED
    BY <1>1, <1>6, <1>7, <1>8, <2>2, <2>3
<1>15. QED
  BY <1>1, <1>2, <1>9, <1>10, <1>11, <1>13, <1>14 DEF RegistryOk, Given

\* A removal moves on without a file being touched.
LEMMA RemovalMovesKeepsRegistry ==
  ASSUME RegistryOk, NEW r \in RemovalRecord, rm' = r,
         UNCHANGED <<registry, dl>>,
         \/ lock' = "remove" /\ r.pc # "idle" /\ lock \in {Free, "remove"}
         \/ lock' = Free /\ r.pc = "idle" /\ rm.pc \in {"clear", "write"}
         \/ lock' = lock /\ r.pc = "idle" /\ rm.pc = "idle",
         r.pc \in {"idle", "clear", "write"},
         r.pc # "idle" => r.id \in listed /\ r.path = fileOf[r.id],
         rm.pc # "delete"
  PROVE  RegistryOk'
<1>1. UNCHANGED <<listed, fileOf, issued, files, begun, owner, dirty, dl>>
  BY DEF registry
<1>2. RegistryTypes' /\ (files \subseteq Given)' /\ NamedOk'
  BY <1>1 DEF RegistryOk, RegistryTypes, Given, NamedOk
<1>3. DownloadsOk' /\ NothingLeftBehind'
  BY <1>1 DEF RegistryOk, DownloadsOk, DownloadOk, Given, NothingLeftBehind
<1>4. RemovalOk'
  BY <1>1 DEF RemovalOk
<1>5. LockTypes'
  BY <1>1, HeldOnce DEF RegistryOk, LockTypes, Held, Free
<1>6. QED
  BY <1>2, <1>3, <1>4, <1>5 DEF RegistryOk

LEMMA RemovingKeepsRegistry ==
  ASSUME RegistryOk,
         \/ \E p \in Profiles : RemoveBegins(p)
         \/ RemoveClears \/ RemoveWrites \/ RemoveUndone \/ RemoveEnds
  PROVE  RegistryOk'
<1>1. /\ RegistryTypes /\ LockTypes /\ files \subseteq Given /\ NamedOk /\ DownloadsOk
      /\ RemovalOk /\ NothingLeftBehind /\ rm \in RemovalRecord
      /\ rm.pc # "idle" => lock = "remove"
  BY DEF RegistryOk, LockTypes
<1>2. NoRemoval \in RemovalRecord /\ NoRemoval.pc = "idle"
  BY StoreAssumption DEF NoRemoval, RemovalRecord
<1>3. CASE \E p \in Profiles : RemoveBegins(p)
  <2>1. PICK p \in Profiles : RemoveBegins(p)
    BY <1>3
  <2> DEFINE r == [pc |-> "clear", id |-> p, was |-> active = p, path |-> fileOf[p]]
  <2>2. /\ lock = Free /\ p \in listed /\ lock' = "remove" /\ rm' = r
        /\ UNCHANGED <<registry, dl>>
    BY <2>1 DEF RemoveBegins, away
  <2>3. (active = p) \in BOOLEAN /\ fileOf[p] \in 0..MaxVersion
    BY <1>1 DEF RegistryTypes
  <2>4. r \in RemovalRecord /\ r.pc = "clear" /\ r.id = p /\ r.path = fileOf[p]
    BY <2>3 DEF RemovalRecord
  <2> HIDE DEF r
  <2>5. rm.pc # "delete"
    BY <1>1, <2>2 DEF Free
  <2>6. QED
    BY <2>2, <2>4, <2>5, RemovalMovesKeepsRegistry
<1>4. CASE RemoveClears
  <2>1. rm.pc = "clear" /\ UNCHANGED <<registry, dl>>
    BY <1>4 DEF RemoveClears, away
  <2>2. CASE rm' = [rm EXCEPT !.pc = "write"] /\ UNCHANGED lock
    <3> DEFINE r == [rm EXCEPT !.pc = "write"]
    <3>1. r \in RemovalRecord /\ r.pc = "write" /\ r.id = rm.id /\ r.path = rm.path
      BY <1>1 DEF RemovalRecord
    <3>2. rm' = r
      BY <2>2
    <3> HIDE DEF r
    <3>3. r.id \in listed /\ r.path = fileOf[r.id]
      BY <1>1, <2>1, <3>1 DEF RemovalOk
    <3>4. QED
      BY <1>1, <2>1, <2>2, <3>1, <3>2, <3>3, RemovalMovesKeepsRegistry
  <2>3. CASE lock' = Free /\ rm' = NoRemoval
    BY <1>2, <2>1, <2>3, RemovalMovesKeepsRegistry
  <2>4. QED
    BY <1>4, <2>2, <2>3 DEF RemoveClears
<1>5. CASE RemoveUndone
  BY <1>2, <1>5, RemovalMovesKeepsRegistry DEF RemoveUndone, away
<1>6. CASE RemoveWrites
  <2> DEFINE i == rm.id
  <2>1. /\ rm.pc = "write" /\ listed' = listed \ {i} /\ fileOf' = [fileOf EXCEPT ![i] = 0]
        /\ rm' = [rm EXCEPT !.pc = "delete"]
        /\ UNCHANGED <<issued, files, begun, owner, dirty, lock, dl>>
    BY <1>6 DEF RemoveWrites, away
  <2>2. i \in listed /\ rm.path = fileOf[i] /\ listed \subseteq Profiles
    BY <1>1, <2>1 DEF RemovalOk, RegistryTypes
  <2>3. /\ rm'.pc = "delete" /\ rm'.path = rm.path /\ rm' \in RemovalRecord
    BY <1>1, <2>1 DEF RemovalRecord
  <2>4. /\ fileOf'[i] = 0 /\ (\A p \in Profiles : p # i => fileOf'[p] = fileOf[p])
        /\ fileOf' \in [Profiles -> 0..MaxVersion]
    BY <1>1, <2>1, <2>2, StoreAssumption DEF RegistryTypes
  <2>5. RegistryTypes'
    BY <1>1, <2>1, <2>2, <2>4 DEF RegistryTypes
  <2>6. LockTypes'
    BY <1>1, <2>1, <2>3 DEF LockTypes, Held
  <2>7. NamedOk'
    BY <1>1, <2>1, <2>2, <2>4 DEF NamedOk
  <2>8. RemovalOk'
    BY <1>1, <2>1, <2>2, <2>3, <2>4 DEF RemovalOk, NamedOk
  <2>9. \A d \in Downloads : ~Held(d)
    BY <1>1, <2>1, HeldOnce
  <2>10. DownloadsOk'
    BY <1>1, <2>1, <2>9 DEF DownloadsOk, DownloadOk, Given, Held
  <2>11. NothingLeftBehind'
    <3>1. SUFFICES ASSUME ~dirty', NEW v \in files'
                   PROVE  (\E p \in listed' : fileOf'[p] = v) \/ rm'.path = v
      BY <2>3 DEF NothingLeftBehind
    <3>2. \E p \in listed : fileOf[p] = v
      BY <1>1, <2>1, <2>9, <3>1 DEF NothingLeftBehind, Held
    <3>3. QED
      BY <2>1, <2>2, <2>3, <2>4, <3>2
  <2>12. QED
    BY <1>1, <2>1, <2>5, <2>6, <2>7, <2>8, <2>10, <2>11 DEF RegistryOk, Given
<1>7. CASE RemoveEnds
  <2>1. /\ rm.pc = "delete" /\ DropFile(rm.path) /\ lock' = Free /\ rm' = NoRemoval
        /\ UNCHANGED <<listed, fileOf, issued, begun, owner, dl>>
    BY <1>7 DEF RemoveEnds, away
  <2>2. /\ files' \subseteq files /\ files \ {rm.path} \subseteq files' /\ dirty' \in BOOLEAN
        /\ ~dirty' => ~dirty /\ rm.path \notin files'
    BY <1>1, <2>1, DropFileTypes DEF RegistryTypes
  <2>3. RegistryTypes' /\ (files \subseteq Given)'
    BY <1>1, <2>1, <2>2 DEF RegistryTypes, Given
  <2>4. LockTypes'
    BY <1>1, <1>2, <2>1, HeldOnce DEF LockTypes, Held
  <2>5. NamedOk' /\ RemovalOk'
    BY <1>1, <1>2, <2>1, <2>2 DEF NamedOk, RemovalOk
  <2>6. \A d \in Downloads : ~Held(d)
    BY <1>1, <2>1, HeldOnce
  <2>7. DownloadsOk'
    BY <1>1, <2>1, <2>2, <2>6 DEF DownloadsOk, DownloadOk, Given, Held
  <2>8. NothingLeftBehind'
    BY <1>1, <2>1, <2>2, <2>6 DEF NothingLeftBehind, Held
  <2>9. QED
    BY <1>1, <2>3, <2>4, <2>5, <2>7, <2>8 DEF RegistryOk
<1>8. QED
  BY <1>3, <1>4, <1>5, <1>6, <1>7

LEMMA GuiDiesKeepsRegistry ==
  ASSUME RegistryOk, GuiDies
  PROVE  RegistryOk'
<1>1. /\ lock' = Free /\ dl' = [d \in Downloads |-> NoDownload] /\ rm' = NoRemoval
      /\ dirty' = (dirty \/ rm.pc = "delete" \/ \E d \in Downloads : dl[d].pc \in {"staged", "written"})
      /\ UNCHANGED <<listed, fileOf, issued, files, begun, owner>>
  BY DEF GuiDies
<1>2. /\ RegistryTypes /\ LockTypes /\ files \subseteq Given /\ NamedOk /\ DownloadsOk
      /\ RemovalOk /\ NothingLeftBehind
  BY DEF RegistryOk
<1>3. /\ NoDownload \in DownloadRecord /\ NoDownload.pc = "idle"
      /\ NoRemoval \in RemovalRecord /\ NoRemoval.pc = "idle"
  BY StoreAssumption DEF NoDownload, DownloadRecord, NoRemoval, RemovalRecord
<1>4. RegistryTypes' /\ (files \subseteq Given)'
  <2>1. dirty' \in BOOLEAN
    BY <1>1
  <2>2. QED
    BY <1>1, <1>2, <2>1 DEF RegistryTypes, Given
<1>5. \A d \in Downloads : dl'[d].pc = "idle" /\ ~Held(d)'
  BY <1>1, <1>3 DEF Held
<1>6. LockTypes'
  BY <1>1, <1>2, <1>3, <1>5, HeldOnce DEF LockTypes, Free
<1>7. NamedOk' /\ RemovalOk'
  BY <1>1, <1>2, <1>3 DEF NamedOk, RemovalOk
<1>8. DownloadsOk'
  BY <1>5 DEF DownloadsOk, DownloadOk
<1>9. NothingLeftBehind'
  <2>1. ~dirty' => /\ ~dirty /\ rm.pc # "delete"
                   /\ \A d \in Downloads : dl[d].pc # "staged" /\ dl[d].pc # "written"
    BY <1>1
  <2>2. QED
    BY <1>1, <1>2, <2>1 DEF NothingLeftBehind
<1>10. QED
  BY <1>4, <1>6, <1>7, <1>8, <1>9 DEF RegistryOk

\* The steps of the second half of the system change the lock at most from
\* the GUI's wait for an answer to free, or back.
Elsewhere ==
    \/ \E p \in Profiles : Request(p)
    \/ TimesOut \/ ApplyBegins \/ ApplyReads \/ ApplyUnread
    \/ \E f \in GeoFiles : ApplyReplaces(f)
    \/ ApplyUnshipped \/ ApplyRetryFails \/ ApplyLoads \/ ApplyRejected \/ ApplySlow
    \/ ApplyRepairs \/ ApplyVerifies \/ ApplyUnverified \/ ApplyWritesBase
    \/ ApplyWritesStable \/ ApplyEnds \/ ApplyRollsBack \/ ApplyUndoes
    \/ SwitchTun \/ StartReads \/ StartWrites \/ StartSpawns \/ StartFails
    \/ CoreExits \/ ServiceDies

LEMMA ElsewhereLeavesRegistry ==
  ASSUME Elsewhere
  PROVE  /\ UNCHANGED <<listed, fileOf, issued, files, begun, owner, dirty, dl, rm>>
         /\ lock' = lock \/ (lock \in {Free, "apply"} /\ lock' \in {Free, "apply"})
<1> USE DEF others, places, registry, Answered, Refused, RefusedRestored
<1>1. CASE \/ \E p \in Profiles : Request(p)
           \/ TimesOut \/ ApplyBegins \/ ApplyReads \/ ApplyUnread
           \/ \E f \in GeoFiles : ApplyReplaces(f)
  BY <1>1 DEF Request, TimesOut, ApplyBegins, ApplyReads, ApplyUnread, ApplyReplaces
<1>2. CASE ApplyUnshipped \/ ApplyRetryFails \/ ApplyLoads \/ ApplyRejected \/ ApplySlow
  BY <1>2 DEF ApplyUnshipped, ApplyRetryFails, ApplyLoads, ApplyRejected, ApplySlow
<1>3. CASE ApplyRepairs \/ ApplyVerifies \/ ApplyUnverified \/ ApplyWritesBase
  BY <1>3 DEF ApplyRepairs, ApplyVerifies, ApplyUnverified, ApplyWritesBase
<1>4. CASE ApplyWritesStable \/ ApplyEnds \/ ApplyRollsBack \/ ApplyUndoes
  BY <1>4 DEF ApplyWritesStable, ApplyEnds, ApplyRollsBack, ApplyUndoes
<1>5. CASE \/ SwitchTun \/ StartReads \/ StartWrites \/ StartSpawns \/ StartFails
           \/ CoreExits \/ ServiceDies
  BY <1>5 DEF SwitchTun, StartReads, StartWrites, StartSpawns, StartFails, CoreExits, ServiceDies
<1>6. QED
  BY <1>1, <1>2, <1>3, <1>4, <1>5 DEF Elsewhere

LEMMA RegistryInductive ==
  ASSUME RegistryOk, [Next]_vars
  PROVE  RegistryOk'
<1>1. CASE Elsewhere
  BY <1>1, ElsewhereLeavesRegistry, RegistryUntouched DEF registry
<1>2. CASE \E p \in Profiles : Add(p) \/ RemoveBegins(p)
  BY <1>2, AddKeepsRegistry, RemovingKeepsRegistry
<1>3. CASE RemoveClears \/ RemoveWrites \/ RemoveUndone \/ RemoveEnds
  BY <1>3, RemovingKeepsRegistry
<1>4. CASE \E d \in Downloads :
             \/ \E p \in Profiles : DownloadBegins(d, p)
             \/ DownloadFails(d) \/ DownloadStages(d) \/ DownloadGivesUp(d)
             \/ DownloadCommits(d) \/ DownloadEnds(d)
  BY <1>4, DownloadBeginsKeepsRegistry, DownloadLeavesKeepsRegistry,
     DownloadStagesKeepsRegistry, DownloadCommitsKeepsRegistry
<1>5. CASE GuiDies
  BY <1>5, GuiDiesKeepsRegistry
<1>6. CASE UNCHANGED vars
  BY <1>6, RegistryUntouched DEF vars
<1>7. QED
  BY <1>1, <1>2, <1>3, <1>4, <1>5, <1>6 DEF Next, Elsewhere

\* profiles.json names files that are there and hold the profile's own
\* subscription, and nothing is left behind that it does not name, whatever
\* download, removal, failing write or crash comes in between.
THEOREM RegistryIsTrue == Spec => []RegistryMatchesFiles
<1>1. RegistryOk => RegistryMatchesFiles
  <2> SUFFICES ASSUME RegistryOk PROVE RegistryMatchesFiles
    OBVIOUS
  <2>1. ~dirty /\ lock \in {Free, "apply"} => files \subseteq {fileOf[p] : p \in listed}
    BY HeldOnce DEF RegistryOk, NothingLeftBehind, Held
  <2>2. QED
    BY <2>1 DEF RegistryOk, NamedOk, RegistryMatchesFiles
<1>2. QED
  BY RegistryInit, RegistryInductive, <1>1, PTL DEF Spec

\* No download puts a profile back to an earlier subscription, or back at all.
NoneGoesBack ==
    /\ \A p \in listed' : fileOf'[p] >= fileOf[p]
    /\ (listed' \ listed) \cap issued = {}

LEMMA NextNeverGoesBack ==
  ASSUME RegistryOk, [Next]_vars
  PROVE  NoneGoesBack
<1>1. /\ fileOf \in [Profiles -> 0..MaxVersion] /\ listed \subseteq Profiles
      /\ \A p \in listed : fileOf[p] \in Int
  BY DEF RegistryOk, RegistryTypes
<1>2. ASSUME UNCHANGED <<listed, fileOf>> PROVE NoneGoesBack
  BY <1>1, <1>2 DEF NoneGoesBack
<1>3. CASE Elsewhere \/ UNCHANGED vars \/ GuiDies \/ RemoveClears \/ RemoveUndone \/ RemoveEnds
  BY <1>2, <1>3, ElsewhereLeavesRegistry
     DEF vars, registry, GuiDies, RemoveClears, RemoveUndone, RemoveEnds
<1>4. CASE \E p \in Profiles : RemoveBegins(p)
  BY <1>2, <1>4 DEF RemoveBegins, registry
<1>5. CASE \E d \in Downloads :
             \/ \E p \in Profiles : DownloadBegins(d, p)
             \/ DownloadFails(d) \/ DownloadStages(d) \/ DownloadGivesUp(d) \/ DownloadEnds(d)
  BY <1>2, <1>5
     DEF DownloadBegins, DownloadFails, DownloadStages, DownloadGivesUp, DownloadEnds, registry
<1>6. CASE \E p \in Profiles : Add(p)
  <2>1. PICK p \in Profiles : Add(p)
    BY <1>6
  <2>2. listed' = listed \cup {p} /\ p \notin issued /\ fileOf' = fileOf
    BY <2>1 DEF Add
  <2>3. fileOf[p] \in Int
    BY <1>1
  <2>4. QED
    BY <1>1, <2>2, <2>3 DEF NoneGoesBack
<1>7. CASE RemoveWrites
  <2>1. listed' = listed \ {rm.id} /\ fileOf' = [fileOf EXCEPT ![rm.id] = 0]
    BY <1>7 DEF RemoveWrites
  <2>2. \A p \in listed' : fileOf'[p] = fileOf[p]
    BY <1>1, <2>1
  <2>3. QED
    BY <1>1, <2>1, <2>2 DEF NoneGoesBack
<1>8. CASE \E d \in Downloads : DownloadCommits(d)
  <2>1. PICK d \in Downloads : DownloadCommits(d)
    BY <1>8
  <2>2. /\ dl[d].pc = "staged" /\ dl[d].id \in listed /\ fileOf[dl[d].id] = dl[d].expect
        /\ listed' = listed /\ fileOf' = [fileOf EXCEPT ![dl[d].id] = dl[d].ver]
    BY <2>1 DEF DownloadCommits, SameRevision
  <2>3. dl[d].expect < dl[d].ver /\ dl[d].expect \in Int /\ dl[d].ver \in Int
    BY <2>2 DEF RegistryOk, DownloadsOk, DownloadOk, LockTypes, DownloadRecord
  <2>4. \A p \in listed : fileOf'[p] >= fileOf[p]
    BY <1>1, <2>2, <2>3
  <2>5. QED
    BY <2>2, <2>4 DEF NoneGoesBack
<1>9. QED
  BY <1>3, <1>4, <1>5, <1>6, <1>7, <1>8 DEF Next, Elsewhere

\* No profile goes back to a subscription requested earlier than the one it
\* has, and one that was removed does not come back.
THEOREM NewestDownloadWins == Spec => NewestWins
<1>1. RegistryOk /\ [Next]_vars => [NoneGoesBack]_vars
  BY NextNeverGoesBack
<1>2. QED
  BY RegistryInit, RegistryInductive, <1>1, PTL DEF Spec, NewestWins, NoneGoesBack

-----------------------------------------------------------------------------
(* The runtime: what is known of the files, the core and the apply.         *)

ApplyPcs == Rests \cup {"build", "geo", "put", "retry", "verify", "base", "stable", "active", "undo"}
FileRecords == [base : Configs, stable : Configs, active : Profiles \cup {NoProfile}]
ApplyRecord == [pc : ApplyPcs, id : Profiles \cup {NoProfile}, ver : Configs,
                todo : SUBSET GeoFiles, repair : BOOLEAN, geo : GeoStates, clean : BOOLEAN,
                was : FileRecords, ran : Configs, old : FileRecords]
StartRecord == [pc : {"idle", "write", "spawn"}, ver : Configs]

RuntimeTypes ==
    /\ asked \in Profiles \cup {NoProfile} /\ active \in Profiles \cup {NoProfile}
    /\ base \in Configs /\ stable \in Configs /\ running \in Configs
    /\ served \in BOOLEAN /\ torn \in BOOLEAN /\ geo \in GeoStates
    /\ ap \in ApplyRecord /\ st \in StartRecord

\* A core that starts is not there yet, and where a core runs, is started or is
\* given a configuration there is a stable configuration.
StoredOk ==
    /\ st.pc # "idle" => running = Absent
    /\ running # Absent \/ st.pc = "spawn" \/ Applying => stable # Absent
    /\ Applying => /\ ap.was.stable # Absent /\ ap.ver \in Given
                   /\ ap.pc \in {"base", "stable", "active"} => ap.old.stable # Absent

\* The files f and a core that runs `run' tell of the same profile.
Agree(f, run) ==
    /\ f.base # Absent => f.stable = f.base
    /\ run \in {Absent, f.stable}
    /\ f.active # NoProfile =>
         f.active \in listed /\ f.base \in Given /\ owner[f.base] = f.active

\* Between two applies, also in the middle of a removal or a start.
RestOk ==
    ~Applying /\ ~torn =>
        /\ Agree(Files, running)
        /\ st.pc = "write" => st.ver = base
        /\ rm.pc = "write" => active # rm.id
        /\ rm.pc \in {"clear", "write"} /\ rm.was => base \in Given /\ owner[base] = rm.id

\* How far an apply that nothing disturbs has got.
Unloaded == {"build", "geo", "put", "retry"}
Kept == base = ap.was.base /\ stable = ap.was.stable /\ active = ap.was.active
StageOk ==
    /\ running \in {Absent, IF ap.pc \in Unloaded THEN ap.ran ELSE ap.ver}
    /\ ap.pc \in Unloaded \cup {"verify", "base"} => Kept
    /\ ap.pc \in {"base", "stable", "active"} => ap.old = ap.was
    /\ ap.pc \in {"stable", "active"} => base = ap.ver
    /\ ap.pc = "active" => stable = ap.ver
    /\ ap.pc = "undo" /\ ~torn => Kept
    /\ ap.pc = "put" => geo = ap.geo \/ (Incomplete /\ geo = Shipped)
    /\ ap.pc = "geo" => /\ ap.repair \/ Incomplete
                        /\ \A f \in GeoFiles \ ap.todo : geo[f] = "shipped"

ApplyOk ==
    Applying /\ ap.clean =>
        /\ st.pc = "idle" /\ rm.pc = "idle"
        /\ ap.id \in listed /\ owner[ap.ver] = ap.id /\ ap.ran # Absent
        /\ ~torn => Agree(ap.was, ap.ran)
        /\ StageOk

RuntimeOk == RuntimeTypes /\ StoredOk /\ RestOk /\ ApplyOk

LEMMA Values ==
    /\ Absent \in Configs /\ 0 \in Configs /\ Unread \in FileRecords
    /\ Shipped \in GeoStates /\ 0 # Absent /\ Given \subseteq Int /\ Absent \notin Given
<1>1. Absent \in Configs /\ 0 \in Configs /\ 0 # Absent /\ Given \subseteq Int /\ Absent \notin Given
  BY StoreAssumption DEF Absent, Configs, Given
<1>2. Unread \in FileRecords
  BY <1>1 DEF Unread, FileRecords
<1>3. Shipped \in GeoStates
  BY DEF Shipped, GeoStates, GeoKinds
<1>4. QED
  BY <1>1, <1>2, <1>3

LEMMA NoApplyForm ==
  ASSUME NEW pc \in ApplyPcs
  PROVE  /\ NoApply(pc) \in ApplyRecord /\ NoApply(pc).pc = pc /\ NoApply(pc).clean = TRUE
         /\ NoApply(pc).todo = {} /\ NoApply(pc).repair = FALSE
         /\ NoApply(pc).geo = Shipped /\ NoApply(pc).old = Unread
<1>1. Unread \in FileRecords /\ Shipped \in GeoStates /\ Absent \in Configs
  BY Values
<1> HIDE DEF Unread, Shipped, Absent
<1>2. QED
  BY <1>1 DEF NoApply, ApplyRecord

LEMMA RuntimeInit == Init => RuntimeOk
<1> SUFFICES ASSUME Init PROVE RuntimeOk
  OBVIOUS
<1>1. /\ listed = {} /\ asked = NoProfile /\ ap = NoApply("idle") /\ served \in BOOLEAN
      /\ base = Absent /\ active = NoProfile /\ running = Absent /\ st = NoStart
      /\ stable \in {Absent, 0} /\ rm = NoRemoval
      /\ geo \in [GeoFiles -> {"absent", "own"}] /\ torn = FALSE
  BY DEF Init
<1>2. ap \in ApplyRecord /\ ap.pc = "idle"
  BY <1>1, NoApplyForm DEF ApplyPcs, Rests
<1>3. geo \in GeoStates
  BY <1>1 DEF GeoStates, GeoKinds
<1>4. RuntimeTypes
  BY <1>1, <1>2, <1>3, Values DEF RuntimeTypes, StartRecord, NoStart
<1>5. ~Applying
  BY <1>2 DEF Applying, Rests
<1>6. StoredOk /\ ApplyOk
  BY <1>1, <1>5 DEF StoredOk, ApplyOk, NoStart
<1>7. RestOk
  BY <1>1, Values DEF RestOk, Agree, Files, NoStart, NoRemoval
<1>8. QED
  BY <1>4, <1>6, <1>7 DEF RuntimeOk

\* Steps of the registry that add to it.
LEMMA RuntimeUntouched ==
  ASSUME RuntimeOk, UNCHANGED <<rm, asked, ap, served, base, active, stable, running, st, geo, torn>>,
         listed \subseteq listed', Given \subseteq Given', \A v \in Given : owner'[v] = owner[v]
  PROVE  RuntimeOk'
<1>1. RuntimeTypes /\ StoredOk /\ RestOk /\ ApplyOk
  BY DEF RuntimeOk
<1>2. RuntimeTypes'
  BY <1>1 DEF RuntimeTypes
<1>3. Applying' = Applying
  BY DEF Applying
<1>4. StoredOk'
  BY <1>1, <1>3 DEF StoredOk
<1>5. RestOk'
  BY <1>1, <1>3 DEF RestOk, Agree, Files
<1>6. ApplyOk'
  <2>1. StageOk => StageOk'
    BY DEF StageOk, Kept, Incomplete
  <2>2. Applying => owner'[ap.ver] = owner[ap.ver]
    BY <1>1 DEF StoredOk
  <2>3. Agree(ap.was, ap.ran) => Agree(ap.was, ap.ran)'
    BY DEF Agree
  <2>4. QED
    BY <1>1, <1>3, <2>1, <2>2, <2>3 DEF ApplyOk
<1>7. QED
  BY <1>2, <1>4, <1>5, <1>6 DEF RuntimeOk

\* An apply is over, with what it has left behind.
LEMMA ApplyOverKeepsRuntime ==
  ASSUME RuntimeOk, NEW pc \in Rests, ap' = NoApply(pc),
         UNCHANGED <<listed, begun, owner, rm, served>>, st' \in {st, NoStart},
         asked' \in Profiles \cup {NoProfile}, active' \in Profiles \cup {NoProfile},
         base' \in Configs, stable' \in Configs, running' \in Configs,
         geo' \in GeoStates, torn' \in BOOLEAN,
         st'.pc # "idle" => running' = Absent,
         running' # Absent \/ st'.pc = "spawn" => stable' # Absent,
         ~torn' => rm.pc = "idle" /\ st'.pc = "idle" /\ Agree(Files, running)'
  PROVE  RuntimeOk'
<1>1. ap'.pc = pc /\ ap' \in ApplyRecord
  BY NoApplyForm DEF ApplyPcs
<1>2. ~Applying'
  BY <1>1 DEF Applying
<1>3. RuntimeTypes'
  <2>1. st' \in StartRecord
    BY Values DEF RuntimeOk, RuntimeTypes, NoStart, StartRecord
  <2>2. QED
    BY <1>1, <2>1 DEF RuntimeTypes, RuntimeOk
<1>4. StoredOk' /\ ApplyOk'
  BY <1>2 DEF StoredOk, ApplyOk
<1>5. RestOk'
  BY DEF RestOk
<1>6. QED
  BY <1>3, <1>4, <1>5 DEF RuntimeOk

\* What an apply is about does not change while it goes on.
SameApply(r) == /\ r.id = ap.id /\ r.ver = ap.ver /\ r.clean = ap.clean
                /\ r.was = ap.was /\ r.ran = ap.ran

\* An apply goes on.
LEMMA ApplyGoesOnKeepsRuntime ==
  ASSUME RuntimeOk, Applying, NEW r \in ApplyRecord, ap' = r, SameApply(r), r.pc \notin Rests,
         UNCHANGED <<listed, begun, owner, rm, served, asked, st>>,
         active' \in Profiles \cup {NoProfile},
         base' \in Configs, stable' \in Configs, running' \in Configs,
         geo' \in GeoStates, torn' \in BOOLEAN, torn => torn',
         running' # Absent => running # Absent, stable' # Absent,
         r.pc \in {"base", "stable", "active"} => r.old.stable # Absent,
         ap.clean => StageOk'
  PROVE  RuntimeOk'
<1>1. RuntimeTypes /\ StoredOk /\ RestOk /\ ApplyOk
  BY DEF RuntimeOk
<1>2. Applying'
  BY DEF Applying
<1>3. RuntimeTypes'
  BY <1>1 DEF RuntimeTypes
<1>4. StoredOk'
  BY <1>1, <1>2 DEF StoredOk, SameApply, Given
<1>5. RestOk'
  BY <1>2 DEF RestOk
<1>6. ApplyOk'
  <2>1. SUFFICES ASSUME ap'.clean PROVE ApplyOk'
    BY DEF ApplyOk
  <2>2. ap.clean /\ ap'.id = ap.id /\ ap'.ver = ap.ver /\ ap'.was = ap.was /\ ap'.ran = ap.ran
    BY <2>1 DEF SameApply
  <2>3. /\ st.pc = "idle" /\ rm.pc = "idle" /\ ap.id \in listed /\ owner[ap.ver] = ap.id
        /\ ap.ran # Absent /\ (~torn => Agree(ap.was, ap.ran))
    BY <1>1, <2>2 DEF ApplyOk
  <2>4. ~torn' => Agree(ap.was, ap.ran)'
    BY <1>1, <2>2, <2>3 DEF RuntimeTypes, Agree, Given
  <2>5. QED
    BY <2>2, <2>3, <2>4 DEF ApplyOk
<1>7. QED
  BY <1>3, <1>4, <1>5, <1>6 DEF RuntimeOk

LEMMA ApplyFacts ==
  ASSUME RuntimeOk, Applying
  PROVE  /\ ap \in ApplyRecord /\ ap.ver \in Configs /\ ap.ver # Absent
         /\ stable # Absent /\ ap.was.stable # Absent /\ ap.was \in FileRecords
         /\ ap.id \in Profiles \cup {NoProfile} /\ ap.geo \in GeoStates
         /\ asked \in Profiles \cup {NoProfile} /\ active \in Profiles \cup {NoProfile}
         /\ base \in Configs /\ stable \in Configs /\ running \in Configs
         /\ geo \in GeoStates /\ torn \in BOOLEAN
         /\ ap.pc \in {"base", "stable", "active"} => ap.old.stable # Absent
         /\ ap.clean => /\ st.pc = "idle" /\ rm.pc = "idle" /\ StageOk
                        /\ ap.id \in listed /\ ap.ver \in Given /\ owner[ap.ver] = ap.id
                        /\ ap.ran # Absent /\ (~torn => Agree(ap.was, ap.ran))
<1>1. ap \in ApplyRecord /\ ap.ver \in Given
  BY DEF RuntimeOk, RuntimeTypes, StoredOk
<1>2. ap.ver \in Configs /\ ap.was \in FileRecords /\ ap.id \in Profiles \cup {NoProfile}
      /\ ap.geo \in GeoStates /\ ap.ver # Absent
  BY <1>1, Values DEF ApplyRecord
<1>3. QED
  BY <1>1, <1>2 DEF RuntimeOk, RuntimeTypes, StoredOk, ApplyOk

LEMMA ApplyReadsKeepsRuntime ==
  ASSUME RuntimeOk, ApplyReads
  PROVE  RuntimeOk'
<1>1. /\ ap.pc = "build"
      /\ UNCHANGED <<listed, begun, owner, rm, served, asked, st, base, active, stable, running, geo, torn>>
  BY DEF ApplyReads, others, registry, runtime
<1>2. Applying
  BY <1>1 DEF Applying, Rests
<1>3. ap \in ApplyRecord /\ geo \in GeoStates /\ (ap.clean => StageOk)
  BY <1>2, ApplyFacts
<1>4. CASE ap' = [ap EXCEPT !.pc = "geo", !.todo = GeoFiles, !.geo = geo]
  <2> DEFINE r == [ap EXCEPT !.pc = "geo", !.todo = GeoFiles, !.geo = geo]
  <2>1. /\ r \in ApplyRecord /\ SameApply(r) /\ r.pc = "geo"
        /\ r.geo = geo /\ r.todo = GeoFiles
    BY <1>3 DEF ApplyRecord, ApplyPcs, SameApply
  <2>2. ap' = r
    BY <1>4
  <2>5. \E f \in GeoFiles : geo[f] = "absent"
    <3>1. [ap EXCEPT !.pc = "put", !.geo = geo].pc = "put"
      BY <1>3 DEF ApplyRecord
    <3>2. QED
      BY <2>1, <2>2, <3>1 DEF ApplyReads
  <2> HIDE DEF r
  <2>3. ap.clean => StageOk'
    BY <1>1, <1>3, <2>1, <2>2, <2>5 DEF StageOk, Kept, SameApply, Unloaded, Incomplete
  <2>4. QED
    BY <1>1, <1>2, <2>1, <2>2, <2>3, ApplyFacts, ApplyGoesOnKeepsRuntime DEF Rests
<1>5. CASE ap' = [ap EXCEPT !.pc = "put", !.geo = geo]
  <2> DEFINE r == [ap EXCEPT !.pc = "put", !.geo = geo]
  <2>1. r \in ApplyRecord /\ SameApply(r) /\ r.pc = "put" /\ r.geo = geo
    BY <1>3 DEF ApplyRecord, ApplyPcs, SameApply
  <2>2. ap' = r
    BY <1>5
  <2> HIDE DEF r
  <2>3. ap.clean => StageOk'
    BY <1>1, <1>3, <2>1, <2>2 DEF StageOk, Kept, SameApply, Unloaded
  <2>4. QED
    BY <1>1, <1>2, <2>1, <2>2, <2>3, ApplyFacts, ApplyGoesOnKeepsRuntime DEF Rests
<1>6. QED
  BY <1>4, <1>5 DEF ApplyReads

LEMMA ApplyReplacesKeepsRuntime ==
  ASSUME RuntimeOk, NEW f \in GeoFiles, ApplyReplaces(f)
  PROVE  RuntimeOk'
<1>1. /\ ap.pc = "geo" /\ geo' = [geo EXCEPT ![f] = "shipped"]
      /\ UNCHANGED <<listed, begun, owner, rm, served, asked, st, base, active, stable, running, torn>>
  BY DEF ApplyReplaces, others, registry, runtime
<1>2. Applying
  BY <1>1 DEF Applying, Rests
<1>3. ap \in ApplyRecord /\ geo' \in GeoStates /\ (ap.clean => StageOk)
  BY <1>1, <1>2, ApplyFacts DEF GeoStates, GeoKinds
<1>4. ASSUME NEW r \in ApplyRecord, ap' = r, SameApply(r), r.pc \in {"geo", "retry", "put"},
             r.geo = ap.geo, r.repair = ap.repair,
             r.pc = "geo" => r.todo = ap.todo \ {f},
             r.pc = "put" => ~ap.repair /\ ap.todo = {f}
      PROVE  RuntimeOk'
  <2>1. ASSUME ap.clean PROVE StageOk'
    <3>1. StageOk /\ geo \in GeoStates /\ Incomplete' = Incomplete
      BY <1>2, <1>3, <1>4, <2>1, ApplyFacts DEF Incomplete
    <3>2. \A g \in GeoFiles \ (ap.todo \ {f}) : geo'[g] = "shipped"
      BY <1>1, <3>1 DEF StageOk, GeoStates
    <3>3. r.pc = "put" => Incomplete /\ geo' = Shipped
      BY <1>1, <1>3, <1>4, <3>1, <3>2 DEF StageOk, GeoStates, Shipped
    <3>4. QED
      BY <1>1, <1>4, <3>1, <3>2, <3>3 DEF StageOk, Kept, SameApply, Unloaded
  <2>2. QED
    BY <1>1, <1>2, <1>3, <1>4, <2>1, ApplyFacts, ApplyGoesOnKeepsRuntime DEF Rests
<1> DEFINE a == [ap EXCEPT !.todo = @ \ {f}]
           b == [ap EXCEPT !.pc = "retry", !.todo = {}]
           c == [ap EXCEPT !.pc = "put", !.todo = {}]
<1>5. ap' \in {a, b} \/ (ap' = c /\ ~ap.repair /\ ap.todo = {f})
  BY DEF ApplyReplaces
<1>6. a \in ApplyRecord /\ SameApply(a) /\ a.pc = "geo" /\ a.todo = ap.todo \ {f}
      /\ a.geo = ap.geo /\ a.repair = ap.repair
  BY <1>1, <1>3 DEF ApplyRecord, ApplyPcs, SameApply
<1>7. b \in ApplyRecord /\ SameApply(b) /\ b.pc = "retry" /\ b.geo = ap.geo /\ b.repair = ap.repair
  BY <1>3 DEF ApplyRecord, ApplyPcs, SameApply
<1>8. c \in ApplyRecord /\ SameApply(c) /\ c.pc = "put" /\ c.geo = ap.geo /\ c.repair = ap.repair
  BY <1>3 DEF ApplyRecord, ApplyPcs, SameApply
<1> HIDE DEF a, b, c
<1>9. QED
  BY <1>4, <1>5, <1>6, <1>7, <1>8

\* A step that moves an apply on, and at most writes the base, the stable
\* configuration or the core.
LEMMA ApplyStepKeepsRuntime ==
  ASSUME RuntimeOk, ApplyLoads \/ ApplyUnverified \/ ApplyWritesBase \/ ApplyWritesStable
  PROVE  RuntimeOk'
<1>1. Applying
  BY DEF Applying, Rests, ApplyLoads, ApplyUnverified, ApplyWritesBase, ApplyWritesStable
<1>2. ap \in ApplyRecord /\ (ap.clean => StageOk)
  BY <1>1, ApplyFacts
<1>3. UNCHANGED <<listed, begun, owner, rm, served, asked, st, active, geo, torn>>
  BY DEF ApplyLoads, ApplyUnverified, ApplyWritesBase, ApplyWritesStable, others, registry, runtime
<1>4. ASSUME NEW pc \in ApplyPcs, ap' = [ap EXCEPT !.pc = pc]
      PROVE  /\ ap' \in ApplyRecord /\ SameApply(ap') /\ ap'.pc = pc /\ ap'.old = ap.old
             /\ ap'.geo = ap.geo
  BY <1>2, <1>4 DEF ApplyRecord, SameApply
<1>5. CASE ApplyLoads
  <2>1. /\ ap.pc \in {"put", "retry"} /\ running # Absent /\ running' = ap.ver
        /\ UNCHANGED <<base, stable>>
    BY <1>5 DEF ApplyLoads
  <2>2. ap' \in ApplyRecord /\ SameApply(ap') /\ ap'.pc = "verify"
    BY <1>4, <1>5 DEF ApplyLoads, ApplyPcs
  <2>3. ap.clean => StageOk'
    BY <1>2, <1>3, <2>1, <2>2 DEF StageOk, Kept, SameApply, Unloaded
  <2>4. QED
    BY <1>1, <1>3, <2>1, <2>2, <2>3, ApplyFacts, ApplyGoesOnKeepsRuntime DEF Rests
<1>6. CASE ApplyUnverified
  <2>1. ap.pc = "verify" /\ UNCHANGED <<base, stable, running>>
    BY <1>6 DEF ApplyUnverified, runtime
  <2>2. ap' \in ApplyRecord /\ SameApply(ap') /\ ap'.pc = "undo"
    BY <1>4, <1>6 DEF ApplyUnverified, ApplyPcs
  <2>3. ap.clean => StageOk'
    BY <1>2, <1>3, <2>1, <2>2 DEF StageOk, Kept, SameApply, Unloaded
  <2>4. QED
    BY <1>1, <1>3, <2>1, <2>2, <2>3, ApplyFacts, ApplyGoesOnKeepsRuntime DEF Rests
<1>7. CASE ApplyWritesBase
  <2>1. ap.pc = "base" /\ base' = ap.ver /\ UNCHANGED <<stable, running>>
    BY <1>7 DEF ApplyWritesBase
  <2>2. ap' \in ApplyRecord /\ SameApply(ap') /\ ap'.pc = "stable" /\ ap'.old = ap.old
    BY <1>4, <1>7 DEF ApplyWritesBase, ApplyPcs
  <2>3. ap.clean => StageOk'
    BY <1>2, <1>3, <2>1, <2>2 DEF StageOk, Kept, SameApply, Unloaded
  <2>4. QED
    BY <1>1, <1>3, <2>1, <2>2, <2>3, ApplyFacts, ApplyGoesOnKeepsRuntime DEF Rests
<1>8. CASE ApplyWritesStable
  <2>1. ap.pc = "stable" /\ stable' = ap.ver /\ UNCHANGED <<base, running>>
    BY <1>8 DEF ApplyWritesStable
  <2>2. ap' \in ApplyRecord /\ SameApply(ap') /\ ap'.pc = "active" /\ ap'.old = ap.old
    BY <1>4, <1>8 DEF ApplyWritesStable, ApplyPcs
  <2>3. ap.clean => StageOk'
    BY <1>2, <1>3, <2>1, <2>2 DEF StageOk, Kept, SameApply, Unloaded
  <2>4. QED
    BY <1>1, <1>3, <2>1, <2>2, <2>3, ApplyFacts, ApplyGoesOnKeepsRuntime DEF Rests
<1>9. QED
  BY <1>5, <1>6, <1>7, <1>8

LEMMA ApplyRepairsKeepsRuntime ==
  ASSUME RuntimeOk, ApplyRepairs
  PROVE  RuntimeOk'
<1> DEFINE r == [ap EXCEPT !.pc = "geo", !.todo = GeoFiles, !.repair = TRUE, !.geo = geo]
<1>1. /\ ap.pc = "put" /\ ap' = r
      /\ UNCHANGED <<listed, begun, owner, rm, served, asked, st, base, active, stable, running, geo, torn>>
  BY DEF ApplyRepairs, others, registry, runtime
<1>2. Applying
  BY <1>1 DEF Applying, Rests
<1>3. ap \in ApplyRecord /\ geo \in GeoStates /\ (ap.clean => StageOk)
  BY <1>2, ApplyFacts
<1>4. /\ r \in ApplyRecord /\ SameApply(r) /\ r.pc = "geo"
      /\ r.repair /\ r.geo = geo /\ r.todo = GeoFiles
  BY <1>3 DEF ApplyRecord, ApplyPcs, SameApply
<1> HIDE DEF r
<1>5. ap.clean => StageOk'
  BY <1>1, <1>3, <1>4 DEF StageOk, Kept, SameApply, Unloaded
<1>6. QED
  BY <1>1, <1>2, <1>4, <1>5, ApplyFacts, ApplyGoesOnKeepsRuntime DEF Rests

LEMMA ApplyVerifiesKeepsRuntime ==
  ASSUME RuntimeOk, ApplyVerifies
  PROVE  RuntimeOk'
<1> DEFINE now == Files
           r == [ap EXCEPT !.pc = "base", !.old = now]
<1>1. /\ ap.pc = "verify" /\ ap' = r
      /\ UNCHANGED <<listed, begun, owner, rm, served, asked, st, base, active, stable, running, geo, torn>>
  BY DEF ApplyVerifies, others, registry, runtime
<1>2. Applying
  BY <1>1 DEF Applying, Rests
<1>3. ap \in ApplyRecord /\ (ap.clean => StageOk)
  BY <1>2, ApplyFacts
<1>4. now \in FileRecords /\ now.stable = stable
  BY <1>2, ApplyFacts DEF Files, FileRecords
<1>5. ap.clean => now = ap.was
  <2>1. ap.clean => Kept
    BY <1>1, <1>3 DEF StageOk, Unloaded
  <2>2. QED
    BY <1>2, <2>1, ApplyFacts DEF Kept, Files, FileRecords
<1> HIDE DEF now
<1>6. r \in ApplyRecord /\ SameApply(r) /\ r.pc = "base" /\ r.old = now
  BY <1>3, <1>4 DEF ApplyRecord, ApplyPcs, SameApply
<1> HIDE DEF r
<1>7. ap.clean => StageOk'
  BY <1>1, <1>3, <1>5, <1>6 DEF StageOk, Kept, SameApply, Unloaded
<1>8. QED
  BY <1>1, <1>2, <1>4, <1>6, <1>7, ApplyFacts, ApplyGoesOnKeepsRuntime DEF Rests

LEMMA ApplyRollsBackKeepsRuntime ==
  ASSUME RuntimeOk, ApplyRollsBack
  PROVE  RuntimeOk'
<1> DEFINE r == [ap EXCEPT !.pc = "undo", !.old = Unread]
<1>1. /\ ap.pc \in {"base", "stable", "active"} /\ ap' = r
      /\ base' \in {ap.old.base, base} /\ stable' \in {ap.old.stable, stable}
      /\ active' \in {ap.old.active, active}
      /\ torn' = (torn \/ Files' # ap.old)
      /\ UNCHANGED <<listed, begun, owner, rm, served, asked, st, running, geo>>
  BY DEF ApplyRollsBack, others, registry
<1>2. Applying
  BY <1>1 DEF Applying, Rests
<1>3. ap \in ApplyRecord /\ (ap.clean => StageOk) /\ ap.old.stable # Absent /\ ap.old \in FileRecords
  BY <1>1, <1>2, ApplyFacts DEF ApplyRecord
<1>4. r \in ApplyRecord /\ SameApply(r) /\ r.pc = "undo"
  <2>1. Unread \in FileRecords
    BY Values
  <2> HIDE DEF Unread
  <2>2. QED
    BY <1>3, <2>1 DEF ApplyRecord, ApplyPcs, SameApply
<1> HIDE DEF r
<1>5. /\ base' \in Configs /\ stable' \in Configs /\ active' \in Profiles \cup {NoProfile}
      /\ stable' # Absent /\ torn' \in BOOLEAN /\ (torn => torn')
  BY <1>1, <1>2, <1>3, ApplyFacts DEF FileRecords
<1>6. ap.clean => StageOk'
  <2>1. ap.clean /\ ~torn' => Kept'
    <3>1. ~torn' => base' = ap.old.base /\ stable' = ap.old.stable /\ active' = ap.old.active
      <4>1. ~torn' => Files' = ap.old
        BY <1>1
      <4>2. QED
        BY <4>1 DEF Files
    <3>2. QED
      BY <1>1, <1>3, <1>4, <3>1 DEF StageOk, Kept, SameApply
  <2>2. QED
    BY <1>1, <1>3, <1>4, <2>1 DEF StageOk, SameApply, Unloaded
<1>7. QED
  BY <1>1, <1>2, <1>3, <1>4, <1>5, <1>6, ApplyFacts, ApplyGoesOnKeepsRuntime DEF Rests

\* An apply is refused before anything has been written.
LEMMA RefusedKeepsRuntime ==
  ASSUME RuntimeOk, ApplyUnread \/ ApplyUnshipped \/ ApplyRetryFails \/ ApplyRejected
  PROVE  RuntimeOk'
<1>1. /\ ap.pc \in Unloaded /\ ap' = NoApply("refused")
      /\ ~torn' => ~torn /\ ap.clean
      /\ torn' \in BOOLEAN
      /\ UNCHANGED <<listed, begun, owner, rm, served, asked, st, base, active, stable, running>>
  <2>1. CASE ApplyUnread \/ ApplyRejected
    BY <2>1 DEF ApplyUnread, ApplyRejected, Refused, others, registry, runtime, Unloaded
  <2>2. CASE ApplyUnshipped \/ ApplyRetryFails
    BY <2>2 DEF ApplyUnshipped, ApplyRetryFails, RefusedRestored, others, registry, runtime, Unloaded
  <2>3. QED
    BY <2>1, <2>2
<1>2. Applying
  BY <1>1 DEF Applying, Rests, Unloaded
<1>3. geo' \in GeoStates
  <2>1. ap.geo \in GeoStates /\ geo \in GeoStates
    BY <1>2, ApplyFacts
  <2>2. QED
    BY <2>1 DEF ApplyUnread, ApplyRejected, ApplyUnshipped, ApplyRetryFails, RefusedRestored, GeoRestored
<1>4. ~torn' => rm.pc = "idle" /\ st.pc = "idle" /\ Agree(Files, running)'
  <2>1. SUFFICES ASSUME ~torn' PROVE rm.pc = "idle" /\ st.pc = "idle" /\ Agree(Files, running)'
    OBVIOUS
  <2>2. /\ rm.pc = "idle" /\ st.pc = "idle" /\ StageOk /\ Agree(ap.was, ap.ran)
    BY <1>1, <1>2, <2>1, ApplyFacts
  <2>3. Kept /\ running \in {Absent, ap.ran}
    BY <1>1, <2>2 DEF StageOk
  <2>4. QED
    BY <1>1, <2>2, <2>3 DEF Agree, Files, Kept, Given
<1>5. QED
  BY <1>1, <1>2, <1>3, <1>4, ApplyFacts, ApplyOverKeepsRuntime DEF Rests, RuntimeOk, StoredOk

LEMMA ApplySlowKeepsRuntime ==
  ASSUME RuntimeOk, ApplySlow
  PROVE  RuntimeOk'
<1>1. /\ ap.pc \in {"put", "retry"} /\ running # Absent /\ running' = ap.ver
      /\ ap' = NoApply("refused") /\ torn' = TRUE
      /\ UNCHANGED <<listed, begun, owner, rm, served, asked, st, base, active, stable>>
  BY DEF ApplySlow, others, registry
<1>2. Applying
  BY <1>1 DEF Applying, Rests
<1>3. st.pc = "idle"
  BY <1>1 DEF RuntimeOk, StoredOk
<1>4. geo' \in GeoStates
  BY <1>2, ApplyFacts DEF ApplySlow, GeoRestored
<1>5. QED
  BY <1>1, <1>2, <1>3, <1>4, ApplyFacts, ApplyOverKeepsRuntime DEF Rests

LEMMA ApplyEndsKeepsRuntime ==
  ASSUME RuntimeOk, ApplyEnds
  PROVE  RuntimeOk'
<1>1. /\ ap.pc = "active" /\ active' = ap.id /\ ap' = NoApply("applied")
      /\ torn' = ~ap.clean
      /\ UNCHANGED <<listed, begun, owner, rm, served, asked, st, base, stable, running, geo>>
  BY DEF ApplyEnds, others, registry
<1>2. Applying
  BY <1>1 DEF Applying, Rests
<1>3. torn' \in BOOLEAN /\ (~torn' => ap.clean)
  BY <1>1
<1>4. ~torn' => rm.pc = "idle" /\ st.pc = "idle" /\ Agree(Files, running)'
  <2>1. SUFFICES ASSUME ap.clean PROVE rm.pc = "idle" /\ st.pc = "idle" /\ Agree(Files, running)'
    BY <1>3
  <2>2. /\ rm.pc = "idle" /\ st.pc = "idle" /\ StageOk
        /\ ap.id \in listed /\ ap.ver \in Given /\ owner[ap.ver] = ap.id
    BY <1>2, <2>1, ApplyFacts
  <2>3. base = ap.ver /\ stable = ap.ver /\ running \in {Absent, ap.ver}
    BY <1>1, <2>2 DEF StageOk, Unloaded
  <2>4. QED
    BY <1>1, <2>2, <2>3 DEF Agree, Files, Given
<1>5. QED
  BY <1>1, <1>2, <1>3, <1>4, ApplyFacts, ApplyOverKeepsRuntime DEF Rests, RuntimeOk, StoredOk

LEMMA ApplyUndoesKeepsRuntime ==
  ASSUME RuntimeOk, ApplyUndoes
  PROVE  RuntimeOk'
<1>1. /\ ap.pc = "undo" /\ ap' = NoApply("refused")
      /\ stable' \in {ap.was.stable, stable}
      /\ running' \in {running, stable'} /\ (running = Absent => running' = Absent)
      /\ torn' = (torn \/ ~ap.clean \/ stable' # ap.was.stable \/ running' \notin {Absent, stable'})
      /\ UNCHANGED <<listed, begun, owner, rm, served, asked, st, base, active, geo>>
  BY DEF ApplyUndoes, others, registry
<1>2. Applying
  BY <1>1 DEF Applying, Rests
<1>3. torn' \in BOOLEAN
  BY <1>1
<1>4. ~torn' => ~torn /\ ap.clean /\ stable' = ap.was.stable /\ running' \in {Absent, stable'}
  BY <1>1
<1>5. ~torn' => rm.pc = "idle" /\ st.pc = "idle" /\ Agree(Files, running)'
  <2>1. SUFFICES ASSUME ~torn' PROVE rm.pc = "idle" /\ st.pc = "idle" /\ Agree(Files, running)'
    OBVIOUS
  <2>2. /\ rm.pc = "idle" /\ st.pc = "idle" /\ StageOk /\ Agree(ap.was, ap.ran)
    BY <1>2, <1>4, <2>1, ApplyFacts
  <2>3. Kept
    BY <1>1, <1>4, <2>1, <2>2 DEF StageOk
  <2>4. QED
    BY <1>1, <1>4, <2>1, <2>2, <2>3 DEF Agree, Files, Kept, Given
<1>6. /\ stable' \in Configs /\ stable' # Absent /\ running' \in Configs
      /\ st'.pc # "idle" => running' = Absent
  BY <1>1, <1>2, ApplyFacts DEF FileRecords, RuntimeOk, StoredOk
<1>7. QED
  BY <1>1, <1>2, <1>3, <1>5, <1>6, ApplyFacts, ApplyOverKeepsRuntime DEF Rests

\* The process that applies dies; a removal may die with it.
LEMMA ApplierDiesKeepsRuntime ==
  ASSUME RuntimeOk, ApplierDies, rm' \in {rm, NoRemoval},
         UNCHANGED <<listed, begun, owner, served, base, active, stable, geo>>
  PROVE  RuntimeOk'
<1>1. /\ ap' = NoApply("idle") /\ asked' = NoProfile /\ st' = NoStart /\ running' = Absent
      /\ torn' = (torn \/ (Applying /\ ~ap.clean) \/ ap.pc \in {"stable", "active"})
  BY DEF ApplierDies
<1>2. RuntimeTypes /\ RestOk
  BY DEF RuntimeOk
<1>3. torn' \in BOOLEAN
  BY <1>1
<1>4. ~torn' => ~torn /\ (Applying => ap.clean) /\ ap.pc \notin {"stable", "active"}
  BY <1>1
<1>5. ap'.pc = "idle" /\ ap' \in ApplyRecord /\ ~Applying'
  BY <1>1, NoApplyForm DEF ApplyPcs, Rests, Applying
<1>6. RuntimeTypes'
  BY <1>1, <1>2, <1>3, <1>5, Values DEF RuntimeTypes, NoStart, StartRecord
<1>7. StoredOk' /\ ApplyOk'
  BY <1>1, <1>5 DEF StoredOk, ApplyOk, NoStart
<1>8. RestOk'
  <2>1. SUFFICES ASSUME ~torn'
                 PROVE  /\ Agree(Files, running)' /\ st'.pc = "idle"
                        /\ rm'.pc = "write" => active' # rm'.id
                        /\ rm'.pc \in {"clear", "write"} /\ rm'.was =>
                             base' \in Given' /\ owner'[base'] = rm'.id
    BY DEF RestOk
  <2>2. st'.pc = "idle" /\ NoRemoval.pc = "idle"
    BY <1>1 DEF NoStart, NoRemoval
  <2>3. CASE Applying
    <3>1. /\ rm.pc = "idle" /\ StageOk /\ Agree(ap.was, ap.ran) /\ ap \in ApplyRecord
      BY <1>4, <2>1, <2>3, ApplyFacts
    <3>2. Kept
      BY <1>4, <2>1, <2>3, <3>1 DEF StageOk, ApplyRecord, ApplyPcs, Applying, Unloaded
    <3>3. Agree(Files, running)'
      BY <1>1, <3>1, <3>2 DEF Agree, Files, Kept, Given
    <3>4. QED
      BY <2>2, <3>1, <3>3
  <2>4. CASE ~Applying
    <3>1. /\ Agree(Files, running)
          /\ rm.pc = "write" => active # rm.id
          /\ rm.pc \in {"clear", "write"} /\ rm.was => base \in Given /\ owner[base] = rm.id
      BY <1>2, <1>4, <2>1, <2>4 DEF RestOk
    <3>2. Agree(Files, running)'
      BY <1>1, <3>1 DEF Agree, Files, Given
    <3>3. QED
      BY <2>2, <3>1, <3>2 DEF Given
  <2>5. QED
    BY <2>3, <2>4
<1>9. QED
  BY <1>6, <1>7, <1>8 DEF RuntimeOk

LEMMA ApplyBeginsKeepsRuntime ==
  ASSUME RegistryOk, RuntimeOk, ApplyBegins
  PROVE  RuntimeOk'
<1>1. /\ asked # NoProfile /\ ~Applying /\ asked' = NoProfile
      /\ UNCHANGED <<listed, begun, owner, rm, served, st, base, active, stable, running, geo, torn>>
  BY DEF ApplyBegins, others, registry, runtime
<1>2. RuntimeTypes /\ StoredOk /\ RestOk
  BY DEF RuntimeOk
<1>3. CASE ap' = NoApply("refused")
  <2>1. ap'.pc = "refused" /\ ap' \in ApplyRecord /\ ~Applying'
    BY <1>3, NoApplyForm DEF ApplyPcs, Rests, Applying
  <2>2. RuntimeTypes'
    BY <1>1, <1>2, <2>1 DEF RuntimeTypes
  <2>3. StoredOk' /\ ApplyOk'
    BY <1>1, <1>2, <2>1 DEF StoredOk, ApplyOk
  <2>4. RestOk'
    BY <1>1, <1>2 DEF RestOk, Agree, Files, Given
  <2>5. QED
    BY <2>2, <2>3, <2>4 DEF RuntimeOk
<1>4. CASE /\ running # Absent /\ asked \in listed /\ fileOf[asked] # 0
           /\ ap' = [NoApply("build") EXCEPT !.id = asked, !.ver = fileOf[asked],
                        !.was = Files, !.ran = running, !.clean = (rm.pc = "idle")]
  <2> DEFINE none == NoApply("build")
             ver == fileOf[asked]
             now == Files
             alone == rm.pc = "idle"
             r == [none EXCEPT !.id = asked, !.ver = ver, !.was = now, !.ran = running,
                               !.clean = alone]
  <2>1. ver \in Given /\ owner[ver] = asked /\ ver \in Configs
    <3>1. ver \in files /\ owner[ver] = asked
      BY <1>4 DEF RegistryOk, NamedOk
    <3>2. ver \in Given
      BY <3>1 DEF RegistryOk
    <3>3. begun \in 0..MaxVersion /\ MaxVersion \in Nat
      BY StoreAssumption DEF RegistryOk, RegistryTypes
    <3>4. QED
      BY <3>1, <3>2, <3>3 DEF Given, Configs, Absent
  <2>2. /\ now \in FileRecords /\ now.base = base /\ now.stable = stable /\ now.active = active
    BY <1>2 DEF RuntimeTypes, FileRecords, Files
  <2>3. none \in ApplyRecord /\ none.pc = "build" /\ alone \in BOOLEAN
    BY NoApplyForm DEF ApplyPcs
  <2>4. ap' = r
    BY <1>4
  <2>5. Agree(now, running) <=> Agree(Files, running)
    OBVIOUS
  <2> HIDE DEF none, ver, now, alone
  <2>6. /\ r \in ApplyRecord /\ r.pc = "build" /\ r.id = asked /\ r.ver = ver /\ r.was = now
        /\ r.ran = running /\ r.clean = alone
    BY <1>2, <2>1, <2>2, <2>3 DEF ApplyRecord, RuntimeTypes
  <2> HIDE DEF r
  <2>7. Applying'
    BY <2>4, <2>6 DEF Applying, Rests
  <2>8. RuntimeTypes'
    BY <1>1, <1>2, <2>4, <2>6 DEF RuntimeTypes
  <2>9. StoredOk'
    BY <1>1, <1>2, <1>4, <2>1, <2>2, <2>4, <2>6, <2>7 DEF StoredOk, Given
  <2>10. RestOk'
    BY <2>7 DEF RestOk
  <2>11. ApplyOk'
    <3>1. SUFFICES ASSUME alone PROVE ApplyOk'
      BY <2>4, <2>6 DEF ApplyOk
    <3>2. rm.pc = "idle" /\ st.pc = "idle"
      BY <1>2, <1>4, <3>1 DEF StoredOk, alone
    <3>3. ~torn => Agree(now, running)
      BY <1>1, <1>2, <2>5 DEF RestOk
    <3>4. ~torn' => Agree(ap.was, ap.ran)'
      BY <1>1, <2>4, <2>6, <3>3 DEF Agree, Given
    <3>5. StageOk'
      BY <1>1, <2>2, <2>4, <2>6 DEF StageOk, Kept, Unloaded
    <3>6. QED
      BY <1>1, <1>4, <2>1, <2>4, <2>6, <3>2, <3>4, <3>5 DEF ApplyOk
  <2>12. QED
    BY <2>8, <2>9, <2>10, <2>11 DEF RuntimeOk
<1>5. QED
  BY <1>3, <1>4 DEF ApplyBegins

LEMMA SwitchTunKeepsRuntime ==
  ASSUME RuntimeOk, SwitchTun
  PROVE  RuntimeOk'
<1>1. /\ ~Applying /\ running # Absent
      /\ base' = Migrated /\ stable' = base' /\ running' = stable'
      /\ UNCHANGED <<listed, begun, owner, rm, served, asked, ap, active, st, geo, torn>>
  BY DEF SwitchTun, places, registry
<1>2. RuntimeTypes /\ StoredOk /\ RestOk
  BY DEF RuntimeOk
<1>3. /\ st.pc = "idle" /\ stable # Absent /\ base' \in Configs /\ base' # Absent
      /\ base # Absent => base' = base
  BY <1>1, <1>2 DEF StoredOk, RuntimeTypes, Migrated
<1>4. ~Applying'
  BY <1>1 DEF Applying
<1>5. RuntimeTypes' /\ StoredOk' /\ ApplyOk'
  BY <1>1, <1>2, <1>3, <1>4 DEF RuntimeTypes, StoredOk, ApplyOk
<1>6. RestOk'
  <2>1. base \in Given => base' = base
    BY <1>3, Values
  <2>2. QED
    BY <1>1, <1>2, <1>3, <2>1 DEF RestOk, Agree, Files, Given
<1>7. QED
  BY <1>5, <1>6 DEF RuntimeOk

\* The clean bit of the apply is set anew: where an apply goes on, it is no
\* longer undisturbed.
LEMMA DisturbedForm ==
  ASSUME RuntimeOk, ap' = [ap EXCEPT !.clean = ~Applying]
  PROVE  /\ ap' \in ApplyRecord /\ Applying' = Applying
         /\ ap'.pc = ap.pc /\ ap'.was = ap.was /\ ap'.ver = ap.ver /\ ap'.old = ap.old
         /\ Applying => ~ap'.clean
<1>1. ap \in ApplyRecord /\ Applying \in BOOLEAN
  BY DEF RuntimeOk, RuntimeTypes, Applying
<1> DEFINE q == ~Applying
<1>2. q \in BOOLEAN /\ ap' = [ap EXCEPT !.clean = q]
  BY <1>1
<1> HIDE DEF q
<1>3. /\ ap' \in ApplyRecord /\ ap'.clean = q
      /\ ap'.pc = ap.pc /\ ap'.was = ap.was /\ ap'.ver = ap.ver /\ ap'.old = ap.old
  BY <1>1, <1>2 DEF ApplyRecord
<1>4. Applying' = Applying
  BY <1>3 DEF Applying
<1>5. QED
  BY <1>3, <1>4 DEF q

LEMMA StartReadsKeepsRuntime ==
  ASSUME RuntimeOk, StartReads
  PROVE  RuntimeOk'
<1>1. /\ running = Absent /\ st.pc = "idle" /\ base' = Migrated
      /\ st' = [pc |-> "write", ver |-> base'] /\ ap' = [ap EXCEPT !.clean = ~Applying]
      /\ UNCHANGED <<listed, begun, owner, rm, served, asked, active, stable, running, geo, torn>>
  BY DEF StartReads, places, registry
<1>2. RuntimeTypes /\ StoredOk /\ RestOk
  BY DEF RuntimeOk
<1>3. /\ ap' \in ApplyRecord /\ Applying' = Applying
      /\ ap'.pc = ap.pc /\ ap'.was = ap.was /\ ap'.ver = ap.ver /\ ap'.old = ap.old
      /\ Applying => ~ap'.clean
  BY <1>1, DisturbedForm
<1>4. /\ base' \in Configs /\ (base # Absent => base' = base) /\ (base = Absent => base' = stable)
  BY <1>1, <1>2 DEF Migrated, RuntimeTypes
<1>5. st'.pc = "write" /\ st'.ver = base' /\ st' \in StartRecord
  BY <1>1, <1>4 DEF StartRecord
<1>6. RuntimeTypes' /\ StoredOk' /\ ApplyOk'
  <2>1. RuntimeTypes'
    BY <1>1, <1>2, <1>3, <1>4, <1>5 DEF RuntimeTypes
  <2>2. StoredOk'
    BY <1>1, <1>2, <1>3, <1>5 DEF StoredOk, Given
  <2>3. ApplyOk'
    BY <1>3 DEF ApplyOk
  <2>4. QED
    BY <2>1, <2>2, <2>3
<1>7. RestOk'
  <2>1. base \in Given => base' = base
    BY <1>4, Values
  <2>2. QED
    BY <1>1, <1>2, <1>3, <1>4, <1>5, <2>1 DEF RestOk, Agree, Files, Given
<1>8. QED
  BY <1>6, <1>7 DEF RuntimeOk

LEMMA StartGoesOnKeepsRuntime ==
  ASSUME RuntimeOk, StartWrites \/ StartSpawns \/ StartFails
  PROVE  RuntimeOk'
<1>1. /\ st.pc # "idle"
      /\ UNCHANGED <<listed, begun, owner, rm, served, asked, ap, base, active, torn>>
  BY DEF StartWrites, StartSpawns, StartFails, places, registry, runtime
<1>2. RuntimeTypes /\ StoredOk /\ RestOk /\ ApplyOk
  BY DEF RuntimeOk
<1>3. Applying' = Applying /\ running = Absent /\ (Applying => ~ap'.clean)
  BY <1>1, <1>2 DEF Applying, StoredOk, ApplyOk
<1>4. ApplyOk'
  BY <1>3 DEF ApplyOk
<1>5. CASE StartWrites
  <2>1. /\ st.pc = "write" /\ st' = [pc |-> "spawn", ver |-> Absent] /\ running' = running
        /\ stable' = (IF st.ver # Absent THEN st.ver ELSE IF stable # Absent THEN stable ELSE 0)
        /\ geo' = geo
    BY <1>5 DEF StartWrites
  <2>2. stable' # Absent /\ stable' \in Configs
    BY <1>2, <2>1, Values DEF RuntimeTypes, StartRecord
  <2>3. st'.pc = "spawn" /\ st' \in StartRecord
    BY <2>1, Values DEF StartRecord
  <2>4. RuntimeTypes'
    BY <1>1, <1>2, <2>1, <2>2, <2>3 DEF RuntimeTypes
  <2>5. StoredOk'
    BY <1>1, <1>2, <1>3, <2>1, <2>2, <2>3 DEF StoredOk, Given
  <2>6. RestOk'
    BY <1>1, <1>2, <1>3, <2>1, <2>3 DEF RestOk, Agree, Files, Given
  <2>7. QED
    BY <1>4, <2>4, <2>5, <2>6 DEF RuntimeOk
<1>6. CASE StartSpawns \/ StartFails
  <2>1. /\ st' = NoStart /\ stable' = stable /\ geo' \in {geo, Shipped}
        /\ running' \in {running, stable}
        /\ running' # Absent => stable # Absent
    BY <1>2, <1>3, <1>6 DEF StartSpawns, StartFails, runtime
  <2>2. st'.pc = "idle" /\ st' \in StartRecord
    BY <2>1, Values DEF StartRecord, NoStart
  <2>3. RuntimeTypes'
    BY <1>1, <1>2, <2>1, <2>2, Values DEF RuntimeTypes
  <2>4. StoredOk'
    BY <1>1, <1>2, <1>3, <2>1, <2>2 DEF StoredOk, Given
  <2>5. RestOk'
    BY <1>1, <1>2, <1>3, <2>1, <2>2 DEF RestOk, Agree, Files, Given
  <2>6. QED
    BY <1>4, <2>3, <2>4, <2>5 DEF RuntimeOk
<1>7. QED
  BY <1>5, <1>6

\* The core is gone, or the GUI has asked or given up: nothing is written.
LEMMA OutsideKeepsRuntime ==
  ASSUME RegistryOk, RuntimeOk, CoreExits \/ TimesOut \/ \E p \in Profiles : Request(p)
  PROVE  RuntimeOk'
<1>1. /\ running' \in {running, Absent} /\ asked' \in Profiles \cup {NoProfile}
      /\ UNCHANGED <<listed, begun, owner, rm, served, ap, base, active, stable, st, geo, torn>>
  BY DEF CoreExits, TimesOut, Request, places, registry, runtime, others, RuntimeOk, RuntimeTypes
<1>2. RuntimeTypes /\ StoredOk /\ RestOk /\ ApplyOk
  BY DEF RuntimeOk
<1>3. Applying' = Applying
  BY <1>1 DEF Applying
<1>4. RuntimeTypes'
  BY <1>1, <1>2, Values DEF RuntimeTypes
<1>5. StoredOk'
  BY <1>1, <1>2, <1>3 DEF StoredOk, Given
<1>6. RestOk'
  BY <1>1, <1>2, <1>3 DEF RestOk, Agree, Files, Given
<1>7. ApplyOk'
  <2>1. StageOk => StageOk'
    BY <1>1 DEF StageOk, Kept, Incomplete
  <2>2. Agree(ap.was, ap.ran) => Agree(ap.was, ap.ran)'
    BY <1>1 DEF Agree, Given
  <2>3. QED
    BY <1>1, <1>2, <1>3, <2>1, <2>2 DEF ApplyOk
<1>8. QED
  BY <1>4, <1>5, <1>6, <1>7 DEF RuntimeOk

LEMMA RemoveBeginsKeepsRuntime ==
  ASSUME RegistryOk, RuntimeOk, NEW p \in Profiles, RemoveBegins(p)
  PROVE  RuntimeOk'
<1>1. /\ rm' = [pc |-> "clear", id |-> p, was |-> active = p, path |-> fileOf[p]]
      /\ ap' = [ap EXCEPT !.clean = ~Applying]
      /\ UNCHANGED <<listed, begun, owner, served, asked, base, active, stable, running, st, geo, torn>>
  BY DEF RemoveBegins, away, registry
<1>2. RuntimeTypes /\ StoredOk /\ RestOk
  BY DEF RuntimeOk
<1>3. /\ ap' \in ApplyRecord /\ Applying' = Applying
      /\ ap'.pc = ap.pc /\ ap'.was = ap.was /\ ap'.ver = ap.ver /\ ap'.old = ap.old
      /\ Applying => ~ap'.clean
  BY <1>1, DisturbedForm
<1>4. RuntimeTypes' /\ ApplyOk'
  BY <1>1, <1>2, <1>3 DEF RuntimeTypes, ApplyOk
<1>5. StoredOk'
  BY <1>1, <1>2, <1>3 DEF StoredOk, Given
<1>6. RestOk'
  <2>1. rm'.pc = "clear" /\ rm'.id = p /\ (rm'.was => active = p) /\ p # NoProfile
    BY <1>1, StoreAssumption
  <2>2. QED
    BY <1>1, <1>2, <1>3, <2>1 DEF RestOk, Agree, Files, Given
<1>7. QED
  BY <1>4, <1>5, <1>6 DEF RuntimeOk

LEMMA RemovingKeepsRuntime ==
  ASSUME RegistryOk, RuntimeOk, RemoveClears \/ RemoveWrites \/ RemoveUndone \/ RemoveEnds
  PROVE  RuntimeOk'
<1>1. /\ rm.pc # "idle"
      /\ UNCHANGED <<begun, owner, served, asked, ap, base, stable, running, st, geo, torn>>
  BY DEF RemoveClears, RemoveWrites, RemoveUndone, RemoveEnds, away, registry
<1>2. RuntimeTypes /\ StoredOk /\ RestOk /\ ApplyOk /\ RemovalOk /\ rm \in RemovalRecord
      /\ rm.id \in Profiles \cup {NoProfile} /\ active \in Profiles \cup {NoProfile}
  BY DEF RuntimeOk, RegistryOk, LockTypes, RemovalRecord, RuntimeTypes
<1>3. Applying' = Applying /\ (Applying => ~ap'.clean)
  BY <1>1, <1>2 DEF Applying, ApplyOk
<1>4. active' \in Profiles \cup {NoProfile}
  BY <1>2 DEF RemoveClears, RemoveWrites, RemoveUndone, RemoveEnds, away
<1>5. RuntimeTypes' /\ ApplyOk'
  BY <1>1, <1>2, <1>3, <1>4 DEF RuntimeTypes, ApplyOk
<1>6. StoredOk'
  BY <1>1, <1>2, <1>3 DEF StoredOk, Given
<1>7. RestOk'
  <2>1. NoRemoval.pc = "idle" /\ NoProfile \notin Profiles
    BY StoreAssumption DEF NoRemoval
  <2>2. CASE RemoveClears
    <3>1. /\ rm.pc = "clear" /\ listed' = listed
          /\ \/ /\ active' = (IF active = rm.id THEN NoProfile ELSE active)
                /\ rm' = [rm EXCEPT !.pc = "write"]
             \/ rm' = NoRemoval /\ active' = active
      BY <2>2 DEF RemoveClears, registry
    <3>2. CASE rm' = [rm EXCEPT !.pc = "write"]
      <4>1. rm'.pc = "write" /\ rm'.id = rm.id /\ rm'.was = rm.was /\ rm.id \in listed
        BY <1>2, <3>1, <3>2 DEF RemovalRecord, RemovalOk
      <4>2. rm.id # NoProfile
        BY <4>1, <2>1 DEF RegistryOk, RegistryTypes
      <4>3. active' \in {active, NoProfile} /\ active' # rm.id
        BY <2>1, <3>1, <3>2, <4>1, <4>2
      <4>4. QED
        BY <1>1, <1>2, <1>3, <3>1, <4>1, <4>3 DEF RestOk, Agree, Files, Given
    <3>3. CASE rm' = NoRemoval /\ active' = active
      BY <1>1, <1>2, <1>3, <2>1, <3>1, <3>3 DEF RestOk, Agree, Files, Given
    <3>4. QED
      BY <3>1, <3>2, <3>3
  <2>3. CASE RemoveWrites
    <3>1. /\ rm.pc = "write" /\ listed' = listed \ {rm.id} /\ active' = active
          /\ rm' = [rm EXCEPT !.pc = "delete"]
      BY <2>3 DEF RemoveWrites, away
    <3>2. rm'.pc = "delete"
      BY <1>2, <3>1 DEF RemovalRecord
    <3>3. QED
      BY <1>1, <1>2, <1>3, <3>1, <3>2 DEF RestOk, Agree, Files, Given
  <2>4. CASE RemoveUndone
    <3>1. /\ rm.pc = "write" /\ listed' = listed /\ rm' = NoRemoval
          /\ rm.id \in listed
          /\ active' = active \/ (rm.was /\ active' = rm.id)
      BY <1>2, <2>4 DEF RemoveUndone, RemovalOk, registry
    <3>2. QED
      BY <1>1, <1>2, <1>3, <2>1, <3>1 DEF RestOk, Agree, Files, Given
  <2>5. CASE RemoveEnds
    <3>1. listed' = listed /\ rm' = NoRemoval /\ active' = active
      BY <2>5 DEF RemoveEnds
    <3>2. QED
      BY <1>1, <1>2, <1>3, <2>1, <3>1 DEF RestOk, Agree, Files, Given
  <2>6. QED
    BY <2>2, <2>3, <2>4, <2>5
<1>8. QED
  BY <1>5, <1>6, <1>7 DEF RuntimeOk

LEMMA GuiDiesKeepsRuntime ==
  ASSUME RegistryOk, RuntimeOk, GuiDies
  PROVE  RuntimeOk'
<1>1. /\ rm' = NoRemoval
      /\ UNCHANGED <<listed, begun, owner, served, base, active, stable, geo>>
      /\ IF served THEN UNCHANGED <<asked, ap, st, running, torn>> ELSE ApplierDies
  BY DEF GuiDies
<1>2. CASE ApplierDies
  BY <1>1, <1>2, ApplierDiesKeepsRuntime
<1>3. CASE UNCHANGED <<asked, ap, st, running, torn>>
  <2>1. RuntimeTypes /\ StoredOk /\ RestOk /\ ApplyOk
    BY DEF RuntimeOk
  <2>2. Applying' = Applying /\ NoRemoval.pc = "idle"
    BY <1>3 DEF Applying, NoRemoval
  <2>3. RuntimeTypes' /\ StoredOk'
    BY <1>1, <1>3, <2>1, <2>2 DEF RuntimeTypes, StoredOk, Given
  <2>4. RestOk'
    BY <1>1, <1>3, <2>1, <2>2 DEF RestOk, Agree, Files, Given
  <2>5. ApplyOk'
    <3>1. StageOk => StageOk'
      BY <1>1, <1>3 DEF StageOk, Kept, Incomplete
    <3>2. Agree(ap.was, ap.ran) => Agree(ap.was, ap.ran)'
      BY <1>1, <1>3 DEF Agree, Given
    <3>3. QED
      BY <1>1, <1>3, <2>1, <2>2, <3>1, <3>2 DEF ApplyOk
  <2>6. QED
    BY <2>3, <2>4, <2>5 DEF RuntimeOk
<1>4. QED
  BY <1>1, <1>2, <1>3

LEMMA SubscribingKeepsRuntime ==
  ASSUME RegistryOk, RuntimeOk,
         \/ \E p \in Profiles : Add(p)
         \/ \E d \in Downloads :
              \/ \E p \in Profiles : DownloadBegins(d, p)
              \/ DownloadFails(d) \/ DownloadStages(d) \/ DownloadGivesUp(d)
              \/ DownloadCommits(d) \/ DownloadEnds(d)
  PROVE  RuntimeOk'
<1>1. UNCHANGED <<rm, asked, ap, served, base, active, stable, running, st, geo, torn>>
  BY DEF Add, DownloadBegins, DownloadFails, DownloadStages, DownloadGivesUp, DownloadCommits,
         DownloadEnds, elsewhere, runtime
<1>2. listed \subseteq listed'
  BY DEF Add, DownloadBegins, DownloadFails, DownloadStages, DownloadGivesUp, DownloadCommits,
         DownloadEnds, elsewhere, registry
<1>3. /\ begun \in 0..MaxVersion /\ owner \in [Versions -> Profiles \cup {NoProfile}]
      /\ Given \subseteq Versions
  BY StoreAssumption DEF RegistryOk, RegistryTypes, Given, Versions
<1>4. \/ begun' = begun /\ owner' = owner
      \/ begun' = begun + 1 /\ \E p : owner' = [owner EXCEPT ![begun'] = p]
  BY DEF Add, DownloadBegins, DownloadFails, DownloadStages, DownloadGivesUp, DownloadCommits,
         DownloadEnds, elsewhere, registry
<1>5. Given \subseteq Given' /\ \A v \in Given : owner'[v] = owner[v]
  BY <1>3, <1>4 DEF Given
<1>6. QED
  BY <1>1, <1>2, <1>5, RuntimeUntouched

LEMMA RuntimeInductive ==
  ASSUME RegistryOk, RuntimeOk, [Next]_vars
  PROVE  RuntimeOk'
<1>1. CASE \/ \E p \in Profiles : Add(p)
           \/ \E d \in Downloads :
                \/ \E p \in Profiles : DownloadBegins(d, p)
                \/ DownloadFails(d) \/ DownloadStages(d) \/ DownloadGivesUp(d)
                \/ DownloadCommits(d) \/ DownloadEnds(d)
  BY <1>1, SubscribingKeepsRuntime
<1>2. CASE \/ \E p \in Profiles : RemoveBegins(p)
           \/ RemoveClears \/ RemoveWrites \/ RemoveUndone \/ RemoveEnds
  BY <1>2, RemoveBeginsKeepsRuntime, RemovingKeepsRuntime
<1>3. CASE CoreExits \/ TimesOut \/ \E p \in Profiles : Request(p)
  BY <1>3, OutsideKeepsRuntime
<1>4. CASE ApplyBegins \/ ApplyReads \/ \E f \in GeoFiles : ApplyReplaces(f)
  BY <1>4, ApplyBeginsKeepsRuntime, ApplyReadsKeepsRuntime, ApplyReplacesKeepsRuntime
<1>5. CASE ApplyUnread \/ ApplyUnshipped \/ ApplyRetryFails \/ ApplyRejected
  BY <1>5, RefusedKeepsRuntime
<1>6. CASE ApplyLoads \/ ApplyUnverified \/ ApplyWritesBase \/ ApplyWritesStable
  BY <1>6, ApplyStepKeepsRuntime
<1>7. CASE ApplySlow \/ ApplyRepairs \/ ApplyVerifies \/ ApplyEnds \/ ApplyRollsBack \/ ApplyUndoes
  BY <1>7, ApplySlowKeepsRuntime, ApplyRepairsKeepsRuntime, ApplyVerifiesKeepsRuntime,
     ApplyEndsKeepsRuntime, ApplyRollsBackKeepsRuntime, ApplyUndoesKeepsRuntime
<1>8. CASE SwitchTun \/ StartReads \/ StartWrites \/ StartSpawns \/ StartFails
  BY <1>8, SwitchTunKeepsRuntime, StartReadsKeepsRuntime, StartGoesOnKeepsRuntime
<1>9. CASE GuiDies
  BY <1>9, GuiDiesKeepsRuntime
<1>10. CASE ServiceDies
  BY <1>10, ApplierDiesKeepsRuntime DEF ServiceDies, registry
<1>11. CASE UNCHANGED vars
  BY <1>11, RuntimeUntouched DEF vars, registry, runtime, Given
<1>12. QED
  BY <1>1, <1>2, <1>3, <1>4, <1>5, <1>6, <1>7, <1>8, <1>9, <1>10, <1>11 DEF Next

\* Every variable has its type, the lock has one holder and a core that is
\* started finds a configuration.
THEOREM TypesAreCorrect == Spec => []TypeOK
<1>1. RegistryOk /\ RuntimeOk => TypeOK
  BY DEF RegistryOk, RegistryTypes, LockTypes, Held, RuntimeOk, RuntimeTypes, StoredOk, TypeOK
<1>2. RegistryOk /\ RuntimeOk /\ [Next]_vars => RegistryOk' /\ RuntimeOk'
  BY RegistryInductive, RuntimeInductive
<1>3. QED
  BY RegistryInit, RuntimeInit, <1>1, <1>2, PTL DEF Spec

\* Between the transactions the base, the runtime configuration, the pointer to
\* the active profile and the core tell of the same profile, whatever write
\* failed and was rolled back, unless `torn' records what came in between.
THEOREM RuntimeIsOne == Spec => []RuntimeAgrees
<1>1. RuntimeOk => RuntimeAgrees
  BY DEF RuntimeOk, RestOk, Agree, Files, RuntimeAgrees
<1>2. RegistryOk /\ RuntimeOk /\ [Next]_vars => RegistryOk' /\ RuntimeOk'
  BY RegistryInductive, RuntimeInductive
<1>3. QED
  BY RegistryInit, RuntimeInit, <1>1, <1>2, PTL DEF Spec

-----------------------------------------------------------------------------
(* What an apply reports.                                                   *)

Reports == ApplyUnread \/ ApplyUnshipped \/ ApplyRetryFails \/ ApplyRejected \/ ApplySlow
             \/ ApplyEnds \/ ApplyUndoes

\* An apply that is in progress reports in one of these steps.
LEMMA WhoReports ==
  ASSUME RuntimeOk, Applying, [Next]_vars, ap'.pc \in {"applied", "refused"}
  PROVE  Reports
<1>1. ap \in ApplyRecord /\ ap.pc \notin {"applied", "refused"}
  BY ApplyFacts DEF Applying, Rests
<1>2. ap' # ap
  BY <1>1
<1>3. ~\E pc \in ApplyPcs \ {"applied", "refused"} : ap'.pc = pc
  BY <1>1
<1>4. /\ ~UNCHANGED vars /\ ~(\E p \in Profiles : Add(p) \/ Request(p))
      /\ ~TimesOut /\ ~SwitchTun /\ ~StartWrites /\ ~StartSpawns /\ ~StartFails /\ ~CoreExits
  BY <1>2 DEF vars, Add, Request, TimesOut, SwitchTun, StartWrites, StartSpawns, StartFails, CoreExits
<1>5. ~\E d \in Downloads :
         \/ \E p \in Profiles : DownloadBegins(d, p)
         \/ DownloadFails(d) \/ DownloadStages(d) \/ DownloadGivesUp(d)
         \/ DownloadCommits(d) \/ DownloadEnds(d)
  BY <1>2 DEF DownloadBegins, DownloadFails, DownloadStages, DownloadGivesUp, DownloadCommits,
              DownloadEnds, elsewhere
<1>6. ~RemoveClears /\ ~RemoveWrites /\ ~RemoveUndone /\ ~RemoveEnds
  BY <1>2 DEF RemoveClears, RemoveWrites, RemoveUndone, RemoveEnds
<1>7. ~StartReads /\ ~\E p \in Profiles : RemoveBegins(p)
  BY <1>1, <1>3, DisturbedForm DEF StartReads, RemoveBegins
<1>8. ~ApplierDies /\ ~GuiDies /\ ~ServiceDies
  <2>1. ApplierDies => ap'.pc = "idle"
    BY NoApplyForm DEF ApplierDies, ApplyPcs, Rests
  <2>2. ~ApplierDies
    BY <2>1
  <2>3. QED
    BY <1>2, <2>2 DEF GuiDies, ServiceDies
<1>9. ~ApplyBegins
  BY DEF ApplyBegins
<1>10. /\ ~ApplyLoads /\ ~ApplyUnverified /\ ~ApplyWritesBase /\ ~ApplyWritesStable
       /\ ~ApplyRepairs /\ ~ApplyVerifies /\ ~ApplyRollsBack /\ ~ApplyReads
  <2>1. ApplyLoads => ap'.pc = "verify"
    BY <1>1 DEF ApplyLoads, ApplyRecord
  <2>2. ApplyUnverified => ap'.pc = "undo"
    BY <1>1 DEF ApplyUnverified, ApplyRecord
  <2>3. ApplyWritesBase => ap'.pc = "stable"
    BY <1>1 DEF ApplyWritesBase, ApplyRecord
  <2>4. ApplyWritesStable => ap'.pc = "active"
    BY <1>1 DEF ApplyWritesStable, ApplyRecord
  <2>5. ApplyRepairs => ap'.pc = "geo"
    BY <1>1 DEF ApplyRepairs, ApplyRecord
  <2>6. ApplyVerifies => ap'.pc = "base"
    <3> DEFINE now == Files
    <3>1. ApplyVerifies => ap' = [ap EXCEPT !.pc = "base", !.old = now]
      BY DEF ApplyVerifies
    <3> HIDE DEF now
    <3>2. QED
      BY <1>1, <3>1 DEF ApplyRecord
  <2>7. ApplyRollsBack => ap'.pc = "undo"
    <3>1. ApplyRollsBack => ap' = [ap EXCEPT !.pc = "undo", !.old = Unread]
      BY DEF ApplyRollsBack
    <3>2. QED
      BY <1>1, <3>1 DEF ApplyRecord
  <2>8. ApplyReads => ap'.pc \in {"geo", "put"}
    BY <1>1 DEF ApplyReads, ApplyRecord
  <2>9. QED
    BY <2>1, <2>2, <2>3, <2>4, <2>5, <2>6, <2>7, <2>8
<1>11. ~\E f \in GeoFiles : ApplyReplaces(f)
  <2>1. ASSUME NEW f \in GeoFiles, ApplyReplaces(f) PROVE FALSE
    <3> DEFINE a == [ap EXCEPT !.todo = @ \ {f}]
               b == [ap EXCEPT !.pc = "retry", !.todo = {}]
               c == [ap EXCEPT !.pc = "put", !.todo = {}]
    <3>1. ap' \in {a, b, c}
      BY <2>1 DEF ApplyReplaces
    <3>2. a.pc = ap.pc /\ b.pc = "retry" /\ c.pc = "put"
      BY <1>1 DEF ApplyRecord
    <3> HIDE DEF a, b, c
    <3>3. QED
      BY <1>1, <3>1, <3>2
  <2>2. QED
    BY <2>1
<1>12. QED
  BY <1>4, <1>5, <1>6, <1>7, <1>8, <1>9, <1>10, <1>11 DEF Next, Reports

\* All of what an apply reports is so, or none of it has been done.
Whole ==
    Applying =>
       /\ (ap'.pc = "applied" /\ ~torn') =>
             /\ Files' = [base |-> ap.ver, stable |-> ap.ver, active |-> ap.id]
             /\ running' \in {Absent, ap.ver}
       /\ (ap'.pc = "refused" /\ ~torn') =>
             /\ Files' = ap.was /\ running' \in {Absent, ap.ran}
             /\ ap.pc \in {"put", "retry", "geo"} =>
                   geo' = ap.geo \/ (ap.pc = "put" /\ Incomplete /\ geo' = Shipped)

LEMMA ReportsAreWhole ==
  ASSUME RuntimeOk, Applying, Reports, ~torn'
  PROVE  Whole
<1>1. CASE ApplyUnread \/ ApplyUnshipped \/ ApplyRetryFails \/ ApplyRejected
  <2>1. /\ ap.pc \in Unloaded /\ ap' = NoApply("refused")
        /\ ~torn /\ ap.clean /\ UNCHANGED <<base, active, stable, running>>
        /\ ap.pc \in {"geo", "retry"} => geo' = ap.geo
        /\ ap.pc \in {"build", "put"} => geo' = geo
    <3>1. CASE ApplyUnread \/ ApplyRejected
      BY <3>1 DEF ApplyUnread, ApplyRejected, Refused, runtime, Unloaded
    <3>2. CASE ApplyUnshipped \/ ApplyRetryFails
      BY <3>2 DEF ApplyUnshipped, ApplyRetryFails, RefusedRestored, runtime, Unloaded
    <3>3. QED
      BY <1>1, <3>1, <3>2
  <2>2. StageOk /\ ap.was \in FileRecords
    BY <2>1, ApplyFacts
  <2>3. /\ Kept /\ running \in {Absent, ap.ran}
        /\ ap.pc = "put" => geo = ap.geo \/ (Incomplete /\ geo = Shipped)
    BY <2>1, <2>2 DEF StageOk
  <2>4. Files' = ap.was
    BY <2>1, <2>2, <2>3 DEF Files, Kept, FileRecords
  <2>5. ap'.pc = "refused"
    BY <2>1, NoApplyForm DEF ApplyPcs, Rests
  <2>6. QED
    BY <2>1, <2>3, <2>4, <2>5 DEF Whole
<1>2. CASE ApplySlow
  BY <1>2 DEF ApplySlow
<1>3. CASE ApplyEnds
  <2>1. /\ ap.pc = "active" /\ active' = ap.id /\ ap' = NoApply("applied") /\ ap.clean
        /\ UNCHANGED <<base, stable, running>>
    BY <1>3 DEF ApplyEnds
  <2>2. base = ap.ver /\ stable = ap.ver /\ running \in {Absent, ap.ver}
    BY <2>1, ApplyFacts DEF StageOk, Unloaded
  <2>3. ap'.pc = "applied"
    BY <2>1, NoApplyForm DEF ApplyPcs, Rests
  <2>4. QED
    BY <2>1, <2>2, <2>3 DEF Whole, Files
<1>4. CASE ApplyUndoes
  <2>1. /\ ap.pc = "undo" /\ ap' = NoApply("refused") /\ UNCHANGED <<base, active>>
        /\ ~torn /\ ap.clean /\ stable' = ap.was.stable /\ running' \in {Absent, stable'}
    BY <1>4 DEF ApplyUndoes
  <2>2. /\ Kept /\ ap.was \in FileRecords /\ Agree(ap.was, ap.ran) /\ ap.ran # Absent
    BY <2>1, ApplyFacts DEF StageOk
  <2>3. Files' = ap.was
    BY <2>1, <2>2 DEF Files, Kept, FileRecords
  <2>4. running' \in {Absent, ap.ran}
    BY <2>1, <2>2 DEF Agree
  <2>5. ap'.pc = "refused"
    BY <2>1, NoApplyForm DEF ApplyPcs, Rests
  <2>6. QED
    BY <2>1, <2>3, <2>4, <2>5 DEF Whole
<1>5. QED
  BY <1>1, <1>2, <1>3, <1>4 DEF Reports

\* An apply that reports success has changed all three files and the core, one
\* that reports failure none of them; the geodata are then as they were unless its
\* candidate had been loaded, or completed if one of them was missing.
THEOREM ApplyIsAllOrNothing == Spec => AllOrNothing
<1>1. RegistryOk /\ RuntimeOk /\ [Next]_vars => [Whole]_vars
  BY WhoReports, ReportsAreWhole DEF Whole
<1>2. RegistryOk /\ RuntimeOk /\ [Next]_vars => RegistryOk' /\ RuntimeOk'
  BY RegistryInductive, RuntimeInductive
<1>3. QED
  BY RegistryInit, RuntimeInit, <1>1, <1>2, PTL DEF Spec, AllOrNothing, Whole
=============================================================================
