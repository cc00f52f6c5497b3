---------------------------- MODULE InstallerProofs ----------------------------
(***************************************************************************)
(* Proofs about Installer, for any number of releases.                     *)
(***************************************************************************)
EXTENDS Installer, TLAPS

(* Only a release that is not there is downloaded, and others are removed  *)
(* only next to one that is ready.                                         *)
Ready ==
  /\ pc = "download" => ~IsFile(target)
  /\ pc = "remove" => disk[target] = "good" /\ target \notin todo

IInv == TypeOK /\ Ready

LEMMA InitIInv == Init => IInv
<1> SUFFICES ASSUME Init PROVE IInv
  OBVIOUS
<1>1. configured \in BOOLEAN /\ cached = None /\ latest = None /\ target = None /\ pc = "idle"
  BY Zenon DEF Init
<1>2. disk \in [Releases -> Contents] /\ todo = {} /\ result = Pending
  BY DEF Init, Contents
<1>3. QED  BY <1>1, <1>2 DEF IInv, TypeOK, Ready, Pending, Result

LEMMA ReleasesNotNone == None \notin Releases
BY InstallerAssumption DEF None, Releases

LEMMA ExtensionIInv ==
  ASSUME IInv, Extension
  PROVE  IInv'
<1> USE ReleasesNotNone DEF IInv, TypeOK, Ready, Contents, IsFile, environment
<1>1. CASE UsesConfigured
  BY <1>1 DEF UsesConfigured, Result
<1>2. CASE UsesCached
  BY <1>2 DEF UsesCached, CacheHolds, Returns, Result
<1>3. CASE ChecksForUpdate
  BY <1>3 DEF ChecksForUpdate, Pending, Result
<1>4. CASE LookupFails
  BY <1>4 DEF LookupFails
<1>5. CASE FindsLatest
  BY <1>5 DEF FindsLatest, Installed, Returns, Result
<1>6. CASE Downloads
  BY <1>6 DEF Downloads
<1>7. CASE DownloadFails
  BY <1>7 DEF DownloadFails
<1>8. CASE MakesExecutable
  BY <1>8 DEF MakesExecutable
<1>9. CASE InstallFails
  BY <1>9 DEF InstallFails
<1>10. CASE RemovesOlder
  BY <1>10 DEF RemovesOlder
<1>11. CASE Installs
  BY <1>11 DEF Installs, Returns, Result
<1>12. CASE FallsBack
  BY <1>12 DEF FallsBack, Returns, Result
<1>13. QED
  BY <1>1, <1>2, <1>3, <1>4, <1>5, <1>6, <1>7, <1>8, <1>9, <1>10, <1>11, <1>12 DEF Extension

LEMMA NextIInv == IInv /\ [Next]_vars => IInv'
<1> SUFFICES ASSUME IInv, [Next]_vars PROVE IInv'
  OBVIOUS
<1> USE DEF IInv, TypeOK, Ready, Contents, IsFile, environment
<1>1. CASE Extension
  BY <1>1, ExtensionIInv
<1>2. CASE Quits
  BY <1>2 DEF Quits, Pending, Result
<1>3. CASE Publishes
  <2>1. latest' \in Releases
    BY <1>3, InstallerAssumption DEF Publishes, Releases, None
  <2>2. QED  BY <1>3, <2>1 DEF Publishes
<1>4. CASE Configures
  BY <1>4 DEF Configures
<1>5. ASSUME NEW r \in Releases, Deletes(r) PROVE IInv'
  BY <1>5 DEF Deletes
<1>6. CASE UNCHANGED vars
  BY <1>6 DEF vars
<1>7. QED  BY <1>1, <1>2, <1>3, <1>4, <1>5, <1>6 DEF Next

LEMMA SpecIInv == Spec => []IInv
BY InitIInv, NextIInv, PTL DEF Spec

-------------------------------------------------------------------------------
(* The variables of a call keep their types. *)
THEOREM InstallerTypeOK == Spec => []TypeOK
<1>1. IInv => TypeOK  BY DEF IInv
<1>2. QED  BY <1>1, SpecIInv, PTL

(* What a step does to the directories: a good one becomes something else  *)
(* only while others are removed, and never becomes broken.                *)
LEMMA StepKeepsGood ==
  ASSUME IInv, [Next]_vars
  PROVE  /\ \A r \in Releases : disk[r] = "good" => disk'[r] # "broken"
         /\ pc # "idle" /\ HasGood => HasGood'
<1> USE DEF IInv, TypeOK, Ready, Contents, IsFile, HasGood, environment
<1>1. CASE UNCHANGED disk
  BY <1>1
<1>2. CASE Downloads \/ DownloadFails
  <2>1. \A r \in Releases \ {target} : disk'[r] = disk[r]
    BY <1>2 DEF Downloads, DownloadFails
  <2>2. target \in Releases /\ disk[target] # "good"
    BY <1>2 DEF Downloads, DownloadFails
  <2>3. QED  BY <2>1, <2>2
<1>3. CASE MakesExecutable \/ InstallFails
  <2>1. \A r \in Releases : disk'[r] \in {disk[r], "good"}
    BY <1>3 DEF MakesExecutable, InstallFails
  <2>2. QED  BY <2>1
<1>4. CASE RemovesOlder
  <2>1. disk'[target] = "good" /\ target \in Releases
    BY <1>4 DEF RemovesOlder
  <2>2. \A r \in Releases : disk[r] = "good" => disk'[r] # "broken"
    BY <1>4 DEF RemovesOlder
  <2>3. QED  BY <2>1, <2>2
<1>5. ASSUME NEW r \in Releases, Deletes(r)
      PROVE  pc = "idle" /\ \A s \in Releases : disk'[s] \in {disk[s], "absent"}
  BY <1>5 DEF Deletes
<1>6. Next => \/ UNCHANGED disk
              \/ Downloads \/ DownloadFails \/ MakesExecutable \/ InstallFails \/ RemovesOlder
              \/ \E r \in Releases : Deletes(r)
  BY DEF Next, Extension, UsesConfigured, UsesCached, ChecksForUpdate, LookupFails, FindsLatest,
         Installs, FallsBack, Quits, Publishes, Configures
<1>7. UNCHANGED vars => UNCHANGED disk
  BY DEF vars
<1>8. QED  BY <1>1, <1>2, <1>3, <1>4, <1>5, <1>6, <1>7

(* A call never loses the last working klog-ls, wherever it fails and      *)
(* whenever Zed quits (download_latest removes others last).               *)
THEOREM InstallerKeepsGoodBinary == Spec => GoodBinaryKept
<1>1. IInv /\ [Next]_vars => [pc # "idle" /\ HasGood => HasGood']_vars
  BY StepKeepsGood
<1>2. QED  BY <1>1, SpecIInv, PTL DEF Spec, GoodBinaryKept

(* A working klog-ls is never overwritten by a download. *)
THEOREM InstallerNeverOverwrites == Spec => NeverOverwritten
<1>1. IInv /\ [Next]_vars => [\A r \in Releases : disk[r] = "good" => disk'[r] # "broken"]_vars
  BY StepKeepsGood
<1>2. QED  BY <1>1, SpecIInv, PTL DEF Spec, NeverOverwritten

-------------------------------------------------------------------------------
(* While a call runs, it has not returned anything yet. *)
NothingReturned == pc # "idle" => result = Pending

LEMMA PathsAndNothing ==
  ASSUME IInv, NothingReturned, [Next]_vars
  PROVE  /\ NothingReturned'
         /\ result'.kind = "path" => \/ UNCHANGED <<pc, result>>
                                     \/ disk'[result'.release] \in {"broken", "good"}
<1> USE DEF NothingReturned, Pending, Result
<1>1. CASE Extension
  <2>1. CASE UsesConfigured \/ ChecksForUpdate \/ LookupFails \/ Downloads \/ DownloadFails
             \/ MakesExecutable \/ InstallFails \/ RemovesOlder
    BY <2>1 DEF UsesConfigured, ChecksForUpdate, LookupFails, Downloads, DownloadFails,
                MakesExecutable, InstallFails, RemovesOlder
  <2>2. CASE UsesCached
    BY <2>2 DEF UsesCached, CacheHolds, Returns, IsFile
  <2>3. CASE FindsLatest
    <3>1. CASE Installed(latest)
      BY <2>3, <3>1 DEF FindsLatest, Installed, Returns, IsFile
    <3>2. CASE ~Installed(latest)
      BY <2>3, <3>2 DEF FindsLatest
    <3> QED BY <3>1, <3>2
  <2>4. CASE Installs
    <3>1. IsFile(target)
      BY <2>4 DEF Installs, IInv, Ready, IsFile
    <3> QED BY <2>4, <3>1 DEF Installs, Returns, IsFile
  <2>5. CASE FallsBack
    BY <2>5 DEF FallsBack, Returns, IsFile
  <2> QED BY <1>1, <2>1, <2>2, <2>3, <2>4, <2>5 DEF Extension
<1>2. CASE Quits
  BY <1>2 DEF Quits
<1>3. CASE Publishes \/ Configures \/ (\E r \in Releases : Deletes(r)) \/ UNCHANGED vars
  BY <1>3 DEF Publishes, Configures, Deletes, vars
<1> QED BY <1>1, <1>2, <1>3 DEF Next

(* Whatever has happened to the directories since the last call, a path    *)
(* that a call returns is a file then (downloaded_binary).                 *)
THEOREM InstallerReturnsFile == Spec => ReturnsFile
<1>1. Init => NothingReturned
  BY DEF Init, NothingReturned
<1>2. IInv /\ NothingReturned /\ [Next]_vars => NothingReturned'
  BY PathsAndNothing
<1>3. IInv /\ NothingReturned /\ [Next]_vars =>
        [result'.kind = "path" => disk'[result'.release] \in {"broken", "good"}]_<<pc, result>>
  BY PathsAndNothing
<1> QED BY <1>1, <1>2, <1>3, SpecIInv, PTL DEF Spec, ReturnsFile
===============================================================================
