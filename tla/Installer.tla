------------------------------- MODULE Installer -------------------------------
(***************************************************************************)
(* The Rust part of the extension, src/lib.rs: it finds klog-ls for Zed,   *)
(* or installs the latest GitHub release in its working directory, one     *)
(* directory for each version. Zed calls it once at a time, whenever it    *)
(* starts the server; downloads can fail half way, and Zed can quit        *)
(* between any two steps.                                                  *)
(***************************************************************************)
EXTENDS Naturals, FiniteSets

CONSTANT MaxRelease  \* bound: how many releases are published

ASSUME InstallerAssumption == MaxRelease \in Nat

Releases == 1..MaxRelease
None == 0

VARIABLES
  disk,        \* disk[r]: what the directory of release r holds
  latest,      \* the latest release on GitHub
  configured,  \* the settings or the PATH have a klog-ls
  cached,      \* cached_binary_path
  pc,          \* where the call is
  target,      \* the release that download_latest is about
  todo,        \* the other directories that are still to be removed
  result       \* what the last call has returned

vars == <<disk, latest, configured, cached, pc, target, todo, result>>
environment == <<latest, configured>>

(* "empty": a directory without the executable. "broken": the executable   *)
(* is there, but it is incomplete, or not executable yet.                  *)
Contents == {"absent", "empty", "broken", "good"}
IsFile(r) == disk[r] \in {"broken", "good"}

Result(kind, r) == [kind |-> kind, release |-> r]
Pending == Result("pending", None)

Init ==
  /\ disk = [r \in Releases |-> "absent"]
  /\ latest = None
  /\ configured = FALSE
  /\ cached = None
  /\ pc = "idle"
  /\ target = None
  /\ todo = {}
  /\ result = Pending

(* The call is over; the next one finds the path in the cache. *)
Returns(r) ==
  /\ pc' = "idle"
  /\ result' = Result("path", r)
  /\ cached' = r
  /\ target' = None

UsesConfigured ==
  /\ pc = "idle"
  /\ configured
  /\ result' = Result("configured", None)
  /\ UNCHANGED <<disk, environment, cached, pc, target, todo>>

(* Variant: the cached path is not looked up. *)
TrustsCache == cached # None
CacheHolds == cached # None /\ IsFile(cached)

UsesCached ==
  /\ pc = "idle"
  /\ ~configured
  /\ CacheHolds
  /\ Returns(cached)
  /\ UNCHANGED <<disk, environment, todo>>

ChecksForUpdate ==
  /\ pc = "idle"
  /\ ~configured
  /\ ~CacheHolds
  /\ pc' = "lookup"
  /\ result' = Pending
  /\ UNCHANGED <<disk, environment, cached, target, todo>>

(* No network, no release, no asset for this platform. *)
LookupFails ==
  /\ pc = "lookup"
  /\ pc' = "fallback"
  /\ UNCHANGED <<disk, environment, cached, target, todo, result>>

(* Variant: whatever is there is downloaded again. *)
NeverInstalled(r) == FALSE
Installed(r) == IsFile(r)

(* Variant: version_dir is that of an earlier call. *)
FindsSomething ==
  /\ pc = "lookup"
  /\ latest # None
  /\ pc' = "download"
  /\ UNCHANGED <<disk, environment, cached, target, todo, result>>

FindsLatest ==
  /\ pc = "lookup"
  /\ latest # None
  /\ IF Installed(latest)
       THEN Returns(latest)
       ELSE pc' = "download" /\ target' = latest /\ UNCHANGED <<cached, result>>
  /\ UNCHANGED <<disk, environment, todo>>

(* Variant: the old versions make room for the new one. *)
DownloadsInstead ==
  /\ pc = "download"
  /\ \E c \in {"broken", "empty"} :
       disk' = [r \in Releases |-> IF r = target THEN c ELSE "absent"]
  /\ pc' = "chmod"
  /\ UNCHANGED <<environment, cached, target, todo, result>>

(* An archive may lack the executable. *)
Downloads ==
  /\ pc = "download"
  /\ \E c \in {"broken", "empty"} : disk' = [disk EXCEPT ![target] = c]
  /\ pc' = "chmod"
  /\ UNCHANGED <<environment, cached, target, todo, result>>

(* What had been unpacked by then stays. *)
DownloadFails ==
  /\ pc = "download"
  /\ \E c \in {disk[target], "empty", "broken"} : disk' = [disk EXCEPT ![target] = c]
  /\ pc' = "fallback"
  /\ UNCHANGED <<environment, cached, target, todo, result>>

(* read_dir follows: todo is what it lists. *)
MakesExecutable ==
  /\ pc = "chmod"
  /\ IsFile(target)
  /\ disk' = [disk EXCEPT ![target] = "good"]
  /\ todo' = {r \in Releases \ {target} : disk[r] # "absent"}
  /\ pc' = "remove"
  /\ UNCHANGED <<environment, cached, target, result>>

(* make_file_executable or read_dir fails. *)
InstallFails ==
  /\ pc = "chmod"
  /\ \/ UNCHANGED disk
     \/ IsFile(target) /\ disk' = [disk EXCEPT ![target] = "good"]
  /\ pc' = "fallback"
  /\ UNCHANGED <<environment, cached, target, todo, result>>

(* An error of remove_dir_all is ignored, and leaves some of the directory.*)
RemovesOlder ==
  /\ pc = "remove"
  /\ \E r \in todo :
       /\ todo' = todo \ {r}
       /\ \E c \in {"absent", "empty", disk[r]} : disk' = [disk EXCEPT ![r] = c]
  /\ UNCHANGED <<environment, cached, pc, target, result>>

Installs ==
  /\ pc = "remove"
  /\ todo = {}
  /\ Returns(target)
  /\ UNCHANGED <<disk, environment, todo>>

(* previously_downloaded_binary: the first directory, in no given order.   *)
(* When read_dir fails, there is none.                                     *)
FallsBack ==
  /\ pc = "fallback"
  /\ \/ \E r \in Releases : IsFile(r) /\ Returns(r)
     \/ /\ pc' = "idle"
        /\ result' = Result("error", None)
        /\ target' = None
        /\ UNCHANGED cached
  /\ UNCHANGED <<disk, environment, todo>>

Extension ==
  \/ UsesConfigured \/ UsesCached \/ ChecksForUpdate \/ LookupFails \/ FindsLatest
  \/ Downloads \/ DownloadFails \/ MakesExecutable \/ InstallFails
  \/ RemovesOlder \/ Installs \/ FallsBack

-------------------------------------------------------------------------------
(* Zed quits, at any point; the next one has a new KlogExtension. *)
Quits ==
  /\ pc' = "idle"
  /\ cached' = None
  /\ target' = None
  /\ todo' = {}
  /\ result' = Pending
  /\ UNCHANGED <<disk, environment>>

Publishes ==
  /\ latest < MaxRelease
  /\ latest' = latest + 1
  /\ UNCHANGED <<disk, configured, cached, pc, target, todo, result>>

Configures ==
  /\ configured' = ~configured
  /\ UNCHANGED <<disk, latest, cached, pc, target, todo, result>>

(* The user, or Zed on a reinstall, deletes a directory between two calls. *)
Deletes(r) ==
  /\ pc = "idle"
  /\ disk' = [disk EXCEPT ![r] = "absent"]
  /\ UNCHANGED <<environment, cached, pc, target, todo, result>>

Next ==
  \/ Extension
  \/ Quits \/ Publishes \/ Configures \/ \E r \in Releases : Deletes(r)

Spec == Init /\ [][Next]_vars

-------------------------------------------------------------------------------
(* The variables of a call have their types. *)
TypeOK ==
  /\ disk \in [Releases -> Contents]
  /\ latest \in Releases \union {None}
  /\ configured \in BOOLEAN
  /\ cached \in Releases \union {None}
  /\ pc \in {"idle", "lookup", "download", "chmod", "remove", "fallback"}
  /\ target \in Releases \union {None}
  /\ pc \in {"download", "chmod", "remove"} => target # None
  /\ todo \subseteq Releases
  /\ result \in [kind : {"pending", "path", "configured", "error"}, release : Releases \union {None}]

(* A call that starts with a working klog-ls in the working directory never*)
(* ends up without one, wherever it fails and whenever Zed quits: an old   *)
(* version goes only when the new one is complete and executable           *)
(* (download_latest).                                                      *)
HasGood == \E r \in Releases : disk[r] = "good"
GoodBinaryKept == [][pc # "idle" /\ HasGood => HasGood']_vars

(* A working klog-ls, which a server may be running from, is never         *)
(* overwritten by a download (download_latest, the check for is_file).     *)
NeverOverwritten ==
  [][\A r \in Releases : disk[r] = "good" => disk'[r] # "broken"]_vars

(* A path that a call returns is a file then: the cache does not outlive   *)
(* the directory, and the fallback does not invent one (downloaded_binary).*)
ReturnsFile ==
  [][result'.kind = "path" => disk'[result'.release] \in {"broken", "good"}]_<<pc, result>>

(* The comment on previously_downloaded_binary, which takes the first one  *)
(* it finds: "Older versions are removed after each download, so there is  *)
(* at most one." It is only removed if Zed does not quit before that, and  *)
(* if remove_dir_all succeeds.                                             *)
AtMostOneDownloaded ==
  pc = "fallback" => Cardinality({r \in Releases : disk[r] = "good"}) <= 1
===============================================================================
