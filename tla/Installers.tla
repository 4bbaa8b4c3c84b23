------------------------------ MODULE Installers ------------------------------
(***************************************************************************)
(* The installers a server offers (server/internal/installersync,          *)
(* server/internal/api/installers.go).  syncOnce fetches what the latest   *)
(* release has and the directory lacks; administrators copy files in from  *)
(* the host; a heartbeat that offers an update picks the newest file for   *)
(* its platform and sends its checksum, which is kept as long as the       *)
(* file's time and size stay the same.  A copy and an asset have the same  *)
(* size here, so only the time tells them apart.                           *)
(***************************************************************************)
EXTENDS Naturals, FiniteSets

CONSTANTS
  File,            \* names of installers, [ext, version]
  Oversized,       \* files with an asset of more than maxAssetBytes
  NameOrder,       \* the files in the order of their names, as numbers
  Offerer,         \* heartbeats that may overlap
  NoFile,
  MaxReleases, MaxCopies   \* bounds

ASSUME InstallerAssumption ==
  /\ \A f \in File : f.ext \in {"msi", "pkg"} /\ f.version \in Nat
  /\ IsFiniteSet(File) /\ NoFile \notin File /\ Oversized \subseteq File
  /\ NameOrder \in [File -> Nat] /\ \A f, g \in File : NameOrder[f] = NameOrder[g] => f = g
  /\ MaxReleases \in Nat /\ MaxCopies \in Nat

VARIABLES
  release,     \* the assets of the latest release
  releases,    \* releases made
  directory,   \* what each file holds and the time of its last write
  copies,      \* writes by the host
  toFetch,     \* syncOnce: assets still to look at
  fetching,    \* the asset download is writing to its temporary file
  leftover,    \* temporary files nobody removes
  checksums,   \* checksumCache
  offering     \* each heartbeat's way through installerChecksumForURL

installerVars == <<release, releases, directory, copies, toFetch, fetching, leftover,
                   checksums, offering>>

NoBody == [body |-> "none", written |-> 0]
NoOffer == [at |-> "idle", file |-> NoFile, stat |-> 0, body |-> "none"]

Present == {f \in File : directory[f] # NoBody}

InstallersInit ==
  /\ release = {} /\ releases = 0
  /\ directory = [f \in File |-> NoBody]
  /\ copies = 0
  /\ toFetch = {} /\ fetching = NoFile /\ leftover = 0
  /\ checksums = [f \in File |-> NoBody]
  /\ offering = [o \in Offerer |-> NoOffer]

-----------------------------------------------------------------------------
(* Stocking the directory.                                                 *)

\* Every write of a file has a time of its own.
Written(f, body) ==
  directory' = [directory EXCEPT ![f] = [body |-> body, written |-> @.written + 1]]

Publish(assets) ==
  /\ releases < MaxReleases
  /\ release' = assets /\ releases' = releases + 1
  /\ UNCHANGED <<directory, copies, toFetch, fetching, leftover, checksums, offering>>

\* From the host, file by file; cp writes in place, and the first bytes are
\* there before the rest.
HostCopy(f, body) ==
  /\ copies < MaxCopies
  /\ copies' = copies + 1
  /\ Written(f, body)
  /\ UNCHANGED <<release, releases, toFetch, fetching, leftover, checksums, offering>>

\* latestRelease; a request that fails leaves nothing to do until next time.
BeginSync ==
  /\ toFetch = {} /\ fetching = NoFile
  /\ toFetch' = release
  /\ UNCHANGED <<release, releases, directory, copies, fetching, leftover, checksums, offering>>

HaveIt(f) ==
  /\ fetching = NoFile /\ f \in toFetch /\ f \in Present
  /\ toFetch' = toFetch \ {f}
  /\ UNCHANGED <<release, releases, directory, copies, fetching, leftover, checksums, offering>>

\* The asset is written under its own name.
BeginDownloadInPlace(f) ==
  /\ fetching = NoFile /\ f \in toFetch \ Present
  /\ toFetch' = toFetch \ {f} /\ fetching' = f
  /\ Written(f, "part of asset")
  /\ UNCHANGED <<release, releases, copies, leftover, checksums, offering>>

BeginDownload(f) ==
  /\ fetching = NoFile /\ f \in toFetch \ Present
  /\ toFetch' = toFetch \ {f} /\ fetching' = f
  /\ UNCHANGED <<release, releases, directory, copies, leftover, checksums, offering>>

\* The reader stops at maxAssetBytes and says nothing.  Whatever has got the
\* name in the meantime is replaced.
FinishDownload ==
  /\ fetching # NoFile
  /\ Written(fetching, IF fetching \in Oversized THEN "first 300 MB" ELSE "asset")
  /\ fetching' = NoFile
  /\ UNCHANGED <<release, releases, copies, toFetch, leftover, checksums, offering>>

\* The temporary file is removed.
DownloadFails ==
  /\ fetching # NoFile
  /\ fetching' = NoFile
  /\ UNCHANGED <<release, releases, directory, copies, toFetch, leftover, checksums, offering>>

\* The server stops: the cache is gone, and a temporary file stays.
ServerRestarts ==
  /\ fetching # NoFile \/ toFetch # {}
  /\ leftover' = IF fetching # NoFile /\ leftover = 0 THEN 1 ELSE leftover
  /\ toFetch' = {} /\ fetching' = NoFile
  /\ checksums' = [f \in File |-> NoBody]
  /\ offering' = [o \in Offerer |-> NoOffer]
  /\ UNCHANGED <<release, releases, directory, copies>>

-----------------------------------------------------------------------------
(* Offering what is there.                                                 *)

\* compareVersions, then names.
Newer(f, g) ==
  f.version > g.version \/ (f.version = g.version /\ NameOrder[f] > NameOrder[g])

\* findLatestByExt.
Latest(dir, ext) ==
  LET files == {f \in File : dir[f] # NoBody /\ f.ext = ext}
  IN IF files = {} THEN NoFile
     ELSE CHOOSE f \in files : \A g \in files \ {f} : Newer(f, g)

\* findLatestInstaller: its platform's, and the other one's if there is none.
LatestInstaller(ext) ==
  LET other == IF ext = "msi" THEN "pkg" ELSE "msi"
  IN IF Latest(directory, ext) # NoFile THEN Latest(directory, ext) ELSE Latest(directory, other)

\* GetLatestInstallerURL, and os.Stat and the cache in installerChecksumForURL.
OfferInstaller(o, ext) ==
  /\ offering[o].at = "idle"
  /\ LatestInstaller(ext) # NoFile
  /\ LET f == LatestInstaller(ext) IN
       IF checksums[f].written = directory[f].written
       THEN UNCHANGED offering
       ELSE offering' = [offering EXCEPT ![o] =
              [at |-> "missed", file |-> f, stat |-> directory[f].written, body |-> "none"]]
  /\ UNCHANGED <<release, releases, directory, copies, toFetch, fetching, leftover, checksums>>

\* The file is opened and read.
HashFile(o) ==
  /\ offering[o].at = "missed"
  /\ offering' = [offering EXCEPT ![o].at = "hashed", ![o].body = directory[offering[o].file].body]
  /\ UNCHANGED <<release, releases, directory, copies, toFetch, fetching, leftover, checksums>>

\* The time is looked up when the sum is there.
StatWhenHashed(o) == directory[offering[o].file].written

StatBefore(o) == offering[o].stat

CacheChecksum(o) ==
  /\ offering[o].at = "hashed"
  /\ checksums' = [checksums EXCEPT ![offering[o].file] =
       [body |-> offering[o].body, written |-> StatBefore(o)]]
  /\ offering' = [offering EXCEPT ![o] = NoOffer]
  /\ UNCHANGED <<release, releases, directory, copies, toFetch, fetching, leftover>>

InstallersNext ==
  \/ \E assets \in SUBSET File : Publish(assets)
  \/ \E f \in File : \/ \E body \in {"part of copy", "copy"} : HostCopy(f, body)
                     \/ HaveIt(f) \/ BeginDownload(f)
  \/ BeginSync \/ FinishDownload \/ DownloadFails \/ ServerRestarts
  \/ \E o \in Offerer : \/ \E ext \in {"msi", "pkg"} : OfferInstaller(o, ext)
                        \/ HashFile(o) \/ CacheChecksum(o)

-----------------------------------------------------------------------------
(* Properties.                                                             *)

\* A checksum that a heartbeat would send from the cache is that of what the
\* file holds now, however its reading overlapped with a download or a copy:
\* a wrong one would make every agent refuse the update until the file changes.
ChecksumsCurrent ==
  \A f \in Present : checksums[f].written = directory[f].written => checksums[f].body = directory[f].body

\* What syncOnce puts up is an asset to its last byte, or to the cap, also when
\* downloads fail or the server stops in one ("a partial download is never
\* observed as a valid installer"); and the file offered to a platform is never
\* older than one offered before.
OffersWholeAndNewest ==
  [][/\ \A f \in File : directory'[f].body # "part of asset"
     /\ \A ext \in {"msi", "pkg"} :
          Latest(directory, ext) # NoFile =>
            Latest(directory', ext).version >= Latest(directory, ext).version]_installerVars
=============================================================================
