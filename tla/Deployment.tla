----------------------------- MODULE Deployment -----------------------------
(***************************************************************************)
(* One deployment from /upload or /uploadURL to its answer: the archive,   *)
(* the folders and the Docker items it makes, and what becomes of them on  *)
(* every error return (cmd/server/main.go, pkg/server/server.go,           *)
(* pkg/docker/backend.go).                                                 *)
(*                                                                         *)
(* Deployments of one function follow one another; what concurrent         *)
(* requests do to each other, and routes, are in module Server.  Every     *)
(* file system and Docker call may fail.  The parts of a request are       *)
(* chosen where they are read.                                             *)
(***************************************************************************)
EXTENDS HandlerContract, Files, Resources

CONSTANTS
  None,
  Archives,          \* what an archive may hold
  Subfolders,        \* the subfolder_path of /uploadURL, << >> for none
  CPUs, Memories,    \* quantities asked for
  IPs, replicas,     \* container addresses; the numbers of replicas asked for
  AutoscalerEnabled

VARIABLES
  listed,     \* the state of the listed handler (HandlerContract), or None
  disk,       \* the files and folders that this deployment has left on disk
  docker,     \* Docker items of a replacement that has no handler yet
  new,        \* the replacement handler, or None
  content,    \* what the replacement was made from, as far as it is known
  old,        \* the listed handler as it was when the deployment began
  replaced,   \* the replacement is the listed handler
  failed,     \* the steps that failed in this deployment
  parts,      \* the parts of the request that have been read
  answer,     \* the status sent, 0 before
  pc

artifacts == <<disk, docker>>
handlers == <<listed, new, replaced>>
request == <<content, parts>>
vars == <<artifacts, handlers, request, old, failed, answer, pc>>

ASSUME DeploymentAssumption ==
  /\ None \notin HandlerState(IPs)
  /\ replicas \subseteq Int
  /\ AutoscalerEnabled \in BOOLEAN
  /\ << >> \in Subfolders /\ \A p \in Subfolders : IsPath(p)

\* Entries and subfolders that lead out of their folder are left out (IsPath).
ASSUME ArchivesAssumption ==
  \A a \in Archives : IsSeq(a) /\ \A i \in DOMAIN a : IsPath(a[i].path)

ASSUME QuantitiesAssumption ==
  \A q \in CPUs \cup Memories :
    \/ q \in {Absent, Malformed}
    \/ q.text = "number" /\ q.num \in Int /\ q.den \in Nat \ {0}

NoContent == [archive |-> None, subfolder |-> << >>, files |-> Empty, limits |-> None,
              asked |-> None]

Init ==
  /\ listed = None /\ new = None /\ old = None /\ replaced = FALSE
  /\ disk = {} /\ docker = {}
  /\ content = NoContent /\ parts = {}
  /\ failed = {} /\ answer = 0 /\ pc = "idle"
-----------------------------------------------------------------------------
At(label) == pc = label

\* A step that succeeds, or fails and is left for the next label.
Step(label) == pc' = label /\ UNCHANGED failed

Fail(step, label) == pc' = label /\ failed' = failed \cup {step}

\* Between deployments the idle check may have stopped the function.
Idle ==
  /\ At("idle") /\ AutoscalerEnabled
  /\ listed # None /\ listed.phase = "up"
  /\ listed' = WithRuntime(listed, "down", {})
  /\ UNCHANGED <<artifacts, new, replaced, request, old, failed, answer, pc>>
-----------------------------------------------------------------------------
(* The requests.  A method other than POST and a body that cannot be       *)
(* parsed are answered at once; nothing has been made.                     *)

Upload ==
  /\ At("idle")
  /\ old' = listed
  /\ pc' \in {"parts", "refused"}
  /\ UNCHANGED <<artifacts, handlers, request, failed, answer>>

UrlUpload ==
  /\ At("idle")
  /\ old' = listed
  /\ \E sub \in Subfolders : content' = [NoContent EXCEPT !.subfolder = sub]
  /\ pc' \in {"download", "refused"}
  /\ UNCHANGED <<artifacts, handlers, parts, failed, answer>>

Refuse ==
  /\ At("refused")
  /\ answer' = 400 /\ pc' = "removeArchive"
  /\ UNCHANGED <<artifacts, handlers, request, old, failed>>

\* The parts come in any order; a duplicate or unreadable one ends the request,
\* and a part of another name changes nothing.
ReadMetadata ==
  /\ At("parts")
  /\ \/ /\ "metadata" \notin parts
        /\ parts' = parts \cup {"metadata"} /\ Step("parts")
     \/ Step("refused") /\ UNCHANGED parts
  /\ UNCHANGED <<artifacts, handlers, content, old, answer>>

KeepsPartial ==
  /\ At("parts")
  /\ IF "zip" \in parts
       THEN Step("refused") /\ UNCHANGED <<disk, parts>>
       ELSE \/ /\ disk' = {"archive"} /\ parts' = parts \cup {"zip"}
               /\ Step("parts")
            \/ /\ disk' \in {disk, {"archive"}}
               /\ Fail("writeArchive", "fail") /\ UNCHANGED parts
  /\ UNCHANGED <<docker, handlers, content, old, answer>>

\* writeUploadArchive removes a file that it could not fill, if it can: the
\* handler is not told its name.
ReadZip ==
  /\ At("parts")
  /\ IF "zip" \in parts
       THEN Step("refused") /\ UNCHANGED <<disk, parts>>
       ELSE \/ /\ disk' = {"archive"} /\ parts' = parts \cup {"zip"}
               /\ Step("parts")
            \/ Fail("writeArchive", "fail") /\ UNCHANGED <<disk, parts>>
            \/ /\ Fail("removeArchive", "fail")
               /\ disk' = {"archive"} /\ UNCHANGED parts
  /\ UNCHANGED <<docker, handlers, content, old, answer>>

\* The end of the parts, or an error reading them.
LastPart ==
  /\ At("parts")
  /\ \/ parts = {"metadata", "zip"} /\ Step("create")
     \/ Step("refused")
  /\ UNCHANGED <<artifacts, handlers, request, old, answer>>

\* UrlUpload: no answer, or not 200; no file, or it cannot be filled.
Download ==
  /\ At("download")
  /\ \/ Fail("download", "fail") /\ UNCHANGED <<disk, parts>>
     \/ Fail("writeArchive", "fail") /\ disk' = {"archive"} /\ parts' = {"zip"}
     \/ Step("create") /\ disk' = {"archive"} /\ parts' = {"zip"}
  /\ UNCHANGED <<docker, handlers, content, old, answer>>
-----------------------------------------------------------------------------
(* createFunction, to the limits. *)

\* A name that is not valid, or a folder that cannot be made.
CreateFolder ==
  /\ At("create")
  /\ \/ Fail("create", "fail") /\ UNCHANGED disk
     \/ Step("unzip") /\ disk' = disk \cup {"tempDir"}
  /\ UNCHANGED <<docker, handlers, request, old, answer>>

\* An archive that cannot be extracted returns before the removal of the folder
\* is deferred.
UnzipArchive ==
  /\ At("unzip")
  /\ \/ Fail("unzip", "fail") /\ UNCHANGED content
     \/ \E a \in Archives :
          /\ Unzip(a).ok
          /\ content' = [content EXCEPT !.archive = a]
          /\ Step("limits")
  /\ UNCHANGED <<artifacts, handlers, parts, old, answer>>

\* From here on every return removes the folder.
ResolveLimits ==
  /\ At("limits")
  /\ \E cpu \in CPUs, memory \in Memories :
       LET r == EffectiveResourceLimits(cpu, memory)
       IN  /\ content' = [content EXCEPT !.limits = r.limits,
                                         !.asked = [cpu |-> cpu, memory |-> memory]]
           /\ IF r.ok THEN Step("folder") ELSE Fail("limits", "cleanup")
  /\ UNCHANGED <<artifacts, handlers, parts, old, answer>>
-----------------------------------------------------------------------------
(* Backend.Create. *)

\* A negative number of replicas panics where the slices for them are made.
\* net/http ends the connection without an answer; what is deferred still runs.
Panic ==
  /\ At("folder") /\ \E n \in replicas : n < 0
  /\ Fail("panic", "cleanup")
  /\ UNCHANGED <<artifacts, handlers, request, old, answer>>

\* The folder, and the Dockerfile of a runtime that exists.
BuildFolder ==
  /\ At("folder")
  /\ \/ Step("copy") /\ disk' = disk \cup {"buildDir"}
     \/ Fail("folder", "cleanup") /\ disk' \in {disk, disk \cup {"buildDir"}}
  /\ UNCHANGED <<docker, handlers, request, old, answer>>

CopySources ==
  LET r == CopyAll(Unzip(content.archive).tree, content.subfolder, Empty)
  IN  /\ At("copy")
      /\ \/ /\ r.ok /\ Step("image")
            /\ content' = [content EXCEPT !.files = r.tree]
         \/ Fail("copy", "cleanup") /\ UNCHANGED content
      /\ UNCHANGED <<artifacts, handlers, parts, old, answer>>

\* The image may have been built when the stream of the build's answer breaks off.
BuildImage ==
  /\ At("image")
  /\ \/ Step("network") /\ docker' = {"image"}
     \/ Fail("image", "cleanup") /\ docker' \in {docker, {"image"}}
  /\ UNCHANGED <<disk, handlers, request, old, answer>>

CreateNetwork ==
  /\ At("network")
  /\ \/ Step("removeFolder") /\ docker' = docker \cup {"network"}
     \/ Fail("network", "cleanup") /\ UNCHANGED docker
  /\ UNCHANGED <<disk, handlers, request, old, answer>>

\* Only a folder that can be removed makes a handler of what was built.
RemoveFolder ==
  /\ At("removeFolder")
  /\ \/ /\ disk' = disk \ {"buildDir"} /\ docker' = {} /\ new' = Created
        /\ Step(IF listed # None /\ AutoscalerEnabled THEN "drain" ELSE "start")
     \/ Fail("removeFolder", "cleanup") /\ UNCHANGED <<disk, docker, new>>
  /\ UNCHANGED <<listed, replaced, request, old, answer>>
-----------------------------------------------------------------------------
(* createFunction, from the replacement to the end. *)

\* ScaleDownWhenIdle stops the old handler, unless it is stopped already.
Drain ==
  /\ At("drain")
  /\ \E r \in StopResults(listed) :
       /\ listed' = r.state
       /\ IF r.ok THEN Step("start") ELSE Fail("drain", "discard")
  /\ UNCHANGED <<artifacts, new, replaced, request, old, answer>>

FreeIPs == IPs \ (IF listed = None THEN {} ELSE listed.ips)

Start ==
  /\ At("start")
  /\ \E n \in replicas \cap Nat : \E r \in StartResults(new, FreeIPs, n) :
       /\ new' = r.state
       /\ IF r.ok THEN Step("add") ELSE Fail("start", "discard")
  /\ UNCHANGED <<artifacts, listed, replaced, request, old, answer>>

\* The routing table refuses a deployment without addresses.
AddRoute ==
  /\ At("add")
  /\ IF new.ips # {} THEN Step("commit") ELSE Fail("add", "discard")
  /\ UNCHANGED <<artifacts, handlers, request, old, answer>>

Commit ==
  /\ At("commit")
  /\ listed' = new /\ new' = listed /\ replaced' = TRUE
  /\ Step(IF listed = None THEN "succeed" ELSE "destroyOld")
  /\ UNCHANGED <<artifacts, request, old, answer>>

IgnoresFailedDestroy ==
  /\ At("destroyOld")
  /\ \E r \in DestroyResults(new) : new' = r.state
  /\ Step("succeed")
  /\ UNCHANGED <<artifacts, listed, replaced, request, old, answer>>

\* The handler that is not listed any more; its destruction failing fails the
\* request, which has taken effect.
DestroyOld ==
  /\ At("destroyOld")
  /\ \E r \in DestroyResults(new) :
       /\ new' = r.state
       /\ IF r.ok THEN Step("succeed") ELSE Fail("destroyOld", "cleanup")
  /\ UNCHANGED <<artifacts, listed, replaced, request, old, answer>>

\* A replacement that was given up is destroyed, as far as that goes.
Discard ==
  /\ At("discard")
  /\ \E r \in DestroyResults(new) :
       /\ new' = r.state
       /\ IF r.ok THEN Step("cleanup") ELSE Fail("discard", "cleanup")
  /\ UNCHANGED <<artifacts, listed, replaced, request, old, answer>>

Succeed ==
  /\ At("succeed")
  /\ answer' = 200 /\ Step("cleanup")
  /\ UNCHANGED <<artifacts, handlers, request, old>>
-----------------------------------------------------------------------------
(* What the returns of createFunction and of the request defer. *)

\* The folder removed is the one the variable names by then: of an archive with
\* a subfolder the rest stays.
Cleanup ==
  /\ At("cleanup")
  /\ \/ /\ Step("fail")
        /\ disk' = IF content.subfolder = << >> THEN disk \ {"tempDir"} ELSE disk
     \/ Fail("cleanup", "fail") /\ UNCHANGED disk
  /\ UNCHANGED <<docker, handlers, request, old, answer>>

\* An error that was not answered yet is; whether the archive goes before or after
\* the answer no client can tell.
Answer ==
  /\ At("fail")
  /\ answer' = IF answer = 0 /\ "panic" \notin failed THEN 500 ELSE answer
  /\ Step("removeArchive")
  /\ UNCHANGED <<artifacts, handlers, request, old>>

RemoveArchive ==
  /\ At("removeArchive")
  /\ \/ Step("answered") /\ disk' = IF "zip" \in parts THEN disk \ {"archive"} ELSE disk
     \/ /\ "zip" \in parts
        /\ Fail("removeArchive", "answered") /\ UNCHANGED disk
  /\ UNCHANGED <<docker, handlers, request, old, answer>>

\* What is left over by then stays, and is not looked at again.
Return ==
  /\ At("answered")
  /\ new' = None /\ old' = None /\ replaced' = FALSE
  /\ disk' = {} /\ docker' = {}
  /\ content' = NoContent /\ parts' = {}
  /\ failed' = {} /\ answer' = 0 /\ pc' = "idle"
  /\ UNCHANGED listed
-----------------------------------------------------------------------------
Next ==
  \/ Idle \/ Upload \/ UrlUpload \/ Refuse
  \/ ReadMetadata \/ ReadZip \/ LastPart \/ Download
  \/ CreateFolder \/ UnzipArchive \/ ResolveLimits
  \/ Panic \/ BuildFolder \/ CopySources \/ BuildImage \/ CreateNetwork \/ RemoveFolder
  \/ Drain \/ Start \/ AddRoute \/ Commit \/ DestroyOld \/ Discard \/ Succeed
  \/ Cleanup \/ Answer \/ RemoveArchive \/ Return

Spec == Init /\ [][Next]_vars
-----------------------------------------------------------------------------
\* The uploaded or downloaded archive is gone when the request is over, on every
\* way out, unless the removal itself failed (main.go:307, server.go:916).
ArchiveRemoved ==
  At("answered") /\ "archive" \in disk => "removeArchive" \in failed

\* "cleanup completed" (server.go:795): folders outlive a deployment only where
\* the code lets them: the extracted files when Unzip failed or a subfolder was
\* asked for, the build folder when Create failed.
FoldersAccounted ==
  At("answered") =>
    /\ "tempDir" \in disk =>
         failed \cap {"unzip", "cleanup"} # {} \/ content.subfolder # << >>
    /\ "buildDir" \in disk =>
         failed \cap {"folder", "copy", "image", "network", "removeFolder"} # {}

\* What a deployment made on Docker and does not list is gone when the request
\* is over, unless removing it failed, or Create failed after the build.
DockerAccounted ==
  At("answered") =>
    /\ docker # {} => failed \cap {"image", "network", "removeFolder"} # {}
    /\ new # None /\ (new.image \/ new.phase # "down") =>
         failed \cap {"discard", "destroyOld"} # {}

\* A deployment leaves nothing behind, whichever way it ends, but what the code
\* could not remove or returns without removing.
LeftoversAccounted == ArchiveRemoved /\ FoldersAccounted /\ DockerAccounted

\* "If the function already exists, keep it serving while the replacement is
\* prepared" (server.go:806): a deployment that fails before its replacement is
\* built has not touched the old one; one that fails later leaves it listed and
\* able to start.  Only a failed destruction of the old one comes too late.
FailureKeepsOld ==
  At("answered") /\ answer # 200 =>
    /\ ~replaced /\ (new = None \/ ~AutoscalerEnabled) => listed = old
    /\ ~replaced => (listed = None <=> old = None)
    /\ listed # None => listed.image
    /\ replaced => "destroyOld" \in failed /\ listed.phase = "up"

\* "Function %s deployed" (main.go:404): the listed function is the new one, it
\* runs, it has addresses, and nothing of the old one is left.
SuccessMeansReplaced ==
  At("answered") /\ answer = 200 =>
    /\ replaced /\ listed.phase = "up" /\ listed.ips # {}
    /\ new # None => new.phase = "down" /\ ~new.image

\* A deployment has taken effect when its client was told so, and not otherwise,
\* but for the old handler that cannot be destroyed.
AllOrNothing == FailureKeepsOld /\ SuccessMeansReplaced

\* The files that an archive is meant to hold below a folder: of entries with the
\* same path the last one counts.
Wanted(archive, folder) ==
  {e \in {Entry(SubSeq(archive[i].path, Len(folder) + 1, Len(archive[i].path)),
                archive[i].data) :
             i \in {i \in DOMAIN archive :
                      /\ archive[i].data # Folder
                      /\ IsStrictPrefix(folder, archive[i].path)
                      /\ \A j \in DOMAIN archive :
                           j > i => archive[j].path # archive[i].path}} : TRUE}

\* The image is built from what was uploaded, no more and no less: the folder of
\* the archive that the request names, without the folders around it.
DeployedExactly ==
  replaced =>
    {Entry(p, content.files[p]) : p \in {p \in DOMAIN content.files :
                                           content.files[p] # Folder}}
      = Wanted(content.archive, content.subfolder)

Readable(q, units) == q.text = "number" /\ q.num >= 0 /\ q.unit \in units

Exact(q, factor) == (q.num * factor) \div q.den

Fits(q, units, factor) ==
  q = Absent \/ (Readable(q, units) /\ Exact(q, factor) <= MaxInt)

\* Limits are the largest whole number of nano-CPUs and bytes that is not above
\* what was asked for, or the default when nothing was ("Truncate toward zero",
\* resources.go:177), and the deployments refused are those that asked for what
\* cannot be read or does not fit.
LimitsApplied ==
  content.asked # None =>
    LET cpu == content.asked.cpu
        memory == content.asked.memory
        fits == /\ Fits(cpu, CPUUnits, CPUFactor(cpu.unit))
                /\ Fits(memory, MemoryUnits, MemoryFactor(memory.unit))
    IN  /\ "limits" \in failed <=> ~fits
        /\ fits => content.limits =
             [nanoCPUs    |-> IF cpu = Absent THEN DefaultNanoCPUs
                              ELSE Exact(cpu, CPUFactor(cpu.unit)),
              memoryBytes |-> IF memory = Absent THEN DefaultMemoryBytes
                              ELSE Exact(memory, MemoryFactor(memory.unit))]
=============================================================================
