---------------------------- MODULE UpdaterLinux ----------------------------
(***************************************************************************)
(* The auto-updater of the Linux server (src/src/linux/updater.cpp).       *)
(*                                                                         *)
(* The server asks the update server once per start.  Every answer that    *)
(* announces an update starts a background shell, which outlives the       *)
(* server: it removes the old backup, downloads the new library next to    *)
(* the current one, moves the current one to the backup and the new one in *)
(* its place.  Nothing keeps two such jobs apart: the answer may be        *)
(* duplicated, and a server restarted during a download asks again.        *)
(*                                                                         *)
(* Files are inodes: a job goes on writing the file it opened, wherever    *)
(* that file is moved.  A file is a sequence of blocks.  Left out: the log *)
(* file, the printed texts, running out of disk space.                     *)
(***************************************************************************)
EXTENDS Integers, FiniteSets

CONSTANTS
    MaxVersion,         \* versions are 0 .. MaxVersion, 0 is installed first
    Blocks,             \* blocks of a library
    MaxJobs,            \* bound on the jobs at a time
    MaxCrashes          \* bound on the crashes of the machine

ASSUME UpdaterAssumption ==
    /\ MaxVersion \in Nat /\ Blocks \in Nat \ {0} /\ MaxJobs \in Nat \ {0}
    /\ MaxCrashes \in Nat

Version == 0 .. MaxVersion
Job == 1 .. MaxJobs
Block == 1 .. Blocks
Hole == -1
NoFile == 0
Plain == -1             \* the game runs without CoD2x
Down == -2
\* Enough for the library, its successor, a backup of each version and the
\* file each job has open.
Inode == 1 .. MaxVersion + MaxJobs + 3

VARIABLES
    running,            \* version of the running server, Plain or Down
    updater_address,    \* "init" until resolved, "bad" when that failed
    asked,              \* versions an update request was sent for
    content,            \* content[n][b]: block b of the file n
    lib, new,           \* the files LIB_PATH and LIB_PATH.new
    old,                \* old[v]: the file LIB_PATH.v.old
    jobs,               \* the background shells
    crashes             \* how often the machine has crashed

process == <<running, updater_address, asked>>
files == <<content, lib, new, old>>
vars == <<running, updater_address, asked, content, lib, new, old,
          jobs, crashes>>

Copy(v) == [b \in Block |-> v]
WholeFile(n) == n # NoFile /\ \E v \in Version : content[n] = Copy(v)
VersionOf(n) == content[n][1]

NoJob == [pc |-> "none", from |-> 0, to |-> 0, file |-> NoFile, written |-> 0]

Init ==
    /\ running = Down /\ updater_address = "init"
    /\ asked = {}
    /\ lib = 1 /\ new = NoFile /\ old = [v \in Version |-> NoFile]
    /\ content = [n \in Inode |-> IF n = 1 THEN Copy(0) ELSE Copy(Hole)]
    /\ jobs = [j \in Job |-> NoJob] /\ crashes = 0

(***************************************************************************)
(* The server.                                                             *)
(***************************************************************************)
\* updater_init, on a server that was started with the library preloaded; a
\* library that is missing or incomplete is not loaded.
Start(sv_update, resolved) ==
    /\ running = Down
    /\ IF WholeFile(lib)
       THEN /\ running' = VersionOf(lib)
            /\ updater_address' = IF ~sv_update THEN "init"
                                  ELSE IF resolved THEN "server" ELSE "bad"
            /\ asked' = IF sv_update /\ resolved THEN asked \cup {running'}
                                              ELSE asked
       ELSE running' = Plain /\ updater_address' = "init" /\ UNCHANGED asked
    /\ UNCHANGED <<files, jobs, crashes>>

Stop ==
    /\ running # Down
    /\ running' = Down
    /\ UNCHANGED <<updater_address, asked, files, jobs, crashes>>

\* Versions that may have been announced to some server since the beginning.
Announced == {v \in Version : \E c \in asked : v > c}

\* The sender's address is compared with the one that was resolved: none was
\* when the cvar forbids updates.
FromUpdateServer == updater_address = "server"

updater_updatePacketResponse(v) ==
    /\ running \in Version
    /\ FromUpdateServer
    /\ \E j \in Job :
         /\ jobs[j] = NoJob
         /\ jobs' = [jobs EXCEPT ![j] =
                       [NoJob EXCEPT !.pc = "rm", !.from = running, !.to = v]]
    /\ UNCHANGED <<process, files, crashes>>

(***************************************************************************)
(* The background shell, one step per command ("set -e": the first command *)
(* that fails ends it).                                                    *)
(***************************************************************************)
GoTo(j, pc) == jobs' = [jobs EXCEPT ![j].pc = pc]
End(j) == jobs' = [jobs EXCEPT ![j] = NoJob]

RemoveBackup(j) ==
    /\ jobs[j].pc = "rm"
    /\ old' = [old EXCEPT ![jobs[j].from] = NoFile]
    /\ GoTo(j, "curl")
    /\ UNCHANGED <<process, content, lib, new, crashes>>

Used == {lib, new} \cup {old[v] : v \in Version} \cup {jobs[j].file : j \in Job}

\* The file .new, emptied if it was there already, else a fresh one.
OpenNew(j, n) ==
    /\ jobs[j].pc = "curl"
    /\ IF new # NoFile THEN n = new
       ELSE n \in Inode \ Used /\ \A m \in Inode \ Used : n <= m
    /\ new' = n
    /\ content' = [content EXCEPT ![n] = Copy(Hole)]
    /\ jobs' = [jobs EXCEPT ![j].pc = "write", ![j].file = n]
    /\ UNCHANGED <<process, lib, old, crashes>>

\* Mutant: the end of the download is not noticed.
WriteBlock_PastEnd(j) ==
    /\ jobs[j].pc = "write" /\ jobs[j].written <= Blocks
    /\ jobs' = [jobs EXCEPT ![j].written = @ + 1]
    /\ UNCHANGED <<process, files, crashes>>

WriteBlock(j) ==
    /\ jobs[j].pc = "write" /\ jobs[j].written < Blocks
    /\ content' = [content EXCEPT ![jobs[j].file][jobs[j].written + 1] = jobs[j].to]
    /\ jobs' = [jobs EXCEPT ![j].written = @ + 1]
    /\ UNCHANGED <<process, lib, new, old, crashes>>

Downloaded(j) ==
    /\ jobs[j].pc = "write" /\ jobs[j].written = Blocks
    /\ jobs' = [jobs EXCEPT ![j].pc = "backup", ![j].file = NoFile]
    /\ UNCHANGED <<process, files, crashes>>

\* Mutant: without "set -e" the shell goes on.
CurlFails_GoesOn(j) ==
    /\ jobs[j].pc \in {"curl", "write"}
    /\ jobs' = [jobs EXCEPT ![j].pc = "backup", ![j].file = NoFile]
    /\ UNCHANGED <<process, files, crashes>>

CurlFails(j) ==
    /\ jobs[j].pc \in {"curl", "write"}
    /\ End(j)
    /\ UNCHANGED <<process, files, crashes>>

\* Mutant: the current library is removed, not kept as a backup.
MoveToBackup_Removes(j) ==
    /\ jobs[j].pc = "backup"
    /\ lib' = NoFile
    /\ GoTo(j, "install")
    /\ UNCHANGED <<process, content, new, old, crashes>>

\* Mutant: the shell ends when the backup is made.
MoveToBackup_Ends(j) ==
    /\ jobs[j].pc = "backup" /\ lib # NoFile
    /\ old' = [old EXCEPT ![jobs[j].from] = lib]
    /\ lib' = NoFile
    /\ End(j)
    /\ UNCHANGED <<process, content, new, crashes>>

MoveToBackup(j) ==
    /\ jobs[j].pc = "backup"
    /\ IF lib = NoFile
       THEN End(j) /\ UNCHANGED <<lib, old>>
       ELSE /\ old' = [old EXCEPT ![jobs[j].from] = lib]
            /\ lib' = NoFile
            /\ GoTo(j, "install")
    /\ UNCHANGED <<process, content, new, crashes>>

Install(j) ==
    /\ jobs[j].pc = "install"
    /\ End(j)
    /\ IF new = NoFile THEN UNCHANGED <<lib, new>>
                       ELSE lib' = new /\ new' = NoFile
    /\ UNCHANGED <<process, content, old, crashes>>

\* The machine, or the container, stops.
Crash ==
    /\ crashes < MaxCrashes /\ crashes' = crashes + 1
    /\ running' = Down
    /\ jobs' = [j \in Job |-> NoJob]
    /\ UNCHANGED <<updater_address, asked, files>>

JobStep(j) ==
    \/ RemoveBackup(j) \/ \E n \in Inode : OpenNew(j, n)
    \/ WriteBlock(j) \/ Downloaded(j) \/ MoveToBackup(j) \/ Install(j)

Next ==
    \/ \E sv_update, resolved \in BOOLEAN : Start(sv_update, resolved)
    \/ Stop
    \/ \E v \in Announced : updater_updatePacketResponse(v)
    \/ \E j \in Job : JobStep(j) \/ CurlFails(j)
    \/ Crash

Spec == Init /\ [][Next]_vars

\* The system runs every shell, and a download does not hang for ever.
FairSpec == Spec /\ \A j \in Job : WF_vars(JobStep(j))

-----------------------------------------------------------------------------
Step == {"none", "rm", "curl", "write", "backup", "install"}

(* The state is well formed, and there is room for every file. *)
TypeOK ==
    /\ running \in Version \cup {Plain, Down}
    /\ updater_address \in {"init", "bad", "server"}
    /\ asked \subseteq Version
    /\ content \in [Inode -> [Block -> Version \cup {Hole}]]
    /\ lib \in Inode \cup {NoFile} /\ new \in Inode \cup {NoFile}
    /\ old \in [Version -> Inode \cup {NoFile}]
    /\ jobs \in [Job -> [pc : Step, from : Version, to : Version,
                         file : Inode \cup {NoFile}, written : 0 .. Blocks]]
    /\ crashes \in 0 .. MaxCrashes

(* While updates are not run side by side: whatever fails, whenever the    *)
(* machine crashes and however often it is repeated, an incomplete         *)
(* download never becomes the library the next start loads.                *)
LibraryIsWhole == lib # NoFile => WholeFile(lib)

(* ... and there is always a complete library on the disk, in its place or *)
(* as a backup (a crash between the two moves leaves only the backup).     *)
CopySurvives == WholeFile(lib) \/ \E v \in Version : WholeFile(old[v])

(* A finished download gets installed, unless the machine crashes.         *)
DownloadIsInstalled ==
    \A j \in Job, v \in Version, n \in 0 .. MaxCrashes :
        jobs[j].pc = "backup" /\ jobs[j].to = v /\ crashes = n
            ~> \/ WholeFile(lib) /\ VersionOf(lib) = v
               \/ crashes > n

(* README: "File libCoD2x.so will be replaced with the latest version".    *)
(* When no job is under way, there is a library for the next start.        *)
LibraryIsThere == (\A j \in Job : jobs[j] = NoJob) => lib # NoFile

=============================================================================
