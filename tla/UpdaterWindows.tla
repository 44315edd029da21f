--------------------------- MODULE UpdaterWindows ---------------------------
(***************************************************************************)
(* The auto-updater of the Windows client and server                       *)
(* (src/src/mss32/updater.cpp): the answer of the update server, the       *)
(* dialog of the client, the download of the new DLL and the exchange of   *)
(* mss32.dll by three renames.                                             *)
(*                                                                         *)
(* An exchange runs on the main thread of its process, one system call per *)
(* step here: the machine may stop between two of them, and another        *)
(* process of the same directory (a server beside a client) may run.  A    *)
(* file that some process has loaded can be renamed but not replaced or    *)
(* deleted; a file that is being written can be neither.                   *)
(*                                                                         *)
(* Left out: texts, network handles, the order of the failing cases of a   *)
(* download before its file is created.                                    *)
(***************************************************************************)
EXTENDS Integers

CONSTANTS
    Process,            \* processes that use the directory
    Servers,            \* those that are dedicated servers
    MaxVersion,         \* versions are 0 .. MaxVersion, 0 is installed first
    MaxFailures,        \* bound on the system calls that fail unexpectedly
    ReadErrors,         \* whether the connection may break while reading
    PowerLoss           \* whether the machine may stop at any time

ASSUME UpdaterAssumption ==
    /\ Servers \subseteq Process
    /\ MaxVersion \in Nat /\ MaxFailures \in Nat
    /\ ReadErrors \in BOOLEAN /\ PowerLoss \in BOOLEAN

Version == 0 .. MaxVersion
Down == -1
None == -1
Incomplete == -2

(* A file is its number and what is in it; the number tells apart files    *)
(* with the same content.                                                  *)
NoFile == [id |-> 0, version |-> None]

VARIABLES
    dll, new, old,      \* mss32.dll, mss32_new.dll, mss32_old.dll
    deleteOnReboot,     \* mss32_old.dll is scheduled for deletion
    ids,                \* the number the next file gets
    failures,           \* unexpected failures so far
    running,            \* running[p]: its version, or Down
    loaded,             \* loaded[p]: the number of the file it has loaded
    requested,          \* requested[p]: its question found the update server
    cl_updateFiles,     \* the update the client's dialog offers, or None
    pc, target,         \* step and new version of the exchange in p
    (* observation only: *)
    together,           \* two exchanges were under way at the same time
    interrupted         \* the power failed during an exchange

disk == <<dll, new, old, deleteOnReboot, ids>>
proc == <<running, loaded, requested, cl_updateFiles>>
observed == <<together, interrupted>>
vars == <<dll, new, old, deleteOnReboot, ids, failures, running, loaded,
          requested, cl_updateFiles, pc, target, together, interrupted>>

Init ==
    /\ dll = [id |-> 1, version |-> 0] /\ new = NoFile /\ old = NoFile
    /\ deleteOnReboot = FALSE /\ ids = 2 /\ failures = 0
    /\ running = [p \in Process |-> Down] /\ loaded = [p \in Process |-> 0]
    /\ requested = [p \in Process |-> FALSE]
    /\ cl_updateFiles = [p \in Process |-> None]
    /\ pc = [p \in Process |-> "idle"] /\ target = [p \in Process |-> None]
    /\ together = FALSE /\ interrupted = FALSE

IsWhole(f) == f.version \in Version
IsLoaded(f) == \E p \in Process : f # NoFile /\ loaded[p] = f.id
\* Only mss32_new.dll is ever written.
Writing == \E p \in Process : pc[p] = "read"

(***************************************************************************)
(* The process around the updater.                                         *)
(***************************************************************************)
\* updater_init: a client always asks for updates, a server if sv_update.
\* Windows does not start a program whose DLL is missing or broken.
Start(p, ask) ==
    /\ running[p] = Down /\ IsWhole(dll)
    /\ running' = [running EXCEPT ![p] = dll.version]
    /\ loaded' = [loaded EXCEPT ![p] = dll.id]
    /\ requested' = [requested EXCEPT ![p] = ask]
    /\ UNCHANGED <<disk, failures, cl_updateFiles, pc, target, observed>>

Ended(p) ==
    /\ running' = [running EXCEPT ![p] = Down]
    /\ loaded' = [loaded EXCEPT ![p] = 0]
    /\ requested' = [requested EXCEPT ![p] = FALSE]
    /\ cl_updateFiles' = [cl_updateFiles EXCEPT ![p] = None]

Exit(p) ==
    /\ running[p] # Down /\ pc[p] = "idle"
    /\ Ended(p)
    /\ UNCHANGED <<disk, failures, pc, target, observed>>

BeginExchange(p, v) ==
    /\ pc' = [pc EXCEPT ![p] = "create"]
    /\ target' = [target EXCEPT ![p] = v]
    /\ together' = (together \/ \E q \in Process : pc[q] # "idle")
    /\ UNCHANGED <<disk, failures, interrupted>>

\* v is a version the update server announces, None if there is no update.
updater_updatePacketResponse(p, v) ==
    /\ running[p] # Down /\ pc[p] = "idle" /\ requested[p]
    /\ v = None \/ v > running[p]
    /\ \/ /\ p \in Servers /\ v # None
          /\ BeginExchange(p, v)
          /\ UNCHANGED proc
       \/ /\ p \notin Servers
          /\ cl_updateFiles' = [cl_updateFiles EXCEPT ![p] = v]
          /\ UNCHANGED <<disk, failures, running, loaded, requested, pc, target,
                         observed>>

updater_dialogConfirmed(p) ==
    /\ running[p] # Down /\ pc[p] = "idle" /\ cl_updateFiles[p] # None
    /\ BeginExchange(p, cl_updateFiles[p])
    /\ UNCHANGED proc

(***************************************************************************)
(* updater_downloadAndReplaceDllFile.                                      *)
(***************************************************************************)
Continue(p, step) ==
    /\ pc' = [pc EXCEPT ![p] = step]
    /\ UNCHANGED <<proc, target, observed>>

Fail(p) ==
    /\ pc' = [pc EXCEPT ![p] = "idle"]
    /\ UNCHANGED <<proc, target, observed>>

Unexpected == failures < MaxFailures /\ failures' = failures + 1

\* The URL cannot be opened, or the file cannot be created.
DownloadFails(p) ==
    /\ pc[p] = "create"
    /\ Unexpected \/ ((Writing \/ IsLoaded(new)) /\ UNCHANGED failures)
    /\ Fail(p)
    /\ UNCHANGED disk

CreateNew(p) ==
    /\ pc[p] = "create" /\ ~Writing /\ ~IsLoaded(new)
    /\ new' = [id |-> IF new = NoFile THEN ids ELSE new.id, version |-> Incomplete]
    /\ ids' = IF new = NoFile THEN ids + 1 ELSE ids
    /\ Continue(p, "read")
    /\ UNCHANGED <<dll, old, deleteOnReboot, failures>>

\* InternetReadFile returns 0 bytes at the end of the file, or FALSE when the
\* connection breaks: the loop ends either way, and the download succeeded.
ReadFile(p) ==
    /\ pc[p] = "read"
    /\ \E v \in {target[p]} \cup (IF ReadErrors THEN {Incomplete} ELSE {}) :
          new' = [new EXCEPT !.version = v]
    /\ Continue(p, "rename")
    /\ UNCHANGED <<dll, old, deleteOnReboot, ids, failures>>

WriteFails(p) ==
    /\ pc[p] = "read"
    /\ Unexpected
    /\ Fail(p)
    /\ UNCHANGED disk

\* Mutant: mss32_old.dll is removed first, as if nothing used it.
RenameCurrent_Removes(p) ==
    /\ pc[p] = "rename"
    /\ \/ /\ dll # NoFile
          /\ dll' = NoFile /\ old' = NoFile
          /\ Continue(p, "install")
          /\ UNCHANGED failures
       \/ /\ dll = NoFile /\ UNCHANGED <<dll, old, failures>> /\ Fail(p)
    /\ UNCHANGED <<new, deleteOnReboot, ids>>

RenameCurrent(p) ==
    /\ pc[p] = "rename"
    /\ \/ /\ dll # NoFile /\ ~IsLoaded(old)
          /\ old' = dll /\ dll' = NoFile
          /\ Continue(p, "install")
          /\ UNCHANGED failures
       \/ /\ Unexpected \/ ((dll = NoFile \/ IsLoaded(old)) /\ UNCHANGED failures)
          /\ Fail(p)
          /\ UNCHANGED <<dll, old>>
    /\ UNCHANGED <<new, deleteOnReboot, ids>>

\* Mutant: the new DLL is copied, not moved.
InstallNew_Copies(p) ==
    /\ pc[p] = "install" /\ new # NoFile /\ dll = NoFile
    /\ dll' = new
    /\ Continue(p, "schedule")
    /\ UNCHANGED <<new, old, deleteOnReboot, ids, failures>>

InstallNew(p) ==
    /\ pc[p] = "install"
    /\ \/ /\ new # NoFile /\ ~Writing /\ dll = NoFile
          /\ dll' = new /\ new' = NoFile
          /\ Continue(p, "schedule")
          /\ UNCHANGED failures
       \/ /\ Unexpected
             \/ ((new = NoFile \/ Writing \/ dll # NoFile) /\ UNCHANGED failures)
          /\ Continue(p, "restore")
          /\ UNCHANGED <<dll, new>>
    /\ UNCHANGED <<old, deleteOnReboot, ids>>

\* Mutant: the old DLL is not put back.
Restore_Forgotten(p) ==
    /\ pc[p] = "restore"
    /\ Fail(p)
    /\ UNCHANGED <<disk, failures>>

\* The result of this call is ignored.
Restore(p) ==
    /\ pc[p] = "restore"
    /\ \/ /\ old # NoFile /\ ~IsLoaded(dll)
          /\ dll' = old /\ old' = NoFile
          /\ UNCHANGED failures
       \/ /\ Unexpected
             \/ ((old = NoFile \/ IsLoaded(dll)) /\ UNCHANGED failures)
          /\ UNCHANGED <<dll, old>>
    /\ Fail(p)
    /\ UNCHANGED <<new, deleteOnReboot, ids>>

\* A server keeps running; a client starts its successor and exits.
ScheduleDeletion(p) ==
    /\ pc[p] = "schedule"
    /\ deleteOnReboot' = TRUE
    /\ pc' = [pc EXCEPT ![p] = "idle"]
    /\ IF p \in Servers THEN UNCHANGED proc ELSE Ended(p)
    /\ UNCHANGED <<dll, new, old, ids, failures, target, observed>>

\* The deletion cannot be written to the registry.
SchedulingFails(p) ==
    /\ pc[p] = "schedule"
    /\ Unexpected
    /\ Fail(p)
    /\ UNCHANGED disk

Reboot ==
    /\ \/ PowerLoss
       \/ \A p \in Process : running[p] = Down
    /\ running' = [p \in Process |-> Down]
    /\ loaded' = [p \in Process |-> 0]
    /\ requested' = [p \in Process |-> FALSE]
    /\ cl_updateFiles' = [p \in Process |-> None]
    /\ pc' = [p \in Process |-> "idle"]
    /\ old' = IF deleteOnReboot THEN NoFile ELSE old
    /\ deleteOnReboot' = FALSE
    /\ interrupted' = (interrupted \/ \E p \in Process : pc[p] # "idle")
    /\ UNCHANGED <<dll, new, ids, failures, target, together>>

Exchange(p) ==
    \/ DownloadFails(p) \/ CreateNew(p) \/ ReadFile(p) \/ WriteFails(p)
    \/ RenameCurrent(p) \/ InstallNew(p) \/ Restore(p)
    \/ ScheduleDeletion(p) \/ SchedulingFails(p)

Next ==
    \/ \E p \in Process :
        \/ \E ask \in BOOLEAN : (p \in Servers \/ ask) /\ Start(p, ask)
        \/ Exit(p)
        \/ \E v \in Version \cup {None} : updater_updatePacketResponse(p, v)
        \/ updater_dialogConfirmed(p)
        \/ Exchange(p)
    \/ Reboot

Spec == Init /\ [][Next]_vars

-----------------------------------------------------------------------------
File == [id : Nat, version : Version \cup {None, Incomplete}]
Steps == {"idle", "create", "read", "rename", "install", "restore", "schedule"}

(* The state is well formed, and no file has two names. *)
TypeOK ==
    /\ dll \in File /\ new \in File /\ old \in File
    /\ \A f, g \in {dll, new, old} : f.id = g.id /\ f.id # 0 => f = g
    /\ dll = old => dll = NoFile
    /\ deleteOnReboot \in BOOLEAN /\ ids \in Nat /\ failures \in 0 .. MaxFailures
    /\ running \in [Process -> Version \cup {Down}]
    /\ loaded \in [Process -> Nat] /\ requested \in [Process -> BOOLEAN]
    /\ cl_updateFiles \in [Process -> Version \cup {None}]
    /\ pc \in [Process -> Steps] /\ target \in [Process -> Version \cup {None}]
    /\ together \in BOOLEAN /\ interrupted \in BOOLEAN

(* One call may fail and the power may fail; or two processes may update   *)
(* at the same time, which does not go well with either.                   *)
OneMishap == failures <= 1 /\ (together => failures = 0 /\ ~interrupted)

(* Whenever the machine stops: one of the three files is a complete DLL,   *)
(* also after a reboot that deletes mss32_old.dll.  (As long as no broken  *)
(* connection passes for the end of the file.)                             *)
CopySurvives == OneMishap => IsWhole(dll) \/ IsWhole(old) \/ IsWhole(new)

(* When no exchange is under way, none was interrupted by the power, and   *)
(* there was one mishap at most, the game can be started: a failure is     *)
(* repaired, and two exchanges do not leave the directory without a DLL.   *)
GameCanStart ==
    (\A p \in Process : pc[p] = "idle") /\ OneMishap /\ ~interrupted
        => IsWhole(dll)

(* The DLL a process has loaded stays on the disk while it runs.           *)
LoadedStays ==
    \A p \in Process : running[p] # Down => loaded[p] \in {dll.id, old.id}

=============================================================================
