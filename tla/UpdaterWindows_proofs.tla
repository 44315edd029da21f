----------------------- MODULE UpdaterWindows_proofs -----------------------
(***************************************************************************)
(* Theorems about the Windows updater, for any number of processes that    *)
(* share the directory: its types, that a loaded DLL stays on the disk,    *)
(* and that one mishap does not leave the game without its DLL.            *)
(***************************************************************************)
EXTENDS UpdaterWindows, TLAPS

-----------------------------------------------------------------------------
(* Types.                                                                  *)

\* A file has one name, and the number of the next file is a new one.
FilesApart ==
    /\ \A f \in {dll, new, old} : f.id < ids /\ (f.id = 0 => f = NoFile)
    /\ dll.id = new.id => dll.id = 0
    /\ dll.id = old.id => dll.id = 0
    /\ new.id = old.id => new.id = 0
    /\ ids > 0

\* An exchange belongs to a process that runs, and knows what it installs.
ExchangeRuns ==
    \A p \in Process : pc[p] # "idle" => running[p] # Down /\ target[p] \in Version

\* One process writes, and what it writes is mss32_new.dll.
OneWriter ==
    \A p \in Process : pc[p] = "read" =>
        new # NoFile /\ \A q \in Process : pc[q] = "read" => q = p

WellFormed == TypeOK /\ FilesApart /\ ExchangeRuns /\ OneWriter

LEMMA VersionTypes == 0 \in Version /\ None \notin Version /\ Incomplete \notin Version
                      /\ Down \notin Version
BY UpdaterAssumption DEF Version, None, Incomplete, Down

LEMMA NoFileType == NoFile \in File /\ NoFile.id = 0 /\ ~IsWhole(NoFile)
BY VersionTypes DEF NoFile, File, IsWhole

LEMMA InitWellFormed == Init => WellFormed
<1> SUFFICES ASSUME Init
             PROVE  WellFormed
  OBVIOUS
<1>1. dll \in File /\ new \in File /\ old \in File
  BY NoFileType, VersionTypes DEF Init, File
<1>2. FilesApart
  BY NoFileType DEF Init, FilesApart
<1>3. /\ running \in [Process -> Version \cup {Down}] /\ loaded \in [Process -> Nat]
      /\ requested \in [Process -> BOOLEAN] /\ cl_updateFiles \in [Process -> Version \cup {None}]
      /\ pc \in [Process -> Steps] /\ target \in [Process -> Version \cup {None}]
  BY DEF Init, Steps
<1>4. ids \in Nat /\ failures \in 0 .. MaxFailures
  BY UpdaterAssumption DEF Init
<1>5. ExchangeRuns /\ OneWriter
  BY DEF Init, ExchangeRuns, OneWriter
<1>6. /\ \A f, g \in {dll, new, old} : f.id = g.id /\ f.id # 0 => f = g
      /\ dll = old => dll = NoFile
  BY NoFileType DEF Init, NoFile
<1> QED
  BY <1>1, <1>2, <1>3, <1>4, <1>5, <1>6 DEF Init, WellFormed, TypeOK

\* The steps of a process outside of an exchange.
LEMMA ProcessWellFormed ==
  ASSUME WellFormed, NEW p \in Process,
         \/ \E ask \in BOOLEAN : Start(p, ask)
         \/ Exit(p)
         \/ \E v \in Version \cup {None} : updater_updatePacketResponse(p, v)
         \/ updater_dialogConfirmed(p)
  PROVE  WellFormed'
<1> USE DEF WellFormed, disk, observed
<1>1. CASE \E ask \in BOOLEAN : Start(p, ask)
  <2>1. FilesApart' /\ ExchangeRuns' /\ OneWriter'
    BY <1>1, VersionTypes DEF Start, FilesApart, ExchangeRuns, OneWriter, IsWhole, TypeOK
  <2> QED
    BY <1>1, <2>1 DEF Start, IsWhole, TypeOK, File
<1>2. CASE Exit(p)
  <2>1. FilesApart' /\ ExchangeRuns' /\ OneWriter'
    BY <1>2 DEF Exit, Ended, FilesApart, ExchangeRuns, OneWriter, TypeOK
  <2> QED
    BY <1>2, <2>1 DEF Exit, Ended, TypeOK
<1>3. ASSUME NEW v \in Version, BeginExchange(p, v), UNCHANGED proc, running[p] # Down
      PROVE  WellFormed'
  <2>1. FilesApart' /\ ExchangeRuns' /\ OneWriter'
    BY <1>3 DEF BeginExchange, proc, FilesApart, ExchangeRuns, OneWriter, TypeOK
  <2>2. pc' \in [Process -> Steps] /\ target' \in [Process -> Version \cup {None}]
    BY <1>3 DEF BeginExchange, TypeOK, Steps
  <2> QED
    BY <1>3, <2>1, <2>2 DEF BeginExchange, proc, TypeOK
<1>4. CASE \E v \in Version \cup {None} : updater_updatePacketResponse(p, v)
  <2>1. PICK v \in Version \cup {None} : updater_updatePacketResponse(p, v)
    BY <1>4
  <2>2. CASE v # None /\ BeginExchange(p, v) /\ UNCHANGED proc
    BY <1>3, <2>1, <2>2 DEF updater_updatePacketResponse
  <2>3. CASE UNCHANGED <<disk, failures, running, loaded, requested, pc, target, observed>>
             /\ cl_updateFiles' = [cl_updateFiles EXCEPT ![p] = v]
    BY <2>3 DEF FilesApart, ExchangeRuns, OneWriter, TypeOK
  <2> QED
    BY <2>1, <2>2, <2>3 DEF updater_updatePacketResponse
<1>5. CASE updater_dialogConfirmed(p)
  BY <1>3, <1>5 DEF updater_dialogConfirmed, TypeOK
<1> QED
  BY <1>1, <1>2, <1>4, <1>5

\* An exchange is one of its process, and touches no other.
LEMMA ExchangeFrame ==
  ASSUME WellFormed, NEW p \in Process, Exchange(p)
  PROVE  /\ pc[p] # "idle" /\ running[p] # Down /\ target[p] \in Version
         /\ pc' \in [Process -> Steps] /\ target' = target
         /\ \A q \in Process \ {p} : pc'[q] = pc[q] /\ running'[q] = running[q] /\ loaded'[q] = loaded[q]
         /\ deleteOnReboot' \in BOOLEAN /\ UNCHANGED observed
         /\ running' \in [Process -> Version \cup {Down}] /\ loaded' \in [Process -> Nat]
         /\ requested' \in [Process -> BOOLEAN]
         /\ cl_updateFiles' \in [Process -> Version \cup {None}]
         /\ running'[p] # Down => running' = running /\ loaded' = loaded
         /\ pc'[p] # "idle" => running' = running
<1> USE DEF WellFormed, observed, proc, disk
<1>0. pc[p] # "idle" /\ running[p] # Down /\ target[p] \in Version
  BY DEF Exchange, DownloadFails, CreateNew, ReadFile, WriteFails, RenameCurrent, InstallNew, Restore,
         ScheduleDeletion, SchedulingFails, TypeOK, ExchangeRuns
<1>3. /\ pc' \in [Process -> Steps] /\ target' = target
      /\ \A q \in Process \ {p} : pc'[q] = pc[q]
      /\ deleteOnReboot' \in BOOLEAN /\ UNCHANGED observed
      /\ UNCHANGED proc \/ (Ended(p) /\ pc'[p] = "idle")
  <2>1. \E step \in Steps : pc' = [pc EXCEPT ![p] = step]
    BY DEF Exchange, DownloadFails, CreateNew, ReadFile, WriteFails, RenameCurrent, InstallNew,
           Restore, ScheduleDeletion, SchedulingFails, Continue, Fail, Steps
  <2>2. target' = target /\ together' = together /\ interrupted' = interrupted
    BY DEF Exchange, DownloadFails, CreateNew, ReadFile, WriteFails, RenameCurrent, InstallNew,
           Restore, ScheduleDeletion, SchedulingFails, Continue, Fail
  <2>3. deleteOnReboot' \in BOOLEAN
    <3>1. CASE ScheduleDeletion(p)
      BY <3>1 DEF ScheduleDeletion
    <3>2. CASE ~ScheduleDeletion(p)
      <4>1. deleteOnReboot' = deleteOnReboot
        BY <3>2 DEF Exchange, DownloadFails, CreateNew, ReadFile, WriteFails, RenameCurrent, InstallNew,
               Restore, ScheduleDeletion, SchedulingFails
      <4> QED
        BY <4>1 DEF TypeOK
    <3> QED
      BY <3>1, <3>2
  <2>4. UNCHANGED proc \/ (Ended(p) /\ pc' = [pc EXCEPT ![p] = "idle"])
    BY DEF Exchange, DownloadFails, CreateNew, ReadFile, WriteFails, RenameCurrent, InstallNew,
           Restore, ScheduleDeletion, SchedulingFails, Continue, Fail
  <2>5. PICK step \in Steps : pc' = [pc EXCEPT ![p] = step]
    BY <2>1
  <2>6. pc' \in [Process -> Steps] /\ \A q \in Process \ {p} : pc'[q] = pc[q]
    BY <2>5 DEF TypeOK
  <2>7. UNCHANGED proc \/ (Ended(p) /\ pc'[p] = "idle")
    BY <2>4 DEF TypeOK
  <2> QED
    BY <2>2, <2>3, <2>6, <2>7
<1>4. /\ running' \in [Process -> Version \cup {Down}] /\ loaded' \in [Process -> Nat]
      /\ requested' \in [Process -> BOOLEAN] /\ cl_updateFiles' \in [Process -> Version \cup {None}]
      /\ \A q \in Process \ {p} : running'[q] = running[q] /\ loaded'[q] = loaded[q]
      /\ running'[p] # Down => running' = running /\ loaded' = loaded
      /\ pc'[p] # "idle" => running' = running
  <2>1. CASE UNCHANGED proc
    BY <2>1 DEF TypeOK
  <2>2. CASE Ended(p) /\ pc'[p] = "idle"
    BY <2>2 DEF Ended, TypeOK
  <2> QED
    BY <1>3, <2>1, <2>2
<1> QED
  BY <1>0, <1>3, <1>4

\* An exchange moves files, goes on or ends.
LEMMA ExchangeWellFormed ==
  ASSUME WellFormed, NEW p \in Process, Exchange(p)
  PROVE  WellFormed'
<1> USE DEF WellFormed, observed, proc, disk
<1>0. /\ dll \in File /\ new \in File /\ old \in File /\ ids \in Nat
      /\ pc[p] # "idle" /\ target[p] \in Version
  BY DEF Exchange, DownloadFails, CreateNew, ReadFile, WriteFails, RenameCurrent, InstallNew, Restore,
         ScheduleDeletion, SchedulingFails, TypeOK, ExchangeRuns
<1>1. failures' \in 0 .. MaxFailures
  BY UpdaterAssumption
  DEF Exchange, DownloadFails, CreateNew, ReadFile, WriteFails, RenameCurrent, InstallNew, Restore,
      ScheduleDeletion, SchedulingFails, Unexpected, TypeOK
<1>2. dll' \in File /\ new' \in File /\ old' \in File /\ ids' \in Nat /\ FilesApart'
  <2>1. CASE DownloadFails(p) \/ WriteFails(p) \/ ScheduleDeletion(p) \/ SchedulingFails(p)
    BY <1>0, <2>1 DEF DownloadFails, WriteFails, ScheduleDeletion, SchedulingFails, FilesApart
  <2>2. CASE CreateNew(p)
    BY <1>0, <2>2 DEF CreateNew, FilesApart, File, NoFile
  <2>3. CASE ReadFile(p)
    <3>1. PICK v \in Version \cup {Incomplete} : new' = [new EXCEPT !.version = v]
      BY <1>0, <2>3 DEF ReadFile
    <3>2. new # NoFile
      BY <2>3 DEF ReadFile, OneWriter
    <3> QED
      BY <1>0, <2>3, <3>1, <3>2 DEF ReadFile, FilesApart, File, NoFile
  <2>4. CASE RenameCurrent(p) \/ InstallNew(p) \/ Restore(p)
    BY <1>0, <2>4, NoFileType DEF RenameCurrent, InstallNew, Restore, FilesApart
  <2> QED
    BY <2>1, <2>2, <2>3, <2>4 DEF Exchange
<1>3. /\ pc' \in [Process -> Steps] /\ target' = target
      /\ \A q \in Process \ {p} : pc'[q] = pc[q] /\ running'[q] = running[q]
      /\ deleteOnReboot' \in BOOLEAN /\ UNCHANGED observed
  BY ExchangeFrame
<1>4. /\ running' \in [Process -> Version \cup {Down}] /\ loaded' \in [Process -> Nat]
      /\ requested' \in [Process -> BOOLEAN] /\ cl_updateFiles' \in [Process -> Version \cup {None}]
      /\ pc'[p] # "idle" => running' = running
  BY ExchangeFrame
<1>5. ExchangeRuns'
  BY <1>0, <1>3, <1>4 DEF ExchangeRuns
<1>6. OneWriter'
  <2>1. CASE CreateNew(p)
    <3>1. new' # NoFile
      BY <2>1, VersionTypes DEF CreateNew, NoFile, None, Incomplete
    <3>2. \A q \in Process : pc[q] # "read"
      BY <2>1 DEF CreateNew, Writing
    <3> QED
      BY <1>3, <3>1, <3>2 DEF OneWriter
  <2>2. CASE ~CreateNew(p)
    <3>1. pc'[p] # "read"
      BY <2>2 DEF Exchange, DownloadFails, ReadFile, WriteFails, RenameCurrent, InstallNew, Restore,
                  ScheduleDeletion, SchedulingFails, Continue, Fail, TypeOK
    <3>2. CASE pc[p] = "read"
      BY <1>3, <3>1, <3>2 DEF OneWriter
    <3>3. CASE pc[p] # "read"
      <4>1. new' = new \/ ~Writing
        BY <2>2, <3>3 DEF Exchange, DownloadFails, ReadFile, WriteFails, RenameCurrent, InstallNew,
                          Restore, ScheduleDeletion, SchedulingFails
      <4> QED
        BY <1>3, <3>1, <4>1 DEF OneWriter, Writing
    <3> QED
      BY <3>2, <3>3
  <2> QED
    BY <2>1, <2>2
<1>7. TypeOK'
  <2>1. /\ \A f, g \in {dll', new', old'} : f.id = g.id /\ f.id # 0 => f = g
        /\ dll' = old' => dll' = NoFile
    BY <1>2 DEF FilesApart
  <2> QED
    BY <1>1, <1>2, <1>3, <1>4, <2>1 DEF TypeOK
<1> QED
  BY <1>2, <1>5, <1>6, <1>7

LEMMA RebootWellFormed ==
  ASSUME WellFormed, Reboot
  PROVE  WellFormed'
<1> USE DEF WellFormed
<1>1. old' \in {old, NoFile} /\ UNCHANGED <<dll, new, ids, failures, target, together>>
      /\ interrupted' \in BOOLEAN /\ deleteOnReboot' \in BOOLEAN
  BY DEF Reboot, TypeOK
<1>2. FilesApart'
  BY <1>1, NoFileType DEF FilesApart
<1>3. /\ running' \in [Process -> Version \cup {Down}] /\ loaded' \in [Process -> Nat]
      /\ requested' \in [Process -> BOOLEAN] /\ cl_updateFiles' \in [Process -> Version \cup {None}]
      /\ pc' \in [Process -> Steps]
  BY DEF Reboot, Steps
<1>4. ExchangeRuns' /\ OneWriter'
  BY DEF Reboot, ExchangeRuns, OneWriter
<1>5. TypeOK'
  <2>1. /\ \A f, g \in {dll', new', old'} : f.id = g.id /\ f.id # 0 => f = g
        /\ dll' = old' => dll' = NoFile
    BY <1>2 DEF FilesApart
  <2> QED
    BY <1>1, <1>3, <2>1, NoFileType DEF TypeOK
<1> QED
  BY <1>2, <1>4, <1>5

LEMMA NextWellFormed == WellFormed /\ [Next]_vars => WellFormed'
<1> SUFFICES ASSUME WellFormed, [Next]_vars
             PROVE  WellFormed'
  OBVIOUS
<1>1. CASE Next
  BY <1>1, ProcessWellFormed, ExchangeWellFormed, RebootWellFormed DEF Next
<1>2. CASE UNCHANGED vars
  BY <1>2 DEF vars, WellFormed, TypeOK, FilesApart, ExchangeRuns, OneWriter, Writing
<1> QED
  BY <1>1, <1>2

LEMMA WellFormedAlways == Spec => []WellFormed
BY InitWellFormed, NextWellFormed, PTL DEF Spec

\* The state is well formed and no file has two names, whichever calls fail and
\* however many processes use the directory.
THEOREM WindowsTypeCorrect == Spec => []TypeOK
<1>1. WellFormed => TypeOK
  BY DEF WellFormed
<1> QED
  BY <1>1, WellFormedAlways, PTL

-----------------------------------------------------------------------------
(* Loaded files.                                                           *)

LoadedInv ==
    \A p \in Process : running[p] # Down => loaded[p] \in {dll.id, old.id} /\ loaded[p] # 0

LEMMA ExchangeLoaded ==
  ASSUME WellFormed, LoadedInv, NEW p \in Process, Exchange(p)
  PROVE  LoadedInv'
<1> SUFFICES ASSUME NEW q \in Process, running'[q] # Down
             PROVE  loaded'[q] \in {dll'.id, old'.id} /\ loaded'[q] # 0
  BY DEF LoadedInv
<1>1. running[q] # Down /\ loaded'[q] = loaded[q]
  BY ExchangeFrame
<1>2. loaded[q] \in {dll.id, old.id} /\ loaded[q] # 0
  BY <1>1 DEF LoadedInv
<1>3. CASE RenameCurrent(p) \/ InstallNew(p) \/ Restore(p)
  BY <1>1, <1>2, <1>3, NoFileType DEF RenameCurrent, InstallNew, Restore, IsLoaded
<1>4. CASE ~(RenameCurrent(p) \/ InstallNew(p) \/ Restore(p))
  <2>1. dll' = dll /\ old' = old
    BY <1>4 DEF Exchange, DownloadFails, CreateNew, ReadFile, WriteFails, ScheduleDeletion,
                SchedulingFails, disk
  <2> QED
    BY <1>1, <1>2, <2>1
<1> QED
  BY <1>3, <1>4

LEMMA NextLoaded == WellFormed /\ LoadedInv /\ [Next]_vars => LoadedInv'
<1> SUFFICES ASSUME WellFormed, LoadedInv, [Next]_vars
             PROVE  LoadedInv'
  OBVIOUS
<1>1. ASSUME NEW p \in Process, NEW ask \in BOOLEAN, Start(p, ask)
      PROVE  LoadedInv'
  <2>1. dll.id # 0
    BY <1>1, NoFileType DEF Start, WellFormed, FilesApart
  <2> QED
    BY <1>1, <2>1 DEF Start, LoadedInv, WellFormed, TypeOK, disk
<1>2. ASSUME NEW p \in Process, Exit(p)
      PROVE  LoadedInv'
  BY <1>2 DEF Exit, Ended, LoadedInv, WellFormed, TypeOK, disk
<1>3. ASSUME NEW p \in Process, NEW v \in Version \cup {None},
             updater_updatePacketResponse(p, v) \/ updater_dialogConfirmed(p)
      PROVE  LoadedInv'
  BY <1>3 DEF updater_updatePacketResponse, updater_dialogConfirmed, BeginExchange, proc, disk, LoadedInv
<1>4. ASSUME NEW p \in Process, Exchange(p)
      PROVE  LoadedInv'
  BY <1>4, ExchangeLoaded
<1>5. CASE Reboot
  BY <1>5 DEF Reboot, LoadedInv
<1>6. CASE UNCHANGED vars
  BY <1>6 DEF vars, LoadedInv
<1> QED
  BY <1>1, <1>2, <1>3, <1>4, <1>5, <1>6 DEF Next

\* Whatever other processes exchange, delete or restore, the DLL a running
\* process has loaded stays on the disk.
THEOREM LoadedFileStays == Spec => []LoadedStays
<1>1. Init => LoadedInv
  BY DEF Init, LoadedInv
<1>2. LoadedInv => LoadedStays
  BY DEF LoadedInv, LoadedStays
<1> QED
  BY <1>1, <1>2, NextLoaded, WellFormedAlways, PTL DEF Spec

-----------------------------------------------------------------------------
(* One mishap.                                                             *)

Swapping(p) == pc[p] \in {"install", "restore"}

OneExchange ==
    ~together => \A p, q \in Process : pc[p] # "idle" /\ pc[q] # "idle" => p = q

\* mss32_new.dll is whole when nobody writes it, if nothing failed; and in any case
\* for the only process that has downloaded it.
NewIsWhole == failures = 0 /\ ~interrupted => new = NoFile \/ IsWhole(new) \/ Writing
OwnIsWhole ==
    ~together => \A p \in Process : pc[p] \in {"rename", "install", "restore"} => IsWhole(new)

\* Between the two renames the old DLL waits to be put back.
SwapIsSafe ==
    OneMishap => \A p \in Process : Swapping(p) =>
        /\ dll = NoFile /\ IsWhole(old)
        /\ \A q \in Process : Swapping(q) => q = p
        /\ pc[p] = "restore" /\ ~together => failures = 1

DllIsThere ==
    OneMishap => \/ IsWhole(dll)
                 \/ \E p \in Process : Swapping(p)
                 \/ interrupted /\ IsWhole(new) /\ \A p \in Process : running[p] = Down

MishapInv == OneExchange /\ NewIsWhole /\ OwnIsWhole /\ SwapIsSafe /\ DllIsThere

LEMMA FailuresGrow ==
  ASSUME WellFormed, NEW p \in Process, Exchange(p)
  PROVE  failures' \in Nat /\ failures \in Nat /\ failures' >= failures
BY UpdaterAssumption
DEF Exchange, DownloadFails, CreateNew, ReadFile, WriteFails, RenameCurrent, InstallNew, Restore,
    ScheduleDeletion, SchedulingFails, Unexpected, WellFormed, TypeOK

LEMMA MishapStays ==
  ASSUME WellFormed, NEW p \in Process, Exchange(p), OneMishap'
  PROVE  OneMishap
BY ExchangeFrame, FailuresGrow DEF OneMishap, observed

\* The download.
LEMMA ExchangeNew ==
  ASSUME WellFormed, MishapInv, ~ReadErrors, NEW p \in Process, Exchange(p)
  PROVE  OneExchange' /\ NewIsWhole' /\ OwnIsWhole'
<1>0. /\ pc[p] # "idle" /\ target[p] \in Version /\ pc \in [Process -> Steps]
      /\ \A q \in Process \ {p} : pc'[q] = pc[q]
      /\ together' = together /\ interrupted' = interrupted
  BY ExchangeFrame DEF WellFormed, TypeOK, observed
<1>1. OneExchange'
  BY <1>0 DEF MishapInv, OneExchange
<1>2. failures' = 0 => failures = 0
  BY FailuresGrow
<1>3. ~together => \A q \in Process : pc'[q] # "idle" => q = p
  BY <1>0 DEF MishapInv, OneExchange
<1>4. CASE CreateNew(p)
  <2>1. pc'[p] = "read"
    BY <1>0, <1>4 DEF CreateNew, Continue
  <2>2. NewIsWhole'
    BY <2>1 DEF NewIsWhole, Writing
  <2>3. OwnIsWhole'
    BY <1>0, <1>3, <2>1 DEF OwnIsWhole
  <2> QED
    BY <1>1, <2>2, <2>3
<1>5. CASE ReadFile(p)
  <2>1. new \in File /\ new' = [new EXCEPT !.version = target[p]]
    BY <1>5 DEF ReadFile, WellFormed, TypeOK
  <2>2. IsWhole(new)'
    BY <1>0, <2>1 DEF IsWhole, File
  <2> QED
    BY <1>1, <2>2 DEF NewIsWhole, OwnIsWhole
<1>6. CASE InstallNew(p) /\ new' = NoFile
  <2>1. pc'[p] = "schedule" \/ new = NoFile
    BY <1>0, <1>6 DEF InstallNew, Continue
  <2>2. ~together => new # NoFile
    BY <1>6, NoFileType DEF MishapInv, OwnIsWhole, InstallNew
  <2> QED
    BY <1>0, <1>1, <1>3, <1>6, <2>1, <2>2 DEF NewIsWhole, OwnIsWhole
<1>7. CASE ~CreateNew(p) /\ ~ReadFile(p) /\ ~(InstallNew(p) /\ new' = NoFile)
  <2>1. new' = new
    BY <1>7 DEF Exchange, DownloadFails, WriteFails, RenameCurrent, InstallNew, Restore,
                ScheduleDeletion, SchedulingFails, disk
  <2>2. pc[p] = "read" => failures' # 0
    <3>1. pc[p] = "read" => failures' = failures + 1
      BY <1>7 DEF Exchange, DownloadFails, WriteFails, RenameCurrent, InstallNew, Restore,
                  ScheduleDeletion, SchedulingFails, Unexpected
    <3>2. failures \in Nat
      BY FailuresGrow
    <3> QED
      BY <3>1, <3>2
  <2>3. failures' = 0 /\ Writing => Writing'
    BY <1>0, <2>2 DEF Writing
  <2>4. pc'[p] \in {"rename", "install", "restore"} => pc[p] \in {"rename", "install", "restore"}
    BY <1>0, <1>7 DEF Exchange, DownloadFails, WriteFails, RenameCurrent, InstallNew, Restore,
                ScheduleDeletion, SchedulingFails, Continue, Fail
  <2>5. NewIsWhole'
    BY <1>0, <1>2, <2>1, <2>3 DEF MishapInv, NewIsWhole, IsWhole
  <2>6. OwnIsWhole'
    BY <1>0, <2>1, <2>4 DEF MishapInv, OwnIsWhole, IsWhole
  <2> QED
    BY <1>1, <2>5, <2>6
<1> QED
  BY <1>4, <1>5, <1>6, <1>7

\* The renames.
LEMMA ExchangeSwap ==
  ASSUME WellFormed, MishapInv, NEW p \in Process, Exchange(p)
  PROVE  SwapIsSafe' /\ DllIsThere'
<1> SUFFICES ASSUME OneMishap'
             PROVE  SwapIsSafe' /\ DllIsThere'
  BY DEF SwapIsSafe, DllIsThere
<1>0. /\ pc[p] # "idle" /\ running[p] # Down /\ pc \in [Process -> Steps]
      /\ \A q \in Process \ {p} : pc'[q] = pc[q]
      /\ together' = together /\ interrupted' = interrupted
  BY ExchangeFrame DEF WellFormed, TypeOK, observed
<1>1. OneMishap /\ failures \in Nat /\ failures' \in Nat /\ failures' >= failures
  BY MishapStays, FailuresGrow
\* Nobody else swaps while this one does.
<1>2. /\ \A q \in Process : Swapping(q) =>
            /\ dll = NoFile /\ IsWhole(old)
            /\ \A r \in Process : Swapping(r) => r = q
            /\ pc[q] = "restore" /\ ~together => failures = 1
      /\ IsWhole(dll) \/ \E q \in Process : Swapping(q)
  BY <1>0, <1>1 DEF MishapInv, SwapIsSafe, DllIsThere
<1>3. CASE pc[p] \notin {"rename", "install", "restore"}
  <2>1. dll' = dll /\ old' = old
    BY <1>3 DEF Exchange, DownloadFails, CreateNew, ReadFile, WriteFails, RenameCurrent, InstallNew,
                Restore, ScheduleDeletion, SchedulingFails, disk
  <2>2. pc'[p] \notin {"install", "restore"}
    BY <1>0, <1>3 DEF Exchange, DownloadFails, CreateNew, ReadFile, WriteFails, RenameCurrent, InstallNew,
                Restore, ScheduleDeletion, SchedulingFails, Continue, Fail
  <2>3. \A q \in Process : Swapping(q)' <=> Swapping(q)
    BY <1>0, <1>3, <2>2 DEF Swapping
  <2>4. SwapIsSafe'
    <3>1. ASSUME NEW q \in Process, Swapping(q), pc[q] = "restore", ~together
          PROVE  failures' = 1
      BY <1>1, <1>2, <3>1, <1>0 DEF OneMishap
    <3>2. \A q \in Process : Swapping(q) => pc'[q] = pc[q]
      BY <1>0, <1>3 DEF Swapping
    <3> QED
      BY <1>0, <1>2, <2>1, <2>3, <3>1, <3>2 DEF SwapIsSafe, IsWhole
  <2>5. DllIsThere'
    BY <1>2, <2>1, <2>3 DEF DllIsThere, IsWhole
  <2> QED
    BY <2>4, <2>5
<1>4. CASE RenameCurrent(p)
  <2>1. CASE old' = dll /\ dll' = NoFile /\ dll # NoFile /\ pc'[p] = "install"
    <3>1. \A q \in Process : ~Swapping(q)
      BY <1>2, <2>1
    <3>2. \A q \in Process : Swapping(q)' <=> q = p
      BY <1>0, <2>1, <3>1 DEF Swapping
    <3> QED
      BY <1>2, <2>1, <3>1, <3>2 DEF SwapIsSafe, DllIsThere, IsWhole
  <2>2. CASE dll' = dll /\ old' = old /\ pc'[p] = "idle"
    <3>1. \A q \in Process : Swapping(q)' <=> Swapping(q)
      BY <1>0, <1>4, <2>2 DEF Swapping, RenameCurrent
    <3>2. \A q \in Process : Swapping(q) => pc'[q] = pc[q]
      BY <1>0, <1>4 DEF Swapping, RenameCurrent
    <3>3. SwapIsSafe'
      <4>1. ASSUME NEW q \in Process, Swapping(q), pc[q] = "restore", ~together
            PROVE  failures' = 1
        BY <1>1, <1>2, <4>1, <1>0 DEF OneMishap
      <4> QED
        BY <1>0, <1>2, <2>2, <3>1, <3>2, <4>1 DEF SwapIsSafe, IsWhole
    <3> QED
      BY <1>2, <2>2, <3>1, <3>3 DEF DllIsThere, IsWhole
  <2> QED
    BY <1>0, <1>4, <2>1, <2>2 DEF RenameCurrent, Continue, Fail
<1>5. CASE InstallNew(p)
  <2>0. Swapping(p) /\ dll = NoFile /\ IsWhole(old) /\ \A q \in Process : Swapping(q) => q = p
    BY <1>2, <1>5 DEF InstallNew, Swapping
  <2>1. CASE new # NoFile /\ ~Writing /\ dll' = new /\ pc'[p] = "schedule"
    <3>1. IsWhole(new)
      <4>1. CASE together
        BY <1>0, <1>1, <2>1, <4>1 DEF OneMishap, MishapInv, NewIsWhole
      <4>2. CASE ~together
        BY <1>5, <4>2 DEF InstallNew, MishapInv, OwnIsWhole
      <4> QED
        BY <4>1, <4>2
    <3>2. \A q \in Process : ~Swapping(q)'
      BY <1>0, <2>0, <2>1 DEF Swapping
    <3> QED
      BY <2>1, <3>1, <3>2 DEF SwapIsSafe, DllIsThere, IsWhole
  <2>2. CASE /\ Unexpected \/ ((new = NoFile \/ Writing \/ dll # NoFile) /\ UNCHANGED failures)
             /\ dll' = dll /\ old' = old /\ pc'[p] = "restore"
    <3>1. \A q \in Process : Swapping(q)' <=> q = p
      BY <1>0, <2>0, <2>2 DEF Swapping
    <3>2. ~together => failures' = 1
      <4>1. ASSUME ~together
            PROVE  new # NoFile /\ ~Writing
        <5>1. new # NoFile
          BY <1>5, <4>1, NoFileType DEF InstallNew, MishapInv, OwnIsWhole
        <5>2. ~Writing
          BY <1>0, <1>5, <4>1 DEF MishapInv, OneExchange, Writing, InstallNew
        <5> QED
          BY <5>1, <5>2
      <4> QED
        BY <1>1, <2>0, <2>2, <4>1 DEF Unexpected, OneMishap
    <3> QED
      BY <1>0, <2>0, <2>2, <3>1, <3>2 DEF SwapIsSafe, DllIsThere, IsWhole
  <2> QED
    BY <1>0, <1>5, <2>1, <2>2 DEF InstallNew, Continue
<1>6. CASE Restore(p)
  <2>0. Swapping(p) /\ dll = NoFile /\ IsWhole(old) /\ (\A q \in Process : Swapping(q) => q = p)
        /\ (~together => failures = 1)
    BY <1>2, <1>6 DEF Restore, Swapping
  <2>1. dll' = old
    <3>1. ~(Unexpected /\ OneMishap')
      BY <1>0, <1>1, <2>0 DEF Unexpected, OneMishap
    <3>2. old # NoFile /\ ~IsLoaded(dll)
      BY <2>0, NoFileType DEF IsLoaded
    <3> QED
      BY <1>6, <3>1, <3>2 DEF Restore
  <2>2. \A q \in Process : ~Swapping(q)'
    BY <1>0, <1>6, <2>0 DEF Swapping, Restore, Fail
  <2> QED
    BY <2>0, <2>1, <2>2 DEF SwapIsSafe, DllIsThere, IsWhole
<1>7. pc[p] \in {"rename", "install", "restore"} => RenameCurrent(p) \/ InstallNew(p) \/ Restore(p)
  BY DEF Exchange, DownloadFails, CreateNew, ReadFile, WriteFails, ScheduleDeletion, SchedulingFails
<1> QED
  BY <1>3, <1>4, <1>5, <1>6, <1>7

\* The processes around the exchange.
LEMMA ProcessMishap ==
  ASSUME WellFormed, MishapInv, NEW p \in Process,
         \/ \E ask \in BOOLEAN : Start(p, ask)
         \/ Exit(p)
         \/ \E v \in Version \cup {None} : updater_updatePacketResponse(p, v)
         \/ updater_dialogConfirmed(p)
  PROVE  MishapInv'
<1> USE DEF MishapInv
<1>1. /\ UNCHANGED <<dll, new, old, failures, interrupted>>
      /\ \/ UNCHANGED <<pc, together>>
         \/ /\ pc[p] = "idle" /\ pc' = [pc EXCEPT ![p] = "create"]
            /\ together' = (together \/ \E q \in Process : pc[q] # "idle")
      /\ IsWhole(dll) \/ \A q \in Process : running[q] = Down => running'[q] = Down
  BY DEF Start, Exit, Ended, updater_updatePacketResponse, updater_dialogConfirmed, BeginExchange,
         disk, observed, proc, WellFormed, TypeOK
<1>2. pc \in [Process -> Steps] /\ together \in BOOLEAN
  BY DEF WellFormed, TypeOK
<1>3. /\ \A q \in Process : pc'[q] # pc[q] => q = p /\ pc[q] = "idle" /\ pc'[q] = "create"
      /\ together => together'
  BY <1>1, <1>2
<1>4. OneExchange'
  <2>1. CASE UNCHANGED <<pc, together>>
    BY <2>1 DEF OneExchange
  <2>2. CASE together' = (together \/ \E q \in Process : pc[q] # "idle")
    BY <1>3, <2>2
    DEF OneExchange
  <2> QED
    BY <1>1, <2>1, <2>2
<1>5. \A q \in Process : Swapping(q)' <=> Swapping(q)
  BY <1>3 DEF Swapping
<1>6. Writing => Writing'
  BY <1>3 DEF Writing
<1>7. NewIsWhole' /\ OwnIsWhole'
  BY <1>1, <1>3, <1>6 DEF NewIsWhole, OwnIsWhole, IsWhole
<1>8. OneMishap' => OneMishap
  BY <1>1, <1>3 DEF OneMishap
<1>9. SwapIsSafe'
  BY <1>1, <1>3, <1>5, <1>8 DEF SwapIsSafe, IsWhole, Swapping
<1>10. DllIsThere'
  BY <1>1, <1>5, <1>8 DEF DllIsThere, IsWhole
<1> QED
  BY <1>4, <1>7, <1>9, <1>10

\* The power fails, or the machine is shut down.
LEMMA RebootMishap ==
  ASSUME WellFormed, MishapInv, Reboot
  PROVE  MishapInv'
<1> USE DEF MishapInv
<1>1. /\ UNCHANGED <<dll, new, failures, together>>
      /\ \A p \in Process : pc'[p] = "idle" /\ running'[p] = Down
      /\ interrupted' = (interrupted \/ \E p \in Process : pc[p] # "idle")
  BY DEF Reboot
<1>2. OneExchange' /\ OwnIsWhole' /\ SwapIsSafe'
  BY <1>1 DEF OneExchange, OwnIsWhole, SwapIsSafe, Swapping
<1>3. NewIsWhole'
  BY <1>1 DEF NewIsWhole, Writing, IsWhole
<1>4. DllIsThere'
  <2> SUFFICES ASSUME OneMishap', ~IsWhole(dll)
               PROVE  interrupted' /\ IsWhole(new)
    BY <1>1 DEF DllIsThere, IsWhole
  <2>1. OneMishap
    BY <1>1 DEF OneMishap
  <2>2. CASE \E p \in Process : Swapping(p)
    <3>1. interrupted'
      BY <1>1, <2>2 DEF Swapping
    <3>2. ~together
      BY <1>1, <3>1 DEF OneMishap
    <3> QED
      BY <2>2, <3>1, <3>2 DEF OwnIsWhole, Swapping
  <2>3. CASE interrupted /\ IsWhole(new)
    BY <1>1, <2>3
  <2> QED
    BY <2>1, <2>2, <2>3 DEF DllIsThere
<1> QED
  BY <1>2, <1>3, <1>4

LEMMA NextMishap == ~ReadErrors /\ WellFormed /\ MishapInv /\ [Next]_vars => MishapInv'
<1> SUFFICES ASSUME ~ReadErrors, WellFormed, MishapInv, [Next]_vars
             PROVE  MishapInv'
  OBVIOUS
<1>1. ASSUME NEW p \in Process, Exchange(p)
      PROVE  MishapInv'
  BY <1>1, ExchangeNew, ExchangeSwap DEF MishapInv
<1>2. CASE UNCHANGED vars
  BY <1>2 DEF vars, MishapInv, OneExchange, NewIsWhole, OwnIsWhole, SwapIsSafe, DllIsThere,
              OneMishap, Swapping, Writing, IsWhole
<1> QED
  BY <1>1, <1>2, ProcessMishap, RebootMishap DEF Next

LEMMA MishapAlways ==
  ASSUME ~ReadErrors
  PROVE  Spec => []MishapInv
<1>1. Init => MishapInv
  BY VersionTypes
  DEF Init, MishapInv, OneExchange, NewIsWhole, OwnIsWhole, SwapIsSafe, DllIsThere, Swapping, IsWhole
<1>2. WellFormed /\ MishapInv /\ [Next]_vars => MishapInv'
  BY NextMishap
<1> QED
  BY <1>1, <1>2, WellFormedAlways, PTL DEF Spec

\* As long as a broken connection is noticed: one failed call with any number of
\* power failures, or any overlap of exchanges, leaves a whole DLL on the disk ...
THEOREM WindowsCopySurvives ==
  ASSUME ~ReadErrors
  PROVE  Spec => []CopySurvives
<1>1. MishapInv => CopySurvives
  BY DEF MishapInv, DllIsThere, SwapIsSafe, CopySurvives
<1> QED
  BY <1>1, MishapAlways, PTL

\* ... and unless the power failed between the renames, in its place: every failure
\* is repaired before the exchange is over.
THEOREM GameStartsAgain ==
  ASSUME ~ReadErrors
  PROVE  Spec => []GameCanStart
<1>1. MishapInv => GameCanStart
  BY DEF MishapInv, DllIsThere, Swapping, GameCanStart
<1> QED
  BY <1>1, MishapAlways, PTL
=============================================================================
