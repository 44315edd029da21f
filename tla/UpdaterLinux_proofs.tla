------------------------ MODULE UpdaterLinux_proofs ------------------------
(***************************************************************************)
(* Theorems about the Linux updater: for any number of jobs, its types and *)
(* that there is always a file for a download; and, as long as jobs do not *)
(* run side by side, that the library the next start loads is whole and    *)
(* that a copy survives every crash.                                       *)
(***************************************************************************)
EXTENDS UpdaterLinux, FiniteSetTheorems, NaturalsInduction, TLAPS

JobRecord == [pc : Step, from : Version, to : Version,
              file : Inode \cup {NoFile}, written : 0 .. Blocks]

-----------------------------------------------------------------------------
(* Types.                                                                  *)

LEMMA ConstantTypes ==
  /\ 0 \in Version /\ 1 \in Inode /\ 0 \in 0 .. Blocks /\ 1 \in Block /\ 1 \in Job
  /\ 0 \in 0 .. MaxCrashes
BY UpdaterAssumption DEF Version, Inode, Block, Job

LEMMA NoJobType == NoJob \in JobRecord
BY ConstantTypes DEF NoJob, JobRecord, Step

LEMMA InitTypes == Init => TypeOK
<1> SUFFICES ASSUME Init
             PROVE  TypeOK
  OBVIOUS
<1>1. \A v \in Version \cup {Hole} : Copy(v) \in [Block -> Version \cup {Hole}]
  BY DEF Copy
<1>2. content \in [Inode -> [Block -> Version \cup {Hole}]]
  BY <1>1, ConstantTypes DEF Init
<1>3. jobs \in [Job -> JobRecord]
  BY NoJobType DEF Init
<1> QED
  BY <1>2, <1>3, ConstantTypes DEF Init, TypeOK, JobRecord

LEMMA ServerTypes ==
  ASSUME TypeOK,
         \/ \E sv_update, resolved \in BOOLEAN : Start(sv_update, resolved)
         \/ Stop \/ Crash
  PROVE  TypeOK'
<1>1. CASE \E sv_update, resolved \in BOOLEAN : Start(sv_update, resolved)
  <2>1. PICK sv_update \in BOOLEAN, resolved \in BOOLEAN : Start(sv_update, resolved)
    BY <1>1
  <2>2. WholeFile(lib) => VersionOf(lib) \in Version
    BY ConstantTypes DEF WholeFile, VersionOf, Copy
  <2>3. running' \in Version \cup {Plain, Down} /\ asked' \subseteq Version
        /\ updater_address' \in {"init", "bad", "server"}
    BY <2>1, <2>2 DEF Start, TypeOK
  <2> QED
    BY <2>1, <2>3 DEF Start, TypeOK, files
<1>2. CASE Stop
  BY <1>2 DEF Stop, TypeOK, files
<1>3. CASE Crash
  <2>1. jobs' \in [Job -> JobRecord]
    BY <1>3, NoJobType DEF Crash
  <2>2. crashes' \in 0 .. MaxCrashes
    BY <1>3, UpdaterAssumption DEF Crash, TypeOK
  <2> QED
    BY <1>3, <2>1, <2>2 DEF Crash, TypeOK, files, JobRecord
<1> QED
  BY <1>1, <1>2, <1>3

LEMMA ResponseTypes ==
  ASSUME TypeOK, NEW v \in Announced, updater_updatePacketResponse(v)
  PROVE  TypeOK'
<1>1. PICK j \in Job : jobs' = [jobs EXCEPT ![j] =
                                 [NoJob EXCEPT !.pc = "rm", !.from = running, !.to = v]]
  BY DEF updater_updatePacketResponse
<1>2. v \in Version /\ running \in Version
  BY DEF Announced, updater_updatePacketResponse
<1>3. [NoJob EXCEPT !.pc = "rm", !.from = running, !.to = v] \in JobRecord
  BY <1>2, NoJobType DEF JobRecord, Step
<1>4. jobs' \in [Job -> JobRecord]
  BY <1>1, <1>3 DEF TypeOK, JobRecord
<1> QED
  BY <1>4 DEF updater_updatePacketResponse, TypeOK, process, files, JobRecord

LEMMA JobTypes ==
  ASSUME TypeOK, NEW j \in Job, JobStep(j) \/ CurlFails(j)
  PROVE  TypeOK'
<1>0. jobs \in [Job -> JobRecord] /\ jobs[j] \in JobRecord
  BY DEF TypeOK, JobRecord
<1> USE DEF process, files
<1>1. CASE RemoveBackup(j)
  <2>1. jobs' \in [Job -> JobRecord]
    BY <1>0, <1>1 DEF RemoveBackup, GoTo, JobRecord, Step
  <2> QED
    BY <1>1, <2>1 DEF RemoveBackup, TypeOK, JobRecord
<1>2. CASE \E n \in Inode : OpenNew(j, n)
  <2>1. PICK n \in Inode : OpenNew(j, n)
    BY <1>2
  <2>2. jobs' \in [Job -> JobRecord]
    BY <1>0, <2>1 DEF OpenNew, JobRecord, Step
  <2>3. content' \in [Inode -> [Block -> Version \cup {Hole}]]
    BY <2>1 DEF OpenNew, TypeOK, Copy
  <2> QED
    BY <2>1, <2>2, <2>3 DEF OpenNew, TypeOK, JobRecord
<1>3. CASE WriteBlock(j)
  <2>1. jobs' \in [Job -> JobRecord]
    BY <1>0, <1>3, UpdaterAssumption DEF WriteBlock, JobRecord
  <2>2. content' \in [Inode -> [Block -> Version \cup {Hole}]]
    BY <1>0, <1>3 DEF WriteBlock, TypeOK, JobRecord
  <2> QED
    BY <1>3, <2>1, <2>2 DEF WriteBlock, TypeOK, JobRecord
<1>4. CASE Downloaded(j)
  <2>1. jobs' \in [Job -> JobRecord]
    BY <1>0, <1>4 DEF Downloaded, JobRecord, Step
  <2> QED
    BY <1>4, <2>1 DEF Downloaded, TypeOK, JobRecord
<1>5. CASE MoveToBackup(j)
  <2>1. jobs' \in [Job -> JobRecord]
    BY <1>0, <1>5, NoJobType DEF MoveToBackup, End, GoTo, JobRecord, Step
  <2>2. old' \in [Version -> Inode \cup {NoFile}] /\ lib' \in Inode \cup {NoFile}
    BY <1>5 DEF MoveToBackup, TypeOK
  <2> QED
    BY <1>5, <2>1, <2>2 DEF MoveToBackup, TypeOK, JobRecord
<1>6. CASE Install(j) \/ CurlFails(j)
  <2>1. jobs' \in [Job -> JobRecord]
    BY <1>0, <1>6, NoJobType DEF Install, CurlFails, End
  <2>2. lib' \in Inode \cup {NoFile} /\ new' \in Inode \cup {NoFile}
    BY <1>6 DEF Install, CurlFails, TypeOK
  <2> QED
    BY <1>6, <2>1, <2>2 DEF Install, CurlFails, TypeOK, JobRecord
<1> QED
  BY <1>1, <1>2, <1>3, <1>4, <1>5, <1>6 DEF JobStep

LEMMA NextTypes == TypeOK /\ [Next]_vars => TypeOK'
<1>1. TypeOK /\ UNCHANGED vars => TypeOK'
  BY DEF TypeOK, vars
<1> QED
  BY <1>1, ServerTypes, ResponseTypes, JobTypes DEF Next

\* However many jobs run at once, wherever they fail and whenever the machine
\* crashes, the state stays well formed.
THEOREM LinuxTypeCorrect == Spec => []TypeOK
BY InitTypes, NextTypes, PTL DEF Spec

-----------------------------------------------------------------------------
(* The disk is large enough.                                               *)

\* The values of a function are no more than its arguments.
LEMMA ImageIsSmall ==
  ASSUME NEW S, IsFiniteSet(S), NEW f, DOMAIN f = S, f = [x \in S |-> f[x]]
  PROVE  /\ IsFiniteSet({f[x] : x \in S})
         /\ Cardinality({f[x] : x \in S}) <= Cardinality(S)
<1>1. f \in Surjection(S, {f[x] : x \in S})
  <2>1. f \in [S -> {f[x] : x \in S}]
    OBVIOUS
  <2> QED
    BY <2>1 DEF Surjection
<1> QED
  BY <1>1, FS_Surjection

\* A union has no more elements than its parts together.
LEMMA UnionIsSmall ==
  ASSUME NEW S, IsFiniteSet(S), NEW T, IsFiniteSet(T)
  PROVE  /\ IsFiniteSet(S \cup T)
         /\ Cardinality(S \cup T) <= Cardinality(S) + Cardinality(T)
<1>1. IsFiniteSet(S \cap T)
  BY FS_Intersection
<1>2. /\ Cardinality(S) \in Nat /\ Cardinality(T) \in Nat
      /\ Cardinality(S \cap T) \in Nat
  BY <1>1, FS_CardinalityType
<1>3. /\ IsFiniteSet(S \cup T)
      /\ Cardinality(S \cup T) = Cardinality(S) + Cardinality(T) - Cardinality(S \cap T)
  BY FS_Union
<1> QED
  BY <1>2, <1>3

LEMMA NatMinimum ==
  ASSUME NEW S \in SUBSET Nat, S # {}
  PROVE  \E m \in S : \A n \in S : m <= n
<1> DEFINE Less == {ss \in Nat \X Nat : ss[1] < ss[2]}
<1>1. IsWellFoundedOn(Less, Nat)
  BY NatLessThanWellFounded, Zenon DEF OpToRel
<1>2. PICK m \in S : \A n \in S : ~(<<n, m>> \in Less)
  <2> HIDE DEF Less
  <2> QED
    BY <1>1, WFMin, Zenon
<1>3. \A n \in S : ~(n < m)
  BY <1>2
<1> QED
  BY <1>3

\* Which files may have a name or be open, when .new is not there.
LEMMA UsedIsSmall ==
  ASSUME TypeOK, new = NoFile
  PROVE  /\ IsFiniteSet(Used \cap Inode)
         /\ Cardinality(Used \cap Inode) <= MaxVersion + MaxJobs + 2
<1> DEFINE named == {old[v] : v \in Version}
           written == [j \in Job |-> jobs[j].file]
           open == {written[j] : j \in Job}
<1>1. MaxVersion \in Nat /\ MaxJobs \in Nat
  BY UpdaterAssumption
<1>2. /\ IsFiniteSet(Version) /\ Cardinality(Version) = MaxVersion + 1
      /\ IsFiniteSet(Job) /\ Cardinality(Job) = MaxJobs
  BY <1>1, FS_Interval DEF Version, Job
<1>3. IsFiniteSet(named) /\ Cardinality(named) <= MaxVersion + 1
  <2>1. DOMAIN old = Version /\ old = [v \in Version |-> old[v]]
    BY DEF TypeOK
  <2> QED
    BY <1>2, <2>1, ImageIsSmall
<1>4. IsFiniteSet(open) /\ Cardinality(open) <= MaxJobs
  <2>1. DOMAIN written = Job /\ written = [j \in Job |-> written[j]]
    OBVIOUS
  <2> HIDE DEF written
  <2> QED
    BY <1>2, <2>1, ImageIsSmall
<1>5. IsFiniteSet({lib}) /\ Cardinality({lib}) = 1
  BY FS_Singleton
<1>6. IsFiniteSet({lib} \cup named) /\ Cardinality({lib} \cup named) <= MaxVersion + 2
  <2> HIDE DEF named
  <2>1. /\ IsFiniteSet({lib} \cup named)
        /\ Cardinality({lib} \cup named) <= 1 + Cardinality(named)
    BY <1>3, <1>5, UnionIsSmall
  <2>2. Cardinality(named) \in Nat /\ Cardinality({lib} \cup named) \in Nat
    BY <1>3, <2>1, FS_CardinalityType
  <2> QED
    BY <1>1, <1>3, <2>1, <2>2
<1>7. /\ IsFiniteSet(({lib} \cup named) \cup open)
      /\ Cardinality(({lib} \cup named) \cup open) <= MaxVersion + MaxJobs + 2
  <2> HIDE DEF named, open
  <2>1. /\ IsFiniteSet(({lib} \cup named) \cup open)
        /\ Cardinality(({lib} \cup named) \cup open)
             <= Cardinality({lib} \cup named) + Cardinality(open)
    BY <1>4, <1>6, UnionIsSmall
  <2>2. /\ Cardinality(open) \in Nat /\ Cardinality({lib} \cup named) \in Nat
        /\ Cardinality(({lib} \cup named) \cup open) \in Nat
    BY <1>4, <1>6, <2>1, FS_CardinalityType
  <2> QED
    BY <1>1, <1>4, <1>6, <2>1, <2>2
<1>8. Used \cap Inode \subseteq ({lib} \cup named) \cup open
  <2>1. open = {jobs[j].file : j \in Job}
    OBVIOUS
  <2>2. NoFile \notin Inode
    BY DEF NoFile, Inode
  <2> QED
    BY <2>1, <2>2 DEF Used
<1> HIDE DEF named, open
<1>9. /\ IsFiniteSet(Used \cap Inode)
      /\ Cardinality(Used \cap Inode) <= Cardinality(({lib} \cup named) \cup open)
  BY <1>7, <1>8, FS_Subset
<1>10. /\ Cardinality(Used \cap Inode) \in Nat
       /\ Cardinality(({lib} \cup named) \cup open) \in Nat
  BY <1>7, <1>9, FS_CardinalityType
<1> QED
  BY <1>1, <1>7, <1>9, <1>10

\* There is always a file .new can be: the number of files restricts nothing.
HasRoom ==
    \A j \in Job : jobs[j].pc = "curl" =>
        \E n \in Inode : IF new # NoFile THEN n = new
                         ELSE n \in Inode \ Used /\ \A m \in Inode \ Used : n <= m

LEMMA TypesHaveRoom == TypeOK => HasRoom
<1> SUFFICES ASSUME TypeOK
             PROVE  \E n \in Inode : IF new # NoFile THEN n = new
                                     ELSE n \in Inode \ Used /\ \A m \in Inode \ Used : n <= m
  BY DEF HasRoom
<1>1. CASE new # NoFile
  BY <1>1 DEF TypeOK
<1>2. CASE new = NoFile
  <2>1. MaxVersion \in Nat /\ MaxJobs \in Nat
    BY UpdaterAssumption
  <2>2. IsFiniteSet(Inode) /\ Cardinality(Inode) = MaxVersion + MaxJobs + 3
    BY <2>1, FS_Interval DEF Inode
  <2>3. /\ IsFiniteSet(Used \cap Inode)
        /\ Cardinality(Used \cap Inode) <= MaxVersion + MaxJobs + 2
    BY <1>2, UsedIsSmall
  <2>4. Used \cap Inode # Inode
    BY <2>1, <2>2, <2>3
  <2>5. Inode \ Used # {} /\ Inode \ Used \in SUBSET Nat
    BY <2>4 DEF Inode
  <2>6. PICK n \in Inode \ Used : \A m \in Inode \ Used : n <= m
    BY <2>5, NatMinimum
  <2> QED
    BY <1>2, <2>6
<1> QED
  BY <1>1, <1>2

(* A download never waits for a free file: however many jobs run at once   *)
(* and however many backups there are, the files the model provides are    *)
(* enough for the library, its backups and what the jobs write.            *)
THEOREM DownloadsHaveRoom == Spec => []HasRoom
BY LinuxTypeCorrect, TypesHaveRoom, PTL

-----------------------------------------------------------------------------
(* One job at a time.                                                      *)

\* No file has two names, so what a job writes is no library and no backup.
FilesApart ==
    /\ lib # NoFile => lib # new
    /\ \A v \in Version : old[v] # NoFile => old[v] # lib /\ old[v] # new

\* Without the library there is a backup of it.
BackupCovers == lib = NoFile => \E v \in Version : WholeFile(old[v])

\* The job writes the file .new, block after block, and it is whole when the
\* download is over.
NewIsWritten ==
    jobs[1].pc = "write" =>
        /\ jobs[1].file = new /\ new # NoFile
        /\ \A b \in 1 .. jobs[1].written : content[new][b] = jobs[1].to

NothingIsWritten == jobs[1].pc \in {"rm", "curl"} => jobs[1].written = 0

NewIsWhole == jobs[1].pc \in {"backup", "install"} => WholeFile(new)

\* The library is in its place until the job moves it; a server that asks for
\* updates was started with it.
UntilMoved == jobs[1].pc \in {"rm", "curl", "write", "backup"} => lib # NoFile
ServerHasLibrary == running \in Version => lib # NoFile \/ jobs[1].pc = "install"

OneJobInv ==
    /\ LibraryIsWhole /\ FilesApart /\ BackupCovers /\ NewIsWritten /\ NewIsWhole
    /\ NothingIsWritten /\ UntilMoved /\ ServerHasLibrary

LEMMA InitOneJob == Init => OneJobInv
<1> SUFFICES ASSUME Init
             PROVE  OneJobInv
  OBVIOUS
<1>1. WholeFile(lib)
  BY ConstantTypes DEF Init, WholeFile, NoFile
<1>2. jobs[1].pc = "none" /\ new = NoFile /\ lib # NoFile /\ \A v \in Version : old[v] = NoFile
  BY ConstantTypes DEF Init, NoJob, NoFile
<1>3. running \notin Version
  BY UpdaterAssumption DEF Init, Down, Version
<1> QED
  BY <1>1, <1>2, <1>3 DEF OneJobInv, LibraryIsWhole, FilesApart, BackupCovers, NewIsWritten,
                         NothingIsWritten, NewIsWhole, UntilMoved, ServerHasLibrary

LEMMA ServerOneJob ==
  ASSUME TypeOK, OneJobInv,
         \/ UNCHANGED vars
         \/ \E sv_update, resolved \in BOOLEAN : Start(sv_update, resolved)
         \/ Stop \/ Crash
  PROVE  OneJobInv'
<1>1. UNCHANGED files /\ (jobs' = jobs \/ jobs'[1] = NoJob)
  BY ConstantTypes DEF vars, files, Start, Stop, Crash
<1>2. running' \in Version => (running = running' /\ jobs' = jobs) \/ lib # NoFile
  BY DEF vars, Start, Stop, Crash, Version, Down, Plain, WholeFile
<1>3. LibraryIsWhole' /\ FilesApart' /\ BackupCovers'
  BY <1>1 DEF OneJobInv, LibraryIsWhole, FilesApart, BackupCovers, WholeFile, files
<1>4. NewIsWritten' /\ NothingIsWritten' /\ NewIsWhole' /\ UntilMoved'
  BY <1>1 DEF OneJobInv, NewIsWritten, NothingIsWritten, NewIsWhole, UntilMoved, WholeFile, files,
              NoJob
<1>5. ServerHasLibrary'
  BY <1>1, <1>2 DEF OneJobInv, ServerHasLibrary, files
<1> QED
  BY <1>3, <1>4, <1>5 DEF OneJobInv

LEMMA ResponseOneJob ==
  ASSUME MaxJobs = 1, TypeOK, OneJobInv, NEW v \in Announced, updater_updatePacketResponse(v)
  PROVE  OneJobInv'
<1>1. /\ jobs[1] = NoJob /\ jobs'[1].pc = "rm" /\ jobs'[1].written = 0 /\ running \in Version
      /\ UNCHANGED <<running, content, lib, new, old>>
  <2>1. Job = {1}
    BY DEF Job
  <2> QED
    BY <2>1 DEF updater_updatePacketResponse, NoJob, TypeOK, process, files
<1>2. lib # NoFile
  BY <1>1 DEF OneJobInv, ServerHasLibrary, NoJob
<1>3. LibraryIsWhole' /\ FilesApart' /\ BackupCovers'
  BY <1>1 DEF OneJobInv, LibraryIsWhole, FilesApart, BackupCovers, WholeFile
<1>4. NewIsWritten' /\ NothingIsWritten' /\ NewIsWhole' /\ UntilMoved' /\ ServerHasLibrary'
  BY <1>1, <1>2 DEF NewIsWritten, NothingIsWritten, NewIsWhole, UntilMoved, ServerHasLibrary
<1> QED
  BY <1>3, <1>4 DEF OneJobInv

\* The commands of the shell up to the download.
LEMMA DownloadOneJob ==
  ASSUME TypeOK, OneJobInv,
         RemoveBackup(1) \/ (\E n \in Inode : OpenNew(1, n)) \/ WriteBlock(1) \/ Downloaded(1)
         \/ CurlFails(1)
  PROVE  OneJobInv'
<1>0. 1 \in Job /\ jobs \in [Job -> JobRecord] /\ jobs[1] \in JobRecord
  BY ConstantTypes DEF TypeOK, JobRecord
<1> USE DEF OneJobInv, process, files
<1>1. CASE RemoveBackup(1)
  <2>1. /\ jobs[1].pc = "rm" /\ jobs'[1].pc = "curl" /\ jobs'[1].written = jobs[1].written
        /\ UNCHANGED <<running, content, lib, new>>
        /\ \A v \in Version : old'[v] # NoFile => old'[v] = old[v]
    BY <1>0, <1>1 DEF RemoveBackup, GoTo, JobRecord, TypeOK
  <2>2. lib # NoFile
    BY <2>1 DEF UntilMoved
  <2>3. LibraryIsWhole' /\ FilesApart' /\ BackupCovers'
    BY <2>1, <2>2 DEF LibraryIsWhole, FilesApart, BackupCovers, WholeFile
  <2>4. NewIsWritten' /\ NothingIsWritten' /\ NewIsWhole' /\ UntilMoved' /\ ServerHasLibrary'
    BY <2>1, <2>2 DEF NewIsWritten, NothingIsWritten, NewIsWhole, UntilMoved, ServerHasLibrary
  <2> QED
    BY <2>3, <2>4
<1>2. CASE \E n \in Inode : OpenNew(1, n)
  <2>0. PICK n \in Inode : OpenNew(1, n)
    BY <1>2
  <2>1. /\ jobs[1].pc = "curl" /\ jobs'[1].pc = "write" /\ jobs'[1].file = n
        /\ jobs'[1].written = jobs[1].written
        /\ new' = n /\ content' = [content EXCEPT ![n] = Copy(Hole)]
        /\ UNCHANGED <<running, lib, old>>
    BY <1>0, <2>0 DEF OpenNew, JobRecord
  <2>2. n # NoFile /\ n # lib /\ \A v \in Version : old[v] # n
    <3>1. n # NoFile
      BY UpdaterAssumption DEF Inode, NoFile
    <3>2. CASE new # NoFile
      BY <2>0, <3>1, <3>2 DEF OpenNew, FilesApart
    <3>3. CASE new = NoFile
      BY <2>0, <3>3 DEF OpenNew, Used
    <3> QED
      BY <3>1, <3>2, <3>3 
  <2>3. lib # NoFile
    BY <2>1 DEF UntilMoved
  <2>4. content'[lib] = content[lib]
    BY <2>1, <2>2, <2>3 DEF TypeOK
  <2>5. LibraryIsWhole' /\ FilesApart' /\ BackupCovers'
    BY <2>1, <2>2, <2>3, <2>4 DEF LibraryIsWhole, FilesApart, BackupCovers, WholeFile
  <2>6. NewIsWritten'
    <3>1. jobs[1].written = 0
      BY <2>1 DEF NothingIsWritten
    <3> QED
      BY <2>1, <2>2, <3>1 DEF NewIsWritten
  <2>7. NothingIsWritten' /\ NewIsWhole' /\ UntilMoved' /\ ServerHasLibrary'
    BY <2>1, <2>3 DEF NothingIsWritten, NewIsWhole, UntilMoved, ServerHasLibrary
  <2> QED
    BY <2>5, <2>6, <2>7
<1>3. CASE WriteBlock(1)
  <2>1. /\ jobs[1].pc = "write" /\ jobs'[1].pc = "write" /\ jobs[1].written \in 0 .. Blocks
        /\ jobs[1].written < Blocks /\ jobs'[1].written = jobs[1].written + 1
        /\ jobs'[1].file = jobs[1].file /\ jobs'[1].to = jobs[1].to
        /\ UNCHANGED <<running, lib, new, old>>
    BY <1>0, <1>3 DEF WriteBlock, JobRecord
  <2>2. /\ jobs[1].file = new /\ new # NoFile /\ new \in Inode
        /\ \A b \in 1 .. jobs[1].written : content[new][b] = jobs[1].to
    BY <2>1 DEF NewIsWritten, TypeOK
  <2>3. /\ content' = [content EXCEPT ![new][jobs[1].written + 1] = jobs[1].to]
        /\ jobs[1].written + 1 \in Block
    BY <1>3, <2>1, <2>2, UpdaterAssumption DEF WriteBlock, Block
  <2>4. lib # NoFile /\ lib # new /\ \A v \in Version : old[v] # new
    BY <2>1, <2>2 DEF UntilMoved, FilesApart
  <2>5. content'[lib] = content[lib]
    BY <2>3, <2>4 DEF TypeOK
  <2>6. LibraryIsWhole' /\ FilesApart' /\ BackupCovers'
    BY <2>1, <2>4, <2>5 DEF LibraryIsWhole, FilesApart, BackupCovers, WholeFile
  <2>7. NewIsWritten'
    <3>1. content'[new] = [content[new] EXCEPT ![jobs[1].written + 1] = jobs[1].to]
          /\ content[new] \in [Block -> Version \cup {Hole}]
      BY <2>2, <2>3 DEF TypeOK
    <3>2. ASSUME NEW b \in 1 .. jobs[1].written + 1
          PROVE  content'[new][b] = jobs[1].to
      <4>1. b \in Block
        BY <2>1, UpdaterAssumption DEF Block
      <4>2. CASE b = jobs[1].written + 1
        BY <3>1, <4>1, <4>2
      <4>3. CASE b # jobs[1].written + 1
        <5>1. b \in 1 .. jobs[1].written
          BY <2>1, <4>3
        <5> QED
          BY <2>2, <3>1, <4>1, <4>3, <5>1
      <4> QED
        BY <4>2, <4>3
    <3> QED
      BY <2>1, <2>2, <3>2 DEF NewIsWritten
  <2>8. NothingIsWritten' /\ NewIsWhole' /\ UntilMoved' /\ ServerHasLibrary'
    BY <2>1, <2>4 DEF NothingIsWritten, NewIsWhole, UntilMoved, ServerHasLibrary
  <2> QED
    BY <2>6, <2>7, <2>8
<1>4. CASE Downloaded(1)
  <2>1. /\ jobs[1].pc = "write" /\ jobs[1].written = Blocks /\ jobs'[1].pc = "backup"
        /\ UNCHANGED <<running, content, lib, new, old>>
    BY <1>0, <1>4 DEF Downloaded, JobRecord
  <2>2. lib # NoFile
    BY <2>1 DEF UntilMoved
  <2>3. WholeFile(new)
    <3>1. new \in Inode /\ \A b \in Block : content[new][b] = jobs[1].to
      BY <2>1 DEF NewIsWritten, Block, TypeOK
    <3>2. content[new] \in [Block -> Version \cup {Hole}] /\ jobs[1].to \in Version
      BY <1>0, <3>1 DEF TypeOK, JobRecord
    <3>3. content[new] = Copy(jobs[1].to)
      BY <3>1, <3>2 DEF Copy
    <3> QED
      BY <2>1, <3>2, <3>3 DEF WholeFile, NewIsWritten
  <2>4. LibraryIsWhole' /\ FilesApart' /\ BackupCovers'
    BY <2>1 DEF LibraryIsWhole, FilesApart, BackupCovers, WholeFile
  <2>5. NewIsWritten' /\ NothingIsWritten' /\ NewIsWhole' /\ UntilMoved' /\ ServerHasLibrary'
    BY <2>1, <2>2, <2>3 DEF NewIsWritten, NothingIsWritten, NewIsWhole, UntilMoved,
                            ServerHasLibrary, WholeFile
  <2> QED
    BY <2>4, <2>5
<1>5. CASE CurlFails(1)
  <2>1. /\ jobs[1].pc \in {"curl", "write"} /\ jobs'[1].pc = "none"
        /\ UNCHANGED <<running, content, lib, new, old>>
    BY <1>0, <1>5 DEF CurlFails, End, NoJob
  <2>2. LibraryIsWhole' /\ FilesApart' /\ BackupCovers'
    BY <2>1 DEF LibraryIsWhole, FilesApart, BackupCovers, WholeFile
  <2>3. NewIsWritten' /\ NothingIsWritten' /\ NewIsWhole' /\ UntilMoved' /\ ServerHasLibrary'
    BY <2>1 DEF NewIsWritten, NothingIsWritten, NewIsWhole, UntilMoved, ServerHasLibrary
  <2> QED
    BY <2>2, <2>3
<1> QED
  BY <1>1, <1>2, <1>3, <1>4, <1>5

\* The two moves: between them only the backup is left.
LEMMA ExchangeOneJob ==
  ASSUME TypeOK, OneJobInv, MoveToBackup(1) \/ Install(1)
  PROVE  OneJobInv'
<1>0. 1 \in Job /\ jobs \in [Job -> JobRecord] /\ jobs[1] \in JobRecord
  BY ConstantTypes DEF TypeOK, JobRecord
<1> USE DEF OneJobInv, process
<1>1. CASE MoveToBackup(1)
  <2>1. jobs[1].pc = "backup" /\ lib # NoFile /\ WholeFile(lib) /\ WholeFile(new)
    BY <1>1 DEF MoveToBackup, UntilMoved, LibraryIsWhole, NewIsWhole
  <2>2. /\ old' = [old EXCEPT ![jobs[1].from] = lib] /\ lib' = NoFile
        /\ jobs'[1].pc = "install" /\ UNCHANGED <<running, content, new>>
    BY <1>0, <1>1, <2>1 DEF MoveToBackup, GoTo, JobRecord
  <2>3. jobs[1].from \in Version /\ old'[jobs[1].from] = lib
    BY <1>0, <2>2 DEF JobRecord, TypeOK
  <2>4. LibraryIsWhole' /\ BackupCovers'
    BY <2>1, <2>2, <2>3 DEF LibraryIsWhole, BackupCovers, WholeFile
  <2>5. FilesApart'
    BY <2>1, <2>2 DEF FilesApart, TypeOK
  <2>6. NewIsWritten' /\ NothingIsWritten' /\ NewIsWhole' /\ UntilMoved' /\ ServerHasLibrary'
    BY <2>1, <2>2 DEF NewIsWritten, NothingIsWritten, NewIsWhole, UntilMoved, ServerHasLibrary,
                      WholeFile
  <2> QED
    BY <2>4, <2>5, <2>6
<1>2. CASE Install(1)
  <2>1. jobs[1].pc = "install" /\ WholeFile(new) /\ new # NoFile
    BY <1>2 DEF Install, NewIsWhole, WholeFile
  <2>2. lib' = new /\ new' = NoFile /\ jobs'[1].pc = "none" /\ UNCHANGED <<running, content, old>>
    BY <1>0, <1>2, <2>1 DEF Install, End, NoJob
  <2>3. LibraryIsWhole' /\ FilesApart' /\ BackupCovers'
    BY <2>1, <2>2 DEF LibraryIsWhole, FilesApart, BackupCovers, WholeFile
  <2>4. NewIsWritten' /\ NothingIsWritten' /\ NewIsWhole' /\ UntilMoved' /\ ServerHasLibrary'
    BY <2>1, <2>2 DEF NewIsWritten, NothingIsWritten, NewIsWhole, UntilMoved, ServerHasLibrary
  <2> QED
    BY <2>3, <2>4
<1> QED
  BY <1>1, <1>2

LEMMA NextOneJob ==
  ASSUME MaxJobs = 1
  PROVE  TypeOK /\ OneJobInv /\ [Next]_vars => OneJobInv'
<1> SUFFICES ASSUME TypeOK, OneJobInv, [Next]_vars
             PROVE  OneJobInv'
  OBVIOUS
<1>1. CASE \E v \in Announced : updater_updatePacketResponse(v)
  BY <1>1, ResponseOneJob
<1>2. CASE \E j \in Job : JobStep(j) \/ CurlFails(j)
  <2>1. JobStep(1) \/ CurlFails(1)
    BY <1>2 DEF Job
  <2> QED
    BY <2>1, DownloadOneJob, ExchangeOneJob DEF JobStep
<1> QED
  BY <1>1, <1>2, ServerOneJob DEF Next

\* The invariant of one job, for the two theorems below.
LEMMA OneJobAlways ==
  ASSUME MaxJobs = 1
  PROVE  Spec => [](TypeOK /\ OneJobInv)
<1>1. Init => TypeOK /\ OneJobInv
  BY InitTypes, InitOneJob
<1>2. TypeOK /\ OneJobInv /\ [Next]_vars => (TypeOK /\ OneJobInv)'
  BY NextTypes, NextOneJob
<1> QED
  BY <1>1, <1>2, PTL DEF Spec

\* While updates do not overlap, no broken download and no crash leaves an
\* incomplete library where the next start loads it, whatever its size.
THEOREM NoPartialLibrary ==
  ASSUME MaxJobs = 1
  PROVE  Spec => []LibraryIsWhole
<1>1. OneJobInv => LibraryIsWhole
  BY DEF OneJobInv
<1> QED
  BY <1>1, OneJobAlways, PTL

\* ... and a whole copy is on the disk at every moment, between the two moves
\* that of the backup.
THEOREM CopyAlwaysSurvives ==
  ASSUME MaxJobs = 1
  PROVE  Spec => []CopySurvives
<1>1. OneJobInv => CopySurvives
  BY DEF OneJobInv, CopySurvives, LibraryIsWhole, BackupCovers
<1> QED
  BY <1>1, OneJobAlways, PTL
=============================================================================
