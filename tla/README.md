# A verification of CoD2x

CoD2x is a patch for Call of Duty 2 1.3: a library that is loaded with the game
(`mss32.dll` on Windows, `libCoD2x.so` by `LD_PRELOAD` on Linux) and replaces or
surrounds functions of the original program.  This directory holds TLA+ models
of the parts of CoD2x that keep state, TLC configurations that check them on
small instances, and TLAPS proofs of the main results.  Paths in this text are
relative to the repository (`src/shared/server.cpp` is `src/src/shared/server.cpp`
in `PROJECT.json`).

## The system

The original game is single-threaded: `Com_Frame` runs the console, reads the
packets, runs the server and the client.  CoD2x calls its own `*_frame` functions
at the start of each frame (`mss32/hook.cpp`: freeze, fps, game; `linux/hook.cpp`)
and replaces whole functions by patching calls.  The parts and what they keep:

| part | state | operations | hard because |
|---|---|---|---|
| connection handshake (`shared/server.cpp` 59-170, 313-539) | `svs_challenges`, the seats, bans, the authorization server's address | `getchallenge`, `ipAuthorize`, `connect`, kicks, bans, restarts | UDP: packets are lost, duplicated, late and reordered; slots are recycled; the ban check and the admission read different copies of the id |
| connection to the masters (174-301, 627-635) | cached addresses, three due times, the `sv_master` cvars | heartbeat, status, `getIp`, goodbye, the test whether an address is a master | names that do not resolve, cvars changed at any time, a clock that starts over |
| Linux updater (`linux/updater.cpp`) | update server's address, three kinds of files, background shells | request, answer, the shell's commands | shells outlive the server and run side by side, downloads break, machines crash |
| Windows updater (`mss32/updater.cpp`) | three DLL names, the scheduled deletion, the dialog's cvar | answer, dialog, download, three renames | each call may fail, the power may fail, another process uses the same directory |
| freeze detection (`mss32/freeze.cpp`, flag of `exception.cpp`) | heartbeat, exit flag, thread handle, cvar | frame, watchdog thread, message box | two threads without a lock, a clock that wraps, waiting without limit |
| raw mouse input (`mss32/rinput.cpp`, parts of `window.cpp`) | offsets, counters, thread, hidden window, registration, latched cvar | register, unregister, `vid_restart`, collect, take, measure | two threads, a lock, registration that fails half way, the window replaced |
| frame rate limit, game version (`mss32/fps.cpp`, `game.cpp`) | two cvars with *modified* flags, the last client state seen by each, the limits of `com_maxfps`, the patch of the clip bug | frame | the client's state is sampled once a frame, and passes through several values between two samples |
| window and cursor (`mss32/window.cpp`) | the cursor of the menus, the capture, the center, the last menu | window messages, movement | the foreground changes before the message about it; menus, moves and minimizing come between two frames |
| command line (`shared/common.cpp` 14-103) | none | split once at start, in place | quotes, escapes, empty lines, more lines than there is room for |
| hardware id, administrator check, server browser | constants | once at start | nothing that changes later |
| patches, helpers (`shared/`) | none | once at load | fixed addresses of the game |
| loading and hooks | none | once at load | fixed order |

They interact through calls on the main thread (the packet handler of the server
calls the updater and the masters' code), through cvars, which keep a *modified*
flag that each user clears for himself, and through the files of the updater.
`PROJECT.json` lists every part, also those that are not modelled, and under
*hazards* what can go wrong in each at the line where it bites.

What makes each part correct, in a sentence: the handshake seats nobody who was
not told a number at his own address, who was refused, or who is banned; the
masters' code keeps the server listed at the masters the cvars name *now*; an
update never loses the last usable library; the watchdog reports a hang, and only
a hang, once; raw input loses no movement and the cvar says what is running; the
client's limit holds while it is in force and is lifted afterwards, and its
movement rules are those of the server it plays on; the view turns by what the
mouse moved, and the cursor of another application is left alone; a line of the
console is what stands between two separators outside quotes.

## The modules

| module | models | run on |
|---|---|---|
| `ServerConnect` | the handshake, with the original functions it calls (decompiled in `src/other`) | `MCServerConnect` |
| `AdmissionPolicy` | abstract: numbers as tickets, seats, bans; no table, packets, clock | by refinement, `ImplementsPolicy` |
| `ServerConnect_proofs` | theorems, the refinement among them | TLAPS |
| `MasterServer`, `MasterServer_proofs` | the masters; theorems | `MCMasterServer`, TLAPS |
| `UpdaterLinux`, `UpdaterLinux_proofs` | the Linux updater; theorems | itself, TLAPS |
| `UpdaterWindows`, `UpdaterWindows_proofs` | the Windows updater; theorems | itself, TLAPS |
| `FreezeWatchdog`, `FreezeWatchdog_proofs` | the freeze detection; theorems | itself, TLAPS |
| `RInput`, `RInput_proofs` | raw mouse input; theorems | itself, TLAPS |
| `MouseMovement`, `MouseMovement_proofs` | cursor and view; theorems | `MCMouseMovement`, TLAPS |
| `CommandLine` | pure: how the command line is split, and a reference definition | within `ClientFrame` |
| `ClientFrame`, `ClientFrame_proofs` | the frame of the client; theorems | itself, TLAPS |

Definitions carry the names of the source where they stand for one function;
`PROJECT.json` maps each to its lines.  A definition named `X_Something` whose
comment begins with *Mutant* is a faulty variant of `X`: put in the place of `X`,
it must make the named property fail.  Variables marked *observation only* record
history for the properties; no action of the code reads them.

**ServerConnect.** A handler of a packet is one action, as the server has one
thread.  Packets are not kept in a network: what was ever sent (`asked`, `told`)
can be received at any later time, any number of times or never, which covers
loss, duplication, delay and reordering.  Clients choose what they present
(number, id, qport, version) among the numbers somebody was told and the ids that
exist.  `SV_GetChallenge` finds or recycles a slot, then tells the number, asks
the authorization server or fails to resolve it; `SV_AuthorizeIpPacket` looks a
slot up *by number*; `SV_DirectConnect` is the CoD2x check (version, id, number,
bans) followed by `OriginalDirectConnect` (reconnect limit, seat, script).  The
rest of the game appears as far as it changes this state: clients leave, zombies
end, players are banned, the server restarts.  `svs_time` counts ticks; the five
seconds of the timeout are `AuthTimeout`.  `RandRepeats` says whether `rand()` may
give 0 or a used number; properties that need fresh numbers say so.

**MasterServer.** A frame, a map change, a shutdown, a changed cvar and the two
packets that look at the cached addresses are the actions.  `SV_MasterAddress` is
called in loops over the masters; the model makes one choice of resolutions per
step (`Lookups`) and applies it to those the loop reaches, in the order and up to
the point the loop reaches.  The clock wraps at `TimeWrap`, and due times are
absolute.

**UpdaterLinux.** Files are inodes: a shell goes on writing the file it has opened
wherever it is moved.  One command of the shell is a step, and a block of a
download is one; `set -e` ends the shell at the first failure.  A crash ends the
shells, a stop of the server does not.

**UpdaterWindows.** One system call is a step.  A loaded DLL can be renamed but
not replaced, a file that is written can be neither.  A reboot performs the
scheduled deletion.

**FreezeWatchdog.** The main thread's frame and the watchdog's loop are split at
each access to `freeze_lastHeartbeat`, `freeze_exitThread` and
`exception_processCrashed`.  The clock is a number modulo `ClockWrap`.

**RInput.** The input thread, the mouse loop and `vid_restart` are split at each
wait, each system call that can fail and, inside the critical section, between
reading and writing the offset.  Whether 100 ms have passed between two
measurements is a free choice; one axis stands for two.

**MouseMovement.** A call of `Mouse_ProcessMovement` is one action, split into the
cases of its early returns; between two calls the mouse moves, menus open and
close, and the window procedure handles `WM_ACTIVATE`, `WM_MOVE` and the click.
The foreground window changes at once, the message about it waits in `inbox`.  One
axis stands for two and the window has no borders.  `SetCursorPos` clips to the
desktop, as Windows does; the client area of a minimized window is empty and lies
at -32000.  Whether raw input is on is chosen at the start, as `RInput` has the
switching.

**ClientFrame.** A frame is `fps_frame`, `game_frame`, the *events* of the original
`Com_Frame` in any number and order, and the client's drawing with the commands of
the server.  The events are commands and packets of the original game as far as
they change `clientState`, the server it is about, demo playback or `sv_cheats`;
a server is known by its version, 0 being the game without CoD2x.  The cvars are
a value and the *modified* flag, which a set raises only when the value changes.
The model begins with the command line of the process, so that `CommandLine` is
checked where the program uses it: before the first frame `ParseNext` runs the body
of the loop of `Com_ParseCommandLine` on one character after the other.

**CommandLine.** `Scan` is the loop's body of `Com_ParseCommandLine`: it moves the
scanner (the next character, whether it is inside quotes, where lines begin, which
separators are zeroed, whether there was no room for one more line); `LinesOf` says,
without a scanner, what the lines should be.  A character is a quote, a backslash, a separator or a letter.

## The runs

Times are for two workers.  All bounds are constants in the `.cfg` files.

| run | asks | instance |
|---|---|---|
| `handshake` | well-formedness; who plays was told; nobody plays after a refusal; answers reach their clients | two ports of one machine, two slots, two numbers, one seat |
| `doors` | the refinement to `AdmissionPolicy`; nobody is admitted under a banned id; numbers are told for a reason | one slot (so that every client recycles it), a LAN and an internet address, two ids, a ban, all client versions, a cracked server |
| `silent` | liveness: with a silent or unresolvable authorization server, who keeps asking is let in | two addresses (one a master), a local client |
| `local_banned` | *violated*: "loopback and bot clients don't need to challenge" | a remote and a local client, one ban |
| `masters` | well-formedness, right receivers, regular heartbeats, repeated questions, goodbye | two masters, two names and the empty one, a clock of 8 ticks, periods of 3, 2, 3 and 2 |
| `linux_updates` | no partial library, a copy survives any crash, downloads get installed | three versions, two blocks, one shell at a time, one crash |
| `two_jobs` | *violated*: there is a library when no shell runs | two shells, no crash |
| `windows_updates` | a copy survives, the game can start, the loaded DLL stays | a client and a server, four versions, one failing call, power loss |
| `freeze` | alarms have a cause and are raised; one watchdog; switching off ends | two threads, a clock modulo 3, frames of up to 2 ticks, alarm after more than 1 |
| `rinput` | no movement lost, the cvar is true, no quit to the game, waits end | three inputs, two samples |
| `client` | the command line is split outside quotes; the limit holds, and is lifted; the movement rules are the server's | every text of up to 6 characters, 2 lines; versions 0 to 2, an own server, demos; three values of `com_maxfps` |
| `cursor` | the view follows the mouse; other windows keep the cursor and get it back | a desktop of 7, a window of 5 at three places, a menu of 3, two steps of the mouse, two messages waiting |

Why the bounds suffice.  `handshake`: one address competes with another for the
table and for the only seat, numbers run out after each was issued once, and four
packets may be late.  `doors`: one slot forces recycling between any two packets.
`masters`: every period expires and is re-armed before the clock wraps, names are
swapped between the slots.  `linux_updates`: an update of an update writes a
second backup; two blocks make a download that stops half way.
`windows_updates`: three successive updates meet a left-over `mss32_old.dll`, and
the two processes exchange at the same time.  `freeze`: the difference of two time
stamps wraps, two frames can be too long, and the second thread can exist.
`rinput`: one input may be pending, one being added and one counted; two samples
make the ring wrap.  `client`: six characters hold two quotes, an escaped one and
a separator inside and outside of them, with room for two lines and a text that
has three; of the frame rates one is below, one inside and one above the limits;
two versions beside the legacy one let a server's version differ from the client's
own.  `cursor`: the window stands inside the desktop, over its edge, and with its
center outside; two waiting messages let the foreground change again before the
first one is handled.

Deadlock is switched off in `freeze` and `rinput` only: there the process may end
(`ExitProcess`, `WM_QUIT`), the game may hang with the watchdog off, and the wait
for a thread that could not be created does not end.

**Fairness.** `silent`: time passes and a client repeats its request while it gets
no answer, as the game's client does every few seconds; nothing is assumed of the
authorization server or the network's other packets.  `linux_updates`: the system
runs the shells and a download ends somehow; no fairness for success.  `freeze`:
the threads run, time passes and the player answers a message box; frames are
*not* assumed to go on, as a hang is the point.  `rinput`: both threads run, and a
message posted to a thread is read before input that waits for it, which is the
order Windows documents; the success of a registration is not assumed.
`client` and `cursor`: frames go on (`WF_vars(Frame)`,
`WF_vars(Mouse_ProcessMovement)`), as `Com_Frame` is a loop that calls both;
nothing is assumed of the player, the servers or the messages of Windows.

## What the runs found

Disagreements between the code and its documentation, each shown by a run:

* `local_banned`: for a banned *local* address the index of the slot was never
  assigned (`shared/server.cpp:155`), and the slot of an uninvolved client, or
  memory beyond the table, is cleared.
* `two_jobs`: two shells that run side by side can leave no `libCoD2x.so`
  (`linux/updater.cpp:43`).

Seen while modelling, without a run of their own.

* Server: `strstr` has its arguments swapped (`server.cpp:188`), so a port in
  `sv_master` is replaced by the default one, and `sv_masterPort` of `README.md:47` does
  not exist.  A
  `connect` with a wrong number is dropped silently although a comment promises an
  answer by the original function (`server.cpp:144`).  `getIpResponse` from anybody
  stops the question (`server.cpp:629`).  A master that failed to resolve once is not
  tried again until its cvar changes (`server.cpp:184`).
* Windows updater: a read error is taken for the end of the file
  (`mss32/updater.cpp:78`), and a partial DLL is installed as a success (`:101`); an
  update whose only failing step is the scheduled deletion is reported as failed
  (`:144`).
* Freeze detection: the clock is read before the heartbeat (`freeze.cpp:25`), so a
  frame that begins in between looks like a freeze of 49 days; `cl_freezeWatch`
  toggled twice in one frame leaves a watchdog nobody can end (`freeze.cpp:80`).
* Raw input: README says that `m_rinput` is turned off when the external Rinput runs
  (`README.md:42`), but `Dvar_SetBool` on a cvar that is a number passes the address
  of a text, which is out of its domain and is rejected, so the error returns every
  frame (`rinput.cpp:143`); after a failed change from method 1 to 2, `WM_QUIT` goes
  to the main thread (`rinput.cpp:199`, the exception in `QuitIsForTheThread`); a
  thread that cannot be created is waited for without end (`rinput.cpp:155`, the
  exception in `WaitingEnds`).
* Client's frame: `connect` and `demo` entered while playing pass through
  `DISCONNECTED` between two frames, which `fps_frame` never sees, so the limit of the
  old server stays for the next one (`fps.cpp:55`); a demo that switches the limit
  while it is in force leaves the limits 125 to 250 without it (`fps.cpp:28`, the
  exception in `LimitIsLifted`); a demo played directly from a server leaves `g_cod2x`
  and `sv_cheats` as they were (`README.md:46` promises cheats for demos); when the own
  server loads its next map, the fix `SV_SpawnServer` puts in is taken out by the next
  `game_frame` (`server.cpp:740`, `game.cpp:40`); README calls `com_maxfps_limit` cheat protected
  (`README.md:43`) while its flag is another.
* Command line: the outer quotes of `"a" +b "c"` are taken for a pair
  (`common.cpp`, the exception in `CommandLineIsSplit`); a comment in
  `master_server.cpp` says that the value can be given at the start, but the cvar is
  registered before the command line is split.
* Cursor: what raw input collects while a windowed menu is open, or before the cursor
  is taken, turns the view on the return to the game (`window.cpp:168`, `:207`); a
  window whose center is off the desktop makes the view drift (the condition of
  `ViewFollowsMouse`); a windowed menu that opens while another application is in
  front moves that application's cursor (the exception in `CursorIsFree`).

## The proofs

All theorems hold for every value of the constants that satisfies the module's
named assumption.

`ServerConnect_proofs`: `TypeCorrect` gives `[]TypeOK`.  No safety property of the
handshake is inductive by itself: that an answer reaches its client depends on the
numbers in the table being unique, which depends on each number having been issued
once.  `HistoryCorrect` therefore proves `HistoryInv` from `~RandRepeats`: each
occupied slot agrees with the history of its number (address, time, not refused)
and so does each packet under way.  From it follow `PlayersTold`, `RefusalIsFinal`,
`AnswersReachClients` and `ToldWithReason`, each with one lemma per handler.
`AdmissionsUnbanned` needs no fresh numbers: the ban check and the admission happen
in one step on the same id.  `ServerImplementsPolicy` proves with the same invariant
that each step of the server is a step of `AdmissionPolicy` or a stutter.  What that
is worth is `PolicyKeepsPromise`, a theorem about the policy alone: who plays from
elsewhere holds a ticket made for his own address, a void ticket stays void, a seat is
earned by a ticket that is valid and an id that is not banned at that moment.  By the
refinement the same holds of the server (`ServerKeepsPromise`).

`MasterServer_proofs`: the inductive invariant is `TypeOK`, `AddressesFresh`, and
that a stopped server's status timer is wiped (the other timers are overwritten by
`SV_SpawnServer`, that one is only wiped).  From it `MasterTypeCorrect`,
`AddressesStayFresh`, `PacketsReachTheCurrentMaster` and `NothingOverdue`.
`ServerKeepsListed` adds that a reachable master's silence is covered by the
distance to the next due time; `GoodbyeIsSaid` adds that who lists the server was
resolved under the current name, so that the goodbye's address is known.
`ServerKeepsAsking` is the same argument for the question: `QuestionInv` says that a
master which may be asked is asked that much earlier as it has waited.  The due time
of the question is kept across map changes although the clock starts over, and the
lemma about the timers shows that it cannot lie further ahead than the period.

`FreezeWatchdog_proofs`: `WatchdogTypeCorrect`, and `WatchdogIsKnown`, that unless
the cvar was toggled within one frame there is one thread, the one of the handle.
`AlarmsHaveCause` rests on `CauseInv`: the clock shows the heartbeat plus its age,
modulo the width, and each thread that looked at the clock since saw an age between
0 and the present one; as no frame is longer than the clock's period, the unsigned
difference is that age.

`RInput_proofs`: `MovementKept`, that no input is lost between the threads.  The
invariant says who is inside the critical section, that the local copies are what
the shared offset was when the section was entered, and that there is one input
thread at most: a second one could be inside when it is created.  That in turn needs
which method may have a running thread at each point of the mouse loop (`OneThread`).
From the same invariant follows `OffsetIsAtomic`, that each change of the offset, the
count and what was used is one whole addition or one whole taking.
`CvarIsTrue` and `OnlyTheThreadQuits` rest on a second invariant, `TInv`: at each
point of a change of the method it says which method the cvar names (the old one
until the last step), what is registered, and whether the hidden window and the
thread exist.  `RInputTypeCorrect` bounds the input rate.  The measurement keeps a
running total of a ring of samples, subtracting the oldest and adding the newest; that
the total stays between 0 and the inputs received is an induction over the ring, which
`SampleInv` avoids: it says that the samples are the differences of a non-decreasing
series of counts around the ring, so that the total is what was counted minus the
count where the ring begins.

`UpdaterLinux_proofs`: for any number of shells, `LinuxTypeCorrect`, and
`DownloadsHaveRoom`, that the bound on the number of files never keeps a download
from starting: counted, the library, the backups and the open files are fewer than
the files there are.  `NoPartialLibrary` and `CopyAlwaysSurvives` assume
`MaxJobs = 1`, one shell at a time; `two_jobs` shows why.  `LibraryIsWhole` is not
inductive: `OneJobInv` adds that no file has two names, that the shell writes
`.new` and nothing else, block after block, and that before the second move the
library or its backup is whole.

`UpdaterWindows_proofs`: `LoadedFileStays` needs nothing but that a rename never
replaces a loaded file.  `WindowsCopySurvives` and `GameStartsAgain` assume
`~ReadErrors`, since a download that breaks unnoticed is installed; the properties
themselves speak of one mishap.  `MishapInv` says that between the renames the old DLL
waits whole under the second name, that only one process is between them unless two
update at the same time, and that a download nobody writes any more is whole.

`ClientFrame_proofs`: `LimitHolds` is inductive with the types.  `FixFollowsServer`
needs `VersionInv`: that a client which waits for a server or plays was seen by
`game_frame` in a state before, that `g_cod2x` is not left over on a legacy server,
and that a noticed version is patched in.

`LinesAreSplit` proves `CommandLineIsSplit` for a text of any length.  The reference
speaks of the quotes that count as a set that fits its own definition (a quote counts
unless it follows a backslash inside quotes that count), so that the first lemmas show
that there is exactly one: a set that fits up to a character extends to the next one
(`QuotesExtend`), by the minimum of the natural numbers for every character
(`QuotesUpTo`, which cites that `<` is well founded, not an induction scheme), and two
that fit agree.  The invariant of the scanner then has three parts: at the next
character it is inside quotes exactly if the reference is, and is never just behind a
backslash that escapes it (`FindsQuotes`); it has zeroed the cuts before that character
(`FindsCuts`); the lines it began are the first of the reference's, all of them unless
there was no more room (`FindsLines`).  When the scan is over, the i-th line begun lies
behind the i-th cut that is kept, and ends where the next zero or the text does.

`MouseMovement_proofs`: `ViewFollows` needs `CursorIsPut`: without raw input, while
the game has the cursor and no windowed menu leads it, it stands where the last frame
put it plus what the mouse moved it.

Every safety property of the runs that must pass is proved.  Only model-checked:
liveness (`SilenceLetsIn`, `DownloadIsInstalled`, `HangIsReported`, `DisablingEnds`,
`WaitingEnds`, `LimitIsLifted`, `CursorIsReleased`), which is out of the prover's reach
here.  No module uses a RECURSIVE operator.

## Not modelled

Texts, formatting and logging; the style, size and borders of the window; the
contents of dumps and of the diagnostic packet; the patches of the game's code, which
are constants written once at load, but for the fix of the clip bug; the order of
loading; the hash of the hardware id, a pure function of texts Windows reports; the
administrator check and the replaced address of the server browser, which happen once
and keep no state; the check for the external Rinput but for its result.

The original game is modelled where its effect on the modelled state was read from
the decompiled source, which is the Mac version and is taken to behave like the
others.  Its two decompiled files (`src/other`) and the copied system headers
(`tools/`) make up nearly all lines of the repository; they are a reference and a
tool chain, not code of CoD2x.

## Plan

Done: the handshake and its policy, the masters, both updaters, the freeze detection,
raw input, the cursor, the client's frame and the command line, and a proof of every
safety property their runs check.  Left: the widths of the input rate's elapsed time
(`rinput.cpp:288`) as a pure model.
