# Verification of the Raspberry Pi 4 device-settings HAL

TLA+ models, model-checking runs and proofs for the C library in `src/`
(`dsFPD.c`, `dsDisplay.c`, `dsAudio.c`, `dsVideoPort.c`, `dsVideoDevice.c`,
`dshalUtils.c`, `dshalEdidParser.c`, `dsSingletonGuard.c`).
`PROJECT.json` lists the runs, the lines each definition models, the mutants
that show what each property depends on, the hazards and the theorems.

## The system

The library is the HAL that the RDK device-settings daemon loads. Each file is
a module with its own `...Init` / `...Term` pair and its own static state; the
modules call each other in few places. What makes it hard is around it: kernel
files that outlive the process, threads of its own, callbacks into the client,
a compositor and a sound server that other programs use as well.

| Component | State | Operations | Who else touches it | Modules |
|---|---|---|---|---|
| Front panel, trigger ownership (`dsFPD.c`) | the LED's sysfs trigger, the backup file in `/run/lock`, the fcntl lock, `gFPDCtx` | `dsFPInit`, `dsFPTerm`, the `atexit` handler | other processes, crashes, reboots, the system's own choice of trigger | `LedTrigger` |
| - its backup file (`dsFPD.c`) | two names in a tmpfs, their inodes | `saveTriggerBackup`, `loadTriggerBackup`, `clearTriggerBackup` | other processes, crashes | `TriggerBackup`, `AtomicFile` |
| Front panel, pattern worker (`dsFPD.c`) | `gFPDCtx` under `ledStateMutex`, the worker's locals, the brightness file | `dsSetFPBlink`, `dsSetFPBrightness`, `dsSetFPState`, `dsFPSetLEDState`, the worker thread | the API caller and the worker | `LedWorker` |
| HDMI hotplug (`dsDisplay.c`) | `_halcallback`, `gLastHdmiConnected`, `gHdmiWatcherRunning`, thread handles | `dsDisplayInit/Term`, `dsRegisterDisplayEventCallback`, watcher thread, reporter threads | the cable; clients that call back; `dsAudio.c` through the audio connect callback | `Hotplug` |
| Audio port (`dsAudio.c`) | `_encoding`, `_softvolSavedVolume`, `m_IsEnabled`, format callback; ALSA controls | encoding, format, compression, stereo mode, mute, enable, gain, level, dB | other ALSA programs; both ports share one mixer element | `AudioPort` |
| - its sound card (`dsAudio.c`) | `selected_card` | the selection, the search for the mixer element | the kernel, which numbers cards as they come; the service that makes SoftMaster | `AudioCards` |
| Video port (`dsVideoPort.c`) with video device (`dsVideoDevice.c`) | the compositor's mode, the frame-rate callbacks | `dsSetResolution`, `dsGetResolution`, callback registration | the compositor, which switches by itself; the TV | `VideoPort` |
| Queries of the display (`dsVideoPort.c`, `dsDisplay.c`, DRM readers of `dshalUtils.c`) | `m_isEnabled`; the connectors, the EDID in sysfs, the mode | connected, active, enabled, EDID, surround, HDR, resolutions, colour, aspect ratio; `dsEnableVideoPort` | displays that come and go, the compositor | `PortQueries` |
| EDID (`dshalEdidParser.c`, visitors in `dsDisplay.c`, `dsVideoPort.c`) and resolution tables (`dshalUtils.c`, `dsVideoResolutionSettingsData.c`) | the walk; `HdmiSupportedResolution` | the walk over the CTA data blocks, four visitors, VIC and name lookups | the display, which sends whatever bytes it likes | `Edid`, `Resolutions` |
| Compositor console (`dshalUtils.c`) | a socket per call, the cached runtime directory | `westerosGLConsoleRWWrapper` | the kernel's pieces of a stream, the compositor | `Console`, `Exchange` |
| Singleton guard (`dsSingletonGuard.c`) | the lock file, `gDSHALSingletonLockFd` | the constructor and the destructor | other processes, crashes | `SingletonGuard` |
| Host, config, HDMI and composite input, logger, settings tables, scripts | an init flag or none | initialization, constants, files read once | - | - |

How they interact: the hotplug watcher and the reporters call the audio connect
callback that `dsAudio.c` keeps; `dsSetResolution` picks up the callbacks that
`dsVideoDevice.c` keeps; the pattern worker runs only between the two ends of
the trigger ownership, which takes each call on the backup file to be one step;
`dsSetResolution` and the queries take `westerosGLConsoleRWWrapper` to be one
exchange, and the queries take what is parsed from an EDID as one value.
`TriggerBackup`, `Console` and `Edid` are the modules behind these three
simplifications. Everything else shares nothing but the log.

What is hard, and what each component has to get right:

- **Trigger ownership.** A crash between any two steps; failures in the middle
  of a call; `exit()` in the middle of a call; two processes. The LED must
  never be left without a trigger and without a way to find it again.
- **Worker.** Signals lost while the mutex is not held; timeouts that race a
  call; stop requests; a blink's phases counted to the end and not beyond.
- **Hotplug.** A state that is read without a lock and reported later, by two
  kinds of thread; joins that wait for threads that call clients.
- **Audio.** A cache that a query refreshes, one bit for two formats, a volume
  floor that stands for mute, a saved volume that outlives everything.
- **Sound cards.** A choice made once, among names and numbers that depend on the
  order in which drivers load; a control that appears when it is first used.
- **Video.** A mode switch that is asynchronous, verified by polling, through
  names that leave part of the mode out.
- **Queries.** Three sources (DRM, sysfs, the compositor) read one after another
  while the display changes; errors that become answers.
- **EDID.** Lengths and offsets that the display chooses; tables in two files that
  must agree, and lookups by prefix that depend on the order of the rows.
- **Console.** Frames cut by the kernel at any byte, a length of one byte, a server
  that closes, answers wrongly or not at all.
- **Files.** Short writes, a rename that must be the only visible step, a temporary
  name and a lock file that other processes open, too.

## Modules

`LedTrigger` - trigger ownership. One action per access to sysfs, the backup
file or the lock inside `dsFPInit`, `dsFPTerm` and `dsFPExitCleanup`; `api[p]`
and `exit[p]` say where the calling and the exiting thread of process `p`
stand. `Crash`, `Reboot` (a tmpfs loses the backup) and `SystemSetsTrigger` are
the world around. `FaultOps` names the operations that may fail; failures that
the code ignores (`load`, `reread`, `update`) can thus be told from those after
which it stops. `orig` is a history variable: the trigger the system last
chose. `Guard` is `DSFPD_ENABLE_MULTI_PROCESS_GUARD`. `ExitRaces` allows
`exit()` while another thread is in the API, and lets that thread go on calling
`dsFPInit` and `dsFPTerm` until the process has ended. The handler then hands its
worker over to `retired` (the code's `threadToJoin`) and waits for that one,
while a new `dsFPInit` may make another `worker`. `late` is a history variable: the
processes in which a `dsFPInit` has begun after the handler let go of the mutex
(`dsFPD.c:1003`) and before it was done (1017). Such a call shares the stop flag,
the lock and the LED with the handler, and the code does not keep the two apart;
`OneOwner`, `WorkerEndsFirst`, `NeverStranded` and `CallsEnd` say where they leave
it out, and "Seen on the way" what happens. Left out: the kernel removes a
trigger when 0 is written to the brightness file, which no line of the
repository relies on; and two calls of the API at once, which its documentation
rules out ("not thread safe").

`LedWorker` - `ledPatternWorker` against the API. Locked sections are steps;
the worker is at `top`, `write`, `check` (between the write and the lock) or
`wait`. A wait is left in two steps, `wake` (how `pthread_cond_timedwait` is
going to return) and a `Resume...` action once the mutex is back. Time is
abstract: a timed wait may end at any moment. Pattern and blink durations are
left out, phase counts are kept.

`Hotplug` - the watcher, the reporters and the API of `dsDisplay.c` with the
audio callback. Reading the connector, calling the client and notifying audio
are steps of their own. The 250 ms poll subsumes the udev event, which only
makes it come sooner. `told` (what each listener heard last) and `disturbed`
are history variables. `dsAudioOutRegisterConnectCB` and `dsAudioPortTerm` act
here only on the shared callback, whatever the audio module's own flag says.
`caller` is the thread in which an API call runs: with `Reentry` a client's
display event callback may call `dsDisplayTerm`, which then joins (or fails to
join) the thread it runs in; `reentered` is the history variable that says so.

`AudioPort` - the encoding cache against the IEC958 bit, and mute, enable,
gain, level and dB against one mixer element, which is `SoftMaster` (a volume),
an IEC958 switch, or missing. `heard`, `refreshed`, `asked` and `wanted` are
history variables. `Meddle` is any other ALSA program. The code's
`dsGetdBRange` is a constant of the model, and the card is the one that
`AudioCards` selects. `_stereoModeHDMI` is left out: nothing reads it in the build
of `CMakeLists.txt`.

`AudioCards` - which card and element those are. `order` is the kernel's
numbering, `soft` whether SoftMaster exists; `Register` and `MakeSoftMaster` are
the environment. `dsSetAudioMute` stands for every call that looks for the element.
`muted` (the mute that was asked for) and `blind` (no HDMI card was there at the
selection) are history variables. SoftMaster is made before the first call, as the service is there to
do; see below for the other case.

`VideoPort` - `dsSetResolution`: the parser of resolution texts, the width
table, the resolution map and the comparison of names are operators on records.
A record says of a text whether its letter is small or a capital (`scan` is "p",
"i", "P", "I", or "x" for none), since parser and comparison treat the two
differently; a text that writes the same with blanks, signs, leading zeros or with
more text behind it is not a request of the model;
the exchange with the compositor, the verification loop and the two callbacks
are steps. The compositor applies what it has taken later or never (`Apply`),
or shows something else (`Switch`). `known` and `moved` are history variables.

`TriggerBackup` - the three functions on the backup file as system calls on
names and inodes, with short writes (`Write` takes any number of characters),
failures and crashes. The temporary file has one name for all processes; a process
keeps the inode it opened. `AtomicFile` is what `LedTrigger` takes it for: a
register that is saved, loaded and cleared in one step. `TriggerBackup` implements
it (`Atomic`): the rename is the step, and a load returns the text that was there
when it opened the file.

`Console` - one call per connection: connect, frame, pieces of any size in each
direction, parse. Answers are bytes, as the receiver looks at them one by one;
commands are their length and form. `FaultOps` are the calls that may fail; the
server takes a frame, answers with any stream of `Replies`, in pieces, and may
close. `Exchange` is what its callers rely on: a command is answered by what the
server sent for this very command. `Console` implements it (`Implements`).

`Resolutions` - the settings table, the resolution map and the VIC table in their
order, with the lookups by prefix and by first row. `Edid` - the walk of
`dshalEdidForEachCtaDataBlock`, one step per extension or data block, with the
visitor of each of the four queries. What they collect is compared with
definitions over the whole EDID that do not walk. The loop that appends the names
of a data block is the recursive function `AppendAll`; the loop over all rows of
`resolutionMap` that match a VIC is one lookup, `NameOf`, because no VIC is in two
rows (`OneRow` in `EdidProofs`).

`PortQueries` - one client's call at a time, each access to DRM, sysfs or the
compositor a step, `Plug` and `Compositor` in between. An EDID is the display it
belongs to. `steady`, `seen` and `settled` are history variables; `Alone` says that
only the first connector is in use.

`SingletonGuard` - the constructor and destructor of the library as system calls
on the lock file, which holds bytes known by the process they are of. `faulty` is
a history variable: a truncation or write has failed.

`MC...` modules hold values for TLC; `...Proofs` modules the proofs about the
module they are named after, and `AudioPortProofs`, `VideoPortProofs` and
`TriggerBackupProofs` those about `AudioCards`, `PortQueries` and `SingletonGuard`
as well. Three of the `MC...` modules put two components that
share no variable beside each other: `MCAudioPort` (`AudioPort` and `AudioCards`),
`MCVideoPort` (`VideoPort` and `PortQueries`, for each of which the compositor's
mode is the environment: `mode` in one, `shown` in the other) and `MCTriggerBackup` (`TriggerBackup` and
`SingletonGuard`). There `part` says which of the two moves; the other keeps its
initial state. So the states of one run are those of both components, one after
the other, and no interleaving that could matter is left out: no step of one
reads or writes what a step of the other does.

Definitions named `...Never`, `...Always`, `...Unchecked` and so on, each with
a comment "Mutant", are not part of any specification: they are the plausible
errors that `PROJECT.json` puts in the place of the definition that follows
them, to show that the property named there would notice.

## Runs

| Run | Bounds | What it shows |
|---|---|---|
| `ledtrigger_guard` | 2 processes, 2 kernel triggers; every failure but the ignored ones; no overlap with `exit()` | `Recoverable`, `OneOwner`, `WorkerEndsFirst`, `ExitHandsBack`, `BackupOutlivesUse` |
| `ledtrigger_races` | 2 processes, 1 trigger; every failure but a misread backup; `exit()` before, during and between the calls of another thread, which goes on calling | `NeverStranded` (while no `dsFPInit` has begun beside a handler that gives the LED back); `CallsEnd` (the same, for each process) |
| `ledworker` | 1 pattern besides steady display and OFF, 2 levels, blinks of 1 and 2, 2 blink requests; failing writes, waits and clocks | `AsleepAgrees`, `BlinkKeepsState`, `BlinkPhases`, `OffDarkens`, `BlinkEnds`, `StopEnds` |
| `ledworker_setstate` | 2 states, 1 blink, no failures | `SetStateWins` is violated |
| `hotplug` | 1 client, 1 audio client, 2 reporters; callbacks that call `dsDisplayTerm`; every failure | `TermJoins`, `SettledTruth`, `WatcherTracks`, `ApiReturns` |
| `hotplug_late` | the same, callbacks that only listen | `NoCallAfterTerm` is violated: a reporter outlives `dsDisplayTerm` |
| `audio` | port: every encoding; levels 0, 1, 50, 99, 100 of a raw range of 256. Cards: 3 cards, every order | `ListenerKnows`, `MuteHolds`, `UnmuteRestores`, `SettersReadBack`; `MuteFollows` |
| `video` | setting: 13 names of all forms, two with a capital letter, 7 modes, 3 looks. Queries: 2 connectors, 1 display, 2 modes; failing commands and queries | `VerdictIsReal`, `RateKnown`, `SetReturns`; `AnswersReal`, `NeverOtherTv`, `EnabledRemembered` |
| `video_effect` | the 11 names without a capital letter, 7 modes, 3 looks, no failures | `TookEffect` is violated |
| `console` | 2 calls, 4 commands around the limit of a frame, 7 streams; every failure | `NothingLost`, `OnlyWholeCommands`, `Implements`, `ServedReturns` |
| `trigger_backup` | backup: 2 processes, 2 texts of different length, 3 inodes, the guard. Library guard: 3 processes, pids of 2 lengths; every failure | `Atomic`; `OneGuard` |
| `edid` | blocks of 20 bytes; 0 to 2 extensions, every pair of 9 data blocks, right and wrong offsets and lengths | `WalkExact`, `AnswersExact`, `WalkEnds` |

The type invariants of `LedWorker`, `VideoPort` and `Edid` are invariants of the
runs `ledworker`, `video` and `edid`. They, and those of `LedTrigger`,
`TriggerBackup`, `Hotplug`, `AudioPort`, `Console` and `PortQueries`, are theorems
(with the assumptions given under Proofs). Some properties have named parts:
`VerdictIsReal` is `MatchIsReal` (a look that succeeds has seen what was asked
for, up to what names tell apart, for names without a capital letter),
`MismatchIsReal` (one that fails has not, for names of the table and those with
scan and rate spelled out in small letters) and `RoundTrip`; `AnswersReal` is `EdidIsReal`, `StateIsReal` and `AspectIsReal`;
`SettersReadBack` is about enable (`EnableReported`), levels (`LevelReadsBack`) and
modes (`ModeReadsBack`); `WalkExact` is `InBounds` and `EveryBlock` (all data blocks
of the EDID, and only they, are visited); `AnswersExact` compares each walk with a
definition of its answer over the whole EDID (`ListExact`, `HdrExact`,
`SurroundExact`) and two of them with each other (`ListAgreesMask`).

The bounds are enough because: two processes are what a lock can confuse, and
a third is symmetric (and the theorems hold for any number); two triggers tell
a stale backup from a fresh one; a process that has become `late` ends, but its name
is not used for another one before the next boot (`Start`): the properties except
it, and the other process goes on meeting what it left; `LedWorker` reaches a second request during
each phase of the first with two requests, and every pattern in it differs from
the blink only in its length; two reporters are the first number of which one
handle loses one; three looks have a first, a middle and a last one; the audio
levels are the ends of the range, their neighbours and the middle. Three inodes are
the old backup, the new one and the one a slow reader still has open. A block of 20
bytes leaves room for two data blocks and for an offset that lies inside, at the
end of and beyond them; the nine data blocks have one of each kind the visitors
tell apart. Two calls are what a late answer could confuse; the streams have each
form on which the receiver branches, and a buffer of 3 cuts one of them. Three
cards with two HDMI ones among them put the headphones before, between and after.
Two connectors are the first number for which "the HDMI connector" is ambiguous,
and all the board has; one display on either or none is enough to tell an answer
taken from the wrong one. In `hotplug` a client that has terminated the module
from its callback does not initialize it again (`~reentered` in `dsDisplayInit`):
that would let threads of two sessions overlap, and no document says what then
holds.

### Fairness

The specifications with fairness assume that a thread that can go on does
(`WF` of the steps of each thread), that a timed wait ends, and that a client's
callback returns. Nothing is assumed about the API caller, the cable, the
compositor, the sound server or the system: they may do nothing forever.
`StopEnds` needs the worker's own steps only; `CallsEnd`, that `exit()` ends the
process and `dsFPTerm` returns, needs those and the steps of the call itself; it
excepts late processes (see `LedTrigger`), in which the join may never end.
`WatcherTracks`
needs the watcher's polling, which does not depend on udev. `BlinkEnds` has an
explicit way out, the caller who changes the brightness for ever: each change
starts the phase over, in spite of the comment at `dsFPD.c:1197`. It has another in
a clock that fails, without which a phase has no end. `OffDarkens` has one in the
write of 0 that fails, which the worker does not repeat. `ServedReturns`
assumes that the calling thread runs, and has the server's answer or its closing
of the connection as its condition: `recv` has no timeout, and nothing bounds the
wait without them. `WalkEnds` assumes only that the walk goes on, and
`SetReturns` that the call does.

### Where the code and its comments disagree

- `dsFPD.c:1180`: a blink whose last phase has just timed out overwrites the
  state that `dsFPSetLEDState` set in between; `dsFPD.c:2398` says that it stops
  the blink (`ledworker_setstate`).
- `dsDisplay.c:832`: registering twice loses the first reporter's handle, and
  that reporter may call the client after `dsDisplayTerm` (`hotplug_late`).
- `dsVideoPort.c:1062`: 4096x2160p60 and 3840x2160p60 have one name, so the old
  mode can pass for the new one (`video_effect`).

Seen on the way, without a run of their own. Each is either excluded by a bound or
an assumption that is named where it stands, or outside the models:

- `dsFPD.c:1318` ignores a failure to replace a stale backup; a crash after
  that restores a trigger the system no longer wants (`"update"` is not in the
  `FaultOps` of `ledtrigger_guard`).
- `dsFPD.c:981` says that the handler, holding the mutex, leaves "no unlock/relock
  race window". There is one after the unlock at 1003. A `dsFPInit` of another thread
  that comes then finds the module uninitialized and, in the build with the guard,
  the lock still its own (878); it resets the stop flag (1379) and, if the old worker
  has not seen it yet, the join at 1010 never returns and `exit()` hangs. If the join
  does return, the handler releases the lock (1017) that the new session is using, so
  that another process may take the LED beside it; and the backup can come to name
  "none", saved after one of them has set that. TLC finds each of these when `late`
  is taken out of `CallsEnd`, `OneOwner` or `NeverStranded`.
- `dsFPD.c:975`: the handler that finds the mutex busy gives the trigger back
  without stopping or joining the worker, which may write the brightness afterwards
  until the process is gone. `WorkerEndsFirst` is about the other two paths.
- `dsFPD.c:1203`: a blink requested during the last phase of another is dropped
  by its own signal.
- `dsFPD.c:616`: all processes write one temporary file; in the default build,
  without the guard, a half-written text can be renamed into place (`Guard` is
  assumed in `TriggerBackupProofs`).
- `dsAudio.c:863`: each call looks for its mixer element anew; a SoftMaster made
  after a mute would make the unmute work on another element.
- `dsVideoPort.c:594`: a display on the second connector makes the first port
  connected (hence `Alone` in `AnswersReal`).
- `dsVideoPort.c:1912`: the call for all output settings answers UNKNOWN where the
  single calls answer 8 bit and RGB.
- `dsDisplay.c:1132`: `dsGetEDIDBytes` without a display succeeds and leaves the
  length unset. `dsVideoPort.c:1381`: without `dsDisplayInit`, which is no stated
  precondition, `dsSupportedTvResolutions` succeeds with nothing.
- `dsVideoPort.c:534`: `dsEnableVideoPort` takes any answer of the compositor for
  success (`Remembered` says what is kept then).
- `dsSetAudioCompression` (`dsAudio.c:1354`) never keeps EAC3; `dsSetAudioDB`
  (`dsAudio.c:1643`) takes a clamped dB value as a percentage; `dsSetAudioLevel`
  (`dsAudio.c:1727`) unmutes a muted port, unlike `dsSetAudioGain`; on a card
  without the IEC958 control, choosing AC3 unmutes; `dsAudioOutIsConnected`
  (`dsAudio.c:3186`) answers with the enable flag of the port.
- Capital letters: `1080P60` is commanded as 1080p60 (`dsVideoPort.c:988`) and
  reported as a mismatch when that is shown, since names are compared by `strcmp`
  (`dsVideoPort.c:121`, 1071). `1080P24` is commanded at 60 Hz, and
  `1920x1080I50` and `1920x1080P24` as 1080p60 (`dsVideoPort.c:977`), which is then
  compared with 1080i50 and 1080p24: only these two forms lose their capital letter
  in `resolveResolutionToken` (109-113). Nor do leading blanks or zeros and text
  behind the name make a difference to `sscanf`, while they do to `strcmp`; such
  texts are outside the model.
- Accepted texts such as `1080p` or `1920x1080` are sent to the compositor and can
  never be verified (`dsVideoPort.c:988`); VICs 96 and 97 are in no table
  (`dshalUtils.c:277`).

## Proofs

Every safety invariant and every action property without fairness that a passing
run checks is a theorem of its specification: TLC shows it on a small instance, the
theorem for every value of the constants. The modules and what they assume beyond
the `ASSUME`s of the constants:

| Module | Theorem | Property | Assumes |
|---|---|---|---|
| `LedTriggerProofs` | `TypeCorrect` | `TypeOK` | - |
| | `WorkerJoined` | `WorkerEndsFirst` | -; processes that are not late, and not the blind restore |
| | `MutualExclusion` | `OneOwner` | -; processes that are not late |
| | `Strandless` | `NeverStranded` | while no process is late; the guard, no failure of `load`, boot with a kernel trigger |
| | `CrashSafeRestore` | `Recoverable` | the guard, no `load`, `reread`, `update` failure, no `exit()` during a call |
| | `ExitRestoresChoice` | `ExitHandsBack` | the same |
| | `BackupKept` | `BackupOutlivesUse` | the same |
| `TriggerBackupProofs` | `TypeCorrect`, `NeverTorn`, `Refines` | `TypeOK`, `NeverPartial`, `Atomic` | the guard |
| | `GuardIsOne` | `OneGuard` (of `SingletonGuard`) | - |
| `LedWorkerProofs` | `WellTyped` | `TypeOK` | - |
| | `NoWakeupLost` | `AsleepAgrees` | - |
| | `StateKept` | `BlinkKeepsState` | - |
| | `PhasesCounted` | `BlinkPhases` | - |
| | `RawInRange`, `RawMonotone` | of the operator `RawOf` | - |
| `HotplugProofs` | `WellTyped` | `TypeOK` | - |
| | `ThreadsJoined` | `TermJoins` | - |
| | `ClientsKnow` | `SettledTruth` | - |
| `AudioPortProofs` | `ListenerInformed` | `ListenerKnows` | - |
| | `MuteKept` | `MuteHolds` | `Dependable` |
| | `WellTyped`, `VolumeRestored`, `EnableTold` | `TypeOK`, `UnmuteRestores`, `EnableReported` | `Scale` |
| | `ModesTold` | `ModeReadsBack` | - |
| | `LevelsTold` | `LevelReadsBack` | `Fine` |
| | `SettersTold` | `SettersReadBack` | `Scale`, `Fine` |
| | `MuteFollowsCard` | `MuteFollows` (of `AudioCards`) | - |
| `VideoPortProofs` | `WellTyped` | `TypeOK` | - |
| | `ListenerKnowsRate` | `RateKnown` | -; calls for names without a capital letter |
| | `VerdictsTrue` | `VerdictIsReal` | -; the names that `MatchIsReal` and `MismatchIsReal` speak of |
| | `QueriesTyped` | `QueriesTypeOK` (of `PortQueries`) | - |
| | `AnswersTrue` | `AnswersReal` | - |
| | `OwnDisplayOnly` | `NeverOtherTv` | - |
| | `FallbackTrue` | `EnabledRemembered` | - |
| `EdidProofs` | `WellTyped` | `TypeOK` | - |
| | `StaysInside`, `VisitsExactly` | `InBounds`, `WalkExact` | - |
| | `ListReported`, `HdrReported`, `SurroundFound`, `TwoTablesAgree` | the parts of `AnswersExact` | - |
| | `MaskReported` | the mask is the resolutions of the VICs | - |
| | `AnswersTrue` | `AnswersExact` | - |
| | `WalkAdvances` | `Advances` | - |
| `ConsoleProofs` | `WellTyped` | `TypeOK` | - |
| | `NoAnswerLost` | `NothingLost` | - |
| | `OnlyWholeTaken` | `OnlyWholeCommands` | - |
| | `AnswerFits` | `FitsBuffer` | - |
| | `ExchangeImplemented` | `Implements` | - |

`Dependable` is that no call fails and the card has the IEC958 control (without it
setting an encoding works the mute switch). `Scale` is a mixer of at least three
volumes whose dB values reach no further than 100, `Fine` one of at least 100 steps;
`config/asound.conf` makes SoftMaster with a resolution of 256 and a range of
-51 to 0 dB.

The argument of each, that is the inductive invariant and why the property alone is
not inductive:

**LedTrigger.** `TInv` adds to the types that the saved
trigger is there wherever the code uses it (`Filled`) and that a module which is
initialized is not inside `dsFPInit` or `dsFPTerm`, that its worker lives no longer
than the join of `dsFPTerm`, and the one that was retired no longer than the join of
the handler, and that a module which the handler has taken down stays so unless the
process is late (`Quiet`). `Owned` ties
the program counters to the lock: whoever is using the LED, or whose handler is
giving it back, holds the lock unless it is late; mutual
exclusion is its corollary. Since `late` only grows (`LateGrows`, but for a reboot,
`SInvReboot`), what holds while it is empty can be proved step by step, and with
`ExitRaces = FALSE` it stays empty. `SInv` says, for each place in a call, what the
backup and the trigger file may hold there, in the weak form that survives
ignored failures; `RInv` is its strong form, with `orig` in the place of "some
kernel trigger". The assumptions are the code's own limits: with any one of them
dropped TLC finds a counterexample on two processes.

**TriggerBackup.** The invariant says of a saver that it has the lock, that the
temporary file is its inode, and that this holds the first `total` characters of its
text (`Saver`); of a reader that its inode is not the temporary file and is whole
(`Reader`). The refinement is by cases over the system calls: only the rename, the
removal, the opening of a load and the ends of calls are steps of `AtomicFile`.

**SingletonGuard.** A process beyond the lock has it, and has emptied the file before
it writes (`After(text)` of an empty file is the text); `OneGuard` includes that the
file says the pid of the holder.

**LedWorker.** `IInv` holds the three properties together, since each needs the
others. `Created` says when the worker exists, that it has seen no request that was
not made, and that a blink has iterations; `Showing` says that what the worker writes
was chosen for the settings that it has adopted, and that once written the LED has it.
`AsleepAgrees` then follows from the `check` between the write and the wait, in which
the worker compares what it has adopted with what the API holds by now.
`RawOf` is proved to keep the range of the LED and its order, and to be 0 for 0 only,
with the rounding of the integer division.

**Hotplug.** `Phases` ties the flags to where the call stands, `Succession` says that
reporters are created in order and that a live one is the one to be joined or has a
successor: the handle it lost is that of a later one (`TermJoins` speaks of sessions in
which no callback has called `dsDisplayTerm`). For `SettledTruth`, `TruthInv` follows
one reading of the connector: the watcher's own memory is the recorded state, and a change
that it is about to record is the cable as it is unless that was disturbed
(`Recorded`); what reporters are about to tell is true (`Fresh`); display and audio
callbacks are not mixed up (`Callees`); and until a listener knows the state, somebody is
still going to tell it or has the change to record (`ClientInformed`, `AudioInformed`).

**AudioPort.** `MuteInv` adds that only a mixer with an element is asked to mute,
`Volumes` that what is to be restored is never silence. `LevelsTold` bounds the sum of
the two roundings, percent to raw and back, by one percent; it is where `Fine` is
needed.

**AudioCards.** `Selected` says that what was selected, if an HDMI card was there
(`~blind`), has the IEC958 control, that SoftMaster is there only if the first HDMI
card is, and that nothing is muted before the selection. The proof is for every order
in which the kernel numbers the cards, and whichever of them are there.

**VideoPort.** `Asked` keeps that what is queued in a call is what it has told the
compositor, `Forgotten` that a listener told of the coming change knows no rate until
the call tells it one, `Promised` that after a match what is shown and what may still be
queued have the rate it is going to be told, `LateKnown` that a switch that comes late
has the rate that was told. `VerdictIsReal` is about one step of the verification and
rests on the comparison of names: a name that is accepted for a request names both the
request and the mode (`MatchedAlike`), up to what names leave out (`Alike`). It is here
that `Plain` is needed: parser and comparison read a small letter alike.

**PortQueries.** `Placed` says which calls get where, `Watched` that a running call
has answered with no display yet and remembers those that were there, `Learned` that,
with nothing changed since the call began, one past the connector's state knows that
there is a display. The three properties are inductive only together with these.

**Edid.** The walk is followed by `Located` (the extension was found complete and its
offset in range), `Walked` (the position is the head of a data block of the EDID, and
the blocks visited are exactly those of the extensions behind it and of this one up to
here), `Collected` (each answer says what the visited blocks say, and of an ended walk
what all blocks say) and `Listing` (the same of the list, with each name once). That the
static tables are consistent is proved from their rows: no name is found by a shorter
one before its own row, no VIC is in two rows of `resolutionMap`, and the VICs of each
row are first in a row of `vicMapTable` with the same lines, scan and rate. The list
fits because a list without repetitions over 18 settings has at most 18 entries
(pigeonhole). Two recursive functions, `IsHead` and the one in `AppendAll`, must be shown
to satisfy their equations; the library's induction theorems take an operator, which the
provers cannot instantiate, and so this is done with least elements of sets of
numbers (`WFMin`).

**Console.** The invariant is stated call by call (`CallInv`): what was sent is
at most one frame of an accepted command, what was received is the beginning of
the reply, and the receiver stops only with a frame, with what cannot become one,
or at the end of the stream. `PayloadIsText` is the lemma under it: what the parser
cuts out of a beginning of the stream is what the stream carries. The refinement of
`Exchange` is by cases over the system calls.

Only model-checked: the liveness properties `CallsEnd`, `OffDarkens`, `BlinkEnds`,
`StopEnds`, `WatcherTracks`, `ApiReturns`, `SetReturns`, `ServedReturns` and `WalkEnds`.
Fairness and ENABLED are beyond the provers used here. For `WalkEnds`,
`WalkAdvances` and `WellTyped` are the safety part: each step moves forward in a range
that is bounded. That the compositions in the `MC...` modules keep the theorems is not
proved, since they only put two specifications beside each other.

## What is not modelled

- The host, configuration and logger modules: an init flag, files read once,
  formatted lines. HDMI and composite inputs, which the device does not have: every
  call returns an error.
- The calls of `dsAudio.c`, `dsVideoPort.c`, `dsDisplay.c` and `dsFPD.c` that check
  their arguments and return `dsERR_OPERATION_NOT_SUPPORTED` or a constant (MS12,
  ARC, HDCP, background colour, AVI info frames, text displays): they keep no
  state. They are most of the lines of `dsAudio.c` that no definition models.
  `dsRegisterHdcpStatusCallback` stores a callback that nobody calls.
- `parse_edid` and `print_edid` of `dshalUtils.c`, which fill a structure for the
  log; the constant tables but that of the resolutions.
- Shell scripts and units.
- The DRM ioctls inside `dsGetHdmiConnectorState` and `dsGetPreferredHdmiMode`: one
  step reads all connectors.

## Plan

1. Done: `LedTrigger`, `TriggerBackup`, `LedWorker`, `Hotplug`, `AudioPort`,
   `AudioCards`, `VideoPort`, `PortQueries`, `Edid`, `Console`, `SingletonGuard`,
   and the proofs above.
2. `Indicator`: an abstract specification of the front-panel indicator (what the
   LED shows as a function of the requests), and `LedWorker` shown to implement
   it; a composition of the worker with the trigger ownership.
3. Weaker assumptions: what remains of `Recoverable` when `exit()` may run during a
   call, and of `MuteHolds` on a card without the IEC958 control.
