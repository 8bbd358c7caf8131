# Formal models of LiltKey

LiltKey types what the user says. A Fcitx5 add-on (`plugin/`, C++) watches the
keyboard and shows text; a user service (`src/fcitx5_voice/`, Python asyncio)
owns the microphone and the speech models. They speak line-delimited JSON over
a private Unix socket. Scripts install, download and set up all of it. The
models here are about what goes wrong between the parts: tasks that interleave at
every `await`, a microphone that must be switched off on every path, client
calls that re-enter a handler, requests and events that cross on the socket,
services and scripts that are killed half-way, and text that must reach the right
window once or not at all.

Run a configuration with `tlc -config X.cfg M` (the module of each run is in the
table below). Check the proofs with `tlapm M.tla` for `SessionProofs`,
`StreamingSessionProofs`, `OfflineSessionProofs`, `VoiceInputProofs`, `VoiceSystemProofs`,
`VoiceServerProofs`, `TextsProofs` and `FilesProofs`. `PROJECT.json` maps every
definition to the lines it models.

## Inventory

| component | state | operations | hard behaviour | correct when |
|---|---|---|---|---|
| Session core, `session.py` | phase, id, capture, worker, timer, closed, `asyncio.Lock` | start, stop, cancel, close, `_limit`, `_decode` | four kinds of task meet at one lock; emit, capture and recognition fail half-way | one recording at a time owns microphone, worker and timer; a stop ends it; close leaves nothing |
| Streaming session, `streaming_session.py` | locals of `_run`: segment, seq, previous text | start, stop, worker, `publish` | inference in threads; the session may change before the lock is had | numbered text in order, never after the end; `finished` only when all audio is decoded |
| Capture, `audio.py` | child process, queue, event, four flags | start, reader tasks, chunks, stop, cancel | lost wake-ups, full queue, SIGTERM then SIGKILL | no chunk lost before the end, consumer never asleep with work |
| Voice server, `server.py` | owner, tasks, writers, lock file, socket inode | start, `_client`, emit, close | peer leaves at any await; drain times out; stale socket; shutdown | one owner; every connection is cleaned up; one service after the other finds the path |
| Plugin session, `session.cpp` | phase, id, context, numbers, preview, pending commit, error | begin, handleLine, toggle, cancel, backspace, commit | stale, repeated and misplaced events | a segment is committed once |
| Fcitx5 add-on, `voiceinput.cpp` | bound and hold context, timers, socket, output, panel | key, focus, capability, destruction, socket and timer handlers | the client resets or blurs inside a panel or commit call | no text, panel or recording without its owner |
| Add-on and service together | both ends and the lines in flight | requests up, events down | stop, cancel, limit, timeout, end of recognition and end of the service cross | both sides agree once nothing is in flight; a stop or the loss of the service ends the session |
| Line buffer, `linebuffer.h` | bytes so far, discarding | feed, clear | a line at the limit | lines neither joined nor split |
| Streaming recognizer, `streaming_recognizer.py` | native stream, samples | accept, finish | the stream keeps a lookahead back | finish flushes all |
| Refined recognizer, `refined_recognizer.py` | PCM of the segment, draft, refining | accept, finish, `_correct` | block, limit and endpoint on one byte; failed correction | every byte covered once |
| Text, `text.py`, `punctuation.py` | none | format, finalize, `_preserves_content` | rules that feed one another | content is kept; spaced text stays |
| Download, `model_manifest.py`, `download-model.py` | published and temporary files | download | two at once, interrupted | a target changes only to its digest |
| Automatic setup, `auto-setup.py`, `setup.py`, the unit and the Debian hooks | lock file, status file, generation | one run per login | killed, reinstalled under way | runs again until ready; ready means set up |
| Installation and theme, `install-user.py`, `theme.py` | manifest, backup, marker | install, migrate, uninstall | interrupted between two files | what was installed stays listed; a copy of the user's settings is not overwritten |
| Configuration, command line: `config.py`, `cli.py` | none after start-up | load, serve, doctor | - | - |
| Packaging, website | none | build | - | - |

Interactions. The add-on sends `start`, `stop` and `cancel` lines and is told
`ready`, `recording`, `partial`, `final`, `transcribing`, `finished` or
`result`, `cancelled`, `error`. The connection task of the server calls the
session, which calls the capture and creates a worker; worker and timer call
back into the session through its lock. Fcitx5 calls the add-on's handlers,
which call the client, which may call the add-on again. dpkg's hooks and logins
start the setup unit, whose run calls the installer and the downloader, which the
user may run at the same time.

## Modules

| module | models | how it corresponds |
|---|---|---|
| `Capture` | `GStreamerCapture` | one record per object, operators from record to record; PCM is counted in chunks (`read`, `queue`, `taken`), the boolean attributes are a set of `flags` |
| `Session` | `session.py` and the connection task of `server.py` | one action per stretch between two awaits; `pc` names the await a task is suspended at; `holder` and `waiters` are `asyncio.Lock`; `told` is a history of what was written |
| `StreamingSession` | `streaming_session.py` | adds stop() and the worker; `run` has the worker's locals; a decoder call returns any list of `Results` or raises |
| `OfflineSession` | `session.py` on its own | adds stop() and `_decode` |
| `Dictation` | abstract: what a client is promised | the order of events per id; both sessions are shown to keep it (`KeepsPromise`) |
| `PluginSession` | `session.cpp` | a record and operators; a text is its length, a line's `valid` stands for the checks of length, UTF-8 and control characters |
| `VoiceInput` | `voiceinput.cpp` | handlers are operators from the add-on's state to the set of states they can end in, because a client call inside may reset or blur |
| `VoiceSystem` | both ends of the socket | `PluginSession` and, for each connection, a queue in each direction and a handler of the service, whose commands are one step each because they answer under the session's lock |
| `VoiceServer` | `server.py` and `serve()` in `cli.py`, in several processes | `path` is what the socket path leads to (an inode, another file, nothing), `lock` the flock, `srv` a process at its awaits, `conn` a client's connection and task; `start()` and `close()` look at the path and change it in steps of their own (`Look`, `Probe`, `UnlinkStale`, `Bind`; `Gathered`, `Compared`, `Unlinked`), between which another program may come |
| `StreamingDecoder`, `RefinedDecoder` | `streaming_recognizer.py`, `refined_recognizer.py`, `transcribe()` | operators on a record, in units of audio that can be told apart; an endpoint needs silence, which the input decides |
| `Text` | `text.py`, `punctuation.py` | a text is a sequence of character classes, each with whether white space is before it |
| `LineBuffer` | `linebuffer.h` and `readAvailable()` | `feed` one byte at a time; what was sent and handled are histories |
| `ModelDownload` | `download-model.py` | files by process and name, each absent, partial, bad or good |
| `AutoSetup` | `auto-setup.py`, `setup.py --service-only`, `package-session.py`, the unit | dpkg, systemd and the runs as one state machine |
| `UserInstall` | `install-user.py`, `theme.py` | the program is the list of file operations left; it may be interrupted after each and inside those that are not atomic |
| `MC...` | instances for TLC | values, symmetry, lines of the service, the polite client of a finding. `MCFiles` and `MCTexts` hold three and four small programs in one run: in each behaviour one of them works, since none shares state with another |
| `...Proofs` | theorems | see Proofs |

Choices worth knowing:

- *Granularity.* asyncio tasks are not interrupted between awaits, so an action
  is exactly such a stretch. An await that never suspends (the uncontended lock)
  is still a step here, which only adds interleavings. Of the scripts a step is one
  file operation; of the server one system call or await.
- *Cancellation.* `_clear_timer()` cancels a timer asleep or already waiting
  for the lock; the cancelled wait keeps its place in the queue until the loop
  runs it (`TimerDropped`).
- *emit().* It raises at once on a closing writer; otherwise the line is
  written and `drain()` either returns, fails because the peer left, or times
  out and closes the writer.
- *The decoder* of the sessions is any list of `partial` and `final`, or an
  exception. Texts matter only through `previous`: a partial equal to the last
  one is skipped. `RefinedDecoder` says what the decoder itself does.
- *The add-on's service* in `VoiceInput` sends any line of `Lines` in any order,
  so the add-on is checked against more than this service. `VoiceSystem` has the
  real one.
- *Re-entrant clients.* Inside `updatePreedit`, `updateUserInterface` and
  `commitString` a client may reset the context or take the focus away. Key
  events and destruction inside such a call are not modelled.
- *Bytes.* In `VoiceInput` one socket event carries one line; several lines in one
  event are several steps with nothing between, so fewer interleavings than
  checked. How bytes become lines is `LineBuffer`.
- *Two Pythons.* From 3.12.1 on `wait_closed()` waits for open connections,
  before it does not: `waits` in `VoiceServer` is either, from the start.
- *dpkg* replaces a package in two steps, the version file first: what a run
  sees in between is a mixture.

## Runs

| run | module | bounds | asks |
|---|---|---|---|
| `streaming_restart` | `MCStreamingSession` | 1 id, 2 recordings, 3 commands, 1 chunk, queue of 1 | does anything of one recording act on the next that has the same id? |
| `streaming_one` | `MCStreamingSession` | 2 ids, 1 recording, 2 commands, 2 chunks, queue of 1, results of 0 and 2 events | is all audio decoded before `finished`, is text numbered in order, does a foreign id end a recording; does a stopped recording end, a bounded one stop, a lost client free the microphone? |
| `offline` | `MCOfflineSession` | 2 ids, 2 recordings, 3 commands, 1 chunk | the same questions for recording and recognition in one piece; is ownership given up after inference? |
| `offline_one_terminal` | `MCOfflineSession` | 2 ids, 1 recording, a client that starts once and stops once | finding 1 |
| `offline_refused_line` | `MCOfflineSession` | 2 ids, 1 recording, 2 commands | finding 2 |
| `plugin` | `MCVoiceInput` | 2 contexts, 2 sessions, 2 segments and sequence numbers, every kind of line | does any order of keys, focus, resets, destruction and lines leave a session, a text, a panel or a recording without its owner; does a session stay connecting or starting? |
| `plugin_idle_connection` | `MCVoiceInput` | 1 context, 1 session | finding 3 |
| `system` | `MCVoiceSystem` | 3 sessions, 2 texts, 1 end of the service, streaming and offline | with lines in flight in both directions, and the service killed or stopped at any point, do the two ends agree, is every text taken, does a stop or the loss of the service end the session? |
| `server` | `MCVoiceServer` | 2 services, 2 clients, 1 kill | one owner; does the path lead to the service that is up, does one that ends leave nothing to the next? |
| `server_live` | `MCVoiceServer` | 2 services, 1 client, 1 kill or change from outside | does ownership end, is a killed service replaced, does a stopped one end, is the socket of another program removed only where it came between a look at the path and what follows? |
| `files` | `MCFiles` | download: 2 processes, 2 files (one in an archive), 2 kills; setup: 3 unpackings, 1 failure, 1 logout or crash; installation: 3 runs, 2 interruptions, 1 edit by the user | do interrupted and concurrent scripts leave only what can be trusted, set the package up in the end, forget no installed file, spare what the user chose? |
| `texts` | `MCTexts` | lines: limit 2, 5 bytes, 2 connections; decoder: 7 units, blocks of 2, capacity 5; spacing: texts of 4 characters of every class; punctuation: 3 characters, results of 4 | are lines whole, is every unit of speech in one final, is spaced text stable, is content kept? |

Why the bounds suffice to meet the cases. Two recordings are what a restart needs, and
every rule about a stale worker, timer or capture relates two of them. Three
commands make start-cancel-start and start-stop-start, and a third party (timer,
worker, lost client) is always there as well; one recording with two commands
is start and stop or cancel, with either id. A queue of one is full after one
chunk and overflows with the second. Two ids tell "its own" from "another". Two
contexts tell the bound window from the focused one, and two segments with two
sequence numbers let a text be early, due, repeated and late. In `system` the
second session meets a service that still closes the first (`busy`) or was killed, the
third one that has recovered from either, and two texts let a numbered one follow an empty final. Two services are a lock
holder and a challenger, or one that dies and its successor; the mishap of
`server_live` comes at any point. Three unpackings are an installation, an upgrade and another
one; three runs of the installer are install, repeat and migrate or uninstall. The
decoder's capacity of five units holds two blocks and a rest, and seven units go past the
limit. The longest context a spacing rule looks at is a word with both neighbours and
an address before white space: four characters.
Ids, contexts and clients are symmetric; symmetry is used only in `server`, a run
without liveness.

`CHECK_DEADLOCK` stays on where a system never stops by itself: a session's
next-state relation stutters only when every task has ended, so a deadlock of the
tasks would be reported. It is off in `system`, `files` and `texts`: their bounded
sessions, jobs and inputs come to an end.

What the properties say is stated with each of them. Some are conjunctions of
named parts, one for each hazard:

- `RecordingsApart`: a live capture process belongs to the session's current
  capture (offline: or to the stop() that took it) and the session is not idle
  (`MicrophoneOwned`), a timer belongs to the recording it was made for
  (`TimerCurrent`), at most one worker decodes (`OneWorker`), a closed session has
  released all (`ReleasedWhenClosed`); streaming, a recording has a worker that
  consumes it (`RecordingConsumed`); offline, no two awaits inside the lock overlap
  (`LockExclusive`, a property of its own in `streaming_one`) and no session
  waits for a recognition that nobody runs (`RecognitionPending`).
- `KeepsPromise` (refinement of `Dictation`): one active id at a time, text
  numbered without gaps, `finished` only after `transcribing`, nothing after the
  end of an id until it starts again, nothing after the session is closed.
  `EndsAsPromised` adds `EndedByItsOwn`: a recording is ended by a command with its
  own id, its own limit or worker, the loss of the client, or a line that is too
  long; the last is what the code does and the design forbids (finding 2).
- `EveryChunkHeard`: the consumer misses neither a chunk nor the end
  (`NoLostWakeup`), and `finished` comes when all audio is decoded (`FinishedDrained`).
- `SessionKept`, `OnlyWhileHeld`, `TypedRight`, `NoGhostText`, `OwnRequests`
  of the add-on: one living, focused context owns the session; a recording
  without limit lasts only as long as the keys are held (`ReleaseStops`: also when they
  are released during the handshake); text goes to it once and in order; no voice text
  stays on a panel; no request of one session is sent on the connection of another.
- `Agreement`: when nothing is in flight both ends are in the same phase of the
  same session, and a live microphone belongs to the session the user sees.
  `TextsTaken`: the two ends count segments and numbers alike.
- `OneOwner`, `HandOver` (`Reachable`, `CleanExit`).
  `OthersSocketKept`: once the socket of another program is at the path and no service
  is between a look at the path and what follows from it (`Window`), no service removes it
  or comes to where it would, until somebody else changes the path.
- `Trusted` (`ReadyIsGood`, `Tidied`), `SetUp` (`Configured`), `NothingLost`
  (`StaysListed`, `BackupIsUsers`), `ChoiceKept`.
- `Framing`, `Covered`, `Settled`, `ContentKept` (`GreedyIsEnough`: matching
  the first place that fits is as good as trying all; `NothingLost`).

Both guards of a second recording, the test in `Session.start` and the one in
`StreamingSession.start`, must fail for two streaming workers: no single slip in
that code can break `OneWorker` there.

### Findings

1. `offline_one_terminal`: the design promises one terminal event per segment
   (`docs/superpowers/specs/2026-09-09-fcitx5-voice-design.md:25`). A stop that
   crosses the end of its session is answered by `error` with the same id
   (`session.py:71`), the second terminal event. The add-on ignores it, because
   its id is over.
2. `offline_refused_line`: the connection task answers a line over the limit and leaves
   its loop (`server.py:98-106`), and `session.close()` cancels the recording that is
   under way. The design says refusing an over-long message must not stop the current
   legitimate recording (`docs/superpowers/specs/2026-09-09-fcitx5-voice-design.md:23`);
   `tests/test_server.py:153` expects the end of the connection and of the recording. A
   streaming recording ends the same way. The add-on itself sends no such line.
3. `plugin_idle_connection`: `start()` shows a status before it connects. If the
   client resets the context inside that call, the session is cancelled and
   `start()` connects nevertheless (`voiceinput.cpp:304`). The add-on is idle
   with a connection that keeps the service's single place; the greeting and the
   handshake timer change nothing, and only the next session closes it.
   The design says a reset cancels
   (`docs/superpowers/specs/2026-09-10-streaming-voice-design.md:11`).

### Disagreements

Other places where the code does not do what a document, a comment or a test
says, or what one of its own tests is for. No run checks them; each can be reproduced by checking the named definition
in the named module with the constants of the run in brackets. Where a property of
a run would be broken by one of these, it excepts exactly that case and says so.

- `VoiceSystem.EndIsHeard` (`system`, with `OneLine <- AsWritten`).
  `GStreamerCapture.stop()` puts the stderr of gst-launch, which has several
  lines, into the exception that `Session.stop()` sends as the message of an error
  event (`audio.py:121`, `session.py:81-85`); the add-on takes an error only when
  its message has no control character (`session.cpp:249-256`). The service is idle and
  the add-on goes on waiting in stopping or transcribing until the user cancels. The
  design counts an error with its message as the end of a segment
  (`docs/superpowers/specs/2026-09-09-fcitx5-voice-design.md:23` and `:25`). An offline
  result may be lost the same way: `session.py:98` keeps a DEL and can leave an empty
  text, and `session.cpp:217-219` takes neither. The run takes messages and results of
  one clean line.
- `VoiceServer.StopCleans` (`server_live`). `close()` awaits `server.wait_closed()`
  before it closes the writers (`server.py:153`). Where that waits for open
  connections (Python 3.12.1 and later; `pyproject.toml` allows 3.11 on) a client
  that stays connected, as the add-on with a preview, holds the service up until
  systemd kills it, and the socket stays. The validation record says the service was
  seen to exit normally and clean up its socket (`docs/validation.md:128`).
  `StopEnds` asks only for the end once no client holds the service up.
- `VoiceServer.OthersSocketKept` without its `Window` (`server_live`). `close()` compares
  the inode and unlinks by name (`server.py:158-159`): a program that replaces the socket
  between the two loses it. So does one that comes between the refused probe and its
  `unlink()` in `start()` (`server.py:49-54`), between asyncio's `bind()` and the `stat()`
  that records the inode (`server.py:59-61`), and, from Python 3.13 on, inside
  `server.close()`. A path that was emptied meanwhile makes `stat()` or `unlink()` raise,
  and the lock is then released by the end of the process only (`failing`). The comparison of
  the inode in line 158 is meant to spare what is not the service's own; it does so up to
  these windows.
- `VoiceServer.OwnershipEnds` for a connection that is still serving (`server_live`).
  After an `emit()` that timed out (`server.py:77`) the writer closes only when the
  client reads or leaves; until then `readline()` waits and the connection keeps its
  ownership. `OwnershipEnds` begins where the connection task leaves its loop.
- `AutoSetup.Configured` without its `torn # version` (`files`). The generation is the
  text and ctime of PACKAGE_VERSION alone (`auto-setup.py:53`). dpkg moves the files
  of a package into place one by one, and prerm does not stop a run by hand or one that
  a login begins: a run that starts when PACKAGE_VERSION is new and the scripts are not
  installs the old files and records the new generation ready, and the run that
  postinst requests does nothing. The comment says "package removal and reinstall must
  not be mistaken for an already configured installation" (`auto-setup.py:51`).
- `UserInstall.ManifestReadable` (`files`). The manifest is written in place
  (`install-user.py:140`): an interruption between its truncation and its content
  leaves a file that `json.loads()` refuses at line 37, before anything else, so that
  neither installation nor uninstallation can be run again. `setup.py:141` says to
  repair and run the same command again. `StaysListed` asks only for manifests that
  can be read.
- `UserInstall.TomlWhole` (`files`). `config.toml` is copied in place when there is none
  (`install-user.py:127-129`): an interruption inside the copy leaves a part of it, which
  every later run keeps (`setup.py:141`, as above).
- `UserInstall.PipThere` (`files`). `python -m venv` creates `bin/python` before it
  installs pip. An interruption in between leaves an environment that the test of
  `install-user.py:63` takes for complete, and without uv every later run fails at
  `python -m pip` (`setup.py:141`, as above).
- `UserInstall.OverrideRemoved` (`files`). A migration to the packaged add-on
  removes the user's add-on only if the manifest lists it (`install-user.py:136`); after a
  full installation that was interrupted before its manifest, the user's add-on
  stays and goes on overriding the packaged one. The test says "Migrating to the
  packaged native addon must remove our old user override." (`tests/test_install.py:71`).
- `UserInstall.LaterChoiceKept` (`files`). The marker is written after the
  configuration (`theme.py:80`). A run interrupted between them has applied the theme and
  recorded nothing; when the user then goes back to the default theme, the next run
  replaces it again. The comment says later choices "belong to the user"
  (`theme.py:36`). `ChoiceKept` speaks of the time after one completed installation.
- `Text.NumbersUnbroken` (`texts`, of the instance `Punctuation`). `_PROTECTED_ASCII`
  protects numbers only when they have a separator (`punctuation.py:11`): a result that
  puts a mark into a plain number (2026 as 20，26) is accepted. The validation record
  says a result that breaks a number is not taken (`docs/validation.md:80`).
- `Text.SegmentsSpaced` (`texts`, of the instance `Spacing`). Between two segments
  `format_segment()` looks at one character only (`text.py:17`), so that an English
  word ending in a digit (MP3) is joined to the Chinese segment after it, where
  `finalize_text()` would space the same text in one segment (line 62). The usage guide
  puts a space between English and Chinese (`docs/advanced-usage.md:18`).

## Fairness

`Fairness` of the sessions: the event loop runs each task that can run
(weak fairness per task); inference threads return; the child process exits on
SIGTERM or on the SIGKILL that `_finish` sends after a timeout, and its readers
see the end of the pipe; `drain()` returns or `wait_for` ends it after two
seconds. The microphone need not deliver a chunk, and the client owes nothing: it
need not send, read or leave. End of file is therefore
fair only once the client is gone: after a drain timeout the writer is closing, but
asyncio closes the socket only when its buffer is written.
Hence `StopEnds` of the offline session excuses `writer = "closing"`: a `stop()`
whose announcement fails leaves no worker, and only the end of the connection
resets the phase.

`FairSpec` of the add-on, under which the run `plugin` checks everything: timers of the
Fcitx5 event loop fire. Nothing is assumed of service, client or user.

`FairSpec` of `VoiceSystem`: the add-on reads what has come, with the end of its connection, and its handshake
timer fires; the service greets, reads requests and the end of a connection, joins its
worker and gives its place up; the limit passes, and a recognition that was asked
for ends (`StopEnds` of the sessions is why that may be assumed).

`FairSpec` of `VoiceServer`: each process and each connection's task goes on when it
can, and systemd starts again what failed (`Restart=on-failure`,
`install-user.py:124`; those it manages are `Managed`). Clients owe nothing: not to read, not to leave.
So `OwnershipEnds` holds against a client that does neither, and `StopEnds` and
`TakenOver` name the client that holds a service up.

`Fairness` of `AutoSetup`: runs go on, systemd retries after 300 seconds, dpkg finishes
what it has begun, and when nothing runs the user logs in again some day. Failures
and kills are bounded, as a setup that always fails is never ready.

## Proofs

For every value of the constants; a theorem without a hypothesis has only the
assumptions on the constants that are listed below. Every invariant that a passing run
checks is the property of a theorem, and so is every action property and the refinement.

- `StreamingTypes`: `Spec => []TypeOK`. It carries more than types: the number of
  waiting chunks is a natural number (no chunk is taken from an empty queue),
  no recording number is out of range, a released lock passes only to a task.
- `StreamingExclusion`: `Spec => []LockExclusive`. No two awaits inside
  `self.lock` overlap.
- `StreamingApart`: `Spec => []RecordingsApart`. The live microphone, the armed timer
  and the worker are those of the session's own recording.
- `StreamingHeard`: `Spec => []EveryChunkHeard`. The worker never sleeps on a chunk, an
  end or a cancellation that is there, and `finished` is written only after all audio
  was decoded.
- `StreamingEvents`: `Spec => EndsAsPromised`, from `StreamingPromise` (the streaming
  session implements `Dictation`: each step is one of its steps or a stutter) and
  `StreamingOwnEnds` (a recording is ended only by its own id, timer or worker, by the
  loss of the client, or by a line that is too long).
- `OfflineApart`, `OfflineEvents`: the same two properties of the session that records
  and recognises in one piece, for any number of recordings, commands and chunks;
  `OfflineEvents` from `OfflinePromise` (it implements `Dictation`) and `OfflineOwnEnds`.
- Of the add-on, for any contexts, number of sessions and lines of the service, whatever
  the client does inside a call: `SessionKeptTheorem`, `OnlyWhileHeldTheorem`,
  `TypedRightTheorem`, `NoGhostTextTheorem`, `OwnRequestsTheorem` and the action
  property `ReleaseStopsTheorem`. They are the properties of the same name.
- Of the add-on and the service, for any number of sessions, texts and ends of the
  service: `AgreementTheorem`, and without its hypothesis `ShownTheorem` (its part about the
  microphone) and `TextsTakenTheorem` (an action property). The hypothesis is that the text
  of an exception or of an offline result is one line of clean text (`OneLine \subseteq {TRUE}`). It is needed: the
  first of the disagreements above breaks `Agreement` without it.
- `TypeCorrect`, `OneOwnerTheorem` of the server: types, with the lock held exactly
  between flock() and the end of close(); one client owns a service, and the flag says
  whether one does, for any number of clients, services, kills and outside changes.
- `HandOverTheorem`: a service that has started is the one the path leads to, until it
  stops or somebody else changes the path; one that gives up the lock has left no socket
  there. `OthersSocketKeptTheorem`, an action property: services, started, stopped and
  killed in any order, do not remove the socket of another program that came while none of
  them was between a look at the path and what follows from it.
- `WholeLinesTheorem`, `LongLineTheorem`, `FramingTheorem`: for every limit, alphabet,
  cut of the stream and sequence of connections, lines are handled whole and in
  order, and one that is too long ends the connection.
- `CoveredTheorem`, of the decoders: for every recording, cut of the audio into calls,
  lookahead, block, limit, endpoint and failure of a correction, the finals hold the
  speech once, in order and punctuated once, and no draft is left at the end.
- `SettledTheorem`: `finalize_text()` changes nothing of a text it has finalized, for texts
  of any length. `ContentKeptTheorem`: a result of the punctuation model is taken exactly
  when some choice of places keeps the content, and what is typed keeps it too, for
  texts and results of any length.
- `PinnedTheorem`, `ReadyTheorem`, `TrustedTheorem`: for any number of processes,
  files and kills, a published file changes only to the pinned one, what a finished
  process reported ready stays so, and only a killed one leaves temporary files.
- `SetUpTheorem`: for any number of packages, failures, kills and runs by hand, a package
  whose generation is recorded ready is installed, with the models and the enabled service.
- `NothingLostTheorem`, `ChoiceKeptTheorem` (an action property): for any number of runs,
  interruptions and edits by the user, what an installation wrote stays in the manifest, the
  backup is the user's if the first configuration that was replaced is, and after one completed
  installation the configuration is left alone.

Assumptions: `CaptureAssumption` (the queue holds at least one chunk),
`SessionAssumption` (`NoId` is no id, bounds are numbers),
`StreamingAssumption` (streaming mode, results are lists of partial and final),
`OfflineAssumption` (the other mode),
`VoiceInputAssumption` (`NoContext` is no context, the bound is a number, lines are
records of the types the add-on parses), `VoiceSystemAssumption` (bounds are numbers,
`OneLine` is a set of booleans, `NoContext` is not the field),
`ServerAssumption` (finitely many services, `NoService` is none of them), `BufferAssumption`
(the newline is no other byte, bounds are numbers), `DownloadAssumption`
(archived files are files), `FilesAssumption` (bounds are numbers, the unit's run is not the one by hand, `Nobody` is
neither) and `TextsAssumption` (bounds are numbers, alphabets are classes of `Text`, a
block, an endpoint and the limit have at least one unit, an endpoint comes with at least the
audio that a correction asks for, and a block is not larger than the limit of the
retained audio). The last two are so in the code: 1.2 s of silence (`streaming_recognizer.py:32`)
against 0.1 s (`recognizer.py`), and `BLOCK_BYTES` against `MAX_BYTES`
(`refined_recognizer.py:22`). TLC evaluates each in a run.

Arguments. TLC checked each inductive invariant as an invariant before it was proved.

*Session* (`SessionProofs`, `StreamingSessionProofs`). The inductive invariant is
`Inv == Sane /\ RunType /\ ResultLeft`, with
`Sane == BaseTypeOK /\ LockExclusive /\ StartsLeft`. `LockExclusive` is needed for the
types themselves: that a step leaving the lock was its holder. `StartsLeft` says
a `start` is only read while a recording is left, so that `started + 1` stays in range.
`ResultLeft` says a worker inside `publish()` has a result left, so that `Head` and `Tail`
are defined. A step is one of three forms, and each has a lemma: a task stays in the lock
(`StayKeeps`), leaves it (`LeaveKeeps`) or moves outside it (`OutsideKeeps`); `Return`,
`Raise` and `Reply` have theirs. Then there is one lemma per handler (`StartKeeps`,
`CancelKeeps`, `CloseKeeps`, `StopKeeps`, `PublishingKeeps`, ...). `WorkersKept` says that
the connection and the timers never move a worker that exists, which preserves `ResultLeft`.

*Recording* (`StreamingSessionProofs`). `LInv == Inv /\ Lifecycle`. `RecordingsApart` is not
inductive: a cancelled recording leaves a worker that has still to take the lock, and
what keeps it from acting on the next recording is what each task knows when it goes on.
`Current` says which recording the session has at each phase, `Captures`, `Workers` and
`Timers` tie capture, worker and timer to it, `Held` says what a task suspended with the
lock may rely on, `Ahead` that recordings to come are untouched, `Shut` what close()
leaves. `Finishing` (a worker past its stream has read all, or was cancelled) gives
`FinishedDrained`. `Heard` relates what was written to the client to phase, segment and
number, which is what a step of `Dictation` is about; it says nothing once the writer is
closed, when nothing is written any more. `Leaving` says why the connection task leaves its
loop (a line that is too long, a client that is gone, a writer that is closing), on which
`StreamingOwnEnds` and `OfflineOwnEnds` rest; `SessionProofs` has what both sessions share
of it (`BaseLeaves`).

*Offline* (`OfflineSessionProofs`). Again `LInv == Sane /\ Lifecycle`, with parts of the same
names; what `SessionProofs` says of places in the lock and of the timers is shared. The
difference is that a recording has no worker until `stop()` has had the end of the capture: the
session is `transcribing` while its capture still runs (`Captures`: live only while it
records or a stop waits, `Sealing`) and before anybody recognises (`Workers`: whoever
is `Stopping` will create the worker; without one the writer is closing). `Held` says in which phase the
session is while a task is suspended with the lock.

*Add-on* (`VoiceInputProofs`). Between two events the add-on is either `Free` (no session;
perhaps a hold that waits for its timer, or an idle connection without requests) or it is
`Running` a session of its bound context, which is focused, alive and takes no password;
`IInv` is that. `Running` knows the requests made so far by phase (`Asked`), that the
texts typed come before the next one (`Follows`), and that an unlimited recording is
held. Inside a handler it is only `Engaged`: each client call may reset or blur, and the
handler then goes on with an add-on that is already `Free`. There is one lemma per
operator, each saying that the result is `Free` or what the operator meant it to be
(`UpdateUiFits`, `CommitOutcome`, `QueueOutcome`, `SettledFits`, `HandleLineFits`, `StartFits`,
`CancelFits`, ...), then one per group of events.

*Add-on and service* (`VoiceSystemProofs`). `IInv == TypeOK /\ Links /\ Handlers /\
Conversation`. `Agreement` speaks of moments with nothing under way; the invariant must say
how the lines under way make up for the difference between both ends (`Talk`): each is one
the add-on takes when it comes to it (`Lines`), texts count on from the add-on's numbers
(`Numbers`) to those of the handler (`Count`), at most one line is under way until the
recording has begun (`Opening`), after that the only request is the stop (`Stopping`), and
the lines lead the add-on to the handler's phase (`Leading`) and to the end of a session the
handler has ended (`Ending`, the only part that needs clean messages). `Links` says that the
add-on's end is open exactly while a session waits for lines; `Handlers` that one
handler at a time has the microphone.

*Server* (`VoiceServerProofs`). `IInv == TypeOK /\ Alone /\ Served`. `Alone` says the flag of a
service is set exactly if a connection owns it and that two owners are one; that makes the reset
of the flag right: the one that leaves was the only owner. `Served` says a process that does
not run has no connections, so that a process starts with the flag unset and no owner.
`Handing`, on top of it, adds to `HandOver` that a service that is up remembers its own inode, that
one that is bound has it at the path, and that no client is left to accept once
it waits for the open connections: that is why, where `wait_closed()` waits, none is left
when it gives up the lock. `OthersSocketKeptTheorem` needs the types only: `ServiceLeaves` and
`ClientLeaves` say, step by step, that a service that has not come to the window does not
change a path it does not own, and enters the window only at a path that is empty, a
refused one or its own.

*Line buffer* (`TextsProofs`). `IInv` says that the buffer is the line so far until a line was too long
(`Keeping`), that the handled lines followed by the waiting ones are those that were sent
(`Waiting`; after an overflow only a beginning of them, `Prefix`), that an overflow is
known exactly when a line was too long (`Noticed`), and that all lines fit (`Fitting`, `Handled`).

*Download* (`FilesProofs`). `IInv == TypeOK /\ VerifiedKept /\ PassedGood /\ OwnTemporaries`: a file
whose sum was verified is not touched before it is published, because its name has the
process id (`VerifiedKept`); every file a process has passed is good and stays so
(`PassedGood`); a temporary file that is there is the one its process works on, as
long as none was killed (`OwnTemporaries`).

*Setup* (`FilesProofs`). `SetupInvariant`: nothing is dated later than the last unpacking
(`Dated`), a run that has begun its steps holds the lock and the status says so, and each
step it has passed is done for its generation, unless a removal undoes it or the
scripts were not yet those of the version file (`Underway`); the status says ready only when all
of them are (`ReadyIsDone`). A run that is killed leaves the status at installing.

*Installation* (`FilesProofs`). `InstallInvariant` reasons about the list of operations left to
do: the backup comes before the configuration and the marker before the manifest, which is
last (`InOrder`, from `ConcatInOrder` for the lists the program is put together from). What a
completed installation wrote is in the manifest or in what the present run has read of it
(`Completed`), and the backup was copied from a configuration of the user's (`Copied`).

*Spacing* (`TextsProofs`). The three rules are passes over a text that change gaps only.
`SpacedOnce`: once they have run, an address can only have grown (`ClassKept`), no gap is left that
the first pass would remove (`GapsStay`), and the other two would add none that is not there
(`WordsKept`, `NoneAdded`).

*Content* (`TextsProofs`). The places that `_preserves_content()` takes are ahead of those of every
other choice (`GreedyAhead`), so it finds one whenever there is one. That the text was kept and only marks were
added then leaves a character that is no mark a single place (`OnePlace`), and so numbers and words:
the greedy choice breaks one exactly if every choice does (`EnoughToTakeTheFirst`). The
spacing rules put no gap into a number and take none from between words (`NumberTight`, `WordsStay`).

*Decoder* (`TextsProofs`). `Recorded` says the finals hold the speech up to `Base`, the start of
the retained audio (of the segment, in plain streaming), in order, each punctuated once, and that the list
shows what the preview showed last (`Account`); and that no speech lies between the retained
audio and the segment of the preview (`Listening`). A call of the streaming decoder extends such
an account (`Fed`, `AcceptedFeeds`), its loop unrolled turn by turn (`FoldTurns`). Then there is a lemma for a
block of audio (`PartIsDone`), for a cut at the limit and at an endpoint (`CutAtLimit`,
`CutAtEnd`) and for `finish()` (`FinishRecords`). A correction that fails hands on the events
that the preview had kept back, and these are what plain streaming would have sent (`Rejoined`).

Induction over data (the length of a text, the turns of a fold) is done on sets of
numbers, `{n \in Nat : ...}`, with the lemma `Counting`, which follows from the least element of
a set of numbers (`WFMin` of `WellFoundedInduction`); recursive definitions of the models are
folds and functions, which `FoldExists` and `GreedyPlaces` unroll.

Only model-checked is what has to happen in the end: `StopEnds`, `LimitHolds`, `ReleasedWhenGone`,
`HandshakeEnds`, `StopAnswered`, `MicrophoneLeaves`, `OwnershipEnds`, `TakenOver` and
`ReadyInTheEnd`. They rest on fairness, and fairness on ENABLED, which is out of the
prover's reach.

## Not modelled

- PCM bytes, the carry of half a sample, byte limits of texts and the wording of messages;
  JSON and UTF-8 are a flag.
- In `VoiceSystem`, an `emit()` that times out and a client that resets inside the
  first panel update; `Session` and `VoiceInput` have them.
- Decimals and apostrophes in `Text`, and what the native models return for a given
  sound: any result and any failure of theirs is admitted.
- The add-on's destructor (unloading), its configuration and the looks of its panel.
- The pictures of the theme (`theme.py:29-31`), each replaced atomically, in no manifest and
  never removed; `chmod()` of installed files.
- The validation of the configuration and `doctor`: read once or printed, nothing
  changes. The installation of system packages and the compilation in `setup.py` from a
  checkout; the wording of the manifests.
- Packaging (`build-deb.py`), icons, website: one pass over a tree, no state.

`PROJECT.json` lists the hazards these leave open.

## Plan

Done: 1. `Capture`, `Session`, `StreamingSession`, `OfflineSession`, `Dictation`;
2. `PluginSession`, `VoiceInput`; 3. `VoiceSystem`; 4. `VoiceServer`; 5. the decoders;
6. `AutoSetup`, `ModelDownload`, `UserInstall`; 7. `LineBuffer`, `Text`; theorems for every
invariant and action property of the runs and for the refinement of `Dictation` by both sessions.

Next models: the byte carry and limit of `audio.py`; `validUtf8` and `eraseLastUtf8` of
`session.cpp` against a reference definition; the start of the setup unit by
`setup.py --deb`.
