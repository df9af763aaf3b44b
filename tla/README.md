# RemoteInk in TLA+

RemoteInk shows (a part of) the screen of a computer on an e-book reader. A
daemon on the computer (`src/server`) takes screenshots and sends what changed;
an application on the reader (`src/client`) draws it on the e-ink panel. This
directory holds TLA+ models of the program, TLC configurations that check them
on small instances, and TLAPS proofs of what should hold for every size.

## 1. Inventory

| Component | Source | State | Operations |
|---|---|---|---|
| Wire protocol | `common/protocol.h` | none | commands, their sizes, confirmation |
| Image encoder | `server/transfer.c` | `color` (static), `send_buffer` | `transfer_image_send_all`, `transfer_image_send_diff`, `send_buffer`, `wait_confirm`, `transfer_send_error` |
| Reader's decoder | `client/client.c` | `x`, `y`, `color`, receive buffer, frame buffer, panel | `client_exec`, `client_mainloop`, `client_send_confirm`, `client_shutdown` |
| Frame loop | `server/main.c` | `image_data`, `next_image_data` | `send_first_frame`, `send_next_frame`, `server_handle_client` |
| Daemon process | `server/main.c`, `common/exceptions.c`, `server/shortcuts.c` | `state`, `serv_fd`, `conn_fd`, `defers_stack`, `control_lock`, `process`, the lock of `syslog` | `daemon_main`, `server_create/setup/destroy`, `handle_shortcuts`, four signal handlers |
| Lock file, commands | `server/main.c` | the file, the number in it, the processes | `start`, `stop`, `status`, `kick` |
| Visible frame | `server/control.c`, part of `server/screen.c` | contexts (frame and scale per window), active one, window geometry | shortcuts, `control_update_frame`, `control_context_select` |
| Handshake | `server/main.c`, `server/transfer.c`, `client/client.c` | none that survives | header, password, dimensions, refusals |
| Reader application | `client/main.c`, `client/client.c`, `client/options.c`, `client/ui.c` | stage, controls, options, `client_process`, descriptor, client threads | dialogs, connect button, Back key, agreement, saves |
| Configuration files | `common/ini_parser.c`, `common/utils.c`, `*/options.c` | tables of sections and parameters, the options | parse, convert, require, save |
| Password | `server/security.c` | the password file, `expected_hash` | `passwd`, load, compare |
| Shortcut parsing and grabbing | `server/shortcuts.c` | list of shortcuts, grabs | parse, grab, call |
| Screen access, image processing, fonts, profiler, drawing on the reader, paths, build files | `server/screen.c`, `server/main.c`, `server/profiler.c`, `client/ui.c`, `common/utils.c` | buffers, counters | I/O and library calls |

How they interact:

* The frame loop calls the encoder region by region; bytes go over TCP to the
  decoder; a byte per message comes back. The reader's registers survive from
  message to message, the encoder's colour even from session to session.
* The main thread and the shortcuts thread share the contexts under
  `control_lock`. The main thread holds it for a whole frame, waiting for the
  reader included. They also share `state` and `serv_fd`, without a lock.
* Signal handlers run between any two steps of the main thread, close the
  connection, change `state`, and call `syslog`. The `kick` and `stop` commands
  are other processes that send these signals to the number in the lock file.
* On the reader a client thread per connection and the main thread share the
  stage, the controls of the start screen, the screen and the descriptor, and
  there is no lock. The client thread rebuilds the start screen when its session
  ends. The daemon learns of the reader, and the reader of a refusal, only
  through the stream, whose close may become a reset.
* Both programs read their options with one parser and a table of setters; the
  reader's application also writes its file, after every dialog. The `passwd`
  command writes the file a daemon reads when it starts.
* Cleaning up is done by a stack of deferred functions (`push_defer`,
  `pop_defer`): a failing function pops its own and lets its caller pop the
  next; `pop_all_defers` runs all of them in `fatal_handler` and `term_handler`.

What is hard: the encoding is compressed against state that both ends keep
separately; commands arrive in pieces; the reader's two threads have only
the stage between them; files are emptied before they are written; a session may end at every step and for
many reasons; signals, two threads and deferred clean-up overlap; processes
that know nothing of one another meet at a file; long sequences of keys act on
frames made for another window or another reader. `PROJECT.json` lists these
hazards one by one, each at its line with the properties that are about it.

What makes each component correct:

* encoder and decoder: the reader shows what was captured, after every frame;
  nothing outside a region is touched; everything drawn is refreshed;
* frame loop: bytes are always understood, confirmations match messages,
  neither end waits for ever;
* daemon: the stack of deferred functions is the one the code relies on at
  every place, nothing of a session is left for the next, a kick ends the
  session, a stop ends the process and removes the lock file;
* lock file: at most one daemon, and its file leads to it;
* handshake and reader: one session at a time, whatever is pressed; a reader that
  is sent away says why; every end of a session leads back to the start screen,
  whose controls are there when they are used;
* configuration: after a start the options are the file's, complete and valid; a
  save that fails loses all options or none; a shortcut grabs and calls what was
  written;
* password: exactly the readers with the password last set in full are admitted;
* frame: it stays on the screen, does not creep, keeps its middle under zoom,
  and its scale stays in range.

## 2. The modules and the code

`Protocol <- Reader <- Transfer <- {DiffLoop, FrameSync}` by `EXTENDS`, and
`FrameSync` has `ReaderMirror` as its abstract specification.
`IniFile <- ReaderOptions` and `{ReaderOptions, Handshake} <- ClientApp`;
`{IniFile, Shortcuts} <- DaemonConfig`; `ReaderOptions` and `DaemonConfig`
instantiate `IniLoad` with their tables and setters. `Daemon`, `LockFile` and
`Control` stand alone. `MC*` modules hold the
constants of TLC's runs, `*Proofs` modules the theorems: `TransferProofs` those
about the encoder and the decoder as functions, which `DiffLoopProofs` and
`FrameSyncProofs` extend. Operators preceded by
"Mutant of X" are a plausible bug in the place of X; no specification uses
them. They serve to test the properties: with X replaced by its mutant, the
property named in `PROJECT.json` must fail.

**Protocol.** A command is a record; its first byte carries that record, its
other bytes are anonymous. So the number of bytes is exact and their contents
are not modelled.

**Reader.** `Apply` is the effect of a complete command; `ExecCommand` is one
turn of the loop in `client_exec`, with its three ways out (incomplete
command, error message, unknown command). The confirmation is written from
the first byte of the receive buffer, as in the code (`client.c:22`).

**Transfer.** `SendAll` and `SendDiff` give the commands of a message.
`DiffPixel` is the body of the inner loop (compare, `Emit`, bounding box, the
pixels between two lines); `DiffStart` and `DiffEnd` are what is around it.

**DiffLoop.** The function `transfer_image_send_diff` as a state machine, one
pixel per step (`Scan`), with a reader that executes what each pixel adds.

**FrameSync.** A sequence of sessions: the server's frame loop as a control
state `pc`, a stream that holds `SockBuf` bytes, reads and writes of any
number of bytes, the reader's main loop, and the ends of a session (kick,
broken connection, the reader leaves, the error message of a screenshot that
failed). `SendRegion` encodes a region against `image` and keeps what that
leaves in `color`, also if the message never arrives.

**ReaderMirror.** What a person who looks at the reader is promised, without
messages, regions or encoding: a frame is shown, another is captured, pixels
change from the one to the other, and only when none is left to change may
the next be captured. `FrameSync!Phase` and the substitutions of its `INSTANCE`
map the states of the two programs and of the stream to it.

**Daemon.** The main thread (`pc`), the shortcuts thread (`keys`) and the
running handler. An exchange with the reader is one step that succeeds or
fails. `pop_defer` is two steps, since the code takes the function off the
stack before it calls it and a signal may come in between. The lock inside
`syslog` is a variable, because handlers call `syslog` too. Accesses of
`state` that the code makes one after the other are separate steps.
`term_handler` and `fatal_handler` are one handler: a step for each function
that `pop_all_defers` takes off the stack (`TermPop`), one for each call of it,
`syslog`, `exit`. `server_destroy` closes the socket (`Destroy`), cancels the
shortcuts thread (`Cancel`) and may call `syslog` (`StatsBegin`, if frames were
sent and `stats_enabled`), on the main thread and in the handler alike. While a
handler runs, the signals that end the daemon may interrupt it, another such
handler included, of which the second goes on with what the first has left on
the stack. A cancelled thread ends in the next call that waits
(`Cancelled`) and gives back the lock inside `syslog`, not `control_lock`. Left
out are a kick or a SIGPIPE inside another handler, and the `fclose` that
`profiler_save` defers for itself.

**LockFile.** Processes in stages, files as inodes, the name as a pointer to
one. A number may be taken by a new process after the old one is gone, and
anybody may be killed. A user may delete the file after the program said it
is defunct (`ERR_LOCK_DEFUNCT`).

**IniFile, IniLoad.** A file is a sequence of lines, of the kinds the parser
tells apart; a value is the sequence of its words. `IniLoad!ini_load` folds
`LoadLine` over a file: a wrong line ends the load and what was set before stays
set. `Complete` is the search for a missing parameter. The table, the setter
and the getter are parameters, as in the code. `FileLines` is the set of all
lines, of which a run takes a few files and the proofs any.

**ReaderOptions.** The application's options, their setters and what the dialogs
change. A save is two steps (`fopen` empties the file, `fclose` writes it) between
which the application may die, and the second may fail unnoticed.

**Shortcuts, DaemonConfig.** `Shortcuts` has the words of a shortcut, the masks
that are grabbed (`Submasks` is the loop of `grab_keycode`, with its masks as
numbers) and which handlers a release calls. `DaemonConfig` has the daemon's table
and setters and the password: a start loads the password, then the
configuration, then grabs; `passwd` commands run beside it, in two steps, and may
die between them. The comparison is the code's, bit by bit.

**Handshake.** The daemon's side of one connection: it waits in the queue of
`listen`, is accepted, and `client_handshake` reads the three fields, each whole
or in part. A daemon that closes while something is unread resets the connection,
which may destroy the refusal it has just sent.

**ClientApp.** The application's main thread takes one event after another; a
client thread runs `client_connect`, one step per call that another thread or
the daemon may get between, and at the end `show_intro`: stage, controls
destroyed, controls built, screen painted. `Slots` bounds the threads alive at a
time, not the sessions. The history variables `past` and `spoilt` say whether
the user used the start screen before it was back (`"hasty"`) or touched the
Switch button (`"switched"`), and whether the stream or the daemon took the
refusal away: the properties name these exceptions.

**Control.** A context is a record, the list of them a function from windows.
A scale is a quotient `<<n, d>>` where the code has a `double`. A screenshot
does what `track_focused_window` and `control_update_frame` do before it. All
shortcuts that change a frame are actions. The size of a new reader is assigned
without `control_lock`: width and height are two steps (`NewReader`,
`NewHeight`), between which a shortcut may work with the width of one reader and
the height of another.

## 3. Runs

| Run | Question | Size (distinct states) |
|---|---|---|
| `diff_loop` | does a difference message do to the reader what it should? | 997,272 |
| `frame_sync` | does the reader follow the frames over streams cut into any pieces, and over sessions, and is that what `ReaderMirror` promises? | 490,859 |
| `frame_live` | does every frame end, and does the reader notice the end? | 31,295 |
| `colors_agree` | violation: see section 5 | |
| `daemon` | do signals, failures and the second thread leave the daemon in order? | 1,355,821 |
| `kick_spares`, `stop_stops`, `frames_freed` | violations: see section 5 | |
| `lock_file` | one daemon, and can it be found? | 86,814 (with symmetry) |
| `control` | where may the frame get to? | 411,588 |
| `daemon_config` | do password, options and shortcuts become what was written, whatever fails? | 12,616 |
| `client_app` | do reader and daemon begin, refuse and end sessions in order? | 313,921 |

Bounds, and why they are enough:

* `diff_loop`: a 3 x 2 screen, every image over three colours as `next_image`,
  a uniform grey `prev_image`, every region, both remembered colours free. What
  the loop does with a pixel depends on whether it changed, on whether its
  colour is the last one sent, and on the end of the line; with three columns
  a region may have pixels of other regions on its left, on its right, or
  none, and with two rows every line end but the last is followed by more. An
  image is compared pixel by pixel, so a uniform `prev_image` loses nothing.
  The proofs (section 4) do not depend on these sizes.
* `frame_sync`: three columns, divided by two, so that one column is in no
  region; three frames, from one to another of which none, some or all pixels
  of a region change, in one region or in both; `SockBuf = 6` bytes, which is more than any command but the refresh
  (9 bytes) and less than a first frame or a difference, so that commands arrive in pieces, the
  write blocks, and a read may return parts of two commands. The number of
  frames and sessions is not bounded.
* `frame_live`: the same with two pixels, since liveness is costlier. The
  server still blocks in every message.
* `daemon`: one reader may wait while one is served (so one may slip in after
  the shortcuts thread has failed) and one key is pressed: it lets the
  shortcuts thread take `control_lock`, and another would have it take it again.
  Two signals end the daemon, so that the second may come inside the handler of
  the first, between any two of its functions; each blocks itself, and a third
  would do to the second what that does to the first. `stats_enabled = TRUE` has
  the calls of `syslog` that `FALSE` only leaves out. The number of sessions is
  not bounded; `late` counts only those accepted after the shortcuts thread
  failed. The proofs hold for any number of readers, keys and signals.
* `lock_file`: three processes: enough for two starts and a stop, or for a
  daemon, a command and the program that reused a number. Three files: one
  per process that may have one open. The proofs hold for any number.
* `control`: a 4 x 3 screen, two readers that are each other turned, two
  windows, one of which is at two places (one partly off the screen),
  `MaxPresses = 1` key between two screenshots, scales 1/2, 1 and 2. The frames
  are smaller and larger than the screen in each direction; at scale 2 a side of
  two or three pixels becomes one or two, and one is the least `ReadersAssumption`
  allows. `MaxPresses` bounds how
  far off the screen a frame gets before a screenshot puts it back; the number of
  keys altogether is not bounded. `MaxSide = 3` bounds windows that grow. The
  theorems hold for any of these.
* `daemon_config`: three passwords, of which one is the beginning of another and
  one has no bit in common with either, so that the comparison ends in each of its ways;
  14 configurations: the program's own with shortcuts that are spelt out,
  abbreviated, unknown, too many, and with one thing wrong each (a number out of
  bounds, an unknown key, section or action, a line in front of all sections,
  one without separator, a missing section, no file).
  `SHORTCUTS_MAX_COUNT = 3` lets a file have too many.
* `client_app`: two client threads, so that a connection can be asked for while
  the thread before still rebuilds the start screen; more would wait likewise.
  A second host, empty, a second port, which is refused. Each connection may
  have a wrong version, a wrong password or neither. The number of sessions,
  saves and deaths is not bounded.

`MCDiffLoop.cfg` and the cfgs of `Daemon` set `CHECK_DEADLOCK FALSE`: the
function returns, the process exits. The other runs check deadlock.

### Properties

Each is explained above its definition. The ones that carry the most:

* `LockStep`: decoding undoes encoding; the increment of a repeat count in
  place, the skips and the left-out colours are read as they were meant.
* `Faithful`, `Mirrors`, `Picture`: the reader shows the frame. They state
  the one exception the code has: a pixel of the colour the encoder remembered
  from before the session (section 5).
* `Understood`, `OneConfirm`: no byte is taken for another; no confirmation for
  that of another message.
* `FollowsTheScreen`: `FrameSync` implements `ReaderMirror`. The panel changes
  from frame to frame, never to a mixture with a third, and the server captures
  none before the reader shows the last.
* `OneSession`, `Careful`: the stage, without a lock, keeps two client threads
  from being connected at a time; and if the user waits for the start screen, no
  thread follows the arrays of controls to one that has been destroyed, and no
  start screen covers a session. It names one exception that waiting does not
  prevent, the write to a Switch button that was touched (section 5), and says
  the rest of the run all the same. `Told`: the reader says why it was sent away.
  `ComesBack`: every end leads to the start screen.
* `AllOrNothing`: a file of the reader holds the options last written in full, or
  a save has failed and the next start has the defaults. `Configured`,
  `ShortcutsAsWritten`: the daemon has what its file says. `Admission`: it
  admits exactly those who send the password that was in force when it started,
  though `passwd` commands may die half-way and the comparison ends at the first two bytes
  without a common bit.
* `Balanced`: the stack of deferred functions at every place, whatever failed.
* `FreshStart`, `ExitClean`, `LastReader`, `KickEnds`, `TermExits`: what a
  session, a stop and a failing shortcuts thread leave. They state their
  exceptions: a signal in the middle of `pop_defer` or inside `syslog`.
  `TermExits` follows a handler through all of the deferred functions: it would
  fail if one of them waited for the shortcuts thread, which may stand at a
  `control_lock` nobody gives back or have overwritten the stop.
* `Exclusive`, `Found`: one daemon, named by its file, though the lock of
  `lockf` does not outlive the fork and anybody may crash.
* `FrameFits`: what is captured fits the screen and is at least a pixel in each
  direction, which the X server demands. `Settles`, `ScaleInRange`,
  `ZoomCentres`: a frame does not creep, nor leave the scales, nor its middle.

### Fairness

`FrameSync!FairSpec`: both programs go on running (`WF` of the server's steps,
`WF` of the reader's); TCP delivers because a step of the other program reads
what was written. Nobody has to connect, kick or leave. `Daemon!FairSpec`: the
system schedules the main thread, its handler and the shortcuts thread. A
reader need not answer, so that a session may wait for ever with
`control_lock`, and `KickEnds` is about getting out of there. `WF` of `Main`
includes the failure of an exchange only if the connection is closed or broken
(`Doomed`). `WF` of the shortcuts thread says it handles the events it has and
then unlocks: the events are finite because a key takes a user.

`ClientApp!Spec`: each client thread goes on (`WF`): its calls return, since a
`connect` fails at last and a `read` returns once the daemon has ended the stream
or the user has shut it down. Not fair is `Query`, whose network dialog may stay
open, and nothing is assumed of the main thread and of the daemon: nobody has to press a
key or to answer, so that a session may last for ever.

## 4. Proofs

| Module | Theorems | Argument |
|---|---|---|
| `TransferProofs` | `SendDiffDraws`, `SendAllDraws` | induction over the pixels of a region and over the commands of a message |
| `DiffLoopProofs` | `LoopCorrect`, `DiffFaithful`, `DiffFrugal`, `DiffMirrors`, `DiffRefreshed`, `DiffBufferBound`, `DiffLockStep` | `LoopInvariant` is inductive, and so is `LockInvariant` with it |
| `FrameSyncProofs` | `Invariance`, `TypeCorrect`, `AlwaysUnderstood`, `FramesArrive`, `OutsideUntouched`, `ConfirmsAnswer`, `Mirrored` | `IInv` is inductive; under it every step is one of `ReaderMirror` or a stutter |
| `LockFileProofs` | `LockCorrect`, `OneDaemon`, `DaemonFound` | `LockInvariant` is inductive |
| `ControlProofs` | `ControlTyped`, `ControlScaleInRange`, `ControlFrameFits`, `ControlSettles`, `ControlZoomCentres` | `ControlInvariant` (types and range of scales) is inductive; the action properties follow from it and from lemmas on `update_frame` and `Zoomed` |
| `DaemonProofs` | `StackBalanced`, `NextReaderFresh`, `FileRemoved`, `OneLastReader`, `DaemonTypes` | `ControlOK` is inductive, and so are `FreshOK`, `FileOK`, `ServOK`, `HeldOK`, `RestOK` and `FlagsOK` with it |
| `ClientAppProofs` | `AppCorrect`, `AppTypes`, `OneSessionOnly`, `ReasonTold`, `CarefulUser`, `SavesAllOrNothing` | `AppInvariant` is inductive, and so are `Answered` and `CarefulOK` with it; `OptionsOK` is, since a file that was saved loads to what was saved (`RoundTrip`) |
| `DaemonConfigProofs` | `RightReaders`, `EverythingConfigured`, `KeysAsWritten` | `PasswordInvariant` is inductive, and `are_strings_equal_stable` is equality; `SettingsOK` is, and says what a load gives |

Every theorem holds for any values of the constants that satisfy the assumptions of
the modules, which TLC evaluates in the runs.

* Induction over data. What a loop, a fold or a recursive function computes is
  proved from the well-foundedness of `<` on `Nat`: `CountUp` says that a set of
  numbers with 0 in it, and with `k + 1` for each `k`, has every number up to a
  bound, and `FoldExists` that the recursive function inside a fold of the
  community modules has a value at every place, given by the value before. In this
  form, about sets and functions and not about an operator, the provers can use
  them; each proof states the set of places up to which its claim holds.
  The three component families have their own copy of these lemmas.
* `TransferProofs`: `Registers` are what a reader knows, `ApplyAll` executes
  commands. `ExecutionGrows` and `ApplyAllAppend` let a proof follow a buffer
  that grows, `EmitFollows` is the case where the last command, a repeat, is
  changed in place, and `LoopGoesOn` says what one more pixel does to the
  encoder's and the reader's registers. `SendDiffDraws` is the sum of it:
  whatever the region, the images and the colours, executing a difference message
  draws what changed and nothing else, where a pixel of the colour the encoder
  remembered is drawn in the colour the reader remembers (section 5); a region
  without a message has not changed.
* `FrameSyncProofs`: no property of a session is inductive by itself. `IInv` is
  `Types`, `Control` (each side knows of the connection what it has to),
  `Stage` (what the reader shows at each place where the server is not
  waiting), and `InFlight`: the bytes received and not executed, those on the
  way, and the rest, which is unwritten or lost with a broken connection, are
  together the bytes of whole commands, and executing these brings the reader where
  the server believes it will be (`Bound`), to an error message
  (`Failing`), or changes nothing (`Idle`). The pieces a stream is cut
  into are one lemma (`Decodes`: wherever the buffer ends, it begins with the first
  of the commands under way, and behind that command with the others), what executing
  this command leaves is another (`TakesFirst`), a confirmation written over
  the receive buffer a third (`Overwritten`), and what a region or a first frame does to the
  reader is `TransferProofs`. The four actions that move bytes (`Write`,
  `ClientRead`, `ClientExec`, `RecvConfirm`) split that sequence in another
  place or execute its first command; the others begin or end one.
* `Mirrored`: the initial states map to those of `ReaderMirror`, and there is one
  lemma per action. `ClientExec` is the step that may change the panel: `Paints`
  says that it takes pixels from the shown frame to the next and no others, from
  which `Mirror!Draw` follows. The rest move between phases or are not seen.
* `DiffLoopProofs`: `LoopInvariant` strengthens the four properties with where the reader stands
  (`OnTrack`: its position and the pending skip add up to the loop's
  position), with what may be incremented (`RepeatIsLast`), with the bounding
  box (`BoundingBox`), and with `ColorLink`: the two remembered colours are
  equal as soon as one was sent. `Faithful` alone is not inductive, since it
  says nothing of the pixels to come. Assumptions: a screen with at least one
  pixel, 0 is a colour, the images are images and the regions lie on the
  screen. The set of colours, the sizes and the regions are arbitrary.
  `LockInvariant` says that the machine is at a pixel of the run of
  `SendDiffDraws`, and that its reader, followed pixel by pixel, is the one
  that executes the buffer from its beginning, also when a repeat in it has just
  been counted up.
* `LockFileProofs`: its `LockInvariant` adds `OwnsFile` (the name leads to the file its owner has
  open, with the owner's number or none) and `HasRead`. Only that no process
  and no file is `None` is assumed.
* `ControlProofs`: the arithmetic of rounding, of the critical scale and of
  `normalize_coord` is in lemmas of their own (`ScaledExact`,
  `NormalizeInside`, `UpdateFits`). Assumed are positive sizes, defaults
  within the range of scales, and a zoom factor of at least 1. That
  `update_frame` leaves one direction within the screen rests on the rounding
  of an exact quotient, which is why a scale is a quotient and not a real
  number; the rounding of `double` is outside the model. `ZoomCentres` does not depend
  on that: half a difference of two sides makes up for the difference up to a
  pixel, whatever the sides are (`HalfRounds`). That a frame is never empty
  needs `ReadersAssumption`: no side of a reader is rounded to nothing at
  `MAX_SCALE`, which holds for the screens that `client/main.c` measures and which
  `client_handshake` does not check (a side of one pixel at scale 5 is 0). It carries over to
  the smaller scales (`ScaledMore`), to the critical one (`ScaledSome`), and,
  behind the clamp, to what is captured (`ClampedSome`).
* `DaemonProofs`: `Balanced` says what the stack is where `pop_defer` is about
  to be called; inductive is what it is *everywhere* (`StackOK`), with the places
  at which a function is off the stack and not called yet (`PoppedOK`) and with
  `term_handler`, which empties it step by step and says its last words with an
  empty stack (`Ended`). `FreshOK` says for each thing a
  session uses who still has to give it back, `FileOK` the same for the lock file,
  unless a signal came when its removal was off the stack (`lost`).
  `ServOK` says what a shortcuts thread that failed leaves to the main thread:
  the state is `STATE_SHUTDOWN` or the socket is closed, which is why one reader
  at most can still slip in. `HeldOK` counts the frames held at each place. The
  numbers of readers, keys and signals are arbitrary.
* `ClientAppProofs`: `OneSession` is about threads that use the network;
  inductive is `OneBusy`, which counts a thread as busy until it has given the
  stage back, with `Steady`: meanwhile the stage is `MONITOR` and the main thread
  does nothing it began before. `Answered` relates the field the daemon is at, the
  cause of a refusal, what is on the way, and how the stream ends. `CarefulOK`
  says that at most one thread is between the stage and the painted screen as long as
  the user waits for it, before and after a touched Switch; its lemmas follow
  the places a thread goes through.
  The number of client threads is arbitrary; `main` must not be one of their names.
  `SavesAllOrNothing` needs that the options are always of a kind a file can hold
  (`OptionsOK`) and `RoundTrip`: the fold of `ini_load` over the lines `ini_save`
  wrote, section by section and parameter by parameter, ends without an error and
  with those options. Assumed is that different numbers have different texts
  (`NumbersAssumption`).
* `DaemonConfigProofs`: `PasswordInvariant` ties the file to the password last
  set in full and `expected_hash` to the one in force. `StableIsEqual` shows that
  the comparison is equality although it stops at bytes without a common bit:
  a byte other than zero has a bit in common with itself, and zero has
  none. Assumed are passwords that are non-empty strings of bytes, and that one
  written into the file by hand does not begin with `$`, since the code takes such a
  string for a hash. Of `crypt` the model has that it begins with `$` and
  maps different passwords to different strings.
* `EverythingConfigured` follows a load line by line (`Follows`): which section it
  is in, which parameters were given, that every value is the one last given and
  valid (`Settled`), and that the list has one shortcut per line that asks
  for one (`Listed`), in any file of lines (`ConfigFilesAssumption`) and for any
  `SHORTCUTS_MAX_COUNT` above zero (`CountAssumption`). A title and a key are at one
  place of the table (`Table`, `OnePlace`), which a file with one key in two sections
  would otherwise break.
* `KeysAsWritten`: masks are numbers of eight digits (`MaskNumber`,
  `BitsOfMask`); subtracting one and masking goes to the largest smaller
  submask (`StepDown`), so that the loop meets every submask and ends at zero
  (`EverySubmask`). The provers know nothing of the letters of a string, so
  that `TitlesAssumption` states which titles of `modifier_records` begin which: it has no
  constants, and TLC's evaluation of it is complete. The property is about
  words that are spelt out.

Only model-checked, and why:

* Liveness (`FrameEnds`, `ReaderNotices`, `KickEnds`, `TermExits`, `ComesBack`):
  it rests on fairness and `ENABLED`, which this prover does not reason about.
* The four violations of section 5, which are counterexamples.

All other properties of the runs, every invariant and every action property, are
theorems.

## 5. Where the code and its documentation differ

* `ColorsAgree` (`transfer.c:78`, `protocol.h:27`): the encoder's `color`
  starts at 0 once, when the daemon starts, and the first frame does not
  change it, while the reader's does change and restarts at 0 with each session.
  Until another colour is sent, a changed pixel of the remembered colour is
  drawn in the colour of the last pixel of the first frame.
* `KickSpares` (`main.c:574`, `main.c:56`): a kick while no reader is connected
  makes `accept` fail, which ends the daemon.
* `StopStops` (`main.c:539`, `main.c:54`): a stop that comes while a daemon that
  serves a reader is inside `syslog` (`main.c:492` in the run) calls all of the
  deferred functions, so that the lock file is gone, and leaves a process that
  waits for its own lock for ever.
* `FramesFreed` (`main.c:502`, `main.c:161`): the frames of a session that ends
  are not freed.

Met while modelling and not stated as a violation:

* a Switch button that is touched is used after it was freed: its handler
  rebuilds the start screen (`client/main.c:117-131`), and then `ui_button_pointer`
  sets `button->pressed` (`client/ui.c:107-108`). No other thread is needed, and
  waiting does not help; the OK key is not concerned, and the Connect button
  avoids it, since its handler only schedules (`client/main.c:225-229`). What it
  hits depends on the allocator; where the place went to another button, its
  flag is 0 already. No line of the program says otherwise that a run could
  refute, so `Careful` names it as an exception (`past = "switched"`);
* after a crash the number in the lock file may belong to another program,
  which `stop` or `kick` would then signal (`LockFile` has such steps);
* the first screenshot of a window uses a frame that has not been put on the
  screen yet, so it may be empty (`FrameFits` is about the later ones), and a
  frame does not follow a window that moves (`README.md:22`);
* a reader may be served after the shortcuts thread gave up (`LastReader` says
  at most one);
* the columns and rows the divisors leave over show the first frame for ever
  (`Untouched` says so);
* `server/config.ini:5` names a modifier `Lock` that `shortcuts.c:44` does not
  have: a daemon whose file uses it does not start (one of the files of
  `daemon_config`);
* a shortcut acts when its key is released, with the modifiers held then: who
  releases the modifier first loses the shortcut;
* the Back key is forgotten while the reader still connects, since
  `client_mainloop` sets `client_process` afterwards (`client.c:225`;
  `README.md:153` promises a disconnect): `ComesBack` is about sessions that
  are connected;
* a refusal may be lost, because the daemon closes before it has read what the
  reader sends after the wrong field (`spoilt`);
* a handshake field that a stream delivers in parts ends the connection;
* `passwd` reports success when the disk was full, and the reader's application
  never learns that a save failed;
* the password dialog takes the length limit of the port (`client/main.c:99`);
* the pointer is bounded in the captured frame, says `README.md:203`; the far
  edge of `return_cursor` (`server/main.c:71`) is one position outside it.

## 6. Not modelled, and the plan

Done: all components that keep state another one relies on. In `PROJECT.json`
they are `modelled`, or `partly` with what is missing:

* visible frame: labels, inverted colours, the pointer (`return_cursor`). They
  change what a picture contains and not which part of the screen it shows;
* reader application: which control has the focus, layout, texts, when a message
  is on top of the start screen, the power-off settings. `exc_message` is shared
  by the two threads without a lock; the models have which message is shown, not
  its bytes;
* password: the salt, the dialog on the terminal, the file's permissions, line
  ends (a file of nothing but line ends is outside the assumption on passwords);
* configuration: strings that are cut at 255 characters, descriptors that run out
  because failed connections leave theirs open;
* wire protocol: the commands under `CMD_EXTENTED`, which are not compiled.

Not modelled at all: requests to the X server, pixel operations of a library,
drawing on the reader, statistics, fonts, paths and build files. They are input
and output and have no state that another component relies on. Also outside the
models: the contents of a pixel beyond its colour's identity, time (delays
between frames, timeouts of labels), memory that runs out, and the layout of
integers in bytes.

What could come next, in this order: the pointer and the labels in `Control`
(with `ControlProofs` extended); a `Daemon` whose exchanges are the
fields of `Handshake`, in place of one step that succeeds or fails.
