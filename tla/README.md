# Verification of RetroArch: the parts where several actors meet

TLA+ models of the parts of RetroArch whose correctness depends on the order in
which several actors act: threads, peers of a network game, callbacks, and rings
that wrap around. Each module is a translation of the C code named in its header
comment; `PROJECT.json` maps each definition to source lines. TLC checks the
models on small instances, and TLAPS proves theorems about seven of them for
every value of their constants.

## The system and its parts

RetroArch is a frontend for emulators ("cores"). One main thread runs the loop
in `retroarch.c`: poll input, run the core for a frame, show it, run due
background work. Around it:

| Part | State | Operations | Used by / interacts with | What is hard |
|---|---|---|---|---|
| **Task queue** (`libretro-common/queues/task_queue.c`) | two linked lists, per-task flags, four locks, a worker thread, the current implementation | push, check (gather), cancel, reset, wait, find, retrieve, init, deinit | all background jobs push; main delivers callbacks; a handler and a callback may push again; loading content re-initialises it | interleaving of worker and main around lists that are unlocked while a handler runs; replacement of the implementation under way; lost wakeups |
| **Message queue** (`libretro-common/queues/message_queue.c`) | a heap of pointers, `ptr`, a kept message | new, push, pull, clear | run loop, under one lock | pointers above `ptr` go stale; unsigned durations; order of the heap |
| **Netplay socket buffers** (`network/netplay/netplay_buf.c`) | two rings with `start`, `read`, `end` | send, flush, receive, reset, flush of a command, resize | every netplay command | wrap-around; commands read in pieces and read again; blocking sends |
| **Netplay synchronisation** (`netplay_sync.c`, `netplay_delta.c`, the poll in `netplay_frontend.c`, commands in `netplay_io.c`) | a ring of frames with states and inputs; `self`, `run`, `other`, `unread`, `read[]`; reasons to stall | pre-frame, poll, commands INPUT, CRC, STALL, post-frame with rewind and replay | peers over the buffers; the core's savestates | guesses that turn out wrong, late and early input and checks, mutual waiting |
| **Netplay sessions** (`netplay_io.c`, `netplay_frontend.c`, end of `netplay_handshake.c`) | connections and their modes, devices and share modes, owed departures, stall timers, a savestate due | join, play, spectate, toggles of server and client, hang-up, timeout | synchronisation: who is waited for | MODE at agreed frames while commands cross, lost peers, slots used again |
| **Audio thread** (`audio/audio_thread_wrapper.c`) | five flags, one lock, one condition variable, the wrapped driver | init, start, stop, alive, free; the loop of the thread | main; the callback of the core | one condition variable for both directions; failures between steps |
| **Video thread** (`gfx/video_thread_wrapper.c`) | a command packet, a frame slot, `frame.updated`, three locks, two condition variables | send and wait for a command, hand over a frame, menu texture, overlay alpha | main and the video driver | commands racing frames; a flag that stands for a lock |
| **Rewind buffer** (`managers/state_manager.c`) | a ring of compressed patches with `head` and `tail`, the newest state whole | push, pop, init, deinit | run loop, which pushes every few frames and pops while the key is held | eviction at the wrap-around; a push after a rewind |
| **Autosave** (`tasks/task_save.c`, commands in `retroarch.c`) | a handle per content with `quit`, two locks, a condition variable; `runloop_autosave` | init, deinit, lock and unlock around frames, final save | a thread per handle; netplay and the menu start and stop it | the core writes the memory the thread copies; last writer of the file |
| **Byte queue** (`libretro-common/queues/fifo_queue.c`) | a ring of bytes | read, write, resize | audio drivers, recording | one spare byte |
| The rest (menu, configuration, database, playlists, cheats, achievements, HTTP, platform drivers) | tables, files, drawing | sequential | main thread or a task | little that interleaves |

The properties that make a part correct are listed with its module below. All
parts, modelled or not, are in `PROJECT.json` under `components`, and what can
go wrong at which line is under `hazards`.

How the modules relate: `SocketBuffer` shows that a connection loses and
reorders nothing, which `NetplaySync` and `NetplaySession` assume of their
channels. `NetplaySync` fixes who plays and models what is done with their
input; `NetplaySession` models who plays and keeps of an input only its frame.
`Autosave` composes the commands of `retroarch.c`, the frame and its replay by
netplay with the autosave threads. `TaskQueue`, `NetplaySync` and `RewindBuffer`
are each shown to implement a shorter specification of what they promise.

## Modules

### TaskLifecycle, TaskQueue, TaskQueueProofs, MCTaskQueue

`TaskLifecycle` is the promise of `task_queue.h`: a task is accepted, finishes,
is delivered once by the main loop and freed. `TaskQueue` is the code. A list is
a sequence; a critical section that takes no second lock is one action, and a
lock held across several actions is a variable naming its holder. `mpc` and `wpc` say
where main and the worker are: `WorkerFetch`, `WorkerHandler`,
`task_set_finished`, `WorkerReadFinished`, `WorkerRemove` and `WorkerRequeue` are
the sections of `threaded_worker`, `WorkerLockFinished`, `WorkerPut` and
`WorkerUnlockFinished` the put of a finished task; `RegularTake` and
`RegularHandler` are the regular gather; `Callback` and `CallbackReturn` are the
delivery, in which main may do whatever a callback may. What a handler does
(finish, push, ask to be called again) is a free choice, except that a cancelled
task finishes.

A callback that loads content re-initialises the queue in the middle of a gather,
also of one inside `task_queue_wait`. The locks main held are freed, and the rest
of that gather shares `tasks_finished` with the new worker while it holds no lock.
`GetUndisturbed` says when `task_queue_get` is one step all the same; otherwise it
is two, `GetFront` and `GetUnlink`, and what the worker links behind the last element
in between drops out of the list (`lost`, a history variable, as is `reinited`).
At its end this gather unlocks locks it never took (`GatherEnd`). That is
undefined, so `Unlocked` lets the mutex become free, under the worker too, or
refuse; where the worker unlocks a lock that was freed under it the same holds.
In `task_queue_wait` such a callback keeps the implementation: the only wait of the
repository (`frontend/drivers/platform_wiiu.c:421`) is of a build without threads.
`TaskLifecycle` has the hole this leaves in the promise as an action of its own,
`Lose`, possible only after `Reinit`, so that a loss anywhere else is a violation.

- `WorkerTaskIsFront`: the worker's task is still the first of the list when it
  comes back for it, so the branch of `task_queue_remove` that leaves `back`
  dangling is unreachable.
- `TaskInOnePlace`: no task is in two places.
- `CancelMissesOnlyHand`: a cancel or reset reaches every unfinished task but the
  one the worker has just unlinked and not put back.
- `ImplementsLifecycle`: refinement of `TaskLifecycle` through `phase`; in
  particular no finished task is lost before a callback has started a new worker.
- `FinishedIsDelivered`, `EveryTaskGetsItsTurn`, `CallsReturn`: delivery, fair
  turns and return of calls, except in the two hangs described under
  *Observations*: `FinishedIsDelivered` and `CallsReturn` name them
  (`<>[](DeinitHangs \/ ReinitHangs)`), and `FinishedIsDelivered` the lost task.

Proved but in no run: the worker's copy of `finished` is never stale
(`FinishedFlagAgrees`), deinit leaves every task in a list (`TasksStayOnHold`),
`task_queue_wait` misses only the task in the worker's hand
(`WaitMissesOnlyHand`).

### MessageQueue, MessageQueueProofs, MCMessageQueue

Addresses are numbers and `calloc` returns any free one, because `msg_queue_pull`
compares the pointers. Slots above `ptr` keep their old pointers. `SiftUp` and
`SiftDown` are the loops, as recursive functions. Properties: the slots in use
hold each allocated element once (`ElementsInUse`); a message that expired was
shown for exactly its duration (`ShownForDuration`); a push is ordered by priority
(`PushTakesTurn`). A duration of 0 is excluded from `ShownForDuration`: the code
decrements before it tests, and the comment it quotes does not hold then (see
*Observations*). Such messages are in the model, beside the others.

### SocketBuffer, SocketBufferProofs, MCSocketBuffer

A byte is its number in the stream, so loss, duplication and reordering are
visible. `snd` and `rcv` are `struct socket_buffer`, `net` is what the kernel
holds. A blocking send is several steps, as the peer goes on. Properties:
receive ring, kernel and send ring together hold exactly the bytes not yet
consumed, in order (`NoByteLost`); a command given up half read is read again
from its first byte (`ReadInOrder`); a receive fails only when more has arrived
than the ring can hold, wherever in the ring it lies (`HangsUpOnlyWhenFull`); a
blocking send returns while the peer reads (`BlockingSendReturns`).

### NetplayLockstep, NetplaySync, NetplaySyncProofs, MCNetplaySync

`NetplayLockstep` is the promise of `network/netplay/README`: one game, whose
frames are determined by everybody's input at that frame, and of which each
peer has seen some first part. `NetplaySync` is the code for peers that all
play with a joypad of their own. A frame of a peer is `netplay_sync_pre_frame`
(save the state, read and send the local input), any number of `cmd_input`,
`cmd_crc`, `cmd_stall`, and `netplay_sync_post_frame`, which stands for the end
of `netplay_poll` (latency, stalls), the run of the core and the function of
that name. Its loops are stated by what they compute: all frames from `other` on
are resolved again, the core replays from the first whose input changed, and
`other` moves to the smaller of `unread` and `run`. The state of the core is the
sequence of inputs it was run with, and its CRC is that state. A CRC of 0 means
"none" to the code and is not told apart from a CRC that happens to be 0. The
commands on the way are sequences per connection.

Properties: `ImplementsLockstep`, the refinement through the final frames of
each peer; `CrcsAgree` (no check of the state fails, whenever it arrives);
`InputsInOrder` (each player's input comes once per frame and in order, also
when the server forwards it, and the server never sends a frame it has not
reached); `PeersConverge` (no stall lasts, and all end in the same state).

Where the code would end a connection (input out of order) or give up the poll
(no slot for local input) the model has no step; `InputsInOrder` says that the
first does not arise, and `PeersConverge` fails if the second does.

### NetplaySession, NetplaySessionProofs, MCNetplaySession

Who plays. A frame of the server is `PreFrame` (the savestate due, the input of
the frame, departures due), any number of `RecvCmd`, and `EndPoll`, which goes
on or stalls; `StallOut` is the timer that hangs up on those blamed. The server
changes its own mode between frames or inside a stall, as the user can. A client
is one step per frame, `ClientFrame`: it reads everything there is, and the end
of its frame and the start of the next are one. That loses no behaviour: what a
client does depends on what it has read, and delay on the way to the server is
kept. The savestate sent to who joins, and the frames a client skips or replays
for it, are there as far as `read_frame_count` and `server_frame_count` move.
`hist` is history for the properties only: requests under way, input lost,
departures never told, connections closed by NAK.

- `DevicesExclusive`: a device that several peers hold is shareable, over any
  history of requests, departures and new owners.
- `OnlyKnownNaks`: no side hangs up on the other for a command it did not
  expect. Two cases are named as exceptions, both under *Observations*.
- `ViewsAgree`: a client that has read everything agrees with the server on who
  plays what, unless a departure is still owed.
- `RequestsAnswered`: a request to play gets a MODE or a refusal.
- `DepartureAfterInput`: a client learns that a player has stopped only after it
  has read that player's input up to the frame.
- `StallCanEnd`: a stalled server has someone to blame, so the timer ends it.

### AudioThread, MCAudioThread

Both threads over the one lock and one condition variable; `waiters` is the set
of threads inside `scond_wait`, a signal wakes any one of them, and wakeups may
be spurious. The wrapped driver may fail to initialise and its writes may fail.
Properties: a blocked thread is quiet (`BlockedIsQuiet`), `FreeReturns`,
`StopOfPlayingReturns`, `StartedPlays`.

### VideoThread, VideoThreadProofs, MCVideoThread

Main and the thread that owns the driver. A command is
`video_thread_send_packet`, then `video_thread_wait_reply` until the reply is
there; the thread's loop is `LoopTop` (take `cmd_data` and `frame.updated`
together), `HandlePacket`, `HandleNone` or `HandleReadViewport`,
`video_thread_reply`, then `UpdateTexture`, `UpdateAlpha`, `Draw`, `FrameDone`.
`frame.lock` is held exactly in the drawing states. A frame of main hands its
picture over (`Accept`), drops it because the last one is not drawn yet
(`Drop`), or waits some time before it decides (`FrameTimed`).

- `CallIsAnswered`: a command is a synchronous call, run once, although the
  thread reads the packet on every turn and the reply lies in it until main
  clears its type.
- `PictureIntact`: no picture is overwritten between hand-over and drawing,
  although main copies it without `frame.lock`.
- `ShowsLatest`: when the thread is done the screen shows the core's last
  picture unless that one was dropped.
- `CallReturns`: commands, the wait for the menu's frame and free return.

### RewindPatch, RewindStack, RewindBuffer, RewindProofs, MCRewind

`RewindPatch` has the pure functions: `state_manager_raw_compress`, which writes
runs of changed words between skips, and `state_manager_raw_decompress`, which
applies them, with the width of a 16-bit word as a constant so that runs and
skips split at its limits. `RewindBuffer` is the ring; a `size_t` is one cell.
`RewindStack` is the promise: a stack of savestates that may forget its oldest,
never its newest, and gives each back as it was. Properties: every patch undoes
every change (`PatchesUndo`); the largest patch fits behind the head
(`NextPatchFits`), as `push_do` writes it unchecked; the ring implements the
stack (`IsStack`).

### Autosave, AutosaveProofs, MCAutosave

A handle is a record with the place of its thread; `main` says where the main
thread is, and `cont` what it does after `autosave_deinit`. The SRAM is one
value, `Torn` while the core writes to it. Commands between frames
(`AutosaveCommand`, `NetplayInit`, `LoadContent`, `CloseContent`, ...) and a
frame (`BeginFrame`, perhaps `ReplayLock` and `Replay` by netplay, `EndFrame`)
are main's; `CheckQuit`, `Copy`, `OpenFile`, `WriteFile`, `CondLock`,
`CondWait`, `Timeout` are the thread's.

- `FinalSaveStands`: the save made when the content is closed is the last.
- `NoCopyInFrame`: the thread never copies SRAM while the core runs a frame.
- `NoSelfDeadlock`: netplay's replay, inside a frame, never takes a lock the
  frame holds (the mutexes are not recursive).
- `SignalArrives`, `DeinitReturns`: the signal of `autosave_free` is not lost,
  and the join returns.

## Runs

| Run | Bounds | Shows |
|---|---|---|
| `taskqueue` | 3 tasks, one blocking and loading content, two HTTP transfers of one URL; 2 reconfigurations | all properties of `TaskQueue`, safety, refinement and liveness |
| `deinit_lost_wakeup` (violation) | 2 tasks | `task_queue_deinit` may never return: the worker tests `worker_continue` outside the lock, then sleeps after the signal |
| `messagequeue` | 5 messages, queue of 4, 3 priorities, durations 0 and 2 (`UIntMax` 2), all addresses | all properties of `MessageQueue` |
| `socketbuffer` | rings of 3 and 5 bytes, pieces of 1, 2, 4, kernel holds 2, 5 bytes | all properties of `SocketBuffer` |
| `audio_thread` | none: the whole state space | all properties of `AudioThread` |
| `netplay_sync` | server and client, 3 frames, the client's input latency 0 or 1, checks every 2nd frame | `CrcsAgree`, refinement and liveness |
| `netplay_forward` | server and two clients, 2 frames, checks every 2nd frame | forwarding (`InputsInOrder`) |
| `netplay_session` | server and 2 clients, 1 device, 4 frames, `MaxStall` 2, 2 joins, departures, crashes or changes of mode | all properties of `NetplaySession` |
| `video_thread` | 2 pictures besides the first: the whole state space | all properties of `VideoThread` |
| `rewind` | blocks of 4 words, skips and runs up to 2, rings that hold none, two and three patches of maximal size | all properties of `RewindBuffer` |
| `rewind_small_buffer` (violation) | the same, a ring of 25 cells | the tail follows a pointer that was never written |
| `autosave` | 2 handles, 2 contents in turn, 2 values of the SRAM | all properties of `Autosave` |

Why these bounds are enough for the cases that matter:

- *Task queue.* Two tasks make a list with a front and a rest, a task in the
  worker's hands while another is pushed, finished or cancelled. The third is
  there for the gather after a callback started a new worker: one task in its
  callback, one finished and about to be unlinked, one being put. Two
  reconfigurations go from one implementation to the other and back. The safety
  part is proved for any number of both.
- *Messages.* Four slots give a heap of three levels, so sinking can go wrong at
  an inner node, and the fifth message meets a full queue. A message of
  duration 2 is pulled in between others, and the unsigned wraps at 3, so that a
  message of duration 0 stays in front of the rest for some time.
- *Socket buffers.* Five bytes wrap in a ring of three; four bytes are
  more than a ring holds, so the send becomes a direct, blocking one; both rings
  are resized while wrapped.
- *Netplay synchronisation.* `MaxStall` is 2 instead of 60, so a peer runs ahead
  until it must stall; the client's ring is used up by frames 0 to 4. Every player
  presses an input of its own, so the first guess (zero) is wrong and every
  frame is replayed in some behaviour. `StallAhead` and the limits of requested
  stalls are scaled down with it. Three frames allow a replay of two. With two
  clients the server receives input before and after it has come to its frame.
  Frames after the bound get input zero and are never run.
- *Netplay sessions.* Both clients are connected and one has asked to play. Two
  events are enough for a departure and another's arrival in the same slot, a
  toggle forth and back, or a crash of one player while the other leaves; one
  device is where requests meet: the server wants it alone, the first client any,
  the second this one, both to share. `MaxStall` 2 lets a server stall in frame
  3. With `MaxLag` 0 the server reads in a poll what has arrived; commands of a
  client are late because the client is, and those to a client wait until its
  frame.
- *Video.* Two pictures tell the one handed over from the one dropped.
- *Rewind.* With 16-bit words cut to `U16` 2, four words split runs and skips.
  The capacities are one too small for any patch, one that wraps after each
  frame and one that keeps several.
- *Autosave.* One handle may be left behind by a session (see *Observations*)
  while another is made.

Fairness:

- *Task queue.* Main goes on inside a call, calls `task_queue_check` every frame,
  and the worker goes on; each gets a lock that the other releases again and
  again (strong: the other holds the lock between, so the step is enabled again
  and again but not continuously; main calls other things between two checks).
  Nothing is assumed about spurious wakeups or about handlers of tasks that are
  not cancelled.
- *Socket buffers.* A blocking send spins on the socket; the peer polls every
  frame. Weak.
- *Netplay synchronisation.* The frontend goes on running frames (weak). What is
  sent arrives while some poll is still reading (strong: commands are handled in
  polls only, which come again every frame).
- *Audio and video thread.* Both threads are scheduled (weak); the timer of the
  paced wait runs.
- *Autosave.* Both threads are scheduled (weak). `autosave_free` gets `cond_lock`
  (strong: the thread holds it for an instant only and leaves it free for the
  whole interval it sleeps, which is seconds).
- *Netplay sessions* has no fairness: its properties are invariants. `StallCanEnd`
  is the invariant form of "a stall ends", since the timer needs only someone
  to blame.

Deadlock is checked but in two runs: in `taskqueue` a callback that re-initialises
the queue can block both threads for ever (the known hang), and in
`netplay_session` frames end at `MaxFrame`.

## Findings and observations

Two runs show a violation, with the comment they contradict quoted in
`PROJECT.json`: `deinit_lost_wakeup` (`task_queue.c:447`) and
`rewind_small_buffer` (`state_manager.c:580`).

Met while modelling, and present in the models, as named exceptions of a
property or as behaviour no property excludes:

- *Task queue.* A callback that loads content re-initialises the queue while
  gather holds `property_lock` and joins a worker that needs it
  (`task_netplay_find_content.c:102`, `task_queue.c:368`). When the join does
  return, gather goes on with the list the new worker appends to
  (`task_queue.c:138`, `:482`) and holds none of the new locks: when
  `task_queue_get` has read that the last finished task has no successor and the
  worker links one before `queue->front` is written (`:128`), that task is lost,
  its callback never runs and it is never freed. (If main goes on to free the task
  before the worker writes `queue->back->next`, the write is to freed memory; the
  model has only the loss.) The gather ends by unlocking the new worker's
  locks (`:377`). Cancel and reset miss the task in the worker's hand
  (`task_queue.c:352`).
- *Messages.* `msg_queue_pull` compares pointers, so after a message expired
  the next one need not have the highest priority (`message_queue.c:217`). A
  message of duration 0, which a core may send (`retroarch.c:6578`), does not vanish
  at once but is returned 2^32 times (`message_queue.c:198`).
- *Socket buffers.* With the receive ring full, `recv` is asked for 0 bytes and
  its answer is taken for the end of the stream (`netplay_buf.c:256`).
- *Audio.* A stop before the thread's first wait, or after a failed write, is
  never acknowledged (`audio_thread_wrapper.c:74`, `:129`).
- *Netplay sessions.* The input a leaving player had sent ahead of the server
  reaches nobody (`netplay_io.c:321`, `:698`). A player that began to watch and
  left before its frame came is never reported (`netplay_io.c:200`). The server
  that starts to play while stalled sends a MODE for a frame whose input it has
  sent, and every client hangs up (`netplay_frontend.c:1384`). When a player ahead of
  the server leaves untold and its slot is taken again before the server comes to
  the frame, what is left of its input is forwarded as the new player's
  (`netplay_io.c:323`; this one is not in the model). A client that is to play from
  a later frame marks the frames before as captured, but the mark is lost when a
  slot of the ring still has an older frame, and input is sent early
  (`netplay_io.c:1333`); the server ignores it. A client that
  asks twice before the answer is refused with NAK. The request for any device,
  with the only one shared, is not answered (`netplay_io.c:836`). Blame for a
  stall is set only when it begins (`netplay_frontend.c:444`): if the one blamed
  leaves and another is gone too, the server waits for good.
- *Autosave.* Changing the interval while the content's SRAM is not saved
  leaves a thread behind (`retroarch.c:1804`). Loading a state takes no lock. A
  failed write is not tried again until the SRAM changes, and the file is
  truncated in place. Autosave does not come back when a peer hangs up; a failed
  connect leaves netplay enabled.
- *Rewind.* REWIND_DEINIT is refused in hardcore mode (`retroarch.c:21902`).
  When `state_manager_new` fails, the push after it runs on NULL
  (`state_manager.c:648`).

## Proofs

Safety for every value of the constants, from the named assumptions of each
module only.

**TaskQueueProofs**: `TypesHold`, `WorkerTaskStaysFront`, `NoTaskInTwoPlaces`,
`NoStaleFinishedFlag`, `DeinitKeepsTasks`, `WaitMissesAtMostOne`,
`CancelMissesAtMostOne`, and `TaskQueueRefinesLifecycle`: every step is a step of
`TaskLifecycle` or a stutter. The inductive invariant is

    IInv == TypeOK /\ ThreadsAgree /\ FinishedLocked /\ WorkerTaskIsFront
              /\ TaskInOnePlace /\ FinishedFlagAgrees

None of the parts is inductive alone. `WorkerTaskIsFront` needs
`TaskInOnePlace`, else unlinking might remove another occurrence;
`TaskInOnePlace` needs `WorkerTaskIsFront` to know that the worker's task leaves
the list when it comes into its hands, and `ThreadsAgree` to know that main does
not run handlers while a worker exists; `FinishedFlagAgrees` needs both to know
that the flag of a task is set by the one thread that has it. `ThreadsAgree`
relates where main is to the current implementation, who may be in the middle of
a push, and says that only accepted tasks finish. `FinishedLocked` says that until a
callback starts a new worker each thread holds `finished_lock` where it uses
`tasks_finished`, so that a get in two steps, and with it a loss, comes only after.
The proof has one lemma per
action that moves a task (`WorkerRemoveStep`, `CallbackStep`, ...); all others are
handled by `ControlStep` through `Unmoved`: what is unchanged stays true. Three
lemmas say what `Head`/`Tail`, `Append` and `Reverse` do to the set of elements
of a list without duplicates. For the refinement, `OneMoves` reduces a step that
changes the phase of one task to a step of `TaskLifecycle`, and `Unseen` is a step
that changes none. A task counts as lost from the moment the worker links it behind
a task that main has already read as the last (`Doomed`), as nothing can save it
then; a put is therefore a step of one task (`WorkerPutPhases`) and the unlinking
that drops it a delivery of the other (`GetUnlinkPhases`). The missing of a task follows because the worker's hand is the only place that is no list.

**VideoThreadProofs**: `CallsAreSynchronous`, `PicturesStayIntact`,
`LastPictureIsShown`, by

    IInv == TypeOK /\ Calls /\ Pictures

`Calls` splits a call into `Asked`, `Running` and `Answered` and says, for each,
what lies in the packet and where the thread may be. The important part is in
`Answered`: the thread is not at its top with a frame to draw while main has yet
to clear the packet, which holds because `LoopTop` takes the flag and the packet
together and the frame is finished before the next turn. `Pictures` says that
`updated` is set from the hand-over until the picture is drawn, and what the
screen shows when it is not.

**AutosaveProofs**: `NothingAfterFinalSave`, `ReplayLocksOnce`,
`SignalIsNotLost`, `FrameExcludesCopy`, by

    IInv == TypeOK /\ OneStarted /\ FreesHandle /\ NoneInNetplay /\ FinalSaveStands

`OneStarted`: a handle made for a content whose SRAM is saved is the one in
`autosave_state`, is locked in frames, and is gone before the final save.
`FreesHandle`: during `autosave_free`, what the thread can still do, by the step
main is at. `NoneInNetplay`: netplay runs without a handle, so a replay has
nothing to lock twice.

**NetplaySyncProofs**: `ChecksNeverFail`, `InputsComeInOrder`, and `PeersInLockstep`,
the refinement of `NetplayLockstep`: whatever is guessed, replayed, delayed and stalled, each peer
makes final, in order, the frames of the one game in which every input happens at
its frame. It holds for any finite number of clients, any sets of inputs, and
input latencies, rings and bounds of any size the assumptions allow. The invariant
is

    IInv == Types /\ (\A p \in Player : PeerInv(p)) /\ ChanInv /\ ChecksPass

`Game(in, f)` is the game up to frame `f` by the history of inputs, and everything a
peer has is compared with it: a slot of a frame that is not final holds exactly the
inputs read of its frame and no other (`RealOf`), the state saved for a frame up to
`other` is the game's (`StateOf`), and so is a check of the server's kept in the
slot (`CrcOf`); every frame that is not final and of which an input was read has its
slot (`RingOf`), which is where the limits on how far a peer runs ahead come in; the
core was run with the game's inputs up to `other` and with what was resolved after
it (`CoreOf`); what is on the way to a peer is input that was given and states of the
game (`ChanOf`). `CrcsAgree` alone says nothing of what is still on the way, and a
frame can only be made final because the slots of the frames before hold what was
read of them. The invariant is stated of values, not of the variables, so that
each lemma about a part serves the state before and the state after a step. One
lemma per action (`PreFrameStep`, `InputStep`, `CrcStep`, `StallStep`,
`PostFrameStep`) puts together what the part lemmas say: reading (`RingReads`),
saving (`RingSaved`), running (`PostRuns`), replaying (`PostReplays`, by the
states of the slots in turn) and what becomes final (`PostFinal`). For the refinement,
`HistoriesAreGames` shows that the final frames of every peer are those of the
game, and `StepIsLockstep` that a step appends the next ones or stutters.

`InputsComeInOrder` needs a second invariant, `Flows`: for peers `p` and `q` and a
player `c`, `Sent` is how many inputs of `c` peer `q` has sent on to `p`, by what it
has read and, for the server, how far its own frames have come; what is on the way
is of the frames from those `p` has read up to that number, each once and in order.
Which of the two ways an input takes at the server is in `Sent`, so that the step
that comes to a frame and the step that forwards at once each add exactly the next
(`Joins`, `FlowOn`), and a command taken is the head (`FlowTail`). That none is left
out, as `InputsInOrder` says it by counting, is the pigeonhole principle
(`FlowCounts`).

**MessageQueueProofs**: `ElementsStayInUse`, `ShownAsAsked`, `PushesTakeTurn`, for
queues of any size, any priorities and durations, and addresses in any order. The
two loops are recursive functions; `SiftUpRises` and `SiftDownFalls` show that
each is the function its equation describes, and what it returns
(`SiftUpResult`, `SiftDownResult`) follows by looking at the least, or greatest, slot
at which it could fail. The invariant

    IInv == Typed /\ SlotsOf(heap, elems, ptr - 1) /\ Messages

has the slots in use hold distinct elements, and of each message how often it was
returned and what is left of it add up to its duration, which `ShownForDuration`
needs while the message is there. The delicate step is a pull: the loop may look at
slot `ptr`, one beyond the last, where the pointer moved to the root still is;
`Fallen` says that no exchange brings it back, since a pointer is not less than
itself.

**NetplaySessionProofs**: `SharedDevicesAreShareable`, `NaksAreKnown`,
`ViewsStayInAgreement`, `RequestsGetAnswers`, `InputComesBeforeDeparture`,
`StallsCanEnd`, for any number of connections and devices and sessions of any
length. The first has an invariant of its own, `DevicesInv`: devices move only by
grants and returns, `GrantedIsShared` says that what is granted is free or shared
and meant to be shared, `FewerDevices` covers the rest. The other five follow from

    IInv == Types /\ Roles /\ (\A c \in Client : PeerInv(c))
              /\ OnlyKnownNaks /\ StallCanEnd

The difficulty is that what a client knows lags behind, by commands that are still
on the way and mean different things depending on those before them. `PeerInv(c)`
therefore speaks of `Polled(c)`, what the client will be once it has read all of
them. `Follows` says that this client expects the frame the server sends next, sees
every player with the devices it has or is owed its departure, and has read as much
of its input as the server. `Sends` says that it plays only if the server takes its
input, that what it has sent, and what it will send, comes in the order of the
frames (what it may send early, before the first frame the server wants, is of
frames the server has read: `Skips`), and that a server that takes its input will get it or a SPECTATE. `Talks`
says the same of the commands to the server, and that a client that asks only when
it has its answer has one request or one answer on the way. `Complete` says of each
departure on the way that the input of the player is read before it. And a client
that is to hang up on the server does so only after a late start of the server.
None of this is inductive alone: `OnlyKnownNaks` at the server needs `Talks`, which
needs what `Sends` says of a client that has read its MODE, which needs `Follows`
to know that MODE is for the frame the client expects.

A step of the server puts commands behind those on the way. What reading them makes
of a client that follows is said once for each command (`ReadInput`, `ReadJoin`,
`ReadDeparture`, ...), then for all input of a frame (`CurInputIsRead`), all
departures due (`DeparturesRead`) and a savestate (`LoadRead`), by `AfterAppend` and
`ReadsMore`: reading more goes on from what was read before. A step of a client
changes nothing of `Polled(c)` (`ClientFrameStep`), but for stopping to play while
commands are under way; there two clients read the same commands in parallel
(`AfterLikewise`). Of the others a step changes what `Knows` says of one player only.
`NextTypes` keeps the types, `NextIInv` has one lemma per action. After hang-ups, a
stall that goes on has someone left to blame or is recorded as the exception
(`HangupStalls`).

**RewindProofs**: `PatchUndoesAlways`, `PatchesUndoAlways`, `CompressFits`,
`NextPatchFitsAlways`, and `BufferIsStack`, the refinement of `RewindStack`, for
savestates of any size up to the limit in `SizeAssumption`, any `U16` and any set of
savestates.

`compress` and `decompress` are compared through what is in memory. `Form` says
which of the three records starts at word `i` (`IsLast`, `IsLong`, `IsRun`), as the
equation of the recursive function has it (`PatchForm`), and `Contents(mem, p, r)`
that record `r` lies at cell `p`. `DecodesOne` reads one record (`ReadLast`,
`ReadLong`, `ReadRun`) and leaves what it has written equal to the old block from
word `i` on; `DecodesAll` goes on to the end. That a run never reaches the words
behind the block rests on `DifferGuarded`: three equal words follow the last, then
one that differs. `CompressFits` counts words: what is left
of the savestate from word `i` on takes a patch of at most `AnyBound` words. This is
not inductive, as a run that ends before its counter is full would cost two
words more than it may; but it ends before two unchanged words, which the next
record skips, and behind them less is enough (`SameBound`).

The ring gets addresses that grow from tail to head (`At` maps them to cells), so
that the frames are intervals in a row (`IsRing`), fewer than the cells
(`FewFrames`). `RingOf` says that the frames hold, one after the other, the patches
between savestates `B[0]`, ..., `B[N]`. The invariant

    RewindInv == /\ loaded \in Saved
                 /\ inited => /\ thisblock_valid \/ loaded = thisblock
                              /\ \E N, B : HoldsStates(N, B)

says that the buffer holds some such row, with `thisblock` the newest, or is too
small for any patch and holds one savestate. `IsStack` is not inductive, as it says
nothing of where the frames lie; and that the patch at the head undoes to the right
savestate needs all the older ones to lie undisturbed. `PopOne` takes the newest
frame back. `PushRing` goes with the code: the tail retreats until there is room
(`TailLeavesRoom`, with `RecheckIs` for the loop), the patch and its pointers go in
the way of no frame that is left (`OutOfTheWay`, `FrameStays`), and the row is the
old one without its oldest `j` and with the new one on top (`Forget`, `Extend`).
`HoldsStack` shows that `stackOf`, which decompresses patch by patch, returns the
row, and `PushImplements`, `PopImplements`, `NewImplements` and `FreeImplements` that
each step is one of `RewindStack`, or a stutter: a pop with nothing left, and a push to a
buffer too small for any patch.

The last two theorems suppose `RoomForTwo`: a buffer has room for no patch of
maximal size or for two of them. The code does not see to that; it is what the
finding `rewind_small_buffer` is about, and with one cell less than two patches
(the 25 cells of that run) TLC finds all three of `FramesLinked`, `NextPatchFits` and
`IsStack` violated.

**SocketBufferProofs**: `NoByteIsLost`, `ReadsInOrder`, `HangsUpWhenFull`, for
rings of any size, pieces of any length and whatever the kernel holds. A ring is
taken apart into numbers (`Buffer`: size, array, start, read, end), and
`Holds(m, d, s, u, n)` says that the `u` bytes from offset `s` on, around the edge,
are those of the stream from number `n` on. The lemmas say what the operations do
to that: `WriteBytes` (a `memcpy` behind the end), `PutHolds`, `AfterSendHolds`,
`FillHolds` (the two calls of `recv`), `Shorten` and `ResizedHolds`. The invariant

    IInv == Typed /\ (alive => \E us, ur \in Nat : Connected(us, ur))

says that receive buffer, stream and send buffer hold consecutive pieces, `ur` and
`us` bytes of them in the rings, that the read offset lies as many bytes behind the
start as the command has got, and that nothing is in the send buffer while a piece
goes to the socket directly. `NoByteLost` alone is not inductive: it does not say
where `read` is, nor that `end` keeps away from `start`. `FillFails` goes through
the two ways `netplay_recv` can fail.

### Only model-checked

- Liveness (`FairSpec`) of every module, which the prover does not reach.
- `BlockedIsQuiet` of `AudioThread`, which has no constants and finitely many
  states: TLC's search of them is complete, and a proof would say no more.
- `FramesLinked`, which the code violates.

## What is not modelled, and why

- *Task queue:* properties of a task other than finished and cancelled (title,
  progress, error) carry no control. Allocation does not fail.
- *Message queue:* the size query, and re-translating the texts.
- *Socket buffers:* `netplay_recv` with `block`, which no code of the repository
  asks for; two directions at once. Two peers that block in a send at the same
  time are a hazard without a property. Others without one, each with its reason in
  `PROJECT.json`: the order of messages after one expired, a stop before the audio
  thread's first wait, the nested frame of a viewport read, and the request of a
  shared device that is not answered.
- *Netplay, input:* slaves, several players of one device, keyboards, savestates
  and resets a player asks for, pause, cores without savestates, and the pace of
  catching up. A server that plays never catches up, as it has always read its own
  input.
- *Netplay, session:* the messages of the handshake before SYNC with passwords and
  relays, slaves, pausing, input latency, stalls a client asks for, and a send
  buffer that is full (`SocketBuffer` has that one). Input that outlives its
  player (see *Observations*): what the server forwards is read off from
  `read_frame_count`, not from `have_real`. The check of the size of an INPUT
  (`netplay_io.c:994`), which both sides compute from the same devices but for
  that case; and `device_clients` of a client, which keeps an old device after a
  departure nobody was told of: the view compared is its `client_devices`.
- *Audio thread:* the sound itself; the wrapper of `audio_thread_write` is
  modelled by whether it fails.
- *Video thread:* calls that go to the driver directly, fonts and texts, and the
  values of the viewport: they do not pass between the threads in a way a property
  here tells apart.
- *Rewind:* the frame loop of `check_rewind` with its hotkeys, granularity and
  audio is present by the calls it makes; the clamp of skips above 8 GB
  (`state_manager.c:295`) is out of reach of a small instance.
- *Autosave:* loading and saving of states and files by tasks.
- The parts listed as `not_modelled` in `PROJECT.json`: tables, files, drawing,
  parsers and thin layers over the platform.

## Plan

1. *Socket buffers:* both directions of a connection composed, for the mutual
   blocking send.
2. *Netplay:* pause, reset and requested savestates in `NetplaySync`; slaves and
   several players of a device.
3. *Byte queue* of the audio drivers, and the commands around rewind that may
   leave a ring behind (`retroarch.c:21902`).

## Running

    tlc -config MCTaskQueue.cfg MCTaskQueue
    tlapm TaskQueueProofs.tla
