# Unipoint: a TLA+ model of the touch-pad daemon and its client library

Unipoint drives a small touch pad.  A daemon reads frames of finger positions
from an input device, recognises taps, swipes and pointer movement, turns them
into key and motion events on a virtual (uinput) device, and keeps a *mode*
(none, normal, volume) that gestures toggle and that Android clients read and
set over a local socket.  The client side is a C library under JNI, a service
and a few applications.

The model takes the control of the code as it is, every guard, early return and
assignment, and abstracts the data: a finger position is *contact c, frame n*, a
gesture is its type, a message is its kind and the mode in it.

## 1. Inventory

| Component (source) | State | Operations | Hard behaviour | What makes it correct |
|---|---|---|---|---|
| Touch processing (`process.c`, `initialization.c`) | `gprocessMode`, `gcentroidHistory` and its index, `grunningFrameCount`, `lookAheadBuffer`, `gpointRawLast`, `ggestureFeatures` | one call of `process()` per frame, finger on or off, in six modes | three counters that every case keeps in step; a history at its limit; the hand-over to the look-ahead buffer | history, counters and buffer belong to the contact at hand; a report fits the length of the contact |
| Recognizer (`recognizer.c`) | the features of one contact | `centroidFilterHistory`, `classifyGesture` | turns, standstills, ties, windows at the ends, integer halves, rounding of angles, a learned tree with holes | the features are those a definition over the whole contact gives; every contact gets a class, and one that does not contradict the movement |
| Mode machine and dispatcher (`statemachine.c`, `event_handler.c`) | ring of gestures, `bexceeded`, `gCurMode`, `wait_double_tap_timeout` | a frame from the device or the replay file, the poll timeout, a rejected read, SETMODE | wrap-around, reset, a timeout against the next frame, a mode set by another thread | the ring implements a memory of three gestures; a waiting click stands for two taps and is resolved |
| Socket server (`socketserver.c`) | `clientSock`, send buffer, `gCurMode`, `statechanged` | accept, recv, GETMODE, SETMODE, reply, close; notification from the event thread | two threads and no lock; a byte stream read into a buffer that keeps its old content; a client that goes | replies belong to requests; a request sets the mode it names; the client is told of a switch, and not of a stale mode |
| Client library (`libunipoint/`) | `connectedsocket`, `connected`, `loop`, `currentcmd`, `retfromDaemon`, mutex, condition variable | `getcurrentmode`, `setmode`, `reConnect`, the receive thread | shared result, a wait without timeout or loop, overlap of old and new connection | a call returns, and with its own answer; one thread receives; the end is noticed |
| Input device (`event_dev.c`) | a buffered stream over the device node | `event_dev_open`, `event_dev_get`, `event_dev_close` | framing by counting eleven events; a buffer behind `poll()`; lost events; a device that is removed | a frame is a packet; nothing readable hides from `poll()`; the read does not block |
| uinput (`uinput.c`) | file descriptor | set-up, write, syn, destroy | set-up that fails half way; writes that fail are ignored | a key that is pressed is released; the device is destroyed |
| Start-up, shutdown (`main.c`, `event_loop`, `socketthread`) | `do_event_loop`, `clientSock`, descriptors, the event handles | two threads, SIGINT handler, set-up, teardown | handler against threads; threads that block in `accept()`, `recv()` and `poll()`; descriptor numbers that are reused | the daemon ends and leaves nothing open, and nobody closes another's descriptor |
| Ballistics (`ballistics.c`) | none | acceleration curve | floating point | not modelled |
| Android service, activity, dialog (`UnipointJavaService/`) | copy of the mode, listeners | binder calls, notification, periodic check | get-then-set, copy against daemon | planned |
| Example and demo applications, test client | none of their own | | | not modelled |

Interaction: `event_dispatcher()` (event thread) calls `process()`, then
`StateMachine_process()`, then `event_send_gesture()`; a switch calls back into
the socket server, which sends a notification on the connection that the socket
thread owns.  The socket thread writes `gCurMode` directly.  On the client's
side binder threads send and wait, one receive thread reads and signals, and the
service may reconnect from a thread of its own.

`PROJECT.json` lists the hazards line by line, with the properties that cover
them.

## 2. Modules

| Module | Models | State | Actions |
|---|---|---|---|
| `TouchProcess` | `process()`, `initialize()`, the history part of `recognizer.c` | the globals of `process.c`, the caller's two outputs, and the finger (contact, sample) | one per mode and finger state: `IdleOn`, `IdleOff`, `DebounceOn`, ... `BallisticsRunOn`, `BallisticsOff`, and `OtherFinger` |
| `TouchProcessProofs` | its theorems | | |
| `ModeSwitch` | abstract: a memory of the last three gestures and a mode | `mode`, `recent` | `Frame`, `Gesture`, `SetMode` |
| `ModeMachine` | `statemachine.c`, `event_send_gesture`, the loop of `event_dispatcher` | the ring, mode, waiting click, keys held down, clock | `DeviceFrame`, `ReplayFrame`, `DoubleTapTimeout`, `RejectedRead`, `SwtichToNewMode`, `Tick` |
| `ModeMachineProofs` | its theorems, the refinement among them | | |
| `SocketServer` | `socketserver.c` with the racing part of `checkAndSwitchMode` | both threads' program counters and locals, the digit left in the receive buffer, the shared variables, the connection | `E...` event thread, `S...` socket thread, `C...` client (external) |
| `SocketClient` | `socketclient_interface.c` and the JNI guards | the library's globals, callers, receive threads, the sockets, the daemon | `C...` caller, `R...` receive thread, `Reconnect...` service, `D...` daemon (external) |
| `Lifecycle` | `main.c`, set-up and teardown of `event_loop`, the frame of `socketthread`, `uinput_gen_setup`, `event_handles_init/free` | program counters of main, handler and both threads, the descriptor table, the numbers kept in locals, the flag, `clientSock`, the event handles | `Spawn...`, `Join...` main; `Interrupt`, `H...` the signal and its handler; `E...` event thread; `S...` socket thread; the device node and the client (external) |
| `EventDev` | `event_dev.c` and the `poll()` before it | the kernel's queue, the stream's buffer, the events of this read, the last frame, the device's presence | `Poll`, `Refill`, `Copy`, `event_dev_get`, and `event_dev_getShort` for a read that fails; `Send...` and `Unplug` the device (external) |
| `Recognizer` | smoothing, directions, histogram, closures, decision tree of `recognizer.c`; composes `StrokeRuns` and `CoTrends` | the history, the scratch pad, the histogram, the features, the class | `Push`, `Turn` the contact; `Filter`, `Features`, `classifyGesture` |
| `StrokeRuns` | left-right runs and the trigger window of `centroidFilterHistory` | the positions so far, the variables of both loops | `Frame` and `Slide`, a pass of each loop; `Finish` |
| `CoTrends` | the co-trends of `centroidFilterHistory`, their half marks and order | the counters, the frames scanned, the slots | `TrendFrame` and `Scan`, a pass of each loop |
| `SocketServerProofs`, `SocketClientProofs`, `LifecycleProofs`, `EventDevProofs`, `RecognizerProofs` | the theorems about the module they extend | | |
| `MCFeatures` | both of them in one model for TLC, each moving while the other is at its start | | those of both |
| `FeatureProofs` | the theorems about `StrokeRuns` and `CoTrends` | | |

Abstractions to know:

* `TouchProcess` lets the classifier answer any class it has; which one it
  answers is the subject of `Recognizer`.  The frame rate is 90 per second, so the three
  durations are 3, 23 and 45 frames.  Positions are not numbers: the pair of
  contact and frame number tells which position of which contact a slot holds.
* `ModeMachine` takes a turn of the dispatcher as one step; the interleaving
  inside a turn is the subject of `SocketServer`, which leaves the events out.
  Of the events written to uinput it keeps the keys they leave down (`held`):
  a write that fails is ignored by the code, so a press or a release may be
  missing.  A movement presses no key, and the TAPHOLD press without a release
  is left out, as `process()` reports no such gesture.  `IsDoubleTap` has a path without a return
  value; the model takes it as "not 1", as the compiled caller does.
  A `poll()` interrupted by a signal changes nothing and is a stutter.
* In `SocketServer` `recv()` returns all that has arrived, and the server looks
  at what it begins with.  The buffer is never cleared and the client sends no
  terminating zero, so that behind a message lies what longer ones have left;
  of that only a digit behind a number matters (`left`), as `atoi()` reads on
  into it.  Numbers of one and two characters show the effect.  A send to a closed peer ends the process
  (`alive` becomes FALSE), the effect of an unhandled SIGPIPE.
* `SocketClient` fixes what POSIX leaves undefined, the destruction of a mutex
  or condition variable in use, to what the target's C library (KitKat's bionic)
  does.  `pthread_cond_wait` may return without a signal (`CSpurious`), and
  `close_clientsocket()`, which the service and the receive thread may run at
  the same time, is split at every access to what they share.  `alone` records
  that no other call has met a call, and that it was not woken without a signal.
  The FAILURE reply cannot reach the JNI callers, which check the value
  first, and is left out.
* `StrokeRuns` and `CoTrends` work on integer steps and take every pass of a
  loop as an action.  X is not smoothed, so `StrokeRuns` keeps positions and a
  sum of steps in a row is the difference of two of them.  The code slides the
  trigger window before it integrates the runs; the two loops share no variable
  but the positions, so the model may chain them the other way round and let
  `Frame` also choose the contact.  The reference definitions (`Starts`,
  `Distance`, `Longest`, `FirstFastest`, `Many`, `Where`), which TLAPS proves the
  loops to compute, are what `Recognizer` takes from them.
* `Recognizer` computes the smoothed Y with a recursive function and the sums
  with the folds of the community modules.  It keeps Y in units of 2^-16, the grid of a float between 128 and
  255, and rounds to the coarser grids above as a float does (half to even), so
  that the smoothing filter is exact; Y below 128 is outside the bound.  The
  length of a step is an integer root in sixteenths, the tangents that separate
  the bins have three decimals, and the sums of the co-trends are exact where
  the code's float sums may round at 2^-14: the enumerated contacts do not come
  that close to a threshold.  The finger has width 0, so its tip moves with its
  centroid.  The write past the histogram is kept in a bin of its own that the
  classifier does not read, as it does not belong to the array.
* `EventDev` knows an event by its packet and its place.  A lost event is one
  the kernel left out or a queue that ran over (it then reports SYN_DROPPED).
  The stream's buffer has the size `setvbuf` gives it, and a read into it
  takes what there is.  Once the device is removed every read fails, while what
  it has sent still wakes `poll()`; the turns that follow change nothing more.
* In `Lifecycle` the signal is delivered to the main thread, a new descriptor
  gets the lowest free number, a file is closed by the number kept for it, a
  `close()` does not wake a thread that waits in
  `recv()` on it, and a frame is served by one step.  The three steps of
  `closeclientsocket()`, test, close, forget, are separate, as the handler and
  the socket thread run it at the same time.

## 3. Runs

Passing runs (TLC, exhaustive):

| Run | Bounds | What it shows |
|---|---|---|
| `TouchProcess` | the code's own 3, 23, 45 frames and look-ahead 5; two contacts of up to 54 frames | history, counters, look-ahead and reports belong to the contact at hand; two contacts show every leak from one to the next, 54 frames fill history and buffer and run the pointer for several frames |
| `ModeMachine` | ring of 4, gestures TAP, DOWN and POINTER, up to 2 frames from a replay file, clock to 2 | `RefinesModeSwitch`, `WaitingClickIsDoubleTap`, `WaitingClickResolved`; a ring of 4 wraps within the windows, and the theorems take over for every size |
| `SocketServer` | two connections, two requests under way, one notification unread when a switch begins, GETMODE, SETMODE 0 and 21 | `RequestAnswered`, `RepliesFollowRequests`, also when two requests are read as one, `SwitchIsTold`, `NotifyIsNotStale`; the second connection meets what the first leaves behind, and 21 is refused and leaves a digit in the buffer. CMD_POLL, which is never answered, is in the model and covered by the theorems, not by this run |
| `SocketClient` | two callers with two calls, two receive threads, one attempt to connect; within one behaviour a notification and a close, spurious wake-ups and a close, or a reconnection (`FaultSets`) | `AnswerWhenAlone`, `OneReceiver`, `CloseIsNoticed`, `AloneCallReturns`; the two calls overlap in every way, or one follows the other, and the reconnection's steps overlap with the old thread's. All faults in one behaviour are too many for TLC; the theorems `AnswerCorrect` and `ReceiverCorrect` hold for every mixture |
| `MCFeatures` | 7 frames, steps -2..2, window 4 for `StrokeRuns`; 9 frames, the code's slope 10 for `CoTrends` | `LongestRun`, `FastestWindow`: the features equal a definition over the whole contact; `CountsPartition`, `SlotsInOrder`: each frame counts once, and the slots are in the order of the half marks |
| `Recognizer` | contacts from 3 to 44 frames of three segments, each at rest or moving by 30 or 60 along X or by 1 or 70 along Y for 1, 4 or 15 frames, from two places in X and two in Y | `Decided`, `StillContact` (a tap within the tap time, never a swipe up, down or left), `NotAgainstTheFinger`, `TapPeakIsOpposite`; the segments reach every leaf of the tree but one (the DOWN of `recognizer.c:473`), and contacts past the tap time |
| `EventDev` | the real 11 events of a packet and the kernel's 64, 9 packets, 2 losses, a device removed at any point | `InStep`, `NothingHeldBack`, `BlocksOnlyAfterLoss`, `PacketReported`; 9 packets overflow the queue, and a second loss meets a reader already out of step |
| `Lifecycle` | six descriptors, two clients, one SIGINT, every failure of set-up | `ClosesWhatItTested`, `CleanEnd`, `LittleLateWork`, `EndsWhenServed`; six descriptors are all that are open at a time, and the second client can get the first one's number |

Violation runs, each a line of the source that the code does not meet
(`findings` in `PROJECT.json` quotes it):

| Run | Statement | What happens |
|---|---|---|
| `TouchProcessStale` | `ClassifiesCurrentTouch` | a lift in the frame after the history became full is classified from an earlier contact's features |
| `SocketServerLostDisable` | `NoSwitchWhileDisabled` | a disable between test and toggle of the mode is overwritten |
| `SocketClientMixed` | `AnswerIsMine` | of two callers one returns what belongs to the other's call |
| `RecognizerBounds` | `HistogramInBounds` | a direction a hair below the horizontal becomes 360 degrees and is counted one bin past the array |

`CHECK_DEADLOCK FALSE` is used where the bounded environment may stop: all
calls made, all connections used, all packets sent, the process ended, the
contact classified.  `TouchProcess` and `ModeMachine` are checked for deadlock.

Met while modelling, present in the models, and not given a run of their own:

* `statemachine.c:166` "no mode switch allowed from user": gestures made while
  disabled stay in the ring and switch the mode in the first frame after a
  client enables the pad.  A click that waits is sent although the pad has been
  disabled meanwhile (`event_handler.c:402`).
* `process.c:137` "taps are not an option": a lift past the tap time is
  classified like any other, and a finger that has rested for 24 frames or more
  is a TAP (`StillContact` asks for a tap only within the tap time).
* The decision tree: a finger at rest beyond X 264 is RIGHT; in a contact of at most eight frames a first step of 40 or
  more, to whichever side, may be LEFT, because the trigger window begins at the
  second step (`recognizer.c:1060`, `:456`); a movement down whose half comes
  after three quarters of the contact is UP (`:434`); a fast stroke to the left
  that also rises by more than 430 is DOWN, as the closure has no sign (`:412`).
* `process.c:205`: the lift of a pointer contact reports POINTER_GESTURE with a
  movement that was never written (`event_handler.c:444`).
* `socketclient_interface.c:238`: a call that waits when the daemon closes the
  connection never returns, as nobody signals the condition variable.
* `socketclient_interface.c:274`: nothing sets `loop` to 1 again, so that after
  `reConnect()` the client is connected and nobody receives.
* After a lost event the frames stay out of step: one that begins with an EV_ABS
  of the middle of a packet is accepted with its values shifted
  (`event_dev.c:87`), and the read of a short packet blocks until the next
  packet, beyond the timeout of `poll()`.  `event_dev.h:24` speaks of twelve
  values and `event_handler.c:490` of ten.
* A SIGINT does not end the process by itself: `poll()`, `accept()` and `recv()`
  wait on, and a client that stays connected keeps the socket thread in its
  inner loop (`socketserver.c:206`).  Before `signal()` it kills the process.
* While the event thread still opens its files, a SIGINT or the close of a
  connection may make a second `closeclientsocket()` close one of these
  (`socketserver.c:63`).  The number is free between the close and the forget,
  and the next file gets it.
* Set-up that fails leaves things behind: the uinput device stays open
  (`uinput_teardown` is never jumped to), the directory and the sample file are
  never closed, and a failed `calloc()` leaves `handles` pointing to freed
  memory, which is freed again (`event_handler.c:162`, `:551`).
* `socketserver.c:158`: SIGPIPE is not handled, the daemon ends with its client.
* `socketserver.c:130` and `socketclient_interface.c:209`: messages that arrive
  together are read as one and all but the first are dropped.
* `socketserver.c:194`: CMD_POLL is not answered, although RET_NOCMD exists.
* `socketserver.c:259`: the notification reads the mode again, and after a
  SETMODE 0 in between it tells MODE_NONE, which `UnipointService.java:128` calls
  an error ("We should not get this mode notification").
* `socketserver.c:167`: after a SETMODE 21, which is refused, a SETMODE 0 is
  parsed as 01 and sets MODE_NORMAL, as the receive buffer keeps the 1.
* `socketclient_interface.c:373` "there should be return value": a caller that
  awakes after another one has written INITIAL_RET_VALUE (`:349`, without the
  mutex) returns -99.
* `socketclient_interface.c:348` says that the lock before the send makes the
  wait get its signal; two requests, or two answers, that one `recv()` reads give
  one signal, and one of two callers sleeps for ever.
* `socketclient_interface.c:370`: woken without a signal a call returns -99, and
  its answer is still to come, for the next call to take.  A call also gets -99
  when `reConnect()` meets it.
* `socketclient_interface.c:357`: a failed send returns with the mutex held, so
  that later calls block, and so may the receive thread, which then does not
  notice the end of the connection (`Leaked` in `CloseIsNoticed`).
* `socketserver.c:242`: a client that is accepted between the test of
  `clientSock` and the send is told of a switch from before it, and one still in
  the backlog is told nothing.
* `event_handler.c:229`: writes that fail are ignored, so that a key whose
  release fails stays down until the next release of the same key.
* `event_dev.c:104`: once the device is removed the dispatcher polls and fails in
  a loop; only the SIGINT ends it.
* The receive thread of an old connection may close the new one.

## 4. Fairness and liveness

Liveness is checked by TLC only.

* `ModeMachine`: weak fairness of the poll timeout and of the replay file's
  next frame.  `poll()` returns after its timeout, and the file is read without
  waiting.
* `SocketServer`: weak fairness of the socket thread, and of the event thread
  once a switch has begun.  Both are runnable threads; a gesture need not come.
* `SocketClient`: weak fairness of callers within a call, of the receive
  threads, of the service once it is inside `reConnect()` and of the daemon's answers.
  Nobody has to call, and the daemon need neither notify nor close.
* `EventDev`: weak fairness of the reader; the device need not send.
* `Lifecycle`: weak fairness of main, of the handler and of both threads.  Since
  they may wait for ever, `EndsWhenServed` states what it needs of the outside
  in its premise: frames keep coming, the device node appears, and clients come
  and go.

## 5. Proofs

TLAPS proves, for every value of the constants the assumptions allow:

* `TouchProcessProofs`, from `FramesAssumption` (debounce takes at least two
  frames, and the swipe time exceeds the tap time by two), `LookAheadAssumption`
  (the buffer has at least four slots and fits into a full history) and
  `BoundsAssumption`: `TypeCorrect`, `HistoryCorrect`,
  `AssertionsHold`, `DelayLineCorrect`, `VerdictCorrect` and `MovementCorrect`.
  The safety invariants are not inductive one by one: the history's content
  needs the agreement of the counters, which needs the mode, and the delay line
  needs both at the hand-over.  The inductive invariant `IInv` is their
  conjunction with the types and with `MovementFromDelayLine`, which says where
  the last movement came from and yields the action property
  `MovementIsContinuous`.  The proof has one lemma per action.
* `ModeMachineProofs`, from `RingAssumption` (at least three slots),
  `TimeAssumption` and `GestureAssumption`: `TypeCorrect`, `WaitingClickCorrect`
  and `Refinement`, that the ring implements `ModeSwitch`.  The refinement mapping reads the three
  newest slots backwards from the index; `UsedSlots`, that every slot since the
  last switch holds a gesture, makes it inductive.  `PushRemembers` shows that a
  push is the abstract memory's shift also across the wrap, `SwitchTest` that
  the code's test is the abstract one.  A waiting click stands for a double tap
  because every step that changes the ring also settles the click.
* `SocketServerProofs`, from `ServerAssumption` (the commands and values are
  those of the protocol, the numbers have one or two characters): `TypeCorrect`,
  `RepliesCorrect` and `NotifyCorrect`, for any number of connections, of requests sent ahead and of
  notifications unread.  A notification is not stale because between the switch
  and the send every mode at hand was written by the switch or after it
  (`SwitchWritten`); counting replies needs to know that the server is on a
  connection the client has made (`Connections`), and the types which request is
  served (`ServedRequest`).
* `SocketClientProofs`, from `ClientAssumption`: `TypeCorrect`, `ReceiverCorrect`
  and `AnswerCorrect`, for any number of callers, calls and reconnections.
  `OneReceiver` rests on `Threading`, that only the first receive thread ever
  finds `loop` set.  `AnswerWhenAlone` follows the request of a lone call through
  its stages (asked for, on its way back, at the receive thread, stored): there
  is one of them at a time, for a caller that sleeps (`OneAnswer`), unless nobody
  will store a result again (`Over`).  While a lone call is under way the others
  are idle (`Apart`), and after it no command of its caller is left that the
  daemon could still answer (`Answered`).  Since only the first thread receives,
  and on the first socket while `loop` is set (`Looping`), a reconnection in the
  middle of a call ends its stages but mixes up none.
* `EventDevProofs`, from `EventDevAssumption` (a packet has at least three
  events, and the queue holds more than one): `TypeCorrect`,
  `NothingHeldBackCorrect`, `InStepCorrect` (an action property) and `BlocksCorrect`.
  The first two need only that a complete frame leaves less than a frame in the
  buffer; the others that, until a loss, the queue holds whole packets in order
  and the one before them is reported, buffered or delivered (`Lossless`); a read
  that ends reports the next packet or has failed for good (`ReadsNext`).
* `LifecycleProofs`, from `LifecycleAssumption` (at least six descriptors), for
  any number of clients and signals: `TypeCorrect`, which says that an open
  always finds a number, as one file of each kind and one client are open at a
  time (`Table`, with a pigeonhole lemma); `ClosesCorrect`, `CleanEndCorrect` and
  `LateCorrect`.  `Undisturbed` says what the number in `clientSock` may refer to
  at each place of the handler and the socket thread, and `Keeping` that a number
  kept for a file that is open is still its own.  The proof also showed an earlier
  form of `ClosesWhatItTested` to be too weak: between the close and the forget
  of the socket thread the handler may find a file of the event thread under the
  number of the client, and closed what it had tested.  The property now asks
  for a client connection, and its exception covers that close, too.
* `FeatureProofs`, about `StrokeRuns` from `StrokeAssumption` (a window of at
  least two frames): `RunCorrect` and `WindowCorrect`, for contacts of every
  length and steps of every size.  The invariant of the loop says which run of
  the contact is at hand, that the earlier ones have ended, and that each side
  keeps the latest of its longest (`RunAtHand`, `PastRuns`, `KeptRight`,
  `KeptLeft`); that of the window, that the kept one is the first of the fastest
  so far (`SlideOK`).  About `CoTrends` from `TrendAssumption` (the slope is a
  natural number): `CountsCorrect` and `SlotsCorrect`.  The invariant holds
  inside a pass, too: before the test of a trend at a frame, the trends that have
  reached their mark have their rank, and `nextSlot` is the next one
  (`SlotsNumbered`); it needs `CountsPartition` to know that a count never falls.
* `RecognizerProofs`, from `SensorAssumption` (a contact begins on the sensor, with
  Y of at least 128 and below 1024, where the grids of `Grid` hold; speeds and
  spans are natural numbers): `DecidedCorrect`, `StillCorrect`, `NotAgainstCorrect` and
  `TapPeakCorrect`, for contacts of any number of segments, of every speed and
  length.  The invariant `IInv` says that the scratch pad is the filtered
  contact, the histogram that of the pad, the class what the tree says, and of
  the features what the theorems need (`FeaturesOK`); its steps are short, and
  the work is in the lemmas about the operators:
  - sums: `SumFunctionOnSet` is a fold whose value for every set the provers
    cannot get by induction.  It is taken instead from the smallest set for which
    a claim would fail (`SmallestSet`, by cardinality, `LeastNumber`): the fold is
    defined on every finite set (`SumExists`), does not depend on the order
    (`SumAdd`) and is the sum over two parts (`SumSplit`);
  - the filter: `SmoothBetween`, that half of the last value and half of a new one
    not below it lie between the two also when they are rounded to the grid of a
    float, on each of its three grids, so that a Y that never falls is smoothed
    to one that never falls (`SmoothedRises`), and one that rests stays where it
    is.  That the last value is itself on the grid (`OnGrid`) makes it inductive
    along the frames;
  - the tree: `Sides`, that a closure over at least one frame is above a threshold
    or not, and one lemma for each part of the tree;
  - the tap peak: `Opposite`, that five bins around the opposite of a bin, wrapped
    at either end of the array, are five different ones and those seven to eleven
    bins away.

The bounds (`Max...`) occur in the assumptions only as natural numbers, so that
the theorems hold for every bound.

Only model-checked:

* liveness: `WaitingClickResolved`, `RequestAnswered`, `SwitchIsTold`,
  `CloseIsNoticed`, `AloneCallReturns`, `PacketReported` and `EndsWhenServed`; the prover does not reason about fairness.

Every other property of a passing run is a theorem.  The four violation runs
show what does not hold, so nothing is proved of their properties.

## 6. Not modelled

* Ballistics (`ballistics.c`): one floating-point function (tanh) without state.
* Of the recognizer, the code that is not compiled and the features that are
  stored for a log and that the tree does not read.
* Malformed lines of the replay file; a `pthread_create()` that fails.
* The command queue of the client library, which nobody calls.
* The Android service, its activity and the example application: planned.
* Demo applications and the command-line test client: no state of their own.

## 7. Plan

What is left, in this order:

1. The Android service: its copy of the mode against calls and notifications,
   and the periodic check that never reconnects (`UnipointService.java:87`); the
   get-then-set of the example application.
2. A composition of server and client over one byte stream, in place of the
   external client and daemon of the two modules.
