# chiaki-rust in TLA+

chiaki-rust is a remote play client for PlayStation consoles, a Rust port of
chiaki-ng. This directory models the parts of it that have a behaviour over time:
the transport (Takion), the key stream that protects it, the connection test and
the stream connection on top of it, what becomes of video, sound and input, the
session that starts and ends it all, the remote connection over PSN, and the
sessions and the console list of the user interface, and the registration of consoles
down to the settings file. The modules are checked with TLC on small instances.
Theorems about the reorder queue, the receive direction of Takion, the key stream, the
connection test, the stream connection, the session, the holes of a remote connection
and the registered consoles are proved with TLAPS for every value of their constants.

`PROJECT.json` is the index: which definition stands for which lines, what every
run checks, the mutants that show each property can fail, the hazards.

Paths are relative to `src/crates/chiaki-core/src/` unless they say otherwise.

1. [Inventory](#1-inventory)
2. [Modules and the code](#2-modules-and-the-code)
3. [Runs, bounds, results](#3-runs-bounds-results)
4. [Fairness](#4-fairness)
5. [Proofs](#5-proofs)
6. [Where code and text disagree](#6-where-code-and-text-disagree)
7. [What is not modelled](#7-what-is-not-modelled)
8. [Plan](#8-plan)

## 1. Inventory

### How the parts work together

    user interface (chiaki-ui)  pages, SessionManager, DiscoveryHandle, PSN
       |  new/start/stop, set_login_pin, goto_bed, controller state
       v                                        ^ events: LoginPinRequest, Connected, Quit
    Session (session thread) --- Ctrl (ctrl thread, TCP or RUDP) --- hole punching (PSN)
       |     Senkusha (one Takion of its own: RTT, MTU)
       v
    StreamConnection (run() on the session thread)
       |  owns Arc<Takion>; GKCrypt local/remote; video and audio receivers;
       |  feedback and congestion threads
       v
    Takion (receive thread, send buffer thread)
       |  data queue (ReorderQueue, u32), video queue (ReorderQueue, u16), send buffer,
       |  GKCrypt (key stream thread each)
       v
    UDP socket  <----->  console

    media thread (chiaki-ui) <- frames, samples -> decoder, AudioOutput, AudioInput (chiaki-media)

Threads talk in three ways: shared state under one mutex with a condition
variable (Session, StreamConnection, Senkusha, GKCrypt, FeedbackSender, the sample
rings), a stop pipe that interrupts a socket wait, and callbacks that run on the
thread that received something: Takion's callback is a function of StreamConnection
that runs on the Takion thread; ctrl events run on the ctrl thread; a found console
is reported on the thread that received its answer.

### Components

| Component | State | Operations | What is hard | What makes it correct |
|---|---|---|---|---|
| **Sequence numbers, reorder queue** (`seqnum.rs`, `reorderqueue.rs`) | begin, count, ring of (set, user), drop strategy | push, pull, peek, drop_at, skip_head | wrap-around at half the space; eviction arithmetic; slots that are set but empty | a packet lies under its own number; none is hidden or lost; only the oldest are evicted; the window never moves back |
| **Takion, control in** (`takion.rs`) | data queue, remote key, flag that the key was noticed | MAC check, sort, fire in order, DataAck, recheck of queued packets | loss, repetition, order, damage; packets queued before there is a key | reliable FIFO delivery; honest acks; nothing unchecked fired once the key is noticed |
| **Takion, video in** | postponed packets, AV queue, running gap wait | postpone, push, flush with timeout, skip | a timeout per gap, none left running, none missing | order; one timeout per loss; nobody stuck |
| **Takion, control out** (`takionsendbuffer.rs`) | next number, buffered packets with tries and time, resending thread | send_message_data, ack, take_expired_resends | number, key position, socket and buffer under separate locks; ack before add; overflow | nothing unacknowledged leaves the buffer unnoticed; the buffer drains |
| **Takion handshake, congestion, feedback** | handshake step; counters | INIT/COOKIE, send once | lost handshake packets | it ends, with success or failure |
| **Key stream and GMAC** (`gkcrypt.rs`) | ring of key stream (min, populated, start), last request, GMAC key and its index, KeyState | get_key_stream, decrypt, gmac, key stream thread, drop | chunk generated without the lock; ring start that wraps; 32-bit halves of a 64-bit position; late packets of an older GMAC key | the bytes are those of the position; near packets are accepted; the ring catches up; the thread ends |
| **Stream connection** (`streamconnection.rs`) | phase, state_finished/failed, should_stop, remote_disconnected, early STREAMINFO, holders of the Takion | run, stop, Takion callback, heartbeat | three threads around one condition variable; messages ahead of their phase; who drops the Takion | Connected means ready; true result; it ends; the receive thread does not outlive it nor join itself |
| **Session** (`session.rs`) | phase, quit reason, ctrl flags, PIN, session id | start, stop, set_login_pin, goto_bed, session thread | unlimited PIN wait; ctrl failing any time; stop in every phase; reasons that overwrite each other | Quit is last; PINs answer their prompt; stop and ctrl failure end it |
| **Ctrl** (`ctrl.rs`) | connection, message queue, PIN, session id, flags | connect, receive frames, drain queue, stop | its end races with the session thread; messages of a stopped session | part of Session's properties |
| **Video path** (`videoreceiver.rs`, `frameprocessor.rs`, `fec.rs`, `bitstream.rs`) | current frame and its units, last complete frame, reference frames, IDR wait, profile | av_packet, alloc_frame, put_unit, flush, FEC | flush of a frame after the header of the next profile; frame numbers that wrap; one IDR request for any number of losses | only whole or repaired frames go out, in order, with references the decoder has; a loss is reported; every unit is counted once |
| **Audio path** (`audioreceiver.rs`, `audiosender.rs`) | jitter buffer of eight frames, next index, playback started | store, deliver, conceal | packets that repeat earlier frames; 16-bit indices that wrap, and differ at the start | each frame index is played or concealed once, in order; nothing is held back |
| **Packet statistics, congestion control** | generation and sequence counters; one periodic thread | push, get, report | reset against concurrent push; wrap of the numbers | loss between 0 and what was sent |
| **Feedback sender** (`feedbacksender.rs`) | current and previous controller state, history, ring of 64 packets, thread | set_controller_state, flush, send, drop | the lock is released while sending | the last state arrives; one lost packet costs no event |
| **Senkusha** (`senkusha.rs`) | phase and ack like StreamConnection, search interval | RTT pings, MTU in and out by halving | late and repeated answers of an earlier size; an ack before its number is noted | the MTU found is the path's; it ends |
| **Registration** (`regist.rs`, `crates/chiaki-ui/src/pages/regist_wizard.rs`, `crates/chiaki-cli/src/regist.rs`) | per attempt: thread, stop pipe, result; the wizard's page and handle | search, pause, connect, request, answer; open, forward, back, register, close | stop during each wait; attempts that the wizard has left go on beside each other | each attempt ends with one event and its threads joined |
| **Settings: registered consoles** (`crates/chiaki-settings/src/settings.rs`) | list in memory, store, files, export | add, remove, rename, profiles, export, import, save, load | every save writes the whole list; saves that fail; imports and profiles; registration threads beside the pages | what the user registered stays, with the latest key |
| **Discovery** (`discovery.rs`, `discoveryservice.rs`, `crates/chiaki-ui/src/backend/discovery.rs`) | host list with the ping each was last heard at, a copy in the UI, events | ping thread, host_received, drop_old_hosts, callback, draw | removal while walking two lists; a page that is drawn only when addresses change; a receive thread that ends for good | a silent host goes, an answering one stays, the page shows the list |
| **Handshake cryptography** (`rpcrypt.rs`, `ecdh.rs`) | none | derive, encrypt | agreement with the console | test vectors of the repository |
| **RUDP** (`crates/chiaki-remote/src/rudp.rs`, `rudpsendbuffer.rs`) | counters, send buffer with own thread | send_recv with repetitions, messages of two threads, ack, resend | answers that come after their request was repeated; a counter read apart from being taken | late answers do not add up; an unacknowledged message leaves the buffer only in the ways the code has for it |
| **Hole punching** (`crates/chiaki-remote/src/holepunch.rs`), STUN, PSN | session state bits, notification queue, web socket thread, sockets | create, create_offer, start, punch_hole, cancel, drop | notifications consumed by type, out of order; repeated OFFERs; cancel in every wait | a hole is one both agreed on; no OFFER is lost; a cancel lets the thread past no further look at its flag and ends both threads |
| **UI session backend** (`crates/chiaki-ui/src/backend/sessions.rs`, stream page) | current session, pending hole punching, settings lock; per session: stop, done, media channel; Quit queue | connect, stop_current, stop thread, media thread, on_session_event, navigation | connects that overlap; the settings locked for seconds; Quits of old sessions | what is asked to stop ends with all of its threads; nothing after stop_done; one active session |
| **Audio devices** (`crates/chiaki-media/src/audio`) | two rings of samples with a drain thread; microphone: ring, frame accumulator, drain thread | push, drain, play; capture, cut, mute, drop | a level read before it is used; wake-ups beside a lock | order of the samples; threads that serve and end |
| **From frames to the screen** (`backend/sessions.rs` `VideoSlot` and `media::run`, `crates/chiaki-render`) | slot of 16 frames, decoder, super resolution, mailbox and textures of the sink, presenter | push, decode, upscale, submit, draw, device lost, rebuild, drop | three threads; a mailbox beside a message; a texture two devices write and draw; a device that goes | no older picture after a newer one; the newest frame gets to the screen on whatever path is left |
| **UI pages, decoders, input, other settings, CLI, virtual camera** | devices and windows | FFI calls, drawing, parsing | outside the repository | not a matter of protocol |

## 2. Modules and the code

| Module | Models | How to read it |
|---|---|---|
| `SeqNum` | `seqnum.rs` | `SeqHalf` is 2^7, 2^15 or 2^31; comparison is the signed half-space rule. |
| `ReorderQueueOps` | `reorderqueue.rs` | The operations as operators on a record [begin, count, slots]; also used by the Takion modules. The two loops are closed forms. |
| `ReorderQueue` | one queue and its callers | One action per call: PushPacket, PullHead, PullNothing, DropAtOffset, SkipGap. `call` records what went in and out. |
| `MCReorderQueue` | model values, the loops | RECURSIVE copies of the loops, compared with the closed forms on every queue reached. |
| `MessageChannel` | what a Takion direction promises | Abstract: Send, Deliver, Forget. |
| `TakionData` | control messages in | HandleData is the handler with the flush; Recheck is the pass over the queue when the key is noticed; the console and the network are external. |
| `TakionAv` | video packets in | Flush is `takion_av_queue_flush_with_timeout`; FlushPostponed hands on one postponed packet, at its own time; time is in ticks. |
| `TakionSend` | control messages out | TakeSeqNum, SendPacket, AddToBuffer are the three locked steps of `send_message_data`; WakeUp, Scan, Resend the thread; HandleAck the receive thread. |
| `KeyStream` | one GKCrypt with its receiver | Prepare and Publish are the thread before and after the unlocked generation; Receive is MAC check plus the commit of the position; Decrypt comes later. A key stream byte is the position it belongs to. |
| `StreamConnection` | `run`, `stop`, the Takion callback, who joins the Takion | One action per critical section of the state mutex. |
| `Session` | session thread, ctrl thread, application | One action per critical section; Senkusha and StreamConnection::run are one step each. |
| `Senkusha` | the connection test | RunTest is run(), Deliver the callback; requests are numbered, an answer carries the number it was made for. |
| `Registry` | the registered consoles in the settings | A registration is its key. One action per operation of `Settings`, each with the save it ends in, which may fail. |
| `Registration` | attempts to register a console, the wizard, the command line | Passes and Ends are the waits of `regist_flow`, Store the callback that saves; Elsewhere is the settings page and a stream that registers its console. |
| `Connection` | the ways to a console: `Registration`; `Holepunch`; `Senkusha`, then `StreamConnection` | `way` says which of them moves. The stream connection starts with the outcome of the test. |
| `VideoPath`, `MCVideoPath` | video receiver, frame processor, packet statistics | Receive is av_packet under the state mutex with everything it calls; Congestion is the other thread. `log.faults` collects what the decoder should never be given. |
| `AudioReceiver` | audio and haptics packets | av_packet unit by unit; the jitter buffer is a set, since all that is under way lies within half the index space. |
| `AvPackets` | what the receive thread does with media | `KeyStream`, or `TakionAv` for video, or `AudioReceiver`. |
| `Rudp` | requests and messages of a remote ctrl connection | TakeSeqNum apart from the counter its ack will carry; the send buffer thread. A request ends with its answer, with its last try (WaitRunsOut), or at once with any other error (Fails). |
| `SendBuffers` | the two reliable layers | `TakionSend` or `Rudp`. |
| `Holepunch` | one hole for ctrl, one for data | Main is the connecting thread, WsThread the WebSocket thread; PSN and the console are external. TakeOffer sets the bit and AckOffer posts; Establish comes after the look at the cancel and before the next one (Reply). |
| `SessionManager` | UI thread, connect threads, stop threads, media threads | Attempt i makes session i; the core is what `Session` promises of it. |
| `FeedbackSender` | set_controller_state, history, thread | Decide is one round under the lock, SendState and SendHistory are without it, Relock writes `controller_state_prev`. |
| `AudioOutput` | decode ring, drain thread, device ring, callback | Samples are numbers; one drain step per lock. |
| `Microphone` | capture callback, ring, drain thread, mute, drop | "pop" is the drain thread with the lock of the ring, between its look at stop and its wait. Encode is one frame, which may fail. |
| `Discovery` | service thread, receive thread, callback, page | `silent` is the ping an answer was last seen at, as an age. |
| `Picture` | VideoSlot, media thread, render thread of the GPU sink, presenter | A picture is the number of its frame; Upscale, Write and SubmitRgba are one frame under super resolution, Look and Give the end of a pass; every call into FFmpeg, CUDA or Direct3D may fail. |
| `Client` | the six modules above that run beside the stream | One of them moves in a behaviour. |
| `Retain` | `Vec::retain` | What both send buffers take out with; a recursive function, since the proofs cannot expand SelectSeq. |
| `ReorderQueueProofs` | none | arithmetic of `%`; what each operation of `ReorderQueueOps` does to a queue of any packets; theorems about `ReorderQueue` |
| `TakionDataProofs`, `AvPacketsProofs`, `SessionProofs`, `SendBuffersProofs`, `VideoPathProofs`, `ClientProofs` | none | theorems about the module of that name; `AvPacketsProofs` about the three that `AvPackets` composes |
| `ConnectionProofs` | none | theorems about `Connection`: its registrations, stream connection, test and holes |

Composition: `TakionData`, `TakionAv` and `ReorderQueue` EXTEND
`ReorderQueueOps`; `TakionSend`, `Rudp`, `AudioReceiver` and `VideoPath` EXTEND
`SeqNum`; `TakionData` INSTANCEs `MessageChannel` under the refinement mapping
sent/fired/acknowledged. `AvPackets` EXTENDS `KeyStream` and `TakionAv` and INSTANCEs
`AudioReceiver`. `Registration` EXTENDS `Registry`, of
which it is a refinement. `Connection` EXTENDS `StreamConnection` and `Registration`, and
INSTANCEs `Senkusha`, whose end starts the stream connection, and `Holepunch`. `Session` contains both as steps with the results
they may have; `StreamConnection` contains the Takion as a thread that delivers
messages in order, which is what `ImplementsChannel` shows of `TakionData`;
`SessionManager` contains the session as what `Session` shows of it: it ends after
stop() and its Quit is its last event.

`AvPackets`, `SendBuffers`, `Client` and the three ways of `Connection` put modules side by side that share no
state. Interleaving such modules adds nothing but states, so that a behaviour moves
one of them; a variable that never changes says which.

Definitions marked "A plausible bug" are not used by the specifications. They
are the mutated forms that `PROJECT.json` substitutes to show that a property
fails when the code is wrong.

### What is abstracted

* Payloads: a message is a number or a kind; a PIN is the prompt it answers; a
  session id is where it came from.
* Cryptography: a MAC matches when both sides used the same position and key and
  nothing was damaged; a byte of key stream is its position.
* Time: ticks, or a timeout that may fire at any moment where the code's
  properties do not depend on how long it is.
* Sound: a sample or a frame is its number. Video: a frame is its slice kind, its
  reference and the units it is cut into.
* History variables (`call`, `abandoned`, `told`, `sentKinds`, `connected`, `log`,
  `news`, `since`, `heard`, `lost`, and the fired or acknowledged messages) record
  what happened and guard nothing.

## 3. Runs, bounds, results

Every passing run completes its state space. Numbers of distinct states are in
the last column.

| Run | Question | Properties | Bounds | States |
|---|---|---|---|---|
| `queue` | Does the queue keep every packet where it belongs under any calls? | InPlace NothingLost NeverBack ClosedFormsAreTheLoops | numbers 0..15, ring of 4, both strategies, two copies of each number | 146 k |
| `takion_data` | Is the receive direction a reliable channel, and what protects it from damage? | ImplementsChannel EverythingFired NothingDamagedFired | 5 messages from number 13 of 16, ring of 4, BANG is message 2, one damaged packet | 184 k |
| `av_packets` | Does every accepted packet get the stream of its position while the ring moves, does each gap in the video cost one timeout, and does sound keep its order? | RightStream RingIsStream NearAccepted RingCatchesUp SingleTimeout NobodyStuck SoundArrives | keys: blocks of 2, chunks of 2 blocks, 3 chunks, low half of 8, positions to 17, requests to 2, 1 pending; 6 video packets from 13 of 16, ring of 4, 3 units a frame, 2 postponed; 5 audio packets that repeat 2 frames, from the very first or across the turn | 298 k |
| `send_buffers` | Can any interleaving of senders, acks and resends forget a message? | NeitherForgets BufferDrains LateAnswersAreOutlived | Takion: 2 threads, 3 messages from 7 of 8, buffer of 2, 1 retry, 1 failing send. RUDP: 3 tries, 4 troubles, 4 messages across half the space, buffer of 3 | 722 k |
| `video` | Is the decoder only given what it can decode? | DecoderIsServed MissingIsReported UnitsCountedOnce | 4 frames across the turn, 2 profiles, with and without FEC | 805 k |
| `connection` | Does each way to a console end, and does it leave what it should: a registration that stays, holes both sides agreed on, the path's MTU, no Takion? | ConnectedMeansReady JoinedByRun RunEnds MtuIsThePaths HoleIsAgreed NoOfferLost CancelEndsBoth ProfileKept | sizes 4..7, 2 attempts, 2 troubles; 3 messages of 6 kinds in any order; each OFFER repeated once, by a console that then does not leave; 1 attempt of the wizard, 1 registration by a stream | 553 k |
| `session` | Does the session end rightly in every phase? | NothingAfterQuit PinsAnswerPrompts AskedEnds | 3 ctrl messages of any kind; direct, PSN, PSN with registration | 729 k |
| `client` | Do input, sessions, sound, pictures and the console list survive their threads? | InputArrives ConsoleFollows NothingAfterDone StopCompletes SoundInOrder DrainsServe ConsolesFollow NeverBack PictureFollows | 3 changes of 2 keys, 2 lost packets; 2 attempts, one over PSN; 11 samples through rings of 8; 7 captured in frames of 2; 3 consoles, list of 2; 3 frames, 2 of them intra, through a slot of 2 on every path | 201 k |
| `session_manager_one` | finding | AtMostOneActive | 2 attempts | violated |
| `microphone_drop` | finding | DropEnds | 3 samples | violated |
| `picture_lost` | finding | LostFallsBack | 2 frames, D3D11 | violated |
| `registry_import` | finding | RestoresIfPresent | 1 console, 1 key, no export | violated |

Why the bounds are enough to be interesting:

* **Wrap-around.** All numbers start close to the end of their space, and the
  queue run has a space four times the ring, as small as keeps "half a turn away"
  apart from "in the window". The low half of the key position turns over twice, so that late packets from before a turn and early ones from after it
  both occur, and GMAC keys (every 5 positions) change in between.
* **Full buffers.** A ring of four meets five or six packets; the history packets of
  the feedback sender queue in a ring of one; pushes of nine samples meet a ring of eight, captures of three one of four, the third console a list of two; the send buffer
  holds two of three; the key stream ring of three chunks (the least that has
  a start which is neither 0 nor the end) is outrun, slid and skipped.
* **Retries.** As many troubles as tries, one less and one more: a search for the
  MTU that can and cannot be outlived, a request over RUDP that runs out of tries by late answers.
* **Interleaving.** Two senders and the three library threads are all that
  `send_message_data` can meet; session and ctrl thread and the application are
  all there are.
* **Registrations.** An attempt, the settings page and a stream register the same
  console with keys of their own; list, store, file and export may all differ. An
  instance with two attempts of the wizard (424,660 states, one export) was checked
  once for ProfileKept, without fairness.
* **Messages.** Three control messages suffice for: early, in its phase, and one
  too many; and for two PIN prompts with a session id between them.

What bounds exclude: more than one postponed key stream request and more than
one retry. Both are cases the code treats by repeating what the model does once.

CHECK_DEADLOCK is off where the system legitimately stops: after the Quit event, when
everything has been sent and acknowledged, or while a user may leave a PIN prompt
unanswered. In `queue` it is on.

### What the properties mean

* **InPlace, NothingLost, NeverBack.** A packet is found under its number only and no
  slot outside the window keeps one; each call accounts for every packet it had; the
  window does not move back. `ClosedFormsAreTheLoops` ties the closed forms used
  everywhere else to the loops as written.
* **ImplementsChannel** is refinement: over a network that loses, repeats and
  reorders but damages nothing, each step of the receive direction is a step of `MessageChannel` or
  a stutter. **EverythingFired** is the liveness half. Of a network that also
  damages both say nothing; there, damaged packets do not reach the callback once the key was noticed
  (**NothingDamagedFired**).
* **SingleTimeout** is the claim of the code's comment that a burst of losses
  pays one timeout; **NobodyStuck** that no packet waits behind a gap for ever.
* **SoundArrives** (HeardInOrder and NothingHeldBack of `AudioReceiver`). The sink gets each index once, in order, with
  its own frame or concealed; after playback has started nothing stays in the jitter
  buffer between packets.
* **NeitherForgets**: what the console does not have yet with all before it is
  still in the buffer or on its way into it. The formula allows these exceptions: its send
  failed; the buffer refused it (Takion logs that and tells the caller that it was sent,
  RUDP returns the error); it was given up after its tries with all older ones; in RUDP, a
  message of an unknown type took it out, once the counter is beyond half its space. What
  cannot happen is that an acknowledgment or a scan takes it out early, also when two
  threads read the counter after each other's messages.
  **LateAnswersAreOutlived**: a late answer costs a later request a try; a request
  runs out of tries only if as many answers were late, in all requests, or lost or with
  less data than asked for, in this one, as there are tries. An error that is no timeout (of the socket, or a
  datagram of 8 bytes at most or one that does not parse) ends a request at its first try; of that it says nothing.
* **DecoderIsServed** joins four: frames are whole or repaired and in order, their
  references were decoded, they come under the header of their profile, and no P
  slice is decoded while an IDR frame is awaited. **MissingIsReported**: every frame
  since the first decoded one was decoded or reported. **UnitsCountedOnce** ties the
  statistics of two threads to the packets.
* **ConnectedMeansReady** would break if a flag of one phase survived into the
  next, or if a STREAMINFO that came before its phase ended the phase before.
  **RunEnds** covers a stop, the console's DISCONNECT and a console that is silent.
  It contains AttemptsEnd of `Registration`: an attempt ends and is joined whatever the
  console says, also after the wizard has left it.
  **JoinedByRun** is about who drops the last `Arc<Takion>`. **MtuIsThePaths**: no
  answer to another size is believed, and the search ends at the limit of the path if
  the troubles cannot use up the attempts.
* **PinsAnswerPrompts**: the user is asked no more often than the console asks, and no
  PIN of a former prompt reaches the console for a later one. **AskedEnds**: a stop,
  and a failing ctrl thread, end the session in every phase, also in the PIN wait that
  has no time limit.
* **RightStream** spans three moments (the packet is accepted, the ring moves,
  the payload is deciphered) and two threads.
* **ProfileKept.** Whatever attempts, the settings page, exports, imports, profiles, failed
  saves and restarts do to each other, each registration the user made is in the list
  the pages show and in the file, unless the list went astray; which happens only when a file of another profile is imported or
  the deletion of a profile fails, and the file of the open one then has all of it.
* **HoleIsAgreed, NoOfferLost, CancelEndsBoth.** The OFFER answered
  is the one for this hole though OFFERs are repeated. An OFFER is queued until its
  hole takes it; once the bit says that it was taken, it is answered or that is the next thing
  the connecting thread does, while the WebSocket thread, which reads the bit, may answer a
  repetition first. After a cancel the connecting thread passes no further look at its flag, and
  both threads end in every wait; a cancel that comes between the last look and the
  bit of the established hole does not prevent that hole.
* **InputArrives** (StateSettles and NoEventForgotten of `FeedbackSender`),
  **ConsoleFollows.** No change is swallowed by
  comparing with a state that came while the lock was open; one lost packet costs no
  key event; repeated states win over loss.
* **NothingAfterDone, StopCompletes.** After stop_done, at which the process may end,
  nothing of the session runs or speaks; a session that was asked to stop gets there
  with all of its threads, and the Quit queue empties although the UI thread waits for
  settings that a connecting thread holds.
* **SoundInOrder, DrainsServe.** Through two rings and the hands of a thread nothing is
  overtaken, repeated or lost, apart from what full rings and muting throw away and frames
  that cannot be encoded; no lost wake-up leaves samples lying.
* **NeverBack, PictureFollows** (of `Picture`). Three threads hand pictures on through a
  slot, a mailbox, two textures and, after the device is lost, another way to the screen:
  no older picture comes after a newer one, and when the stream pauses its newest frame
  is shown unless a call that may fail took it. A lost device is no such excuse for
  pictures in memory.
* **ConsolesFollow.** An outdated page is drawn again, a console leaves the list only
  after its silence, and when all are silent the page becomes empty.

Stated in the modules and not run, because a proof covers them (section 5): the type
invariants of `ReorderQueue`, `KeyStream`, `TakionData`, `StreamConnection` and `Session`,
OnlyOldestEvicted, RecheckSparesConsole, FiredInOrder (of `TakionData` and of `TakionAv`),
WaitingIffBuffered, ResultHonest, StreamNeedsSession. And because others say more: the other
type invariants, DropEnds of `KeyStream`. They hold.

## 4. Fairness

Only what the program or the operating system provides is assumed:

* **Threads run.** Weak fairness of each thread's own steps. Every wait in the
  code is either timed or woken by a condition variable that is notified under
  the same mutex; a step is enabled only if the wait is over, so weak fairness
  claims no more than that a runnable thread runs.
* **Timed waits end.** `wait_state_timeout` and the socket waits have limits; a
  timeout may come at any time and comes some day.
* **A call of stop() comes to its end** once it was made (`Session`, `StreamConnection`:
  the stop pipe interrupts the receive loop). Nobody has to make it.
* **TakionData**: the console repeats what was not acknowledged, and a message
  repeated for ever gets through some day. This is assumed for the undamaged network
  only (strong fairness of Receive, written with its guard), and
  used only for EverythingFired. The repetition is the console's, external; the code
  relies on it, having no request for missing messages.
* **TakionAv**: time passes and the thread runs. Nothing has to arrive.
  `AudioReceiver` and `VideoPath` have safety properties only.
* **TakionSend**: time passes and the send buffer thread runs. Acks may all be lost.
  `Rudp` has safety properties only.
* **Connection**: the thread of run() goes on and its waits end; what the network has
  taken and not lost arrives.
* **Registration**: the threads of an attempt go on, and each wait has a limit. No answer is
  assumed, nor that anybody stops or leaves anything.
* **Holepunch**: both threads, the drop and a cancel go on. Waits for PSN end by their
  limits, which are 30 s to 3 min.
* **SessionManager**: every thread goes on, a core that was asked to stop ends (which is
  AskedEnds of `Session`), a queued Quit is taken. The user has to do nothing.
* **FeedbackSender**: its thread, whose wait ends after 200 ms. **AudioOutput**: its
  drain thread, whose wait ends after 20 ms. **Microphone**: the callback finishes its
  push, the drain thread goes on unless it waits, the drop goes on. **Discovery**: the
  ping thread, and the UI thread takes events and draws. **Picture**: the media thread and
  the render thread go on, the window is painted, a stop drops the sink.
* **Not assumed**: that the user enters a PIN, that the console answers, sends
  anything or ends the stream, that a drop happens, that sound is pushed, captured or
  played, that the receive thread of the discovery lives.

## 5. Proofs

Proved for every value of the constants, checked by `tlapm`:

| Theorem | Says |
|---|---|
| `ReorderQueueProofs!TypeCorrect` | `SpecQueue => []QueueTypes` |
| `ReorderQueueProofs!AlwaysInPlace` | `SpecQueue => []InPlace`: in the window under its number, and no slot outside it set |
| `ReorderQueueProofs!NothingIsLost` | `SpecQueue => NothingLost`: each call accounts for every packet |
| `ReorderQueueProofs!NeverMovesBack` | `SpecQueue => NeverBack` |
| `ReorderQueueProofs!EvictsOnlyOldest` | `SpecQueue => OnlyOldestEvicted` |
| `TakionDataProofs!DataTypes` | `Spec => []TypeOK` |
| `TakionDataProofs!DataIsAChannel` | `Spec => ImplementsChannel`: the refinement of `MessageChannel`, over a network that damages nothing |
| `TakionDataProofs!DamageIsCaught` | `Spec => NothingDamagedFired` |
| `TakionDataProofs!AlwaysInOrder` | `Spec => []FiredInOrder`, over a damaging network too |
| `TakionDataProofs!RecheckIsSparing` | `Spec => RecheckSparesConsole` |
| `AvPacketsProofs!KeyTypes` | `Spec => []TypeOK` |
| `AvPacketsProofs!RingAlwaysStream` | `Spec => []RingIsStream` |
| `AvPacketsProofs!AlwaysRightStream` | `Spec => []RightStream` |
| `AvPacketsProofs!AlwaysNearAccepted` | `Spec => []NearAccepted` |
| `AvPacketsProofs!PaysOneTimeout` | `SpecAv => SingleTimeout` |
| `AvPacketsProofs!FiresInOrder` | `SpecAv => []FiredInOrder` of `TakionAv` |
| `AvPacketsProofs!WaitsForTheMissing` | `SpecAv => []WaitingIffBuffered` |
| `AvPacketsProofs!SoundIsWhole` | `SpecAv => []SoundArrives` |
| `ConnectionProofs!StreamTypes` | `Spec => []TypeOK` of `StreamConnection` |
| `ConnectionProofs!StreamIsReady`, `AlwaysReady` | `[]ConnectedMeansReady`, of `StreamConnection` and of `Connection` |
| `ConnectionProofs!StreamIsJoined`, `AlwaysJoined` | `[]JoinedByRun`, of both |
| `ConnectionProofs!StreamIsHonest` | `Spec => []ResultHonest` of `StreamConnection` |
| `ConnectionProofs!MtuIsRight` | `SpecAll => []MtuIsThePaths` |
| `ConnectionProofs!RegistryKeeps` | `RegistrySpec => []ProfileKept` |
| `ConnectionProofs!FlowImplements` | `FlowSpec => RegistrySpec`: registering implements the settings |
| `ConnectionProofs!FlowKeeps`, `AlwaysKept` | `[]ProfileKept`, of `Registration` and of `Connection` |
| `ConnectionProofs!HolesAreAgreed` | `SpecAll => []HoleIsAgreed` |
| `ConnectionProofs!OffersAreKept` | `SpecAll => []NoOfferLost` |
| `SessionProofs!SessionTypes` | `Spec => []TypeOK` |
| `SessionProofs!NothingFollowsQuit` | `Spec => []NothingAfterQuit` |
| `SessionProofs!PinsAlwaysAnswer` | `Spec => []PinsAnswerPrompts` |
| `SessionProofs!StreamHasSession` | `Spec => []StreamNeedsSession` |
| `SendBuffersProofs!SendTypes` | `SpecEither => [](TypeOK /\ Remote!TypeOK)`: of `TakionSend` and of `Rudp` |
| `SendBuffersProofs!NothingIsForgotten` | `SpecEither => []NeitherForgets`, of Takion and of RUDP |
| `SendBuffersProofs!LateAnswersDoNotAddUp` | `SpecEither => []LateAnswersAreOutlived`, about running out of tries |
| `VideoPathProofs!VideoTypes` | `Spec => []TypeOK` |
| `VideoPathProofs!TheDecoderIsServed` | `Spec => []DecoderIsServed` |
| `VideoPathProofs!TheMissingIsReported` | `Spec => []MissingIsReported` |
| `VideoPathProofs!EveryUnitIsCounted` | `Spec => []UnitsCountedOnce` |
| `ClientProofs!InputIsKept` | `SpecClient => []InputArrives` |
| `ClientProofs!DoneSessionsAreQuiet` | `SpecClient => NothingAfterDone` |
| `ClientProofs!SoundKeepsItsOrder` | `SpecClient => []SoundInOrder` |
| `ClientProofs!ScreenNeverGoesBack` | `SpecClient => NeverBack` of `Picture` |

Type invariants and action properties that no run checks are there because the others
rest on them, or because they come out of the same induction.

**ReorderQueue.** Assumptions: `SeqHalf` is a positive natural
(SeqHalfAssumption); the ring has at least two slots, is smaller than half the
number space and divides it (QSizeAssumption: the code's rings and number spaces are
powers of two); the mark for an empty slot is no packet (ElementsAssumption). InPlace
quantifies over offsets of the window and is not inductive: an operation that moves the
window needs to know where each packet is, whatever the offset. The invariant `QueueInv ==
QueueTypes /\ Tidy(queue, NumberOf)` says it slot by slot: a packet in slot k has its flag set, its
number leads to slot k, and the number lies less than `count` behind `begin`.

The lemmas about the operations hold for any set of packets and any
function that numbers them, since `TakionData` uses the queue with packets of its own.
TidyPush, TidyDropFirst, TidyDropAt and TidySkip say that an operation keeps Tidy; PushHolds,
DropFirstHolds, DropAtHolds and SkipHolds what it holds and gives back; PushEvicts what
a full queue evicts; RunIs, DrainedIs and TakenIs what a run of packets at the front is
and what is left when it was pulled. All rest on IdxInjective: the numbers of
one window use different slots. The action properties follow from one statement about a
step (`Accounted`): it leaves a tidy queue, with what it gave back it holds what it held
and took, and its window is not behind the old one.

**TakionData.** Assumptions: those of the queue, and fewer messages than half the number
space (MessagesAssumption; the space is 2^32, and a session does not send that many). The
invariant is `TypeOK /\ Ordered /\ Checked /\ Exact`:

* *Ordered*: the window begins behind every message that was fired and ends before those
  the console has not sent; so a packet that comes late or twice has a number
  behind the window and is not fired again, and none that is on its way is taken for one half
  a turn ahead. It holds over a damaging network too.
* *Checked*: once the key was noticed, what is queued has been checked. The recheck is what
  establishes it, in the step that notices the key.
* *Exact*: over an undamaged network the messages fired are exactly those before
  the window, and what the console still repeats is everything behind some point of them.

`Handled` is the handler: the MAC check, the push (Pushed), the packets that come out
(PulledOut) and the ack. Each step then is a step of the channel or a stutter (StepImplements):
what came out is delivered in one Deliver, an ack that arrives forgets. This half of
refinement needs no fairness. EverythingFired does, and stays with TLC.

**KeyStream.** Assumption: KeyStreamAssumption (block, chunk, ring, number space and
refresh interval are positive naturals; nothing relates them, and nothing limits a
request). The
invariant is `TypeOK /\ Aligned /\ RingIsStream /\ Follows /\ Kept`:

* *Aligned*: populated and start are whole chunks, min a whole block. Without
  it a chunk could run over the end of the buffer when it is published, which the
  code's `copy_from_slice` does not expect.
* *Follows*: while a chunk is generated without the lock there is room for
  it and it continues the ring exactly. It is what carries the
  computation of `Prepare` over the unlocked stretch to `Publish`: requests in
  between change `last` only.
* *Kept*: pending packets were completed to their own position, and the GMAC
  key belongs to its index.

`PrepareKeeps` and `PublishKeeps` are the heart: sliding frees exactly the
chunk at start, skipping ahead empties the ring at an aligned position, publishing extends it by the
stream. RightStream follows from RingIsStream for a request inside the ring
(FromRingRight, with the wrap over the end of the buffer) and from
GenerateRight outside.

**Video packets.** Assumptions: VideoAssumption (the packets are fewer than half the number
space), QSizeAssumption and SeqHalfAssumption. The wait depends on a fact about the queue that
the queue does not state: a window that push and pull leave never ends with an empty slot
(*EndsSet*), since push extends it only to its packet, an eviction takes from the front and
drop_at is not used here. So behind a missing head there is always a packet to skip to, and the loop
of the flush ends after a second round at most. *Settled* holds between two datagrams: a wait is
running exactly when something is buffered, the head is missing, and the wait names that head. FlushIs
then says what a flush does with a wait for any queue: a head that moved on within the window is
serially later (OffsetIsLater), hence the wait goes on; a head that is there is handed on. For
FiredInOrder the window is placed among the packets of the console (*Before*); it moves forward
with each push, pull and skip, and all that was handed on is before it (*InOrder*).

**AudioReceiver.** Assumption: AudioAssumption (prefill at most the buffer, all frames within
half the number space). An index stands for a frame, and within half the number space the serial
order of indices is the order of frames (IndexIs, IndexOrder). The invariant `SoundInv` says that the jitter
buffer holds frames under their own index, at most as many as the prefill, none older than the next
one; that a buffer which plays is empty between two packets (*Emptied*), as the loop of frames ends
only when nothing waits; and that the last frame heard is the one before the next (*HeardLast*).
That nothing waits when the loop ends is a matter of counting: with the prefill reached and the
next frame missing the newest one is far enough ahead to conceal it (SlotsAreFew, NothingWaits).

**Registration.** Assumptions: each attempt has a key of its own (`1 .. Attempts + 1` is
in Keys; the set of consoles and the number of attempts are arbitrary), and Missing is
FALSE, that is, nothing is imported that was not exported; without this the finding
below is a counterexample. Type correctness and ProfileKept together are inductive
(`Kept`): RegisterKeeps covers whatever writes the list anew, over SaveKeeps, which
says what a save leaves on the disk; ImportsKeep and OthersKeep the rest. FlowStep shows
each step of `Registration` to be one of `Registry` or a stutter, so that ProfileKept
carries over without a second induction, and from there to `Connection` (AlwaysKept).

**StreamConnection.** No assumptions but a bound for the messages, of any size. What has to be
added is what each step of run() relies on:

* *StateOfStep*: the state is the one of the step, except after run() gave up. A message is
  therefore never taken for one of another phase.
* *FinishedMeansDone*: the flag that ends the wait of a phase is raised by its message only,
  when that has done its work; from a phase on, the keys are there, and from a later one
  the STREAMINFO.
* *HandlerLocks*, *HeldBySteps*: when the receive thread has the mutex or an Arc of its own,
  and who else holds the Takion at which step. JoinedByRun follows because the Arc of the
  receive thread lives inside one state in which run() holds another.
* *LeftBehind*: how far the teardown is at its last steps.
* *HonestSoFar*: what `result` holds on the way: the outcome of a wait until it is used, then the
  reason to leave. The idle loop is left for a stop or the console only, since in its state
  no handler raises the flag of a phase; ResultHonest follows.

`Connection` adds that the stream connection has not begun while the test runs (`AllInv`).

**Senkusha.** Assumptions: SenkushaAssumption, with `MtuMin + 1 < MtuMax` (the code's are 576
and 1454): with less between them the search is over before it begins. The invariant TestInv has the limit of the path between min
and max of the search (*SearchesRight*), what the first search found until the last step
(*FoundRight*), and why no answer can mislead it: the one awaited is for the last request
and that size passes (*AnswersMatch*), and a size that passes fails by troubles only, of which
each attempt has cost one (*TriesCost*). The result is the limit as long as there
were fewer troubles than attempts (`Exact`); otherwise it is at most the limit. HalveDoes
is the arithmetic of one halving.

**Holepunch.** Assumption: HolepunchAssumption (any number of repeated OFFERs, the console or
PSN may end the session or not). HoleIsAgreed is about the order of messages, so that the
invariant `HInv` is about everything on its way to the connecting thread, in order: the
queue, what the WebSocket thread has in hand, the socket (`Stream`). *Gone* says what of the
first hole cannot come any more when the second is punched; *InTurn*, that no OFFER
comes behind the RESULT that took ours, and one ACCEPT only; *Arriving*, why each
message was said. *Requests* tells the answers of the two holes apart by their ids, *Agreed*
and *Acked* say what the thread has at each step, *Offered* where an OFFER is. A step of the
WebSocket thread moves one message along Stream or drops one (WsKeeps), a wait takes one
out of the middle (AwaitKeeps), PSN and the console add one at the end (SaysKeeps).
The steps `TakeOffer` and `AckOffer` show best that the order matters: the bit is set before the
post, and between them the WebSocket thread answers repetitions on its own.

**Session.** No assumptions but a bound for the messages, of any size. *CtrlJoined*: every
way out that started the ctrl thread goes through the join, so that nothing is left to speak
when Quit is fired. *PromptsAsked* and *InOrder*: a PIN on its way is in one place, the
application, the session thread, Ctrl or the console, and of any two PINs the newer one is behind
the older one; *PinsRise* is what of it stays at the console. *SeenBefore*: which
messages of the ctrl thread the session thread has seen before it starts the stream.

**SendBuffers.** Assumptions: MessagesAssumption and RudpAssumption, fewer messages than half
the number space; for RUDP also that the counter starts in its lower half. Senders, sizes,
tries, losses and failing sends are arbitrary. The invariants say where a message may be.
Takion (`TakionInv`): a sender has one in its hands exactly from its number to the buffer (*Busy*),
an ack tells of a complete row (*Confirmed*), and each message is in such a row, in the
buffer, in somebody's hands, or among the exceptions (*Kept*). RUDP (`RemoteInv`): a message is kept under its
counter or under one that another thread made since (*Keyed*), and for that reason
an ack never covers a message that the console does not have with all before it (CoversKeyed).
Both buffers are emptied by a filter and the Takion one by a scan that takes out while it
walks: RetainedIs and the lemmas of Scanned follow the two recursive functions by the least place at which
a claim fails, which is induction without an operator for a parameter. Requests
(`Outlived`): the tries of a request plus the answers to other requests that are still on their way are
within the late, the lost and the short ones, so that no answer can be paid for twice.

**VideoPath.** Assumption: FramesAssumption; fewer frames than half the index space, from any index
on (in a longer session an index names more than one frame, and the model's histories no longer
follow from what the receiver knows), any cut with a source unit, any references within the code's sixteen slots. `av_packet` is one step made of helpers that
each take the receiver to the next receiver, so that the proof is one lemma for each: `Good` holds
between any two of them (CorruptKeeps, AskKeeps, GiveKeeps, FlushKeeps, SwitchKeeps,
MissingKeeps, StartKeeps, PutKeeps), and PacketKeeps puts them together. Its parts: the frame at hand has
the index that is current (*AtHand*), it is given after all others and once (*InTurn*), the kept
references and the last complete frame are indices of frames that were given (*RefsTaken*,
*Newest*, which DistanceIs turns back into frames across the turn), and what lies before the frame at hand is
taken or reported (*Reported*). `Inv` adds *Idle* (a frame that could be decoded was flushed
by the packet that completed it, so a profile switch or a gap drops none that was whole) and
that the units at hand of the frame being sent came before the next one, without which no unit
could be known to be counted once.

**Client.** Assumptions: FeedbackAssumption (fewer events are repeated than the history holds,
the keys are finitely many), AttemptsAssumption, SoundAssumption (sizes are naturals); Picture needs
none. The bounds of the model, calls, losses, samples and frames, may be any numbers. A step of the
client is a step of one part (PartsMove), so that each part has an invariant of its own:

* `FeedbackInv`. *SticksKnown* follows what was read under the lock until the lock is taken again: what
  is compared with later is what was sent. *HistoryKept* says of each packet that is on its
  way that it tells its own events and, if they leave room, those of the packet before
  it (`Tells`), of each packet that it is on its way, told or lost, and of the newest events
  that the history still holds them. NoEventForgotten follows because the next packet after a
  lost one is lost too or told both; it is the least number with events (LeastNumber).
* `SessionInv`: a session has a connect thread once it is attempted and a stop thread once it is
  published; the core was joined before the stop thread goes on, and done is its last step. The theorem is
  about every other thread that may still write to the queue of the user interface.
* `SoundInv` and `MicInv`: what was heard, what lies in the device, in the hand of the drain thread and in
  the ring, one behind the other, rises and is all that was pushed but what overflowed; likewise
  from the frames that were sent back to the capture, less those that could not be encoded. *Room* is why the drain thread, which
  looked at the device ring before it took samples, never has more in hand than it holds.
* `PictureInv`: a frame in the slot is newer than all that came out of it (*SlotInRow*), the one
  at hand than all that went on, the mail than the texture it is drawn to, and what will be shown
  next than what is (*HandInRow*). *OneWay*: a session shows its pictures upscaled, through the
  sink or on the page, and on the page only when the sink is over, so that no way brings
  a picture that another one has already passed.

**Only model-checked.** Out of the prover's reach, and left to TLC for good: liveness under
fairness and ENABLED (EverythingFired, NobodyStuck, BufferDrains, RingCatchesUp, RunEnds,
AskedEnds, CancelEndsBoth, ConsoleFollows, StopCompletes, DrainsServe, ConsolesFollow,
PictureFollows); and `ClosedFormsAreTheLoops`, which compares with RECURSIVE operators and
would need induction over data. Every other safety property of the passing runs is a theorem.

## 6. Where code and text disagree

Four have a run that TLC finds violated; `PROJECT.json` quotes the text.

1. **Two active sessions** (`crates/chiaki-ui/src/backend/sessions.rs:1147`). A connect
   stops the current session when it begins and publishes its own when it ends, up to
   half a minute later. A second connect that begins in between stops nothing; both
   sessions run, and the one that is overwritten in `current` cannot be stopped any more.
2. **A drop of the microphone that hangs** (`crates/chiaki-media/src/audio/input.rs:437`).
   The drop stores stop and notifies without the mutex of the ring. Between the drain
   thread's look at stop and its wait the notification is lost, the callback pushes nothing
   after stop, and the join never returns.
3. **A lost device that is not left** (`crates/chiaki-ui/src/backend/sessions.rs:2383`).
   `gpu_sink.rs:35` lets the media thread fall back to the presenter when the device is
   lost. It does so for pictures in memory only; a decoder that makes raw pictures is
   kept, and its pictures go to a render thread that has ended.
4. **An import that wipes the settings** (`crates/chiaki-settings/src/settings.rs:1988`).
   The import row says that it restores the settings from the file "if present"
   (`crates/chiaki-ui/src/pages/settings/system.rs:113`). A file that is not there is read as an
   empty one, which replaces all registrations and is saved.

Statements of comments that TLC also refutes, kept in the modules under a name of their
own and without a run (add the name to the configuration of the module to see it):

| Statement | Where | What happens |
|---|---|---|
| NoEarlyResend (`TakionSend`) | `takion.rs:2140` | The clock is read before the lock; the unsigned age of a packet added in between wraps, and it is sent again at once. |
| StopFromAnyThread (`StreamConnection`) | `streamconnection.rs:1470` | The headers are reported with the state mutex held; a stop() in the callback locks it again on the same thread. |
| StopIsToldAsStop (`Session`) | `session.rs:1556` | After check_stop wrote Stopped, the ctrl thread, joined, writes its failure over it. |
| SessionIdKept (`Session`) | `session.rs:1378` | The fallback id and the console's may be written after each other. |
| SleepAtQuit (`Session`) | `crates/chiaki-ui/src/pages/stream/state.rs:924` | goto_bed is called when the Ctrl was already taken out of the session. |
| DropEndsWs (`Holepunch`) | `crates/chiaki-remote/src/holepunch.rs:1784` | Drop stops the WebSocket thread if no other reference is left; the thread has one itself. |
| FecFillsTheGap (`AudioReceiver`) | `audioreceiver.rs:10` | Once playback runs, a missing frame is concealed before the unit of the same packet that brings it is looked at. |
| BacklogIsDiscarded (`AudioOutput`) | `crates/chiaki-media/src/audio/output.rs:518` | Both rings are pushed with the threshold u64::MAX, and clear_backlog has no caller: a backlog over three buffers stays. |

Met while reading, without a statement in a module:

* *Video.* A request for an IDR frame that was sent but lost is not repeated; the
  picture stays until the console sends an I slice by itself. `packetstats.rs:88` speaks of
  a wrap-around of 16 bits where the difference is widened to 64 bits with its sign.
  `frameprocessor.rs:75` describes a flag that flush never sets; an error in the middle of
  alloc_frame (line 112) leaves the counts of two frames mixed.
* *Sound.* The jitter buffer tolerates no reordering once it plays, and its branch for a
  full buffer cannot be reached (`audioreceiver.rs:424`). The drain thread of the output
  does not wait at all while the second ring is full and the first is not empty.
  set_active of the microphone has no caller.
* *Input.* A change that leaves the sticks alone cancels the repetition of the state that
  was due, though `feedbacksender.rs:4` promises one every 200 ms. The events of the
  last history packet are repeated only by the next event.
* *Connection test.* The number of a message is noted after it was sent
  (`senkusha.rs:374`); an ack in between is not the expected one. Senkusha::stop has no
  caller. The largest size is never tried on the way out when the way in is smaller.
* *RUDP.* Two senders may wait for the same counter: the second push is refused as a
  duplicate, which the ctrl thread ignores and the session thread takes for the end. A message
  of an unknown type acknowledges counter 0, which empties the buffer once the counter
  has passed half its space. The stop pipe of Rudp is never set, so that a stop waits for
  each handshake step to end (3 s). A stray FINISH in the loop is taken for a ctrl
  failure. Repeated ctrl messages are appended without a look at their counter.
* *Sessions.* A late Quit of an old session stops the new one
  (`pages/stream/state.rs:902`). A core that ends before it is published in `current`
  stays there. The settings are locked while a hole is punched, so that the pages that
  read them while they are drawn (`pages/home.rs:86`) stand still. wait_stopped does not
  wait for the media thread.
* *Pictures.* The redraw after a resize draws the texture of super resolution without the
  lock that `gpu_sink.rs:691` demands. A frame that a full slot throws away breaks the chain
  of references, and nothing asks for an IDR frame. A CUDA session whose interop bridge
  could not be built shows nothing, since its raw pictures are neither upscaled nor
  decoded again for memory.
* *Settings.* delete_profile clears the list "nur temporär" (`settings.rs:1740`), and leaves
  it cleared when the file of the profile cannot be written. The import of another
  profile's file leaves that profile's list in memory, and the next change writes it over
  the open profile (`settings.rs:1985`). The deletion of the chosen profile says it
  returns to the default one (`system.rs:50`), but current_profile keeps the name and the
  list of profiles is not saved. A save truncates the file first, so that a full disk
  loses it.
* *Registration.* The first slice of 50 ms that a connect waits for in vain is taken for the
  end of its three seconds (`regist.rs:686`). A wizard whose thread
  cannot be made goes on showing "Running".
* *Consoles.* A read error of the socket (on Windows also an ICMP answer) ends the
  receive thread for good while the pings go on. A console that changes from standby to
  ready keeps its address, and no event is sent. After the first host was dropped the
  second is looked at one ping later.

## 7. What is not modelled

The map covers about a tenth of the implementation. Most of the rest has no behaviour
that a state machine would describe:

* **Pages and drawing** (`chiaki-ui` without its backends, most of `chiaki-render`): a third of
  the lines; layout, focus, texts, Direct3D.
* **Media, devices and the system** (`chiaki-media` without `audio`, `chiaki-input`,
  `chiaki-virtualcam`, `chiaki-steam`, windows): calls into FFmpeg, CUDA, Opus, HID and
  the file system whose behaviour is outside the repository.
* **Most settings, parsers, formatters, tables**: functions of one buffer or file, which the
  repository tests against vectors; `rpcrypt_tables.rs` is data.
* **Tests**, which are part of most files.

In modelled components:

* Messages that only pass through (rumble, keyboard, trophies), the byte format of every
  message, logging and counters for display.
* Session: the failure of the random generator or of the elliptic curve library before
  the stream connection (`session.rs:1498-1518`). KeyStream: a GKCrypt without a ring,
  which only tests create. The handshake of Takion, whose outcome is an input.
* Video: malformed units, the Galois arithmetic of FEC, the rewriting of slices.
  Holepunch: the choice of candidates, STUN and UPnP, whose success is an input, and fini().
* Picture: haptics and microphone commands of the media loop, the virtual camera, zoom and
  pacing; a texture is written and drawn in one step each.
* Registry: the other lists of the settings (hidden consoles, manual hosts, mappings), which
  are kept in the same way, and what other profiles' files hold. Registration: the ciphers
  and forms of request and response, and a thread of the wizard that cannot be made.
* SessionManager: wait_stopped. AudioOutput: the
  volume (at zero nothing is pushed), devices and formats. Discovery: wakeup, hidden
  consoles, the stop at the end of the application.

Without a module though they have state: the handshake of Takion, the keyboard and PSN lists of the user interface.

**Memory.** The protocol crates deny unsafe code, so that data races are
excluded by the compiler; an action per critical section is therefore fine enough.

## 8. Plan

Done, in this order: SeqNum, ReorderQueueOps, ReorderQueue with its proofs;
MessageChannel and TakionData; TakionAv; TakionSend; StreamConnection; Session;
KeyStream with its proofs; VideoPath; Holepunch; SessionManager; FeedbackSender;
Senkusha and Connection; AudioReceiver; Rudp; AudioOutput, Microphone and Discovery;
Picture; Registry and Registration with their proofs; the compositions; then the proofs
about TakionData, StreamConnection, Senkusha, Session, Holepunch, the send buffers, the
video path, the client, the video packets and the audio receiver.

Next modules, the most important first:

1. The handshake of Takion with lost and repeated INIT and COOKIE acks.
2. The messages of the ctrl loop: keyboard, microphone and display states.
3. The PSN device list of the user interface.
