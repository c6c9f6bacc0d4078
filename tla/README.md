# A TLA+ model of SDRangel

SDRangel is a software radio: receiving and transmitting devices, each served by
a thread of its own, feed or are fed by channels (modulators and demodulators)
with threads of their own, under the command of a main thread and of a web
interface.  Its samples go through the threads without copies of their own, and
its commands go between them as messages.  The modules here model that core: the
FIFO the samples of a device go through, the messenger of synchronous commands,
the engines of a receiving and of a transmitting device with the main thread that
drives them, the manager of the audio devices and the FIFO between a channel and
such a device, a receive channel with its channelizer under requests of the web
interface, device sets that share hardware, and the stream of samples from one
SDRangel to another over a network that loses datagrams.  TLC checks small
instances; TLAPS proves the theorems listed below for every value of the constants.

## The parts of the program

| part | state | operations | talks to |
|---|---|---|---|
| receive FIFO (`sdrbase/dsp/samplesinkfifo.cpp`) | ring, head, tail, fill | `write`, `readBegin`, `readCommit` | source thread writes, engine reads; `dataReady` |
| synchronous messenger (`sdrbase/util/syncmessenger.cpp`) | message, flag, result | `sendWait`, `storeMessage`, `getMessage`, `done` | main thread calls, engine answers |
| source engine (`sdrbase/dsp/dspdevicesourceengine.cpp`) | state, source, sinks, rate | init, start, stop, set source, add and remove sinks, `work`, `handleInputMessages` | source, sinks, main thread |
| threaded sink (`sdrbase/dsp/threadedbasebandsamplesink.cpp`) | a FIFO, a thread | feed, start, stop | engine feeds, channel reads |
| sink engine (`sdrbase/dsp/dspdevicesinkengine.cpp`) | state, sink, sources, wiring of FIFOs | as above, for transmission | sink thread, channel threads |
| channel sources (`sdrbase/dsp/samplesourcefifo.cpp`, `basebandsamplesource.cpp`, `threadedbasebandsamplesource.cpp`) | a FIFO, the device FIFO it is connected to, a thread | `readAdvance`, `handleWriteToFifo`, `handleWriteToDeviceFifo`, start, stop | sink engine and device read; the channel's thread writes |
| main core (`sdrsrv/maincore.cpp`; `sdrgui/mainwindow.cpp`) | device sets | add, remove and change devices | engines, APIs |
| source plugins (`plugins/samplesource`) | settings, running, recorder | start, stop, apply settings | engine, main thread |
| channel plugins (`plugins/channelrx`, `plugins/channeltx`) | settings, audio FIFO | create, delete, messages | engine, audio |
| channelizer of a receive channel (`sdrbase/dsp/downchannelizer.cpp`) | rates, offset, chain of half-band filters | configure, handle a new rate, feed | engine and channel's thread; the demodulator |
| audio device manager (`sdrbase/audio/audiodevicemanager.cpp`) | FIFOs and queues by device, rates | add and remove FIFOs, set and unset devices | channels, audio devices |
| audio FIFO (`sdrbase/audio/audiofifo.cpp`) | ring | `read`, `write` with timeouts, `clear`, `setSize` | channel and audio threads; the main thread resizes |
| device APIs (`sdrbase/device`), plugins that share hardware (`plugins/samplesource/limesdrinput`, `plugins/samplesink/limesdroutput`) | buddies, leader, handle of the hardware, rate | add, remove, clear buddies; open, close, start, stop, suspend, resume, report a change | the main thread; each other, by calls and by messages |
| remote sink (`plugins/samplesink/sdrdaemonsink/udpsinkfec.cpp`) | frame being filled, queue of its worker | `write`, `handleInputMessages`, settings | sink engine; the network |
| remote source (`plugins/samplesource/sdrdaemonsource/sdrdaemonsourcebuffer.cpp`) | slots of frames, meta data | `writeData` | the network; source engine |
| presets, serialisation, plugin manager, web API, GUI | | | |

What is hard in it: the engine's thread, the source's and the main one use the
same objects with few locks; a stop runs on the thread that asks for it; sources
and channels are deleted while other threads may still use them; rates are told
by three ways; wake-ups can be lost; FIFOs wrap and overflow; lists of whom to
tell go stale; devices stop each other's threads for
a while; datagrams are lost.  `PROJECT.json` names each hazard at its line and the properties
that are about it, or says why none is.

## Modules

| module | what |
|---|---|
| `SampleQueue` | abstract: a bounded queue of samples that drops what does not fit |
| `SampleSinkFifo` | the ring, its writer and its two kinds of readers |
| `SampleSinkFifo_proofs` | its theorems |
| `SyncCall` | abstract: a call, answered once with the result of its message |
| `SyncMessenger` | the messenger, instruction by instruction, with caller and engine |
| `SourceEngine` | the engine of a receiving device and the main thread |
| `SourceEngine_proofs` | its theorems: what runs, the types, and on top of these its pointers to objects and the rates |
| `SinkEngine` | the engine of a transmitting device, its channels, its device and the main thread |
| `SinkEngine_proofs` | its theorems, and at its end those of `SyncMessenger`, which both engines use |
| `AudioDeviceManager` | the manager, outputs and inputs, and the channels that use them |
| `AudioDeviceManager_proofs` | its theorems |
| `AudioFifo` | the FIFO between a channel and an audio device, with one writer, one reader and the main thread |
| `AudioFifo_proofs` | its theorems |
| `DownChannelizer` | the channelizer of a receive channel: its filter chain, and the two threads that configure it |
| `AMDemod` | a receive channel with its channelizer, under requests, presets, audio rates, starts and stops |
| `AMDemod_proofs` | its theorems: what a recursion over the data of the channelizer computes, the filters, then the channel |
| `SharedDevice` | device sets whose devices are channels of the same hardware |
| `SharedDevice_proofs` | its theorems |
| `SDRdaemonFrames` | the layout of a frame, which both ends of a stream agree on |
| `UDPSinkFEC` | the sending end of a stream with error correction |
| `SDRdaemonSourceBuffer` | the buffer of the receiving end |
| `SDRdaemonStream` | both ends with a network that loses datagrams, and what the stream promises |
| `SDRdaemonStream_proofs` | its theorems |
| `MC...` | what TLC needs of each |

### SampleSinkFifo

State: `m_data`, `m_head`, `m_tail`, `m_fill` of the class; what the reader does
(`pc`), what it was handed by `readBegin()`, and histories of the samples that
were accepted and read.  `Write` is the whole of `write()`: it takes the mutex,
drops the end of what does not fit, copies in one or two parts and emits
`dataReady()`.  The reader is either the engine (`work()`, which feeds both parts
and commits once) or a threaded sink (`handleFifoData()`, which commits each part
on its own); they leave their loops when the FIFO is empty or a message waits.
Samples are numbered, so that order and loss are visible.  `read()`, which has no
caller, and `setSize()` while the FIFO is in use are left out.

### SyncMessenger

One caller and one engine, a step for each access to the shared fields: setting
the message, clearing the flag, the signal, the test, the sleep of at most 100 ms,
the wake-up, storing result and flag.  `sendWait()` and calls on the caller's own
thread (`stopAcquistion()`) are both there.  The mutex of `sendWait()` is taken by
its caller only, `done()` does not take it, so it orders nothing and is left out;
for the same reason a wake-up can come between the test and the sleep.  Stores are
taken to be seen in their order, although the code asks for relaxed ones: on a
machine that reorders them a call could return before its result is visible.

### SourceEngine

The state of `DSPDeviceSourceEngine`, the events queued for its thread (data,
messages, commands: Qt delivers them in order), where its thread is (`engine`),
the rest of the operation the main thread is in (`todo`), and of each source,
recorder and channel whether it exists (`alive`), runs (`running`), and which rate
it was told (`known`).  An operation of the main thread is written as the list of
its steps in the order of the code: a synchronous command is one step of the
engine, for which the main thread waits (what `SyncCall` promises and
`SyncMessenger` implements); a stop is three steps of the main thread (sinks,
source, state), as `stopAcquistion()` runs the handler there.  A sample stands
for a block.  The test source stands for sources that own a `FileRecord`.  Left
out: corrections of samples, centre frequency, descriptions and errors.

### SinkEngine

Transmission is pulled: whoever reads a FIFO makes its `dataWrite()` ask for as
many samples.  The state is that of `DSPDeviceSinkEngine` and of the wiring: how
often the engine is connected to the FIFO of each sink (`connections`), which
device FIFO each channel points to (`m_deviceSampleFifo`) and whether it is
connected to it (`connected`), the events queued for the engine's thread and for
that of each channel (`events`, `requests`), and how far the write index of a
channel's own FIFO is ahead of its read index (`ahead`), in requests.
A channel is added or removed in two steps of the engine: it takes the command, stops
a channel that goes and takes away the connections of the other way (`Disconnect`);
then it makes the new ones, starts a channel that comes and answers (`ConnectSources`,
from the place `"connect"`).  In between the device reads, channels answer requests,
and the main thread waits on.  One channel writes to the FIFO of the device itself; of
several, the engine sums what it reads.  That the channels are disconnected one by one is
not told apart, as at most one of them is connected.  `Read` is the device's thread; `HandleWriteToFifo` and
`HandleWriteToDeviceFifo` are a channel's; `HandleData`, `ReadAdvance` and `Merge`
are `handleData()` and `work()`, one channel at a time.  The main thread is written
as in `SourceEngine`.  Deleting an object takes its connections and its queue away
but no pointer to it: what follows through a pointer to a deleted FIFO is left
open, through a null one it is a crash, and `crashed` ends the behaviour.  Left
out: the level of the device's FIFO (nothing in the code keeps one: its indexes may
pass one another), rates, the division factor of the sum, the spectrum, and
`addSource()` with its sources on the engine's thread, which has no caller.

### AudioDeviceManager

Outputs and inputs with the maps of the manager are a record each; the functions
of the class are operators from such a record to another, composed as the code
composes its calls.  Messages a channel is posted, settings and rates, wait in its
queue and are handled one by one; the web interface may come between any two.
Each start may fail (`opens` is chosen each time, but for an input that is open, which
only counts): `start()` returns without opening the device when no format of 16 bits is
near, the result is ignored, the rate of that format is stored (`FailedStart`) and the
FIFO is added to a closed device.  The next FIFO does not start it again, setting it up or
unsetting it does.  `failed` is a history of the devices whose last start failed.  An index
that names no device starts nothing either, but none occurs: channels ask for a device by its
name, which gives the index of a known one or that of the system's default.
`overtaken` is a history of the channels that changed device with a rate still
waiting behind.

### AudioFifo

The ring, and of each of the two threads where it is in its call: called, about to
wait (`releasing`: it holds the lock of its condition and has let `m_mutex` go),
asleep, or woken.  What a call does with `m_mutex` held is one step, `Write` or
`Read`; a signal reaches a thread that is asleep and is lost on one that is about to
be (`WakeOne`).  `elapsed` says that the timeout of a call is over, which may happen
at any time, and from the start for a call with none.  The main thread clears,
drains, or replaces the ring in two steps (`SetSize`, `Created`), between which a
call finds no `m_fifo`.  Samples are numbered in the order they are written; `lost`
and `heard` are histories, and so is `missed`, of waits whose reason has gone
without a signal.  The destructor with a thread waiting is left out.

### DownChannelizer and AMDemod

`FilterChain` is the code's recursion, written as a function of the band (`chain[sig]`
calls itself with the half that is kept), in integers where the code has reals: the
unit of frequency is small enough that bands halve without a rest (`Widths` are those
that occur), so that a rate of the filters that is no whole number of hertz is not cut
off as in the code.  `PassBand` is what
the filters do, told from the filters themselves (`Turn`), and not from how they were
chosen, so that `ChainFits` compares the two.  Each of the two threads goes through
`applyConfiguration()` in steps (`applying`): the requested rate, the requested
frequency, the chain (with the mutex), the rate that leaves it (without, so that
`LengthsSeen` has any length the list may have while the other replaces it), the
notification, its push.  A stop waits for the channel's thread, which ends what it is
in, and not for the engine's, which may be configuring the channelizer.  Starts tell the rate too, but while the main thread waits and
the channel's thread does not run, so they are one step.

The demodulator's messages are handled whole, one by one, by the main thread.  A
request of the web is three steps on a thread of its own, copy of `m_settings`, offset,
settings; the copy may find some members assigned and others not (`Seen`).  One request
is in hand at a time.  Of the settings there are the offset and the audio output, of
`applySettings()`, `applyChannelSettings()` and `applyAudioSampleRate()` what they do to
rates, NCO and interpolator.  `crossed` and `overlapped` are histories of requests that came before an earlier one was handled,
or had both keys, or came as a preset, and of configurations by both threads at once.
Left out: bandwidth and filters, which the same faults reach, squelch, volume and PLL,
and the samples.

### SharedDevice

The LimeSDR plugins stand for hardware with several channels and one clock.  Of
each device set: the unit its device is on, the list of buddies (those that receive
and those that transmit are two lists in the code, which `Of` takes apart), whether
it leads, the parameters of the hardware it uses (named by the set that made them),
whether it runs, whether its thread does, its rate and its queue.  A change of
device is one action, `Change`: `sampleSourceChanged()` and `sampleSinkChanged()` do
all of it on the main thread, in this order: stop, delete, clear the lists, list the
devices with the same hardware, construct, initialise.  An access to the hardware
suspends the threads of the buddies and resumes those that ran; `threads.wasRunning`
is the flag they keep.  A sink's change initialises the device of the last set
(`mainwindow.cpp:1641`), which the module takes to transmit (`LastAssumption`).
`silenced` and `misled` are histories of what the code does not repair: threads
that failed or whose buddy could not enable its channel, and devices whose last
report was of a rate the hardware had not, or had no longer.  Left out: frequencies,
gains, clock sources, numbers of channels, calls that fail to set a rate.

### SDRdaemonStream

The sink (`UDPSinkFEC`) fills frames of `N` blocks, of which block 0 has meta data, and
pushes each to its worker, whose queue is connected directly: whoever pushes empties the
queue (`handling`), the engine with a frame and the main thread with an address, at the
same time if it so happens.  A frame that cannot be encoded is not sent (`EncodeFails`), and
without CM256 it is sent without recovery blocks (`m_cm256Valid`).  `Start` is a command
of the engine; `Stop` is not: the main thread deletes thread, worker and queue while the engine
may be filling a frame or sending its blocks.  What the engine then does in memory given
back is undefined; the outcomes taken are that it goes on (with any number of recovery
blocks at the end of the frame), drops the frame, or that the part crashes (`Crash`),
each before or after the next start.

Each datagram sent is either lost or handled by `writeData()` (`WriteData`): a datagram
of another frame number than the last voids its slot, blocks are stored, and with the
`N`-th the frame is decoded.  The contents of a block is the frame it came from, or
nothing, or garbage.  The CM256 code is external: it restores the missing originals, in
order, if the blocks are of one frame and it is told right of their number, fails if told
of none, and yields garbage else; told of one, it repairs the first recovery block only
(`Repaired`).  The loop over the recovery blocks stores each by the index its
descriptor has: those repaired where originals are missing (`BroughtBack`), the others
by their own index, which lies in the slots after (`Beyond`, `Place`, `Written`), or
past the last one: then `overrun` is set, and as the members that follow the buffer hold
anything, no later datagram is modelled.

Frames are known by their place in a history; their number wraps and begins again at a
start.  The histories `split`, `joined` and `stale` are of frames sent alternately with
another, of frames whose number is that of the head though they are another, and of frames
decoded with the meta data of an earlier one that did not fit; `spilled` of slots that
recovery blocks of another one were stored in.  Left out: how the samples are read from
the buffer, and when.

## Runs

| run | shows | bounds |
|---|---|---|
| `sample_sink_fifo` | `DeliveredInOrder`, `RegionStable`, `EventuallyFed`, and that the ring implements `SampleQueue` | size, block and number of samples such that the ring wraps, is full and drops |
| `sync_messenger` | `MessageAlive`, `EveryCallReturns`, implements `SyncCall` | four calls: more repeat what three show, a flag and a wake-up left by a call meet only the next |
| `source_engine` | `AllOrNothing`, `UsesLiveObjects`, `RateSettled`, `OperationsEnd` | two sources, a channel, two rates, one data event and one message waiting; a stale pointer needs two sources, a sink on another thread one channel |
| `sink_engine` | `AllOrNothing`, `UsesLiveChannels`, `OwnFifosBalanced`, `NeverBothWays` | two sinks, three channels, so that the engine goes through none, one, two and three of them and back; a FIFO of four requests and three requests queued, so that a level is told from its neighbours; connections counted up to two; reads between disconnecting and connecting (154,146 states) |
| `sink_answered` | violation of `AnsweredOnce` | the same, with one request queued |
| `audio_devices` | `FifosWhereRegistered`, `OpenAtItsRate`, `ListedWhereRegistered`, `RateSettled` | two demodulators, or two modulators, on two devices, each start of which may fail, three rates of which one is not supported, two messages: a move and a rate that cross |
| `audio_listed` | violation of `ListedAreAttached` | two demodulators |
| `daemon_stream` | `WholeWhenTogether`, `OneFramePerSlot`, `ReceivedKept`, `EveryFrameSent` | three frames of a block of meta data and two of samples, so that two blocks of a frame may be lost and a recovery block may be left unrepaired; none, one or two for recovery, so that a parity is told from a code and its number may be stale; two slots, so that a frame takes the slot of another, and a block goes astray to the next or past the last; one change of settings, or one stop (1,680,009 states) |
| `daemon_restore` | violation of `EnoughBlocksRestore` | two frames with two blocks for recovery, no change |
| `shared_device` | `BuddiesAgree` (that is `BuddiesMutual`, `OneHandle` and `HasLeader`), `RateTold`, `Streaming` | one unit, a source and two sinks, so that buddies are of the same kind and of the other and a third stays when one leaves; two rates, two messages waiting, so that two cross; one failure at a time |
| `am_channel` | `ChainFits`, `FollowsSettings` (that is `ListensAtOffset` and `Resampled`) | two outputs of two rates; two rates of the source, and two offsets, so that a channel ends where a filter does, leaves some of its offset to the NCO, or is out of what is received; three inputs (requests, presets, starts, rates), so that a new rate falls into the handling of an offset and another comes after; what has crossed is followed only if it came first (`FirstCrossed`) |
| `audio_fifo` | `Accounted`, `WaitsForReason`, `CallsEnd` | a ring of one or two slots, calls of up to three samples, so that they wait in the middle, four samples, so that the ring wraps |

Deadlock is checked everywhere except in `sample_sink_fifo`, `sync_messenger`,
the runs of `SDRdaemonStream`, and `am_channel`, where the writer, the caller, the sink
or whoever asks comes to the bound of what it does, and in `source_engine` and the runs
of `SinkEngine`, where the engine's thread ends when the device is removed (or, for the
latter, after a crash).  In `audio_devices` the
outputs and the inputs are in use in turn (`OneSide`), because their states multiply;
the only thing between them is that a modulator is listed with an output.

### Fairness

- `SampleSinkFifo`: the reader's steps are weakly fair: a thread that has an event
  takes it, and one in its loop goes on.  The writer need not write: a source may
  stop.
- `SyncMessenger`: both threads are weakly fair, the timeout of the sleep too: a
  condition variable's wait of 100 ms ends.
- `SinkEngine`, `AudioDeviceManager`, `SharedDevice`, `AMDemod` and `SDRdaemonStream`
  state safety only, and assume none.
- `AudioFifo`: both threads go on and time passes (weak fairness), and a call gets
  `m_mutex` although others lock it again and again (strong fairness of `Write` and
  `Read`, as a mutex is handed on).  Nobody has to call, and nobody has to clear.
- `SourceEngine`: the steps of an operation that was begun, and the engine's, are
  weakly fair: both threads are scheduled.  Nobody has to begin an operation, and no source has to
  deliver samples.  `OperationsEnd` needs the bound of one second of samples in
  `work()`.

### Violations

Each is a disagreement between a comment or a document and the code;
`PROJECT.json` quotes it.  The engine of a transmitting device is connected to
its FIFO once more with every channel from the third on, and answers each read as
often; after a change of the sink nobody answers (`AnsweredOnce`).  A demodulator
that moved to another output and is deleted is still sent rates, and a modulator is
listed with an output and never with its input (`ListedAreAttached`).  A frame of
which enough blocks came is decoded with the number of recovery blocks of an earlier
one, and is not restored when that was none (`EnoughBlocksRestore`; `WholeWhenTogether`
is what holds).  When that number was one and two blocks are missing, one is restored and
the recovery block of the other is stored among the samples of the next slot, or past
the last (`spilled`, `overrun`; `OneFramePerSlot` and `ReceivedKept` say how far this
goes: only with stale meta data, and never into the slot it came from).

What other comments promise and the code does not do is excepted by the properties
that hold.  `AllOrNothing` does not say that no sink is fed once it was stopped: a stop
runs on the main thread and overtakes `work()`, which tests the state once, though
`dspdevicesourceengine.h:137` says that it transfers "if in running state".
`FollowsSettings` excepts three cases, recorded in `crossed`, in which what was asked
last ("apply all settings unconditionally", "apply settings differentially",
`swagger.yaml:1125` and `:1164`) is not what the channel does:

- a PUT of an offset and of an audio output of another rate: `applyAudioSampleRate()`
  asks the channelizer for the offset of `m_settings` (`amdemod.cpp:366`), which is
  assigned after it (`:478`), so that the old offset is asked for after the new one;
- a preset loaded by a server: `deserialize()` (`:490`) posts the settings but, unlike
  that of the NFM demodulator, asks the channelizer for no offset;
- a PATCH that comes before the main thread has handled the one before: it posts a copy
  of all settings, made on its own thread (`:519`), and takes back what that one set.

## Proofs

| theorem | of | says |
|---|---|---|
| `TypeCorrect` | `SampleSinkFifo` | `Spec => []TypeOK` |
| `InOrder` | | `Spec => []DeliveredInOrder` |
| `RegionSafe` | | `Spec => RegionStable` |
| `Implementation` | | `Spec => ImplementsSampleQueue` |
| `Alive` | `SyncMessenger` (in `SinkEngine_proofs`) | `MessengerSpec => []MessageAlive` |
| `Implementation` | | `MessengerSpec => ImplementsSyncCall` |
| `MessengerTypeCorrect` | | `MessengerSpec => []MessengerTypeOK` |
| `RunsAsAWhole` | `SourceEngine` | `Spec => []AllOrNothing` |
| `ObjectsLive` | | `Spec => []UsesLiveObjects` |
| `RatesSettle` | | `Spec => []RateSettled` |
| `TypeCorrect` | | `Spec => []TypeOK` |
| `Balances` | `SinkEngine` | `Spec => []OwnFifosBalanced` |
| `RunsAsAWhole` | | `Spec => []AllOrNothing` |
| `ChannelsLive` | | `Spec => []UsesLiveChannels` |
| `OneWay` | | `Spec => []NeverBothWays` |
| `TypeCorrect` | | `Spec => []TypeOK` |
| `TypeCorrect` | `AudioFifo` | `Spec => []TypeOK` |
| `WaitsAreForReason` | | `Spec => []WaitsForReason` |
| `AllAccounted` | | `Spec => []Accounted` |
| `TypeCorrect` | `AudioDeviceManager` | `Spec => []TypeOK` |
| `FifosAreWhereRegistered` | | `Spec => []FifosWhereRegistered` |
| `DevicesAreOpen` | | `Spec => []OpenAtItsRate` |
| `DemodsAreListed` | | `Spec => []ListedWhereRegistered` |
| `RatesSettle` | | `Spec => []RateSettled` |
| `SuspensionsEnd` | `SharedDevice` | `Spec => []Streaming` |
| `BuddiesAlwaysAgree` | | `Spec => []BuddiesAgree` |
| `RateIsTold` | | `Spec => []RateTold` |
| `TypeCorrect` | | `Spec => []TypeOK` |
| `WholeFrames` | `SDRdaemonStream` | `Spec => []WholeWhenTogether` |
| `AllSent` | | `Spec => []EveryFrameSent` |
| `OneFrameEach` | | `Spec => []OneFramePerSlot` |
| `SamplesStay` | | `Spec => ReceivedKept` |
| `TypeCorrect` | | `Spec => []TypeOK` |
| `ChainsFit` | `AMDemod` | `Spec => []ChainFits` |
| `Follows` | | `Spec => []FollowsSettings` |
| `TypeCorrect` | | `Spec => []TypeOK` |

They hold for any size of the rings, any block, both readers, any number of calls,
of sources, of sinks, of channels, of audio devices, of device sets and of rates, and
any number of blocks in a frame, of blocks for recovery, of slots and of datagrams lost,
with CM256 or without it at either end, whichever starts of audio devices fail,
and for any offsets and requests of a channel.
The only assumptions are those on the constants in the modules: that sizes and bounds
are natural numbers, that frame numbers wrap at a multiple of the slots
(`SlotsAssumption`), that objects of different kinds are different (`KindsAssumption`,
`SinksAssumption`), and that `None` is none of them.

Two assumptions of the channel are about numbers.  `UnitAssumption` says that a band
whose half is as wide as some channel halves and quarters without a rest: rates are
finitely many, so a unit of frequency that is a small enough part of a hertz has this.
`RatesAssumption` says that no rate of the source is as much as an audio rate times
another, both in that unit: it keeps what is left of a rate, after as many filters as
any other rate needs, above zero.  With audio rates of 8 kHz and more and sources of
some 10 kHz to 60 MHz, it holds with a factor of more than one to spare even in whole
hertz (48 kHz times 8 kHz is 384 MHz), and a smaller unit adds to it.

For the FIFO, the order of what was read is not inductive by itself: nothing in it
says what is in the ring.  The invariant says that the slots from the head on, as
many as are filled, hold the samples accepted and not yet read, in order (the
wrap is arithmetic modulo the size, stated once in lemmas), that head and tail
differ by the fill level, and that the parts handed out by `readBegin()` lie in
the filled slots while the reader uses them.  A write touches free slots only, so
it keeps all of it; the mapping to `SampleQueue` then reads the queue off the
ring.

For the messenger, the invariant ties the places of the two threads together:
the message is the caller's while it is in its call, the engine is in its handler
only for an event of that call, and the flag is set only when the result of this
call is.  A wake-up or a timeout changes none of these, which is why losing one
only costs time.

For the engine of a receiving device, what is true at a moment depends on what the
main thread has yet to do, so the invariants are about the operations in `todo`.
`Inv` says that the two commands in the middle of a stop are only ever at the head
of an operation; that an operation either starts nothing (`Leaves`) or neither
changes the source nor ends the engine (`Stays`); and that one that does has
stopped the source by the time it comes to it (`Stopped`).  With that, each command
either sees a stopped engine or handles all sinks alike, and `AllOrNothing` follows.
`LiveInv`, on top of it, is about objects: a command that relies on the one before it
(a channel is deleted after the engine has let go of it, a record comes with its
source) directly follows it (`Linked`) and finds what it relies on (`Ready`);
after the event of a command only data is queued behind it (`Waiting`); and while a
source is replaced the engine does not run, is not in `work()`, and has no message
queued (`Quiet`).  The
engine then only holds pointers to live objects.  For `RateSettled` the invariant says
that the last message in the queue, and without one the engine and each sink, has the
rate of the source, as long as the engine is not stopped.

For the transmitting engine, `OwnFifosBalanced` is inductive once the types of the
two variables it names are added.  The argument is a count: `readAdvance()` takes
one from the level and queues one request, a handler takes one request and adds
one to the level, and nothing else touches either, however the channels are wired,
stopped or started meanwhile; a channel that is deleted takes both with it.  The
work is in the wrap (quotient and remainder are unique, lemma `Quotients`, so a sum
of wrapped indexes can be unwrapped, `Steps`) and in counting the requests of one
kind at the two ends of a queue that holds both (`OwnAppend`, `OwnTail`).
The other theorems rest on an invariant of the operations as for the receiving
engine, with what is particular here: the only sink that is deleted is the one in use
(`InUse`), and since that takes its connections with it, a new sink is given to the
engine while it is connected to nothing (`Ready` of `setSink`); the engine is connected
to the sink in use only, and only for several channels (`Wired`, between the disconnections and the
connections of a change too).  While the engine is between these, the main thread waits at
the head of the command it took, and what runs is what `AllOrNothing` says but for a
channel that has yet to start (`Window`).

For the audio FIFO, `WaitsForReason` speaks of threads that are asleep, and is not
inductive: a thread falls asleep after it has let the mutex go.  The invariant says
the same of a thread that is about to, which becomes false only by a step that
signals it, sets `missed`, or, for a new size, both leaves it without a signal and
says so; and that the ring is empty while it is replaced.

`Accounted` compares four sequences end to end, and says nothing of how far the calls
have come.  `AccountInv` ties them: a read has copied what it was asked for less what
remains (`Copied`), a call begins with all of it to do (`Beginnings`), and `Account` is a
statement about numbers only: what was taken, then what is in the ring, ascends up to
the last number the writer is done with, and of these numbers the others, and no
more, are lost.  A call, a write of some, a read of some, an abandoned end, a clear and a
new size are each a lemma about `Account`, which the actions apply.

For the audio devices, the invariant says of each side that a FIFO is with a device
exactly if it is registered with it and in use, that a device with a FIFO and whose last
start did not fail is open, once or, an input, twice, and has the rate the manager tells
of it, and that any other is open at most once.  Starts fail as they like: `opens` is a
parameter of the lemmas as it is of the operators.  An operation opens a device before it attaches the FIFO
to it, or the other way around, so the invariant has a set of devices that will
have one as a parameter.  Operations are compositions of a few operators on the record of a
side; each operator has a lemma that says what it keeps, and the proof of a handler
follows the composition.

For `RateSettled` the invariant looks into the queues: the last rate in the queue of a
demodulator, and without one the rate it works at, is the one the manager has of its
output (`Settles`), whether or not it could be opened.
Messages in front of it do not matter, which is why a move, handled on the channel's
side, is the one step that could break it: it leaves the rest of the queue as it was, and if a
rate is in it the channel is in `overtaken`.  The rest is that nobody who is not there
has messages (`Quiet`) and that no list of an input has anyone in it
(`InputsTellNobody`), so that only outputs tell.

For the devices that share hardware, the invariant says that the threads that run
are those of the devices that run, but for the ones named in `silenced`.  A call
suspends the others and resumes them before it returns; the lemma it rests on says that
exactly those run after it that ran before (`ResumedRun`), whatever is in the lists.

`BuddiesAgree` and `RateTold` rest on `AgreeInv`.  Its first part, `Lists`, says that each
list has nobody twice, has only devices of the same unit, all of them if it is
hardware, and goes both ways; the lengths that `BuddiesMutual` compares follow by counting
(`OnceLength`).  `Handles` says that devices of a unit have the same parameters and that
what is open is of some device.  A change is then one that leaves, whom all forget
(`LeftLists`), and one that comes, who takes what its buddies have
(`HandlesAfter`).  `HasLeader` is inductive with these.  `Informed` says that a device that
runs has the rate of the hardware or a report in its queue, which is told to all buddies
because the lists are complete.

For the stream, `WholeWhenTogether` says of blocks that came what the loop over the
descriptors of `writeData()` did with them, in whatever pattern they were lost, and
nothing in it says why the last descriptors are those of the blocks for recovery.
`StreamInv` has, from the sender on: a frame is queued, sent by one thread, or sent, and never goes
back, so that its blocks come in order and each at most once (`InTurn`, `Arrived`); a slot
has blocks of one frame unless it joined another (`Apart`); the last datagram is in the
slot of the frame head (`AtHead`), which has counted as many blocks as came (`Got`),
and what a slot has that is not of its frame was spilled into it (`Apart` again); and then the frame is whole if there are `N` (`Complete`).  The step that matters is the
one in which the `N`-th block comes.  As blocks come in order, those for recovery are at the
end (`LastOnes`, `RecoveriesAreLast`); there are as many as originals are missing, by a
bijection (`AsManyMissing`); so the loop, which goes over as many of the last
descriptors as blocks for recovery came, meets each of them, and brings each missing block back
to its place, block 0 included (`AllBroughtBack`, `WholeDecoded`), provided that it was
repaired (`AllRepaired`): one recovery block of one is, and if the code was told of one
and there are more, the frame is stale (`MeantIsRepaired`, `MeantUnlessStale`).  A stop, a
crash and a frame that cannot be encoded only take frames away from the queue and the
threads (`GoneKept`).  `EveryFrameSent` takes two more facts: a frame that was completed is
sent, given up, in the queue or being sent (`Accounted`), and the queue has something in it, or a
thread sends, only while somebody is in `handleInputMessages()` (`Handled`): who pushes
handles until the queue is empty, whoever else takes from it.  `ReceivedKept`, an action property, follows from the same
invariant and from where `Written` writes (`ReceivedKeepsSamples`).

For the channel, two things come together: what the recursion of `createFilterChain()`
yields, and who made its last call.  The first is an induction over data, with the band
as the datum, and the induction theorems of the library are out of the provers' reach.
`Complete` states induction with a set of cases instead of a predicate (a set that has
each case whose lesser ones it has is everything), and `Recursion` derives from it that
a function defined from its values for smaller arguments exists, is unique and satisfies its
equation, again with functions (which are sets) where the library has operators.  With
the width of the band as the measure this gives the equation of `FilterChain`
(`Chaining`), of `PassBand` (`PassAfterFirst`: the first filter shifts and halves what
the others go on from) and of `1 << n` (`Shifts`).  `Filters` is then an induction over
the band: the chain is a sequence of modes, what its filters pass is the band it ends
with, moved to the centre (its first filter turns by a quarter what the choice moved by a
quarter), contains the channel if the band it began with did, and has no half that does;
the offset left is the difference of the centres; and what is left of the rate is at
least the width of the channel.

The second is `Inv`.  It says whoever writes a rate or an offset makes the chain after
it (`WillBeMade`), so that with nobody at work the chain is that of what was written
last: `ChainFits`, whichever of the two threads that was, and however they overlapped.
`FollowsSettings` needs the rest.  Unless both were at work together, the thread at work goes
on with what it read (`OneByOne`, `Notified`), and the last notification in the queue of
the demodulator, or without one the demodulator, has the rate and offset of the chain
(`Tells`); NCO and interpolator are made of its members (`Kept`).  Unless
requests crossed, one thing at a time is asked (`InOrder`, `RequestAlone`), changes one member
of the settings (`SettingsDiffer`), and the offset the settings will have is the one the
channelizer will have asked of it (`OffsetComes`), as the audio rate will be that of the
output (`RateComes`).  Each action has a lemma that says it keeps these.

Model-checked only is liveness (`EventuallyFed`, `EveryCallReturns`, `OperationsEnd`,
`CallsEnd`): it needs fairness and ENABLED, which the provers do not
handle.  Every invariant and action property that a run checks and that holds is
proved.

## Not modelled

Most of the source is not the program's own or has no control to speak of: the
SQLite library, the bitstream of the Perseus receiver, the HTTP server and the RTP
and error correction libraries are vendored, the classes of the web interface are
generated, and decimators, filters, demodulators and transforms are signal
processing.  Drivers (`devices`, most of `plugins/samplesource` and `samplesink`) are
calls of a library each.  The GUI, presets and serialisation run on the main thread
and copy values.  The components in `PROJECT.json` list them.

## Further work

- The pace at which a remote source reads its buffer (`tick()`, the balance
  correction) against the frames that come.
- The transmit channelizer and the other demodulators, which differ in what they
  configure when.
- The bandwidth of a channel, which `applyAudioSampleRate()` takes from the old
  settings as it does the offset.
