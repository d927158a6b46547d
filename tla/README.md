# music262: a verification project

music262 plays one song on several machines at once. An audio server streams
WAV files; every client has a player, a command loop for its user, and a gRPC
server through which its peers call it. This directory holds TLA+ models of
the clients and the server, the TLC runs that check them on small groups, and
proofs that TLAPS checks for groups of any size.

    tlc -config PC_serial.cfg MCPlaybackCommands.tla     # one run
    tlapm PlaybackCommandsProofs.tla                     # one module of proofs

`PROJECT.json` maps every definition to the lines it models and lists runs,
mutants (operators marked "Fault:" in the modules: the code with a plausible
bug, which the property must then catch), findings, hazards and theorems.

## Inventory

| Part | State | Operations | What makes it correct |
|---|---|---|---|
| **AudioPlayer** (`client/audioplayer.cpp`) | `audioData`, `playing_`, `current_position_` (atomics), the CoreAudio unit | `load`, `loadFromMemory`, `play`, `pause`, `resume`, `stop`, `set_position`; `RenderCallback` on the unit's thread | callbacks read only samples of the song; data is not replaced under a callback; flag and sound agree; a song ends |
| **AudioClient** (`client/client.cpp`) | `current_song_num_`, `audio_data_`, `command_from_broadcast_`, `peer_sync_enabled_`, a shared pointer to its `PeerNetwork` | `LoadAudio`, `Play`, `Pause`, `Resume`, `Stop`, its destructor | the user's commands go out, a peer's commands do not; the song in the player is the one its number names |
| **PeerService** (`client/peer_network.cpp`) | none of its own | RPC handlers `Ping`, `Gossip`, `SendMusicCommand`, `GetPosition`, `Exit`; a detached thread per command | every command is carried out, the flag comes down again |
| **PeerNetwork** (`client/peer_network.cpp`) | `connected_peers_` under a mutex; `server_`, `server_thread_`, `server_running_` | `ConnectToPeer`, `DisconnectFromPeer`, `BroadcastGossip`, `BroadcastLoad`, `BroadcastCommand`, `BroadcastExit`; `StartServer`, `StopServer`, its destructor | no duplicates, no self, a gossip connects its group; callers return; nothing is destroyed while a handler uses it |
| **SyncClock** (`client/sync_clock.cpp`) | average offset, maximal round trip | offset and round-trip arithmetic, target times | delays that are the same for all peers and not negative; offsets that are those of the clocks |
| **GrpcPeerService** (`client/peer_service_grpc.cpp`) | a cache of stubs | one call per RPC, with deadlines of 500 ms, 2 s and 5 s | a failed stub is not used again |
| **GrpcAudioService** (`client/audio_service_grpc.cpp`) | a channel | `LoadAudio`, `GetPlaylist`, `GetPeerClientIPs` | chunks are appended in order, an error touches nothing |
| **AudioServer** (`server/`) | `playlist_`, `connected_clients_` under a mutex | `LoadAudio` in chunks of 64 KB, `GetPlaylist`, `GetPeerClientIPs`, `exit` | a load that says OK brought the whole song; clients hear of each other |
| **main, factory** (`client/main.cpp`, `client_factory.cpp`) | a second shared pointer to the `PeerNetwork` | the command loop: play, pause, resume, stop, join, leave, gossip, quit | `quit` ends the process |

How they interact. A command typed by a user runs on the command loop's
thread: `AudioClient` broadcasts it through `PeerNetwork`, then applies it to
its own player. `BroadcastLoad` calls the peers one after the other and waits
for each; `BroadcastCommand` pings them, computes a waiting time, and detaches
one thread per peer, which it does not wait for. At the peer, a `load` is done
by the handler itself, any other command by a thread that the handler detaches
before it answers. That thread calls the same `Play()`, `Pause()`, ... as the
user does; the flag `command_from_broadcast_`, one per client, is what keeps
it from broadcasting again. A load streams the song from the server into
`audio_data_` and hands it to the player. Below, the player's operations are
called by all these threads and race with the render callback.

What is hard here: nothing orders detached threads; one flag, one buffer and
one player are shared by all of them, without a lock; lists are read and
changed under separate locks with a ping in between; clients wait for each
other's handlers, under deadlines; unsigned positions are subtracted from;
destructors run while requests come in. `PROJECT.json` "hazards" has each of
these at its line.

## Modules

**`GroupPlayback`** is what the program promises: the group is one player. A
command is given to the group when the last one is done, every member carries
it out once, nobody plays before everybody has the song, members may leave.
It knows nothing of threads, flags or requests. `Safety` is what its steps may
do, `Progress` that members do what is left for them, `InStep` what follows:
when nobody has anything left to do, every member has the song and the state
that the last command asked for, and all have the same.

**`PlayerOps`** is the player as a command sees it: a record of the flag, the
unit and the place it was last started or paused at (`cue`, a name and not a
number: the start, or "where client n was at command k"). Operators only. A
unit that was set up starts here, and no song ends; `AudioPlayer` has both.

**`PlaybackCommands`** is the path of a playback command over all clients. A
thread is `<<node, Main>>` (command loop) or `<<node, slot>>` (a handler
together with the thread it detaches: the one ends where the other begins, with
the flag up in between). The actions follow the code:

| action | code |
|---|---|
| `Issue` | the command loop reads a command; "play n" goes to `loading` |
| `Receive` | `SendMusicCommand` handler up to `SetCommandFromBroadcast(true)` |
| `LoadDone`, `LoadFail` | `LoadAudio` returns; a handler's load ends here and lowers the flag on either path |
| `CheckFlag` | `Play()`, ... up to the test of the flag; a handler's resume sets the position first |
| `SendLoad`, `LoadReturn` | one round of `BroadcastLoad` |
| `BroadcastCommand` | one request per peer that is up enters `net` |
| `Apply` | the command reaches the player; a handler's thread lowers the flag |
| `Lose`, `Crash` | a call fails; a process dies |

Requests are a set: they are delivered in any order. `typed` and `overlapped`
are history variables. `hop` counts how often a command has been sent on and
is there only for the bound `MaxHops`. Peer lists are a constant here.

**`PlaybackRefinement`** maps `PlaybackCommands` to `GroupPlayback`: members
are the clients that are up, their view is the player without its cue, and
what a member still has to do is read off the threads and the requests under
way (`LoadAhead`, `ActionAhead`). `ActsAsOnePlayer` is `Safety` of the mapped
group, `CarriesCommandsOut` its `Progress`.

**`AudioPlayer`** is one player at the grain of its atomics: each load and each
store of `playing_` and `current_position_` that another thread can see is a
step of its own (`Test`, `Raise`, `StartUnit`; `Lower`, `Rewind`, `HaltUnit`,
`UnitHalted`; `RenderBegin`, `RenderAdvance`, `RenderEnd`, `RenderHalt`), and
positions are unsigned integers modulo `Word`. The audio unit is external:
stopping it from a control thread lets no callback begin and waits for the one
in flight. `InStep` restricts `set_position` to positions of the song, of a
paused player: what a resume does in a group that is in step.

**`PeerNetwork`** is `connected_peers_` of all clients under join, leave,
gossip, quit, the `Gossip` and `Exit` handlers and crashes. `ConnectToPeer` is
three steps, as in the code: look (`CheckConnected`), ping without the lock
(`Ping`), append (`Push`). Addresses are values, `Reach` says whom a node finds
behind one, `Self` what a node takes for its own address, `Outgoing` how the
calls of a node appear to the called side (`context->peer()`: a port chosen by
the system). Users join other clients and not themselves.

**`AudioStream`** is the server and the clients' use of it. `Load` clears the
buffer and sends the request; `Accept` or `Refuse` is the server's handler,
`Chunk` one write and the append at the client, `EndStream` the end of the
loop, `Finish` the copy into the player and the new number, `GiveUp` the error
path. `Ask` and `Answer` are the two locked steps of `GetPeerClientIPs`.
Connections break (`Disconnect`: the next one has another port), the server
stops and restarts with another order of songs. A client has several loading
threads (its command loop and its handlers), one buffer and one player. Two
threads that write the buffer at once leave either result or `Garbled`.

**`ClientLifecycle`** is a client process from `main()` to its end. The pointers
to the `PeerNetwork` are counted (`refs`: one in `main`, one in the
`AudioClient`, one in each `Gossip` or `Exit` handler at work); whoever drops
the last one runs the destructor, in its order: `Tell` and `Answered`
(`BroadcastExit`, one peer after the other, each call waited for until it is
answered, fails or passes its deadline), `Told`, then `Stop`, `Shut` and `Join`
(`StopServer`), `Clear`. A handler that copies the pointer once the count is 0
takes it to 1 and back, and runs the destructor again beside the first thread.
`ServerThread` is the thread in `Wait()`, `Arrive` a request that gRPC gives to
a handler, `Free` the end of `~AudioClient` and of the process; it may come
while handlers are under way, if one of them outlives `main`'s pointers.

**`CommandTiming`** is one command in time: the pings with their four clock
readings (`SendPing`, `PingArrives`, `PingAnswered`, `TakeSample`), the average
offset, the target time, the waiting time in whole milliseconds (`Dispatch`),
and the sleep of the sender and of every peer. `now` is real time, clocks
differ by `Skew`, `Truncated` is what an int32 field keeps of an int64, `Float`
what a float keeps of a difference, a sum and a quotient (a significand up to
`Digits` times a unit from `Scales`; rounded to nearest, ties to even), and
every wait ends within bounds (`Jitter`, `MaxDelay`) that `Tick` respects.

The `MC*` modules give the constants values; the `*Proofs` modules and
`GroupPlayback` hold the theorems. `PlaybackRefinementProofs` extends
`PlaybackCommandsProofs` with the refinement.

## Runs

| run | bounds | what it shows |
|---|---|---|
| `PC_serial` | 3 clients, 2 users, 2 songs, 4 commands, one at a time, 1 handler per client; the third client may crash at any step | `ActsAsOnePlayer`, `CarriesCommandsOut`: the clients implement `GroupPlayback`, step by step and in that every command is carried out. `NoEcho`, `PlaysTheSongAskedFor`, `Synced`, `Aligned`, `AsAsked`, `UserCommandsAreBroadcast`: nobody sends on, everybody has the song, ends in the same state and at the same place, and in the state the last command asked for. Loads succeed here and nothing overlaps |
| `PC_crossing` | 2 clients, 2 handlers each, 2 commands at any time, loads fail, one client may crash with requests on their way to it, no deadlines | `TypeOK`, `FlagHasOwner`, `EchoNeedsOverlap`: what is left of the flag when commands overlap. `CommandsEnd`, `FlagIsLowered`: clients that wait for each other's loads do not wait for ever, and not because deadlines save them |
| `AP_single` | 1 control thread, all operations, both ways to load, songs of 0, 5 and 8 bytes, 5-bit positions, seeks in step | `TypeOK`, `SoundHasItsFlag`, `NoFillUnderRender`, `PlaysWithinSong`, `CallsReturn`, `SongEnds` |
| `PN_serial` | 3 clients, 4 commands one at a time, any client may crash at any step | `NoDuplicates`, `GossipMakesMesh`, `OpsEnd` |
| `PN_overlap` | 3 clients, 2 handlers each, 4 commands at any time, failing pings and calls, no deadlines | `TypeOK`, `NoSelfLoop`, `OpsEnd`: gossips that cross do not block each other |
| `AS_stream` | 2 clients, 3 loading threads, songs of two chunks and of one, a file that is no song; 3 requests, broken connections or server stops in all | `TypeOK`, `PlaysWholeSong`, `SameNumberSameSong`, `HearOfEachOther`, `OneEntryEach`, `LoadsEnd` |
| `CL_quit` | 2 clients, 2 handlers each; both quit at any time, one of them lists the other and is sent requests and gossip meanwhile; the server may not start | `TypeOK`, `HandlersAreDone`, `ServerIsJoined`, `PeersAreTold`: handlers hold the pointer, drop it last, or copy it after the last one did, and run the destructor beside `main`; still nothing is destroyed under a handler of the server, no thread is left joinable, no peer left out. `QuitExits`: the process ends, unless a handler waits for itself in `Shutdown` |
| `SC_timing` | a sender and 2 peers whose clocks differ by up to 9 units, one ping each, fields of 24 values, floats of 3 digits, a margin of 1 ms, pings and commands that fail | `TypeOK`, `StartsClose`, `StartsOnTarget`, `SenderStarts`: everybody starts close to the others, and close to the target the sender chose |

The bounds. Two handlers at a client are enough for one to lower the flag under
the other, and three clients for a broadcast to be half done. In `PC_serial`
one handler per client is enough: a second one is never busy together with the
first when commands are given one at a time (with two handlers and three
commands the properties hold as well, in 657 594 states). Four serial commands
include pause, then resume, then a new song. With `MaxHops = 2` a command that
a peer sends on by mistake comes back to its sender, who handles it. Songs of 5
and 8 bytes, with frames of 2 and callbacks of 2 frames, end within, at and
between buffers; 0 is a song without data. Four membership commands connect
three clients, gossip, and still leave one to join or leave in the middle.
Three events in `AS_stream` are two loads of one client that overlap and one
elsewhere, or a load, a broken connection or a stop, and a second load. In
`SC_timing` the clock readings lie on both sides of what the field can hold, the
floats round, and the margin may pass before the sender reads its clock again.
In `CL_quit` a client has `main` and both its handlers in the destructor; that
the other lists it too would add nothing, since an `Exit` is received like a
`Gossip` and every wait for a peer may end at any moment.

Deadlock checking is off where the bound on commands, or the end of every
process, ends every behaviour (`PC_*`, `PN_*`, `AS_*`, `CL_*`, `SC_*`); in the
player a control thread can always call something. That nobody waits for ever
is what the liveness properties say.

Fairness. Threads are scheduled (`WF` on each thread's step, on the server's
thread and on the server's side of each load), a running unit calls back
(`WF` on `Render`), and a request is delivered or fails: gRPC fails calls to
dead clients. In `CommandTiming` time goes on and every thread runs within its
bounds (`WF` on `Next`). Users need not type, nothing needs to fail, and a
stopped server need not come back. No liveness property relies on a deadline
but `QuitExits`, in which an `Exit` call ends at the latest at its 500 ms.
`GroupPlayback` asks that a command that was given is carried out
(`WF` on `Carry`), which the threads of the clients do.

What the runs leave out, by design: in `PC_serial` and `PN_serial` users take
turns, so that handlers of one client do not overlap there; `NoEcho`,
`UserCommandsAreBroadcast` and `NoDuplicates` then say that flag and lists are
kept right by each command for the next one, and the overlap itself is
`PC_crossing`, `PN_overlap` and the list below. `StartsClose` would not notice a
wait that is wrong for all alike; `StartsOnTarget` does. `OneEntryEach` is about
one connection, `SameNumberSameSong` about one start of the server, and a gossip
whose sender dies half way promises nothing (`GossipMakesMesh`).

### Where code and documentation differ

These runs end in a counterexample; each is a finding in `PROJECT.json`.

- `PC_reordered`: two commands in a row are carried out by a peer in the other
  order, and the clients stay in different states.
- `AP_memory`: `loadFromMemory`, which every client uses, leaves the position
  at 0 instead of after the header; the first callback subtracts the header
  size, wraps, and reads before the data.
- `PN_exit`: `Exit` removes the address the call came from, which is never the
  one in the list: a client that quits stays listed.
- `SC_offset`: the peers' 64-bit clock readings travel in 32-bit fields, and
  the offset that is stored is not that of the clocks. (Its numbers are small
  and exact in a float; with real clocks the float loses the low bits too.)

Others were met while modelling. They show with the same modules and other
constants, or are read off the code where a model says that it ends there, and
have no run of their own.

Commands (`PlaybackCommands`):

- `NoEcho` and `UserCommandsAreBroadcast` fail when users type at any time
  (`Serial = FALSE`): the first of two handlers to end lowers the flag under
  the second, which then broadcasts what it received; and a command typed while
  a peer's is handled stays local.
- `PlaysTheSongAskedFor` fails when loads fail (`Failures = TRUE`) or outlive
  their deadline: the result of `BroadcastLoad` is ignored and play goes out to
  a peer that has not got the song.
- `Synced` fails when only one side has joined: `join` changes one list.

The player (`AudioPlayer`):

- resume with nothing loaded raises the flag, the next load leaves it up, and
  the play after that does nothing.
- `SoundHasItsFlag` and `NoFillUnderRender` fail with two control threads:
  resume against pause leaves a unit that sounds with the flag down; two loads
  replace data under a callback. The program has more than one.
- `play` between the callback's store of the flag (audioplayer.cpp:247) and its
  stop of the unit leaves the flag up over silence.
- `set_position` on a playing player, which a resume in a group that is out of
  step does (`InStep = FALSE`), lets `fetch_add` move the new position past the
  end, where the count of available bytes wraps. A song shorter than one
  callback's buffer gets there with stop and resume.
- a header with a frame size of 0 bytes is accepted; the callback divides by it.

Songs and server (`AudioStream`):

- two loads of one client at once append to one buffer, and each hands over
  what is in it when its own stream ends; they are a data race as well.
- a read error in the middle of a file ends the stream with OK, and the client
  accepts the truncated song. `LoadAudio` has no deadline.
- the server lists connections, not clients: a client that reconnects is told
  of its own former connection, and the list never shrinks. The addresses it
  gives out are the callers' ports, at which nobody listens.
- song numbers follow `directory_iterator` and mean something else after a
  restart; a client that does not ask again for the playlist does not notice.
- `exit` at the server ends `main` with a joinable `std::thread`, which
  terminates the process after it has said "Server shutdown complete."; with
  the port taken, `RunServer` calls `Wait` on a null server.

Membership (`PeerNetwork`) and shutdown (`ClientLifecycle`):

- `NoDuplicates` fails when commands overlap: two threads find an address
  absent and both append it. `NoSelfLoop` fails for a client that others know
  by a second address. A gossip makes its receivers forget the peers its sender
  does not know.
- two clients that know each other and quit together need not exit: an `Exit`
  handler copies the pointer that the quitting thread is letting go (the
  behaviour is undefined; the model takes the count from 0 to 1 and back), runs
  the destructor a second time, and waits in `Shutdown` for itself, where `main`
  waits for it. A `Gossip` handler can do the same. `QuitExits` names this case
  (a handler at `wait`) and says that there is no other.
- a handler that holds the last pointer to the `PeerNetwork` lets `main` free
  the client under it: `~AudioClient` then does not destroy the `PeerNetwork`,
  and so does not wait for the server. `HandlersAreDone` is about the members
  of the `PeerNetwork` only.
- the detached threads that send commands, and those that carry them out, are
  joined by nobody and use the `PeerNetwork` and the `AudioClient` after a quit.

Timing (`CommandTiming`):

- sync_clock.h:76-80 speaks of a time by which all peers can have the command.
  The largest round trip is never set, so that the margin is 1 ms, of which the
  waiting time keeps 0 or 1 ms after rounding. `StartsClose` holds because all
  wait equally long, not because they wait long enough: clients start apart by
  as much as the message takes, and `StartsOnTarget` allows for being late by
  that much. The offsets are stored and displayed only.
- the offset is converted to a float, whose unit is 2^24 ns and more at the
  size that a difference of truncated and whole clock readings has.

## Proofs

All proofs are of safety, and hold for every number of clients, threads, songs
and commands and for every setting of the switches (`Serial`, `Lossy`,
`Deadlines`, `Failures`, `Flaky`, `Mortal`), unless a theorem assumes one. They
use the named assumptions of the modules (`ConstantsAssumption`,
`NetworkAssumption`, `PlayerAssumption`, `StreamAssumption`,
`LifecycleAssumption`, `TimingAssumption`), which TLC evaluates in every run.

`PlaybackCommandsProofs`:

- `TypeCorrect`: `Spec => []TypeOK`. `TypeOK` is inductive because it says that
  a thread at work has a command; without that, `job[t].action` would mean
  nothing. One lemma per group of steps (`RequestType`, `ReturnType`, ...).
- `FlagOwned`: `Spec => []FlagHasOwner`. The flag alone is not inductive: a
  thread that lowers it must not be the reason why another one's flag is down.
- `EchoOnlyOverlapped`: `Spec => []EchoNeedsOverlap`. The inductive invariant
  `FlagInv` adds to both: a handler at work either sees the flag up or has been
  overlapped. `Receive` establishes it, and only another handler's `LowerFlag`
  disturbs it, which is what `overlapped` records.

The same module, for users who type only when nothing is under way, and loads
that no deadline cuts short (`InTurn`), whatever is lost, fails or crashes:

- `NoEchoInTurn`: `Spec => []NoEcho`; `BroadcastInTurn`:
  `Spec => UserCommandsAreBroadcast`. The invariant `TurnInv` says who can be at
  work at once: one user (`OneUser`), alone until it broadcasts (`StillAlone`)
  but for the load it waits for (`OnlyLoads`); one request or handler per client
  (`OneRequest`); a handler at work has its flag up (`Marked`). `OneRequest` is
  what makes `Marked` inductive: nobody else can lower the flag. Without
  `~Deadlines` the load that was given up would still be at work.
- `EverybodyPlaysTheSong`: `Spec => []PlaysTheSongAskedFor`, if besides nothing
  is lost, loads succeed and commands may travel one hop (`Reliable`); clients
  may still crash at any moment. `SongInv` adds to `TurnInv`: threads and
  requests belong to the last command typed (`LastCommand`), the user's own
  client has the song before it calls a peer (`TheSong`), and each peer has the
  song, or it is on its way, or it is still on the list (`Ready`).

`GroupPlayback`: `EndsInStep`, `Safety => []InStep`, by one invariant
(`SameOutcome`) on what the members that are still behind will end in: the same
for all, and what the command asks for (`InState`). The latter rests on what
each operation makes of any player (`DoPlayer`), in which a unit that runs is
flagged: a pause would leave a unit running that it finds unflagged.

`PlaybackRefinementProofs`, for groups that are `Together`: `Reliable`, every
user's client knows all the others (which is what `GossipTiesTheGroup` gives
it), and it does not crash in the middle of its user's command; all others may.
Without the first part a client that is not on the list is never told, without
the second a sender dies with half of its list told, and the group is two.

- `OnePlayer`: `Spec => ActsAsOnePlayer`. Initial states map to initial states,
  and every step of every action to a step of `GroupPlayback` or to none.
  `AllInv` adds to `TypeOK`, `TurnInv`, `FlagHasOwner` and `SongInv` what the
  mapping needs: one action is under way (`OneAction`), nothing comes back to
  the client it was typed at (`NotBack`), only plays load, and a load goes to
  one peer after the other (`Loads`). From it, a step changes `Ahead` of one
  client only, or of nobody; one lemma per action says which.
- `EndSynced`: `Spec => []Synced`, and `EndAsAsked`: `Spec => []AsAsked`, both
  from `OnePlayer` and `EndsInStep`: when nothing is under way nobody has
  anything ahead, and the group's command is the last one typed.
- `EndAligned`: `Spec => []Aligned`. The abstract player has no places, so this
  is an invariant of its own (`PlaceInv`): a player that has carried out the
  command under way is where the command leaves it (`Placed`), the others are
  aligned as they were, and a resume that is on its way has its sender's place.

`PeerNetworkProofs`:

- `TypeCorrect`: `Spec => []TypeOK`, on lemmas about `Tail`, `Append` and
  `RemoveFirst`.
- `NeverItsOwnPeer`: `Spec => []NoSelfLoop`, if a client is only found behind
  the address it gives as its own (`OneAddress`) and no user joins their own
  client (`NobodyJoinsItself`). Both are needed. `NoSelfLoop` is not inductive:
  `Push` appends what `CheckConnected` looked at two steps before, so the
  invariant also says that what a thread pings or is about to append is not its
  own client, and that a user's thread never has its own client on its list.

- `NobodyListedTwice`: `Spec => []NoDuplicates` under `InTurn`. The list is
  looked at and changed in two steps; what makes the look still true at the
  second one is that nobody else connects at this client (`OneUser`, `Alone`,
  `OneGossip`, `Waited`), which `Fresh` records.
- `GossipTiesTheGroup`: `Spec => []GossipMakesMesh`, if besides no call fails
  without a reason and all clients find the same client behind an address, each
  behind the one it gives as its own (`Dependable`); anybody may crash at any
  moment. `Meshing` follows the gossip with every member that lives: it is still
  on the sender's list (`Untold`), or the request is on its way (`Coming`), or
  it lists every other one or is about to (`Knows`).

`AudioPlayerProofs`:

- `TypeCorrect`: `Spec => []TypeOK`, for any number of control threads.
  `TypeOK` is not inductive: `Fill` stores the length of a song only a load
  has, so the invariant adds `CallOK`, which ties where a thread is to the call
  it is in.
- `SoundCanBeStopped`, `DataIsKept`: `SoundHasItsFlag` and `NoFillUnderRender`
  always hold if there is one control thread. Both follow from `UnitInv`. Its
  heart: with the flag down no callback is between its read of the position and
  the end of the song, unless a call that stops the unit is under way. Without
  this a callback could lower the flag between the two halves of `play`
  (`Raise`, `StartUnit`) and leave a unit that sounds with the flag down, which
  is what two control threads can do.
- `SongIsPlayedWithinItsBounds`: `Spec => []PlaysWithinSong`, for one control
  thread that seeks only while paused (`InStep`). The property is about
  callbacks that begin behind the header, in songs that fill one callback. Stop
  resets the position while a callback adds to it; `PositionInv` says that the
  sum is still in the song, because what a callback adds is at most one buffer.

`AudioStreamProofs`, without conditions:

- `TypeCorrect`: `Spec => []TypeOK`. That the number of starts stays within the
  bound needs that a server that is down has been stopped once more than it was
  started again (`Counts`).
- `LoadedSongIsWhole`: `Spec => []PlaysWholeSong`. `Progress` says of a load
  that ran alone that the buffer holds exactly the chunks it has got, and
  `Loaded` keeps what was handed over; a second load, a failure or a break
  touches the buffer but neither the player nor the number.
- `RegisteredOnce` and `NobodyIsMissed`: `OneEntryEach` and `HearOfEachOther`.
  `Listed` says who is in the list: every connection that has asked or is being
  sent a song; a server that starts again has an empty list and no connections.
- `NumbersMeanSongs`: `Spec => []SameNumberSameSong`. `Facts` collects what the
  server has said of songs to calls under way and to players that are ready;
  `OneSong` says that it never contradicts itself within one start, which
  `Restart` keeps because older starts have smaller numbers.

`ClientLifecycleProofs`: `TypeCorrect`, `Spec => []TypeOK`, without conditions:
the count of a `PeerNetwork` never falls below the pointers that `main`, the
`AudioClient` and the handlers hold (`Counted`), so not below 0, even where a
handler brings it back from 0. It may be higher: a process ends with handlers
under way. `HandlersEndFirst`, `ServerThreadIsJoined` and `PeersHearOfTheExit`
have no conditions either: whoever quits and whatever clients are sent. Handlers
that take part in the destruction are in the way of its end, not of its order:
a handler that runs the destructor never gets past `wait`, where it waits for
itself. What has to be shown is that `main`, beside it, finds the server in a
state it can rely on (`Serving`): the flag that `StopServer` tests is up for as
long as a handler is under way, since the server's thread lowers it only when
the last one is done, so that `main` cannot pass the test and destroy the
members under it; and requests are only taken before `Shutdown`. `Telling` says
that whoever is not on a thread's list any more has been called.

`CommandTimingProofs`, for any clocks, margin, delay, jitter, field width and
number of samples:

- `CommandsStartTogether`: `Spec => []StartsClose`. The invariant names the time
  `d` at which the command went out and says between which times, counted from
  `d`, every client is at each stage. Neither clocks nor pings occur in it.
- `TypeCorrect`: `Spec => []TypeOK`; the list of pings is one of peers
  (`PingList`).
- `CommandsStartOnTarget`: `Spec => []StartsOnTarget`, from the same invariant:
  `OnTarget` says that the wait is what is left of the margin at `d`, less than
  a millisecond cut off, or 0 if it has passed (`WaitLength`).

Only model-checked: everything under fairness (`CommandsEnd`, `FlagIsLowered`,
`CallsReturn`, `SongEnds`, `OpsEnd`, `LoadsEnd`, `QuitExits`, `SenderStarts`),
which the prover does not do, and `CarriesCommandsOut`, the fair half of the
refinement. Every invariant that a passing run checks, `ActsAsOnePlayer` and
`UserCommandsAreBroadcast` are theorems as well. Expired deadlines and lost
requests are covered by the theorems of `PlaybackCommandsProofs` and
`PeerNetworkProofs`; the runs have them switched off, since what they check is
that nobody waits for ever without them.

## Not modelled

- The cache of stubs in `GrpcPeerService` is a map under one mutex that only
  saves channels; its calls are modelled where they are made.
- `ProcessPingResponse`, `SleepUntil`, `AdjustTargetTime` and `SyncClock`'s
  `CalculateAverageOffset` are never called by the program, `GetPosition` has
  no caller, `set_playing` is called by tests only, and the `Ping` handler only
  reads the clock.
- Detached threads after a quit are undefined behaviour, listed as a hazard.
- `GetLocalIPAddress` is the constant `Self`. Arguments of `main`, listings,
  logging and build files hold no state of the program.
- Sound itself, the WAV header's fields and the bytes of a song are outside the
  models; a header is accepted or not.

## Plan

Done: all components with state. What would add most from here:

1. A composition of `PeerNetwork` and `PlaybackCommands`, in which lists change
   while commands travel; and of `AudioStream` and `AudioPlayer`, with the
   several control threads that the program has.
2. `AudioPlayer` with one control thread implements `PlayerOps`.
3. Action properties of single components, proved from their invariants: what a
   load, a gossip or a quit may never change.
