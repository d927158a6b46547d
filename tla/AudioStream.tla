---------------------------- MODULE AudioStream ----------------------------
(***************************************************************************)
(* The audio server and the clients' use of it: songs streamed in chunks   *)
(* by LoadAudio into the buffer that all threads of a client share, the    *)
(* hand-over of the buffer to the player, and the server's list of         *)
(* clients.  A handler and the command loop of a client may load at once.  *)
(*                                                                         *)
(* gRPC is external: the chunks of one stream arrive in order, each in one *)
(* step from the server's Write to the client's buffer; a broken           *)
(* connection fails its calls, and the next one has another port.          *)
(***************************************************************************)
EXTENDS Integers, Sequences, SequencesExt

CONSTANTS
    Client,          \* the clients
    Loader,          \* their threads that load songs: <<client, name>>
    Song,            \* what the audio directory may hold
    Parts,           \* chunks of each song
    Wav,             \* the songs whose header is accepted
    Playlists,       \* orders directory_iterator may give
    Numbers,         \* song numbers that are asked for
    MaxEvents        \* bound: requests, broken connections and server stops

ASSUME StreamAssumption ==
    /\ \A t \in Loader : t[1] \in Client
    /\ Parts \in [Song -> Nat] /\ Wav \subseteq Song
    /\ Playlists \subseteq Seq(Song) /\ Numbers \subseteq Int
    /\ MaxEvents \in Nat

VARIABLES
    playlist, registry,  \* playlist_, connected_clients_ by client id
    serving, run,        \* the server is up; history: which start it is
    port,                \* each client's end of its connection
    ask, heard,          \* GetPeerClientIPs: where it is, its last answer
    call,                \* the LoadAudio of each thread
    events,              \* how much has happened, to bound it
    data,                \* audio_data_
    player, number       \* the player's song, current_song_num_

server == <<playlist, registry, serving, run>>
client == <<data, player, number>>
asks   == <<port, ask, heard>>
vars   == <<server, client, asks, call, events>>

Address(c) == <<c, port[c]>>
Whole(s) == [i \in 1 .. Parts[s] |-> <<s, i>>]

\* What is left when two threads write the vector at once.
Garbled == << <<"garbled">> >>

NoCall     == [at |-> "idle"]
FailedCall == [at |-> "failed"]

TypeOK ==
    /\ playlist \in Playlists
    /\ registry \in Seq(Client \X (0 .. MaxEvents))
    /\ serving \in BOOLEAN /\ run \in 0 .. MaxEvents
    /\ port \in [Client -> 0 .. MaxEvents]
    /\ ask \in [Client -> {"never", "registered", "answered"}]
    /\ heard \in [Client -> SUBSET (Client \X (0 .. MaxEvents))]
    /\ \A t \in Loader :
          /\ call[t].at \in {"idle", "asked", "open", "ok", "failed"}
          /\ call[t].at \notin {"idle", "failed"} =>
                /\ call[t].num \in Numbers /\ call[t].alone \in BOOLEAN
                /\ call[t].song \in {<< >>} \cup {<<s>> : s \in Song}
                /\ call[t].got <= (IF call[t].at = "asked" THEN 0
                                   ELSE Parts[call[t].song[1]])
    /\ \A c \in Client : number[c] \in Numbers \cup {-1}

Init ==
    /\ playlist \in Playlists
    /\ registry = << >> /\ serving = TRUE /\ run = 0
    /\ port = [c \in Client |-> 0]
    /\ ask = [c \in Client |-> "never"]
    /\ heard = [c \in Client |-> {}]
    /\ call = [t \in Loader |-> NoCall]
    /\ data = [c \in Client |-> << >>]
    /\ player = [c \in Client |-> [has |-> << >>, ready |-> FALSE,
                                   load |-> NoCall]]
    /\ events = 0
    /\ number = [c \in Client |-> -1]

Happens == events < MaxEvents /\ events' = events + 1

-----------------------------------------------------------------------------
Others(t) == {u \in Loader : u[1] = t[1] /\ u # t /\ call[u].at # "idle"}

\* Thread t leaves b in the buffer, unless another one is at it as well.
Write(t, b) ==
    data' \in {[data EXCEPT ![t[1]] = x] :
                 x \in IF Others(t) = {} THEN {b} ELSE {b, Garbled}}

\* The calls once thread t has sent its request.
Called(t, num) ==
    [u \in Loader |->
       IF u = t
       THEN [at |-> "asked", num |-> num, song |-> << >>, got |-> 0,
             cut |-> FALSE, alone |-> Others(t) = {}, run |-> run]
       ELSE IF u \in Others(t) /\ call[u] # FailedCall
       THEN [call[u] EXCEPT !.alone = FALSE]
       ELSE call[u]]

\* Fault: the buffer keeps what an earlier load left in it.
LoadAppending(t, num) ==
    /\ call[t].at = "idle"
    /\ call' = Called(t, num) /\ Happens
    /\ UNCHANGED <<server, asks, data, player, number>>

\* AudioClient::LoadAudio clears the buffer and sends the request.
Load(t, num) ==
    /\ call[t].at = "idle"
    /\ Write(t, << >>)
    /\ call' = Called(t, num) /\ Happens
    /\ UNCHANGED <<server, asks, player, number>>

\* Fault: a client is entered again for every request.
RegisterAlways(a) == Append(registry, a)

\* RegisterClient, under its mutex.
RegisterClient(a) == IF Contains(registry, a) THEN registry
                     ELSE Append(registry, a)

\* GetAudioFilePath: songs are numbered from 1; a file may have gone.
HasFile(num) == num \in 1 .. Len(playlist)

Refuse(t) ==
    /\ serving /\ call[t].at = "asked"
    /\ call' = [call EXCEPT ![t] = FailedCall]
    /\ UNCHANGED <<server, asks, client, events>>

\* Fault: the directory is listed again for every request.
AcceptRelisted(t) ==
    /\ serving /\ call[t].at = "asked"
    /\ HasFile(call[t].num)
    /\ registry' = RegisterClient(Address(t[1]))
    /\ \E list \in Playlists :
         call' = [call EXCEPT ![t].at = "open", ![t].run = run,
                              ![t].song = <<list[call[t].num]>>]
    /\ UNCHANGED <<playlist, serving, run, asks, client, events>>

Accept(t) ==
    /\ serving /\ call[t].at = "asked"
    /\ HasFile(call[t].num)
    /\ registry' = RegisterClient(Address(t[1]))
    /\ call' = [call EXCEPT ![t].at = "open", ![t].run = run,
                            ![t].song = <<playlist[call[t].num]>>]
    /\ UNCHANGED <<playlist, serving, run, asks, client, events>>

\* Thread t appends the next chunk of its song.
AppendChunk(t) ==
    /\ call' = [call EXCEPT ![t].got = @ + 1]
    /\ Write(t, IF data[t[1]] = Garbled THEN Garbled ELSE
                Append(data[t[1]], <<call[t].song[1], call[t].got + 1>>))
    /\ UNCHANGED <<server, asks, events, player, number>>

\* Fault: one chunk too many is sent.
ChunkAgain(t) ==
    /\ call[t].at = "open" /\ call[t].got <= Parts[call[t].song[1]]
    /\ AppendChunk(t)

\* The server reads and writes a chunk, the client's callback appends it.
Chunk(t) ==
    /\ call[t].at = "open" /\ call[t].got < Parts[call[t].song[1]]
    /\ AppendChunk(t)

\* The loop ends at the end of the file or at a read error, both times OK.
EndStream(t) ==
    /\ call[t].at = "open"
    /\ call' = [call EXCEPT ![t].at = "ok",
                            ![t].cut = call[t].got < Parts[call[t].song[1]]]
    /\ UNCHANGED <<server, asks, client, events>>

\* loadFromMemory may accept: it looks at the header.
Accepts(b) == b # << >> /\ (b = Garbled \/ Head(b)[1] \in Wav)

\* The stream ended OK: the player copies the buffer as it is now.  A song it
\* refuses leaves it with the old song and no audio unit; if the unit cannot
\* be set up it has the new song, and the client the old number.
Finish(t) ==
    /\ call[t].at = "ok"
    /\ LET b == data[t[1]]
       IN \/ /\ Accepts(b)
             /\ \E ready \in BOOLEAN :
                  /\ player' = [player EXCEPT ![t[1]] =
                       [has |-> b, ready |-> ready, load |-> call[t]]]
                  /\ number' = [number EXCEPT ![t[1]] =
                       IF ready THEN call[t].num ELSE @]
          \/ /\ ~Accepts(b) \/ b = Garbled
             /\ player' = [player EXCEPT ![t[1]].ready = FALSE]
             /\ UNCHANGED number
    /\ call' = [call EXCEPT ![t] = NoCall]
    /\ UNCHANGED <<server, asks, events, data>>

\* The status is an error: neither player nor number is touched.
GiveUp(t) ==
    /\ call[t].at = "failed"
    /\ call' = [call EXCEPT ![t] = NoCall]
    /\ UNCHANGED <<server, asks, client, events>>

-----------------------------------------------------------------------------
\* Fault: only GetPlaylist registers the client.
AskUnregistered(c) ==
    /\ serving
    /\ \/ registry' = RegisterClient(Address(c)) /\ UNCHANGED ask
       \/ ask' = [ask EXCEPT ![c] = "registered"] /\ UNCHANGED registry
    /\ Happens
    /\ UNCHANGED <<playlist, serving, run, client, port, heard, call>>

\* GetPlaylist registers; GetPeerClientIPs registers as well, and goes on ...
Ask(c) ==
    /\ serving
    /\ registry' = RegisterClient(Address(c))
    /\ ask' \in {ask, [ask EXCEPT ![c] = "registered"]}
    /\ Happens
    /\ UNCHANGED <<playlist, serving, run, client, port, heard, call>>

\* ... to GetConnectedClients, which locks the list again.
ConnectedClients(a) == ToSet(registry) \ {a}

Answer(c) ==
    /\ serving /\ ask[c] = "registered"
    /\ heard' = [heard EXCEPT ![c] = ConnectedClients(Address(c))]
    /\ ask' = [ask EXCEPT ![c] = "answered"]
    /\ UNCHANGED <<server, client, port, call, events>>

Fail(C) ==
    /\ call' = [t \in Loader |-> IF t[1] \in C /\ call[t].at # "idle"
                                 THEN FailedCall
                                 ELSE call[t]]
    /\ port' = [c \in Client |-> IF c \in C THEN port[c] + 1 ELSE port[c]]
    /\ Happens
    /\ ask' = [c \in Client |-> IF c \in C THEN "never" ELSE ask[c]]
    /\ heard' = [c \in Client |-> IF c \in C THEN {} ELSE heard[c]]

\* A connection breaks.  The server keeps the client in its list.
Disconnect(c) ==
    /\ serving
    /\ Fail({c})
    /\ UNCHANGED <<server, client>>

\* The server crashes, or is told to exit: its main thread returns without
\* having joined the thread that serves.
Stop ==
    /\ serving
    /\ serving' = FALSE
    /\ Fail(Client)
    /\ UNCHANGED <<playlist, registry, run, client>>

\* Fault: a call waits for the server to come back.
UnavailableYet(t) == ~serving /\ call[t].at = "asked" /\ UNCHANGED vars

\* Calls to a server that is not there fail.
Unavailable(t) ==
    /\ ~serving /\ call[t].at = "asked"
    /\ call' = [call EXCEPT ![t] = FailedCall]
    /\ UNCHANGED <<server, asks, client, events>>

\* A new server reads the directory again and knows nobody.
Restart ==
    /\ ~serving
    /\ serving' = TRUE /\ run' = run + 1
    /\ playlist' \in Playlists
    /\ registry' = << >>
    /\ UNCHANGED <<client, asks, call, events>>

Stream(t) == \/ Refuse(t) \/ Accept(t) \/ Chunk(t) \/ EndStream(t)
             \/ Unavailable(t)
Fetch(t) == Finish(t) \/ GiveUp(t)

Next ==
    \/ \E t \in Loader : (\E k \in Numbers : Load(t, k)) \/ Stream(t) \/ Fetch(t)
    \/ \E c \in Client : Ask(c) \/ Answer(c) \/ Disconnect(c)
    \/ Stop \/ Restart

\* The server's thread of a call and the thread that loads both run.
Fairness == \A t \in Loader : WF_vars(Stream(t)) /\ WF_vars(Fetch(t))

Spec == Init /\ [][Next]_vars /\ Fairness
-----------------------------------------------------------------------------
\* A load whose outcome can be relied on: no other load of the client ran
\* meanwhile, and the server could read the file.
Sound(p) == p.ready /\ p.load.alone /\ ~p.load.cut

\* What a client can play is one whole song, and the number it will tell its
\* peers is the one that song was asked for by, whatever loads failed, were
\* refused or were cut off by a crash before.
PlaysWholeSong ==
    \A c \in Client : LET p == player[c] IN
        Sound(p) => p.has = Whole(p.load.song[1]) /\ number[c] = p.load.num

\* Clients that agree on the number have the same song, as long as they had
\* it from the same start of the server: a restart may renumber.
SameNumberSameSong ==
    \A c, d \in Client :
        /\ Sound(player[c]) /\ Sound(player[d]) /\ number[c] = number[d]
        /\ player[c].load.run = player[d].load.run
        => player[c].has = player[d].has

\* Clients that are connected and have asked who else is there: the later one
\* was told of the earlier one, however their requests interleaved.
HearOfEachOther ==
    \A c, d \in Client :
        c # d /\ ask[c] = "answered" /\ ask[d] = "answered"
            => Address(c) \in heard[d] \/ Address(d) \in heard[c]

\* Every connection has one entry and one id while the server is up, and the
\* stream of a song only goes to one that has.
OneEntryEach ==
    /\ IsInjective(registry)
    /\ \A t \in Loader : call[t].at = "open" /\ call[t].got > 0 =>
                            Contains(registry, Address(t[1]))

\* Every load ends, with a song or an error.
LoadsEnd == \A t \in Loader : call[t].at # "idle" ~> call[t].at = "idle"
=============================================================================
