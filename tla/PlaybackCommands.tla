-------------------------- MODULE PlaybackCommands --------------------------
(***************************************************************************)
(* How a playback command travels: the user's thread of a client           *)
(* (main.cpp), the commands of AudioClient, the broadcasts of PeerNetwork, *)
(* the SendMusicCommand handler of PeerService with its detached threads,  *)
(* and the flag command_from_broadcast_ that is meant to break the loop.   *)
(*                                                                         *)
(* A thread is <<node, Main>>, the command loop, or <<node, slot>>, one    *)
(* in-flight handler together with the thread it detaches.  RPCs are       *)
(* messages in a set: each broadcast sends from its own detached thread,   *)
(* so nothing orders them.  Only "load" is waited for.                     *)
(***************************************************************************)
EXTENDS Naturals, Sequences, PlayerOps

CONSTANTS
    Node,        \* the clients
    Slot,        \* handlers a client can have in flight
    Main,        \* names the thread of the command loop
    Song, NoSong,
    Peers,       \* connected_peers_ of each node, fixed here
    Issuers,     \* the nodes whose users type commands
    MaxCommands, \* bound: commands typed, over all users
    MaxHops,     \* bound: a message forwarded this often is not sent on
    Mortal,      \* the clients that may crash
    Serial,      \* users type only when nothing is under way
    Lossy,       \* RPCs may fail before they reach the peer
    Deadlines,   \* the 5 s deadline of a load may expire before its answer
    Failures     \* LoadAudio may fail

ASSUME ConstantsAssumption ==
    /\ Main \notin Slot
    /\ NoSong \notin Song
    /\ Peers \in [Node -> SUBSET Node]
    /\ Issuers \subseteq Node /\ Mortal \subseteq Node
    /\ MaxCommands \in Nat /\ MaxHops \in Nat
    /\ {Serial, Lossy, Deadlines, Failures} \subseteq BOOLEAN

Worker == Node \X Slot
User   == Node \X {Main}
Thread == Worker \cup User

UserAction == {"play", "pause", "resume", "stop"}
PC == {"idle", "loading", "check", "bcast", "bwait", "apply"}

VARIABLES
    up,           \* the clients that have not crashed
    flag,         \* command_from_broadcast_
    currentSong,  \* current_song_num_
    player,       \* player_, see PlayerOps
    pc, job,      \* what each thread does, and for which command
    todo,         \* peers a broadcast load has still to call
    net,          \* SendMusicCommand requests on their way
    typed,        \* history: each command typed, and the song it names
    overlapped    \* history: another handler lowered the flag under this one

vars == <<up, flag, currentSong, player, pc, job, todo, net, typed,
          overlapped>>

Cue == {Start} \cup (Node \X (1 .. MaxCommands))

\* A request, and the command a thread works on; `cmd` says which of the
\* commands typed it comes from.
Message == [action : UserAction \cup {"load"}, song : Song \cup {NoSong},
            cue : Cue, cmd : 1 .. MaxCommands, hop : Nat,
            from : Thread, to : Node]

NoJob == [action |-> "none"]

\* What a user types; only "play" names a song.
Typed == [action : UserAction, song : Song \cup {NoSong}]

TypeOK ==
    /\ up \subseteq Node
    /\ flag \in [Node -> BOOLEAN]
    /\ currentSong \in [Node -> Song \cup {NoSong}]
    /\ player \in [Node -> [playing : BOOLEAN, cue : Cue,
                            unit : {"none", "ready", "running"}]]
    /\ pc \in [Thread -> PC]
    /\ job \in [Thread -> Message \cup {NoJob}]
    /\ \A t \in Thread : pc[t] # "idle" => job[t] \in Message
    /\ todo \in [Thread -> SUBSET Node]
    /\ net \subseteq Message
    /\ typed \in Seq(Typed)
    /\ Len(typed) <= MaxCommands
    /\ overlapped \in [Worker -> BOOLEAN]

Init ==
    /\ up = Node
    /\ flag = [n \in Node |-> FALSE]
    /\ currentSong = [n \in Node |-> NoSong]
    /\ player = [n \in Node |-> NewPlayer]
    /\ pc = [t \in Thread |-> "idle"]
    /\ job = [t \in Thread |-> NoJob]
    /\ todo = [t \in Thread |-> {}]
    /\ net = {}
    /\ typed = << >>
    /\ overlapped = [w \in Worker |-> FALSE]

-----------------------------------------------------------------------------
Quiet == net = {} /\ \A t \in Thread : pc[t] = "idle"

\* A slot stands for a thread: it is given to another one only when nothing
\* its last thread sent is still on its way.
Free(w) == pc[w] = "idle" /\ \A m \in net : m.from # w

Goto(t, label) == pc' = [pc EXCEPT ![t] = label]

Finish(t) == /\ Goto(t, "idle")
             /\ job' = [job EXCEPT ![t] = NoJob]
             /\ UNCHANGED <<up, todo, net, typed>>

\* SetCommandFromBroadcast(false), the last thing a handler's thread does.
LowerFlag(t) ==
    /\ flag' = [flag EXCEPT ![t[1]] = FALSE]
    /\ overlapped' = [w \in Worker |-> \/ overlapped[w]
                                       \/ w[1] = t[1] /\ w # t]

\* Fault: the detached thread leaves the flag up.
ReturnAfterLoad(t) ==
    /\ Finish(t)
    /\ IF t \in Worker /\ job[t].action = "load" THEN LowerFlag(t)
       ELSE UNCHANGED <<flag, overlapped>>

\* What a thread leaves behind when its command is done.
Return(t) == /\ Finish(t)
             /\ IF t \in Worker THEN LowerFlag(t)
                ELSE UNCHANGED <<flag, overlapped>>

-----------------------------------------------------------------------------
\* The user types a command; "play <n>" loads the song first.
Issue(n, action, song) ==
    /\ n \in up \cap Issuers
    /\ Len(typed) < MaxCommands
    /\ Serial => Quiet
    /\ pc[<<n, Main>>] = "idle"
    /\ (action = "play") <=> (song # NoSong)
    /\ typed' = Append(typed, [action |-> action, song |-> song])
    /\ job' = [job EXCEPT ![<<n, Main>>] =
                 [action |-> action, song |-> song, cue |-> Start,
                  cmd |-> Len(typed'), hop |-> 0,
                  from |-> <<n, Main>>, to |-> n]]
    /\ Goto(<<n, Main>>, IF action = "play" THEN "loading" ELSE "check")
    /\ UNCHANGED <<up, flag, currentSong, player, todo, net, overlapped>>

\* Fault: the handler answers without having marked the command.
ReceiveUnmarked(m, w) ==
    /\ m.to \in up
    /\ w[1] = m.to /\ Free(w)
    /\ net' = net \ {m}
    /\ job' = [job EXCEPT ![w] = m]
    /\ Goto(w, IF m.action = "load" THEN "loading" ELSE "check")
    /\ overlapped' = [overlapped EXCEPT ![w] = FALSE]
    /\ UNCHANGED <<up, flag, currentSong, player, todo, typed>>

\* Fault: a client-wide lock is held while peers load.
ReceiveExclusive(m, w) ==
    /\ m.to \in up
    /\ w[1] = m.to /\ Free(w)
    /\ pc[<<m.to, Main>>] # "bwait"
    /\ net' = net \ {m}
    /\ flag' = [flag EXCEPT ![m.to] = TRUE]
    /\ job' = [job EXCEPT ![w] = m]
    /\ Goto(w, IF m.action = "load" THEN "loading" ELSE "check")
    /\ overlapped' = [overlapped EXCEPT ![w] = FALSE]
    /\ UNCHANGED <<up, currentSong, player, todo, typed>>

\* SendMusicCommand on the called side, up to the flag: from here on the
\* request lives in the handler (load) or in the thread it detached.
Receive(m, w) ==
    /\ m.to \in up
    /\ w[1] = m.to /\ Free(w)
    /\ net' = net \ {m}
    /\ flag' = [flag EXCEPT ![m.to] = TRUE]
    /\ job' = [job EXCEPT ![w] = m]
    /\ Goto(w, IF m.action = "load" THEN "loading" ELSE "check")
    /\ overlapped' = [overlapped EXCEPT ![w] = FALSE]
    /\ UNCHANGED <<up, currentSong, player, todo, typed>>

\* Fault: the command is dropped as soon as its song is there.
LoadDoneForgets(t) ==
    /\ pc[t] = "loading"
    /\ player' = [player EXCEPT ![t[1]] = Loaded(@)]
    /\ currentSong' = [currentSong EXCEPT ![t[1]] = job[t].song]
    /\ IF t \in Worker
       THEN Return(t)
       ELSE /\ Goto(t, "check")
            /\ job' = [job EXCEPT ![t] = NoJob]
            /\ UNCHANGED <<up, flag, todo, net, typed, overlapped>>

\* AudioClient::LoadAudio succeeds.  A handler's load ends here; the user's
\* goes on to Play().
LoadDone(t) ==
    /\ pc[t] = "loading"
    /\ player' = [player EXCEPT ![t[1]] = Loaded(@)]
    /\ currentSong' = [currentSong EXCEPT ![t[1]] = job[t].song]
    /\ IF t \in Worker
       THEN Return(t)
       ELSE /\ Goto(t, "check")
            /\ UNCHANGED <<up, flag, job, todo, net, typed, overlapped>>

\* Fault: the error return of the handler forgets the flag.
LoadFailKeepsFlag(t) ==
    /\ Failures
    /\ pc[t] = "loading"
    /\ UNCHANGED <<player, currentSong, flag, overlapped>>
    /\ Finish(t)

\* LoadAudio fails: at the server (the player is untouched) or because the
\* player refuses the data.  Either way the command is over.
LoadFail(t) ==
    /\ Failures
    /\ pc[t] = "loading"
    /\ \/ UNCHANGED player
       \/ player' = [player EXCEPT ![t[1]] = Rejected(@)]
    /\ UNCHANGED currentSong
    /\ Return(t)

-----------------------------------------------------------------------------
\* get_position, as a name.
Position(p, n, cmd) == IF p.unit = "running" THEN <<n, cmd>> ELSE p.cue

\* Fault: a handler resumes without set_position.
NotRepositioned(t) == player[t[1]]

\* The player after set_position, which only a handler's resume calls.
Repositioned(t) == IF t \in Worker /\ job[t].action = "resume"
                   THEN [player[t[1]] EXCEPT !.cue = job[t].cue]
                   ELSE player[t[1]]

\* The test of Play(), Pause(), Resume() and Stop().
Forwarded(t) == ~flag[t[1]]

\* Play(), Pause(), Resume(), Stop() down to the test of the flag.  A resume
\* that is broadcast carries the position, which thereby gets a name.
CheckFlag(t) ==
    /\ pc[t] = "check"
    /\ LET n == t[1]
           p == Repositioned(t)
           here == Position(p, n, job[t].cmd)
           resumes == Forwarded(t) /\ job[t].action = "resume"
           loads == Forwarded(t) /\ job[t].action = "play"
                                 /\ currentSong[n] # NoSong
       IN /\ player' = [player EXCEPT ![n] =
                          IF resumes THEN [p EXCEPT !.cue = here] ELSE p]
          /\ job' = [job EXCEPT ![t] =
                       IF resumes THEN [@ EXCEPT !.cue = here]
                       ELSE IF loads THEN [@ EXCEPT !.song = currentSong[n]]
                       ELSE @]
          /\ todo' = [todo EXCEPT ![t] = IF loads THEN Peers[n] ELSE {}]
          /\ Goto(t, IF Forwarded(t) THEN "bcast" ELSE "apply")
    /\ UNCHANGED <<up, flag, currentSong, net, typed, overlapped>>

Request(t, action, p) ==
    [job[t] EXCEPT !.action = action, !.from = t, !.to = p, !.hop = @ + 1,
                   !.song = IF action = "load" THEN @ ELSE NoSong]

\* Fault: a peer that does not answer is called again.
SendLoadAgain(t, p) ==
    /\ pc[t] = "bcast"
    /\ p \in todo[t]
    /\ p \in up /\ job[t].hop < MaxHops
    /\ net' = net \cup {Request(t, "load", p)}
    /\ Goto(t, "bwait")
    /\ todo' = [todo EXCEPT ![t] = @ \ {p}]
    /\ UNCHANGED <<up, flag, currentSong, player, job, typed, overlapped>>

\* BroadcastLoad calls the next peer and waits, unless the call fails.
SendLoad(t, p) ==
    /\ pc[t] = "bcast"
    /\ p \in todo[t]
    /\ todo' = [todo EXCEPT ![t] = @ \ {p}]
    /\ \/ /\ p \in up /\ job[t].hop < MaxHops
          /\ net' = net \cup {Request(t, "load", p)}
          /\ Goto(t, "bwait")
       \/ /\ Lossy \/ p \notin up \/ job[t].hop >= MaxHops
          /\ UNCHANGED <<pc, net>>
    /\ UNCHANGED <<up, flag, currentSong, player, job, typed, overlapped>>

LoadPending(t) ==
    \/ \E m \in net : m.from = t /\ m.action = "load"
    \/ \E w \in Worker : pc[w] = "loading" /\ job[w].from = t

\* Fault: the load is sent and not waited for.
LoadReturnAtOnce(t) ==
    /\ pc[t] = "bwait"
    /\ Goto(t, "bcast")
    /\ UNCHANGED <<up, flag, currentSong, player, job, todo, net, typed,
                   overlapped>>

\* The load RPC returns: answered, failed, or past its deadline.
LoadReturn(t) ==
    /\ pc[t] = "bwait"
    /\ ~LoadPending(t) \/ Deadlines
    /\ Goto(t, "bcast")
    /\ UNCHANGED <<up, flag, currentSong, player, job, todo, net, typed,
                   overlapped>>

\* Fault: only a client that is playing tells its peers.
BroadcastWhilePlaying(t) ==
    /\ pc[t] = "bcast" /\ todo[t] = {}
    /\ net' = net \cup {Request(t, job[t].action, p) : p \in
                          IF job[t].hop < MaxHops /\ player[t[1]].playing
                          THEN Peers[t[1]] \cap up ELSE {}}
    /\ Goto(t, "apply")
    /\ UNCHANGED <<up, flag, currentSong, player, job, todo, typed,
                   overlapped>>

\* BroadcastCommand hands the command to one detached thread per peer.
BroadcastCommand(t) ==
    /\ pc[t] = "bcast" /\ todo[t] = {}
    /\ net' = net \cup {Request(t, job[t].action, p) : p \in
                          IF job[t].hop < MaxHops THEN Peers[t[1]] \cap up
                          ELSE {}}
    /\ Goto(t, "apply")
    /\ UNCHANGED <<up, flag, currentSong, player, job, todo, typed,
                   overlapped>>

\* The command reaches the thread's own player.
Effect(t) ==
    LET p == player[t[1]]
    IN CASE job[t].action = "play"   -> Played(p)
         [] job[t].action = "pause"  -> Paused(p, <<t[1], job[t].cmd>>)
         [] job[t].action = "resume" -> Resumed(p)
         [] OTHER                    -> Stopped(p)

Apply(t) ==
    /\ pc[t] = "apply"
    /\ player' = [player EXCEPT ![t[1]] = Effect(t)]
    /\ UNCHANGED currentSong
    /\ Return(t)

-----------------------------------------------------------------------------
\* A request that never reaches its peer.
Lose(m) ==
    /\ Lossy \/ m.to \notin up \/ m.from[1] \notin up
    /\ net' = net \ {m}
    /\ UNCHANGED <<up, flag, currentSong, player, pc, job, todo, typed,
                   overlapped>>

\* A client dies with all its threads.  Its peers keep it in their lists.
Crash(n) ==
    /\ n \in up \cap Mortal
    /\ up' = up \ {n}
    /\ pc' = [t \in Thread |-> IF t[1] = n THEN "idle" ELSE pc[t]]
    /\ job' = [t \in Thread |-> IF t[1] = n THEN NoJob ELSE job[t]]
    /\ todo' = [t \in Thread |-> IF t[1] = n THEN {} ELSE todo[t]]
    /\ flag' = [flag EXCEPT ![n] = FALSE]
    /\ UNCHANGED <<currentSong, player, net, typed, overlapped>>

ThreadStep(t) ==
    \/ LoadDone(t) \/ LoadFail(t) \/ CheckFlag(t)
    \/ \E p \in Node : SendLoad(t, p)
    \/ LoadReturn(t) \/ BroadcastCommand(t) \/ Apply(t)

Next ==
    \/ \E n \in Node, a \in UserAction, s \in Song \cup {NoSong} :
         Issue(n, a, s)
    \/ \E m \in net, w \in Worker : Receive(m, w)
    \/ \E t \in Thread : ThreadStep(t)
    \/ \E m \in net : Lose(m)
    \/ \E n \in Node : Crash(n)

\* Threads are scheduled and a request that was sent is delivered or fails;
\* users need not type, and nothing needs to be lost or to crash.
Fairness ==
    /\ \A t \in Thread : WF_vars(ThreadStep(t))
    /\ \A n \in Node : WF_vars(\E m \in net, w \in Worker :
                                 m.to = n /\ Receive(m, w))
    /\ WF_vars(\E m \in net : m.to \notin up /\ Lose(m))

Spec == Init /\ [][Next]_vars /\ Fairness
-----------------------------------------------------------------------------
\* Raised flags have an owner: whenever command_from_broadcast_ is up, some
\* handler of that client is still at work and will lower it.  A flag that
\* stayed up would silence the user's commands for good.
FlagHasOwner ==
    \A n \in Node : flag[n] => \E w \in Worker : w[1] = n /\ pc[w] # "idle"

\* A peer's command is sent on only by a handler under which another handler
\* of the same client has lowered the flag: the flag fails in no other way.
EchoNeedsOverlap ==
    \A w \in Worker : pc[w] \in {"bcast", "bwait"} => overlapped[w]

\* "Flag to prevent broadcast loops": no handler broadcasts.
NoEcho == \A w \in Worker : pc[w] \notin {"bcast", "bwait"}

\* What a user types is broadcast: Play(), Pause(), Resume() and Stop()
\* called by the command loop never skip the broadcast.
UserCommandsAreBroadcast ==
    [][\A u \in User : pc[u] = "check" => pc'[u] # "apply"]_vars

\* A "play" finds the song its user asked for loaded, on every client: the
\* point of broadcasting the load first and waiting for it.
PlaysTheSongAskedFor ==
    \A t \in Thread :
        (pc[t] = "apply" /\ job[t].action = "play")
            => /\ currentSong[t[1]] = typed[job[t].cmd].song
               /\ player[t[1]].unit # "none"

\* Once nothing is under way, the clients still up agree: same song, same
\* playing flag, same sound or silence.
Synced ==
    Quiet => \A m, n \in up :
        /\ currentSong[m] = currentSong[n]
        /\ player[m].playing = player[n].playing
        /\ player[m].unit = player[n].unit

\* Once nothing is under way, every client still up is in the state the last
\* command asked for: a play has its song there and the flag up, a resume the
\* flag up, a pause and a stop have silenced it, whoever typed it.
AsAsked ==
    Quiet /\ typed # << >> =>
        LET last == typed[Len(typed)]
        IN \A n \in up :
             /\ last.action = "play" => /\ currentSong[n] = last.song
                                       /\ player[n].unit # "none"
             /\ last.action \in {"play", "resume"} => player[n].playing
             /\ last.action \in {"pause", "stop"} =>
                  ~player[n].playing /\ player[n].unit # "running"

\* Once nothing is under way, clients that sound have started from the same
\* place, whatever place each of them was paused at before.
Aligned ==
    Quiet => \A m, n \in up :
        (player[m].unit = "running" /\ player[n].unit = "running")
            => player[m].cue = player[n].cue

\* Every command, typed or received, is carried out: no thread waits for
\* ever, whatever is lost and whoever crashes.
CommandsEnd == \A t \in Thread : pc[t] # "idle" ~> pc[t] = "idle"

\* The flag is always lowered again.
FlagIsLowered == \A n \in Node : flag[n] ~> ~flag[n]
=============================================================================
