------------------------- MODULE PlaybackRefinement -------------------------
(***************************************************************************)
(* PlaybackCommands, one command at a time, implements GroupPlayback.      *)
(* What a client still has to do is read off the threads and the requests  *)
(* under way.                                                              *)
(***************************************************************************)
EXTENDS PlaybackCommands

\* The commands under way: held by a thread or sent to a client that lives.
Pending == {job[t] : t \in {u \in Thread : pc[u] # "idle"}}
               \cup {m \in net : m.to \in up}

LoadAhead(n) ==
    \/ \E u \in User : /\ job[u].action = "play"
                       /\ \/ pc[u] = "loading"
                          \/ pc[u] = "check" /\ n # u[1]
                          \/ n \in todo[u]
    \/ \E m \in net : m.to = n /\ m.action = "load"
    \/ \E w \in Worker : w[1] = n /\ pc[w] = "loading"

ActionAhead(n) ==
    \/ \E u \in User : pc[u] # "idle" /\ (pc[u] = "apply" => u[1] = n)
    \/ \E m \in net : m.to = n /\ m.action # "load"
    \/ \E w \in Worker : w[1] = n /\ pc[w] \in {"check", "apply"}

\* The action of the command that is under way.
TheAction == CHOOSE a \in UserAction : \E j \in Pending : j.action = a

Ahead(n) ==
    (IF n \in up /\ LoadAhead(n) THEN <<"load">> ELSE << >>) \o
    (IF n \in up /\ ActionAhead(n) THEN <<TheAction>> ELSE << >>)

\* The group's variables: players wherever they are in the song, the last
\* command typed, and what every client still has to do.
Views  == [n \in Node |-> [player[n] EXCEPT !.cue = Start]]
Wanted == IF typed = << >> THEN [action |-> "none", song |-> NoSong]
          ELSE typed[Len(typed)]
Aheads == [n \in Node |-> Ahead(n)]

Group == INSTANCE GroupPlayback WITH
    members <- up, view <- Views, song <- currentSong, asked <- Wanted,
    ahead <- Aheads

\* As long as commands are typed one at a time the clients act as one
\* player: each carries out each command once, nobody starts a song that
\* somebody still has to load, and a client that dies takes nothing with it.
ActsAsOnePlayer == Group!Safety

\* And every member that lives does what is left for it to do: no command
\* stops half way through the group, whoever dies.
CarriesCommandsOut == Group!Progress
=============================================================================
