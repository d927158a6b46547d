--------------------------- MODULE GroupPlayback ---------------------------
(***************************************************************************)
(* What the clients promise their users: the group is one player.  A       *)
(* command is given to the group when the last one is done; every member   *)
(* carries it out exactly once, and nobody plays a song before everybody   *)
(* has it, so that every command ends with every member in the state it    *)
(* asks for.  Members may leave.                                           *)
(***************************************************************************)
EXTENDS Sequences, PlayerOps, TLAPS

CONSTANTS Node, Song, NoSong

VARIABLES
    members,
    view,    \* each member's player; the place in the song does not matter
    song,    \* the song each member has
    asked,   \* the group's command, and the song it names
    ahead    \* what each member still has to do for the command

vars == <<members, view, song, asked, ahead>>

Init ==
    /\ members = Node
    /\ view = [n \in Node |-> NewPlayer]
    /\ song = [n \in Node |-> NoSong]
    /\ asked = [action |-> "none", song |-> NoSong]
    /\ ahead = [n \in Node |-> << >>]

Do(step, p) ==
    CASE step = "load"   -> Loaded(p)
      [] step = "play"   -> Played(p)
      [] step = "pause"  -> Paused(p, Start)
      [] step = "resume" -> Resumed(p)
      [] step = "stop"   -> Stopped(p)

\* A play loads the song first.
Steps(action) == IF action = "play" THEN <<"load", "play">> ELSE <<action>>

Command(action, s) ==
    /\ \A n \in members : ahead[n] = << >>
    /\ asked' = [action |-> action, song |-> s]
    /\ ahead' = [n \in Node |-> IF n \in members THEN Steps(action)
                                ELSE << >>]
    /\ UNCHANGED <<members, view, song>>

Carry(n) ==
    /\ ahead[n] # << >>
    /\ Head(ahead[n]) = "play" =>
         \A m \in members : ahead[m] = << >> \/ Head(ahead[m]) = "play"
    /\ view' = [view EXCEPT ![n] = Do(Head(ahead[n]), @)]
    /\ song' = [song EXCEPT ![n] = IF Head(ahead[n]) = "load"
                                   THEN asked.song ELSE @]
    /\ ahead' = [ahead EXCEPT ![n] = Tail(@)]
    /\ UNCHANGED <<members, asked>>

Leave(n) ==
    /\ n \in members
    /\ members' = members \ {n}
    /\ ahead' = [ahead EXCEPT ![n] = << >>]
    /\ UNCHANGED <<view, song, asked>>

Next ==
    \/ \E s \in Song : Command("play", s)
    \/ \E a \in {"pause", "resume", "stop"} : Command(a, NoSong)
    \/ \E n \in Node : Carry(n) \/ Leave(n)

\* What the group may do, and that a command that was given is carried out.
Safety   == Init /\ [][Next]_vars
Progress == WF_vars(\E n \in Node : Carry(n))

Spec == Safety /\ Progress

\* The state of a player p with the song s that the group's command asks for.
\* A play need not sound: after a resume with nothing loaded the flag is up,
\* and play() takes the song for being played already.
InState(p, s) ==
    /\ asked.action = "play" => s = asked.song /\ p.unit # "none"
    /\ asked.action \in {"play", "resume"} => p.playing
    /\ asked.action \in {"pause", "stop"} => ~p.playing /\ p.unit # "running"

\* Between two commands every member is in the state the last one asked for,
\* and all have the same song in the same state.
InStep ==
    (\A n \in members : ahead[n] = << >>) =>
        /\ \A n \in members : InState(view[n], song[n])
        /\ \A m, n \in members : view[m] = view[n] /\ song[m] = song[n]

-----------------------------------------------------------------------------
\* Where a member will be when it has done what is ahead of it.
Outcome(n) ==
    IF ahead[n] = << >> THEN view[n]
    ELSE IF ahead[n] = <<"load", "play">> THEN Do("play", Do("load", view[n]))
    ELSE Do(Head(ahead[n]), view[n])

SongToBe(n) == IF ahead[n] = <<"load", "play">> THEN asked.song ELSE song[n]

\* Players as they can be: a unit that runs is flagged.
Player == {p \in [playing : BOOLEAN, cue : {Start},
                  unit : {"none", "ready", "running"}] :
             p.unit = "running" => p.playing}

\* Half way through a command the members differ, but they are all on the
\* way to the same state, the one asked for: what makes InStep inductive.
SameOutcome ==
    /\ view \in [Node -> Player] /\ song = [n \in Node |-> song[n]]
    /\ ahead = [n \in Node |-> ahead[n]] /\ members \subseteq Node
    /\ \A n \in Node :
         \/ ahead[n] \in {<< >>, <<"load", "play">>}
         \/ \E a \in {"play", "pause", "resume", "stop"} : ahead[n] = <<a>>
    /\ \A n \in Node \ members : ahead[n] = << >>
    /\ \A n \in members : InState(Outcome(n), SongToBe(n))
    /\ \A m, n \in members : /\ Outcome(m) = Outcome(n)
                             /\ SongToBe(m) = SongToBe(n)

Step == {"load", "play", "pause", "resume", "stop"}

\* Every operation leads from a player to a player, and to the state it is
\* called for.
LEMMA DoPlayer ==
    ASSUME NEW p \in Player
    PROVE  /\ \A step \in Step : Do(step, p) \in Player
           /\ Do("play", Do("load", p)).playing
           /\ Do("play", Do("load", p)).unit # "none"
           /\ Do("resume", p).playing
           /\ \A step \in {"pause", "stop"} :
                 ~Do(step, p).playing /\ Do(step, p).unit # "running"
<1>1. /\ p = [playing |-> p.playing, cue |-> Start, unit |-> p.unit]
      /\ p.playing \in BOOLEAN /\ p.unit \in {"none", "ready", "running"}
      /\ p.unit = "running" => p.playing
  BY DEF Player
<1>2. /\ Loaded(p) \in Player /\ Played(p) \in Player
      /\ Paused(p, Start) \in Player
      /\ Resumed(p) \in Player /\ Stopped(p) \in Player
  BY <1>1 DEF Player, Loaded, Played, Paused, Resumed, Stopped, Halt, Restart
<1>3. /\ Played(Loaded(p)).playing /\ Played(Loaded(p)).unit # "none"
      /\ Resumed(p).playing
      /\ ~Paused(p, Start).playing /\ Paused(p, Start).unit # "running"
      /\ ~Stopped(p).playing /\ Stopped(p).unit # "running"
  BY <1>1 DEF Loaded, Played, Paused, Resumed, Stopped, Halt, Restart
<1> QED
  BY <1>2, <1>3 DEF Do, Step

LEMMA SameOutcomeStep == SameOutcome /\ [Next]_vars => SameOutcome'
<1> SUFFICES ASSUME SameOutcome, [Next]_vars PROVE SameOutcome'
  OBVIOUS
\* The three shapes of what is ahead of a member.
<1>1. \A a : /\ <<a>> # << >> /\ <<"load", "play">> # << >>
             /\ <<a>> # <<"load", "play">>
             /\ Head(<<a>>) = a /\ Tail(<<a>>) = << >>
             /\ Head(<<"load", "play">>) = "load"
             /\ Tail(<<"load", "play">>) = <<"play">>
  OBVIOUS
<1>2. ASSUME NEW a \in {"play", "pause", "resume", "stop"}, NEW s,
             Command(a, s)
      PROVE  SameOutcome'
  <2>1. \A n \in members : ahead[n] = << >>
    BY <1>2 DEF Command
  <2>2. \A m, n \in members : view[m] = view[n] /\ song[m] = song[n]
    BY <2>1, <1>1 DEF SameOutcome, Outcome, SongToBe
  <2>3. /\ asked' = [action |-> a, song |-> s]
        /\ UNCHANGED <<members, view, song>>
        /\ ahead' = [n \in Node |-> IF n \in members THEN Steps(a)
                                    ELSE << >>]
    BY <1>2 DEF Command
  <2>4. \A m, n \in members : /\ Outcome(m)' = Outcome(n)'
                              /\ SongToBe(m)' = SongToBe(n)'
    BY <2>2, <2>3 DEF SameOutcome, Outcome, SongToBe
  <2>5. \A n \in members : InState(Outcome(n), SongToBe(n))'
    <3> SUFFICES ASSUME NEW n \in members
                 PROVE  InState(Outcome(n), SongToBe(n))'
      OBVIOUS
    <3>1. n \in Node /\ view[n] \in Player /\ ahead'[n] = Steps(a)
      BY <2>3 DEF SameOutcome
    <3>2. CASE a = "play"
      <4>1. /\ Outcome(n)' = Do("play", Do("load", view[n]))
            /\ SongToBe(n)' = s
        BY <2>3, <3>1, <3>2, <1>1 DEF Outcome, SongToBe, Steps
      <4> QED
        BY <2>3, <3>1, <3>2, <4>1, DoPlayer DEF InState
    <3>3. CASE a # "play"
      <4>1. Outcome(n)' = Do(a, view[n])
        BY <2>3, <3>1, <3>3, <1>1 DEF Outcome, Steps
      <4> QED
        BY <1>2, <2>3, <3>1, <3>3, <4>1, DoPlayer DEF InState
    <3> QED
      BY <3>2, <3>3
  <2> QED
    BY <1>2, <2>3, <2>4, <2>5 DEF SameOutcome, Steps
<1>3. ASSUME NEW n \in Node, Carry(n) PROVE SameOutcome'
  <2> DEFINE first == Head(ahead[n])
  <2>1. /\ UNCHANGED <<members, asked>>
        /\ view' = [view EXCEPT ![n] = Do(first, view[n])]
        /\ song' = [song EXCEPT ![n] = IF first = "load" THEN asked.song
                                       ELSE song[n]]
        /\ ahead' = [ahead EXCEPT ![n] = Tail(ahead[n])]
    BY <1>3 DEF Carry
  <2>2. \A m \in Node \ {n} : /\ view'[m] = view[m] /\ song'[m] = song[m]
                              /\ ahead'[m] = ahead[m]
    BY <2>1 DEF SameOutcome
  <2>3. /\ view'[n] = Do(first, view[n])
        /\ song'[n] = IF first = "load" THEN asked.song ELSE song[n]
        /\ ahead'[n] = Tail(ahead[n])
    BY <2>1 DEF SameOutcome
  <2> HIDE DEF first
  <2>4. /\ Outcome(n)' = Outcome(n) /\ SongToBe(n)' = SongToBe(n)
        /\ ahead'[n] \in {<< >>, <<"play">>} /\ first \in Step
    <3>1. CASE ahead[n] = <<"load", "play">>
      <4>1. first = "load" /\ ahead'[n] = <<"play">>
        BY <3>1, <2>3, <1>1 DEF first
      <4> QED
        BY <3>1, <4>1, <2>1, <2>3, <1>1 DEF Outcome, SongToBe, Step
    <3>2. CASE \E a \in {"play", "pause", "resume", "stop"} : ahead[n] = <<a>>
      <4>1. first # "load" /\ ahead'[n] = << >>
        BY <3>2, <2>3, <1>1 DEF first
      <4> QED
        BY <3>2, <4>1, <2>1, <2>3, <1>1 DEF Outcome, SongToBe, first, Step
    <3> QED
      BY <1>3, <3>1, <3>2 DEF SameOutcome, Carry
  <2>5. \A m \in Node : Outcome(m)' = Outcome(m) /\ SongToBe(m)' = SongToBe(m)
    BY <2>1, <2>2, <2>4 DEF Outcome, SongToBe
  <2>6. \A m \in Node \ members : ahead'[m] = << >>
    BY <1>3, <2>2 DEF SameOutcome, Carry
  <2>7. \A m \in Node :
          \/ ahead'[m] \in {<< >>, <<"load", "play">>}
          \/ \E a \in {"play", "pause", "resume", "stop"} : ahead'[m] = <<a>>
    BY <2>2, <2>4 DEF SameOutcome
  <2>8. /\ \A m, k \in members : /\ Outcome(m)' = Outcome(k)'
                                 /\ SongToBe(m)' = SongToBe(k)'
        /\ \A m \in members : InState(Outcome(m), SongToBe(m))'
    BY <2>1, <2>5 DEF SameOutcome, InState
  <2>9. view' \in [Node -> Player]
    BY <2>1, <2>4, DoPlayer DEF SameOutcome
  <2> QED
    BY <2>1, <2>6, <2>7, <2>8, <2>9 DEF SameOutcome
<1>4. ASSUME NEW n \in Node, Leave(n) PROVE SameOutcome'
  <2>1. /\ members' = members \ {n} /\ UNCHANGED <<view, song, asked>>
        /\ ahead' = [ahead EXCEPT ![n] = << >>]
    BY <1>4 DEF Leave
  <2>2. \A m \in Node \ {n} : ahead'[m] = ahead[m]
    BY <2>1 DEF SameOutcome
  <2>3. ahead'[n] = << >>
    BY <2>1 DEF SameOutcome
  <2>4. \A m \in members' : /\ Outcome(m)' = Outcome(m)
                            /\ SongToBe(m)' = SongToBe(m)
    BY <2>1, <2>2 DEF Outcome, SongToBe, SameOutcome
  <2>5. /\ \A m, k \in members' : /\ Outcome(m)' = Outcome(k)'
                                  /\ SongToBe(m)' = SongToBe(k)'
        /\ \A m \in members' : InState(Outcome(m), SongToBe(m))'
    BY <2>1, <2>4 DEF SameOutcome, InState
  <2>6. \A m \in Node :
          \/ ahead'[m] \in {<< >>, <<"load", "play">>}
          \/ \E a \in {"play", "pause", "resume", "stop"} : ahead'[m] = <<a>>
    BY <2>2, <2>3 DEF SameOutcome
  <2>7. \A m \in Node \ members' : ahead'[m] = << >>
    BY <2>1, <2>2, <2>3 DEF SameOutcome
  <2>8. /\ ahead' = [m \in Node |-> ahead'[m]] /\ members' \subseteq Node
        /\ view' \in [Node -> Player]
        /\ song' = [m \in Node |-> song'[m]]
    BY <2>1 DEF SameOutcome
  <2> QED
    BY <2>5, <2>6, <2>7, <2>8 DEF SameOutcome
<1>5. CASE UNCHANGED vars
  <2>1. UNCHANGED <<members, view, song, asked, ahead>>
    BY <1>5 DEF vars
  <2>2. \A n : Outcome(n)' = Outcome(n) /\ SongToBe(n)' = SongToBe(n)
    BY <2>1 DEF Outcome, SongToBe
  <2>3. \A n \in members : InState(Outcome(n), SongToBe(n))'
    BY <2>1, <2>2 DEF SameOutcome, InState
  <2> QED
    BY <2>1, <2>2, <2>3 DEF SameOutcome
<1> QED
  BY <1>2, <1>3, <1>4, <1>5 DEF Next

\* Whatever is commanded and whoever leaves, the members that are left end
\* every command in the state it asks for, and all in the same: a member that
\* was silent, or had no song, when it came ends no differently.
THEOREM EndsInStep == Safety => []InStep
<1>1. Init => SameOutcome
  BY DEF Init, SameOutcome, Outcome, SongToBe, InState, Player, NewPlayer
<1>2. SameOutcome => InStep
  <2>1. << >> # <<"load", "play">>
    OBVIOUS
  <2>2. \A n \in members : ahead[n] = << >> =>
           Outcome(n) = view[n] /\ SongToBe(n) = song[n]
    BY <2>1 DEF Outcome, SongToBe
  <2> QED
    BY <2>2 DEF SameOutcome, InStep
<1> QED
  BY <1>1, <1>2, SameOutcomeStep, PTL DEF Safety
=============================================================================
