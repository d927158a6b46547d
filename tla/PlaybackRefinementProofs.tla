---------------------- MODULE PlaybackRefinementProofs ----------------------
(***************************************************************************)
(* For any number of clients, songs, slots and commands: clients that know *)
(* each other and type one command at a time implement GroupPlayback,      *)
(* whichever of the silent ones crash.  From GroupPlayback's own theorem   *)
(* it follows that they end every command in step; that they end it at the *)
(* same place is proved here, since the abstract player has no places.     *)
(***************************************************************************)
EXTENDS PlaybackRefinement, PlaybackCommandsProofs, SequenceTheorems

\* The users sit at clients that do not crash and know all the others.
Together ==
    /\ Reliable
    /\ Issuers \cap Mortal = {}
    /\ \A n \in Issuers : Peers[n] = Node \ {n}

\* The user's action a is under way: known to a thread or to a request.
Doing(a) ==
    \/ \E t \in Thread : pc[t] # "idle" /\ job[t].action = a
    \/ \E m \in net : m.action = a

Steady ==
    /\ Issuers \subseteq up
    /\ \A u \in User : pc[u] # "idle" => u[1] \in Issuers
    /\ \A m \in net : m.from \in User /\ m.from[1] \in Issuers

\* Nothing comes back to the client of the user that is at work.
NotBack ==
    \A u \in User : pc[u] # "idle" =>
        /\ u[1] \notin todo[u]
        /\ \A m \in net : m.to # u[1]
        /\ \A w \in Worker : w[1] = u[1] => pc[w] = "idle"

\* Who loads, for whom, and who is still to be told.
Loads ==
    /\ \A w \in Worker : pc[w] # "idle" =>
          (pc[w] = "loading" <=> job[w].action = "load")
    /\ \A u \in User :
          /\ pc[u] \in {"loading", "bwait"} => job[u].action = "play"
          /\ pc[u] \notin {"bcast", "bwait"} => todo[u] = {}
    /\ \A p \in Node : Coming(p) =>
          \E u \in User : pc[u] = "bwait" /\ p \notin todo[u]

OneAction == \A a, b \in UserAction : Doing(a) /\ Doing(b) => a = b

TogetherInv == Steady /\ NotBack /\ Loads /\ OneAction

-----------------------------------------------------------------------------
\* The user at work has told nobody yet, or the load is all there is.
AllInv == TypeOK /\ TurnInv /\ FlagHasOwner /\ SongInv /\ TogetherInv

\* A load that its user is still to do or to ask for, and the user's part of
\* the action; the rest is with the handlers and on the way to them.
Due(n) ==
    \E u \in User : /\ job[u].action = "play"
                    /\ \/ pc[u] = "loading"
                       \/ pc[u] = "check" /\ n # u[1]
                       \/ n \in todo[u]

Meant(n) == \E u \in User : pc[u] # "idle" /\ (pc[u] = "apply" => u[1] = n)

Told(n) ==
    \/ \E m \in net : m.to = n /\ m.action # "load"
    \/ \E w \in Worker : w[1] = n /\ pc[w] \in {"check", "apply"}

LEMMA AheadParts ==
    \A n : /\ LoadAhead(n) <=> Due(n) \/ Coming(n)
           /\ ActionAhead(n) <=> Meant(n) \/ Told(n)
BY DEF LoadAhead, Coming, ActionAhead, Due, Meant, Told

\* The same of the next state.
LEMMA AheadPartsNext ==
    \A n : /\ LoadAhead(n)' <=> Due(n)' \/ Coming(n)'
           /\ ActionAhead(n)' <=> Meant(n)' \/ Told(n)'
BY DEF LoadAhead, Coming, ActionAhead, Due, Meant, Told

LEMMA TwoSteps == \A a, b : <<a>> \o <<b>> = <<a, b>>
<1> TAKE a, b
<1> DEFINE S == {a, b}
           s == <<a>> \o <<b>>
           t == <<a, b>>
<1>1. <<a>> \in Seq(S) /\ <<b>> \in Seq(S)
  OBVIOUS
<1>2. s \in Seq(S) /\ Len(s) = 2 /\ s[1] = a /\ s[2] = b
  BY <1>1
<1>3. t \in Seq(S) /\ Len(t) = 2 /\ t[1] = a /\ t[2] = b
  OBVIOUS
<1> HIDE DEF s, t, S
<1>4. s = t
  BY <1>2, <1>3, SeqEqual
<1> QED
  BY <1>4 DEF s, t

\* Whoever has an action ahead has the one that is under way.
OnlyTheAction ==
    \A n \in up : ActionAhead(n) =>
        \E a \in UserAction : /\ TheAction = a /\ Doing(a)
                              /\ \A b \in UserAction : Doing(b) => b = a

LEMMA TheOnlyAction == AllInv => OnlyTheAction
<1> SUFFICES ASSUME AllInv, NEW n \in up, ActionAhead(n)
             PROVE  \E a \in UserAction :
                       /\ TheAction = a /\ Doing(a)
                       /\ \A b \in UserAction : Doing(b) => b = a
  BY DEF OnlyTheAction
<1>1. \E j \in Pending : j.action \in UserAction
  <2>1. CASE \E u \in User : pc[u] # "idle"
    <3>1. PICK u \in User : pc[u] # "idle"
      BY <2>1
    <3>2. job[u].action \in UserAction /\ job[u] \in Pending
      BY <3>1, TwoKinds
      DEF AllInv, TypeOK, Message, Pending, SongInv, TheSong
    <3> QED
      BY <3>2
  <2>2. CASE \E m \in net : m.to = n /\ m.action # "load"
    BY <2>2 DEF Pending, AllInv, TypeOK, Message
  <2>3. CASE \E w \in Worker : w[1] = n /\ pc[w] \in {"check", "apply"}
    <3>1. PICK w \in Worker : w[1] = n /\ pc[w] \in {"check", "apply"}
      BY <2>3
    <3>2. job[w].action \in UserAction /\ job[w] \in Pending
      BY <3>1, TwoKinds
      DEF AllInv, TypeOK, Message, Pending, TogetherInv, Loads
    <3> QED
      BY <3>2
  <2> QED
    BY <2>1, <2>2, <2>3 DEF ActionAhead
<1>2. TheAction \in UserAction /\ \E j \in Pending : j.action = TheAction
  BY <1>1 DEF TheAction
<1>3. Doing(TheAction)
  BY <1>2 DEF Pending, Doing
<1> QED
  BY <1>2, <1>3 DEF AllInv, TogetherInv, OneAction
-----------------------------------------------------------------------------
\* A player as the group sees it: wherever it is in the song.
Back(p) == [p EXCEPT !.cue = Start]

View(n) == Back(player[n])

\* A step that takes the group from here to there: who has a load or an
\* action ahead, but for the one member at most that did its part.
Keeps(S, T) ==
    /\ UNCHANGED <<up, typed>>
    /\ \A n \in Node \ (S \cup T) :
          View(n)' = View(n) /\ currentSong'[n] = currentSong[n]
    /\ \A n \in up \ S : LoadAhead(n)' <=> LoadAhead(n)
    /\ \A n \in up \ T : ActionAhead(n)' <=> ActionAhead(n)
    /\ \A a \in UserAction : Doing(a)' => Doing(a)

\* Nobody notices, n has loaded the song, or n has done the action a.
Calm == Keeps({}, {})

Loading(n) ==
    /\ Keeps({n}, {}) /\ n \in up
    /\ LoadAhead(n) /\ ~LoadAhead(n)'
    /\ View(n)' = Loaded(View(n)) /\ currentSong'[n] = Asked
    /\ player'[n].cue = Start

Acting(n) ==
    /\ Keeps({}, {n}) /\ n \in up
    /\ \A k \in up : ~LoadAhead(k)
    /\ ActionAhead(n) /\ ~ActionAhead(n)'
    /\ currentSong'[n] = currentSong[n]
    /\ \E a \in UserAction :
          Doing(a) /\ View(n)' = Group!Do(a, View(n))

LEMMA ReceiveTogether ==
    ASSUME Together, AllInv, NEW m \in net, NEW w \in Worker, Receive(m, w)
    PROVE  TogetherInv' /\ Calm
<1>1. /\ w[1] = m.to /\ m.to \in up /\ net' = net \ {m} /\ pc[w] = "idle"
      /\ job' = [job EXCEPT ![w] = m]
      /\ Goto(w, IF m.action = "load" THEN "loading" ELSE "check")
      /\ UNCHANGED <<up, currentSong, player, todo, typed>>
  BY DEF Receive, Free
<1>2. /\ pc'[w] = IF m.action = "load" THEN "loading" ELSE "check"
      /\ \A t \in Thread \ {w} : pc'[t] = pc[t]
  BY <1>1, TwoKinds, GotoOne DEF AllInv
<1>3. job'[w] = m /\ \A t \in Thread \ {w} : job'[t] = job[t]
  BY <1>1, TwoKinds DEF AllInv, TypeOK
<1>4. \A u \in User : pc'[u] = pc[u] /\ job'[u] = job[u] /\ todo'[u] = todo[u]
  BY <1>1, <1>2, <1>3, TwoKinds
<1>5. /\ \A x \in Worker \ {w} : pc'[x] = pc[x] /\ job'[x] = job[x]
      /\ \A k \in net : k \in net' \/ k = m
      /\ \A k \in net' : k \in net
  BY <1>1, <1>2, <1>3, TwoKinds
<1>6. \A n : (Coming(n)' <=> Coming(n)) /\ (Told(n)' <=> Told(n))
  <2> TAKE n
  <2>1. Coming(n) => Coming(n)'
    BY <1>1, <1>2, <1>5 DEF Coming
  <2>2. Coming(n)' => Coming(n)
    BY <1>1, <1>2, <1>5 DEF Coming
  <2>3. Told(n) => Told(n)'
    BY <1>1, <1>2, <1>5 DEF Told
  <2>4. Told(n)' => Told(n)
    BY <1>1, <1>2, <1>5 DEF Told
  <2> QED
    BY <2>1, <2>2, <2>3, <2>4
<1>7. \A n : (Due(n)' <=> Due(n)) /\ (Meant(n)' <=> Meant(n))
  BY <1>4 DEF Due, Meant
<1>8. \A a \in UserAction : Doing(a)' => Doing(a)
  BY <1>1, <1>2, <1>3 DEF Doing
<1>9. Calm
  BY <1>1, <1>6, <1>7, <1>8, AheadParts, AheadPartsNext DEF Calm, Keeps, View
<1>10. Steady'
  BY <1>1, <1>4 DEF AllInv, TogetherInv, Steady
<1>11. NotBack'
  BY <1>1, <1>4, <1>5 DEF AllInv, TogetherInv, NotBack
<1>12. Loads'
  BY <1>2, <1>3, <1>4, <1>5, <1>6 DEF AllInv, TogetherInv, Loads
<1>13. OneAction'
  BY <1>8 DEF AllInv, TogetherInv, OneAction
<1> QED
  BY <1>9, <1>10, <1>11, <1>12, <1>13 DEF TogetherInv

\* Players that agree in everything are the same.
LEMMA SamePlayer ==
    ASSUME NEW p \in PlayerType, NEW q \in PlayerType,
           p.playing = q.playing, p.cue = q.cue, p.unit = q.unit
    PROVE  p = q
BY DEF PlayerType

\* A player set back to the beginning is one, and otherwise the same.
LEMMA SetBack ==
    ASSUME NEW p \in PlayerType
    PROVE  /\ Back(p) \in PlayerType /\ Back(p).cue = Start
           /\ Back(p).playing = p.playing /\ Back(p).unit = p.unit
BY DEF PlayerType, Cue, Back

\* What a player does besides its place in the song does not depend on it.
LEMMA PlaceApart ==
    ASSUME NEW p \in PlayerType, NEW c \in Cue
    PROVE  /\ Back(Loaded(p)) = Loaded(Back(p))
           /\ Back(Played(p)) = Played(Back(p))
           /\ Back(Paused(p, c)) = Paused(Back(p), Start)
           /\ Back(Resumed(p)) = Resumed(Back(p))
           /\ Back(Stopped(p)) = Stopped(Back(p))
           /\ Back([p EXCEPT !.cue = c]) = Back(p)
<1> DEFINE v == Back(p)
<1>1. /\ v \in PlayerType /\ v.cue = Start /\ Start \in Cue
      /\ v.playing = p.playing /\ v.unit = p.unit
  BY SetBack DEF Cue
\* It is enough to compare the flags and the units.
<1>2. ASSUME NEW q \in PlayerType, NEW r \in PlayerType, r.cue = Start,
             q.playing = r.playing, q.unit = r.unit
      PROVE  Back(q) = r
  BY <1>2, SetBack, SamePlayer
<1> HIDE DEF v
<1>3. /\ Loaded(p) \in PlayerType /\ Loaded(v) \in PlayerType
      /\ Played(p) \in PlayerType /\ Played(v) \in PlayerType
      /\ Paused(p, c) \in PlayerType /\ Paused(v, Start) \in PlayerType
      /\ Resumed(p) \in PlayerType /\ Resumed(v) \in PlayerType
      /\ Stopped(p) \in PlayerType /\ Stopped(v) \in PlayerType
      /\ [p EXCEPT !.cue = c] \in PlayerType
  BY <1>1, PlayerOpsType
<1>4. Back(Loaded(p)) = Loaded(v)
  <2>1. /\ Loaded(v).cue = Start /\ Loaded(p).playing = Loaded(v).playing
        /\ Loaded(p).unit = Loaded(v).unit
    BY <1>1 DEF Loaded
  <2> QED
    BY <2>1, <1>2, <1>3
<1>5. Back(Played(p)) = Played(v)
  <2>1. /\ Played(v).cue = Start /\ Played(p).playing = Played(v).playing
        /\ Played(p).unit = Played(v).unit
    BY <1>1 DEF Played, PlayerType
  <2> QED
    BY <2>1, <1>2, <1>3
<1>6. Back(Paused(p, c)) = Paused(v, Start)
  <2>1. /\ Paused(v, Start).cue = Start
        /\ Paused(p, c).playing = Paused(v, Start).playing
        /\ Paused(p, c).unit = Paused(v, Start).unit
    BY <1>1 DEF Paused
  <2> QED
    BY <2>1, <1>2, <1>3
<1>7. Back(Resumed(p)) = Resumed(v)
  <2>1. /\ Resumed(v).cue = Start /\ Resumed(p).playing = Resumed(v).playing
        /\ Resumed(p).unit = Resumed(v).unit
    BY <1>1 DEF Resumed, PlayerType
  <2> QED
    BY <2>1, <1>2, <1>3
<1>8. Back(Stopped(p)) = Stopped(v)
  <2>1. /\ Stopped(v).cue = Start /\ Stopped(p).playing = Stopped(v).playing
        /\ Stopped(p).unit = Stopped(v).unit
    BY <1>1 DEF Stopped
  <2> QED
    BY <2>1, <1>2, <1>3
<1>9. Back([p EXCEPT !.cue = c]) = v
  <2>1. /\ [p EXCEPT !.cue = c].playing = v.playing
        /\ [p EXCEPT !.cue = c].unit = v.unit
    BY <1>1 DEF PlayerType
  <2> QED
    BY <2>1, <1>1, <1>2, <1>3
<1> QED
  BY <1>4, <1>5, <1>6, <1>7, <1>8, <1>9 DEF v

\* The group's players are the clients' players.
LEMMA GroupPlayers ==
    /\ \A p : /\ Group!Do("load", p) = Loaded(p)
              /\ Group!Do("play", p) = Played(p)
              /\ Group!Do("pause", p) = Paused(p, Start)
              /\ Group!Do("resume", p) = Resumed(p)
              /\ Group!Do("stop", p) = Stopped(p)
    /\ Group!NewPlayer = NewPlayer
BY DEF Group!Do, Group!Loaded, Group!Played, Group!Paused, Group!Resumed,
       Group!Stopped, Group!Start, Group!Halt, Group!Restart,
       Group!NewPlayer, Loaded, Played, Paused, Resumed, Stopped, Start,
       Halt, Restart, NewPlayer

\* A thread that applies its command does to the view what the group does.
LEMMA ApplyView ==
    ASSUME TypeOK, NEW t \in Thread, Apply(t), job[t].action \in UserAction
    PROVE  /\ View(t[1])' = Group!Do(job[t].action, View(t[1]))
           /\ \A n \in Node \ {t[1]} : View(n)' = View(n)
           /\ currentSong' = currentSong
<1> DEFINE p == player[t[1]]
           c == <<t[1], job[t].cmd>>
<1>1. p \in PlayerType /\ t[1] \in Node /\ job[t] \in Message
  BY TwoKinds DEF TypeOK, PlayerType, Apply
<1>2. c \in Cue
  BY <1>1 DEF Message, Cue
<1>3. /\ player' = [player EXCEPT ![t[1]] = Effect(t)]
      /\ currentSong' = currentSong
  BY DEF Apply
<1>4. player'[t[1]] = Effect(t) /\ \A n \in Node \ {t[1]} : player'[n] = player[n]
  BY <1>1, <1>3 DEF TypeOK
<1>5. Back(Effect(t)) = Group!Do(job[t].action, Back(p))
  <2>p. /\ Back(Played(p)) = Played(Back(p))
        /\ Back(Paused(p, c)) = Paused(Back(p), Start)
        /\ Back(Resumed(p)) = Resumed(Back(p))
        /\ Back(Stopped(p)) = Stopped(Back(p))
    BY <1>1, <1>2, PlaceApart
  <2>1. CASE job[t].action = "play"
    <3>1. Effect(t) = Played(p)
      BY <2>1 DEF Effect
    <3> QED
      BY <3>1, <2>1, <2>p, GroupPlayers
  <2>2. CASE job[t].action = "pause"
    <3>1. Effect(t) = Paused(p, c)
      BY <2>2 DEF Effect
    <3> QED
      BY <3>1, <2>2, <2>p, GroupPlayers
  <2>3. CASE job[t].action = "resume"
    <3>1. Effect(t) = Resumed(p)
      BY <2>3 DEF Effect
    <3> QED
      BY <3>1, <2>3, <2>p, GroupPlayers
  <2>4. CASE job[t].action = "stop"
    <3>1. Effect(t) = Stopped(p)
      BY <2>4 DEF Effect
    <3> QED
      BY <3>1, <2>4, <2>p, GroupPlayers
  <2> QED
    BY <2>1, <2>2, <2>3, <2>4 DEF UserAction
<1> QED
  BY <1>3, <1>4, <1>5 DEF View

\* The check of the flag only names places.
LEMMA CheckView ==
    ASSUME TypeOK, NEW t \in Thread, CheckFlag(t)
    PROVE  /\ \A n \in Node : View(n)' = View(n)
           /\ currentSong' = currentSong
<1> DEFINE p == player[t[1]]
           q == player'[t[1]]
<1>1. p \in PlayerType /\ t[1] \in Node
  BY TwoKinds DEF TypeOK, PlayerType
<1>2. /\ player' = [player EXCEPT ![t[1]] = q]
      /\ currentSong' = currentSong
      /\ q = p \/ \E c \in Cue : q = [p EXCEPT !.cue = c]
  <2> DEFINE r == Repositioned(t)
             here == Position(r, t[1], job[t].cmd)
  <2>1. job[t] \in Message
    BY DEF CheckFlag, TypeOK
  <2>2. r = p \/ \E c \in Cue : r = [p EXCEPT !.cue = c]
    BY <2>1 DEF Repositioned, Message
  <2>3. r \in PlayerType /\ here \in Cue
    BY <2>1, <2>2, <1>1, PlayerOpsType
    DEF Position, PlayerType, Cue, Message
  <2>4. \/ [r EXCEPT !.cue = here] = r
        \/ [r EXCEPT !.cue = here] = [p EXCEPT !.cue = here]
    BY <2>2, <2>3, <1>1 DEF PlayerType
  <2> HIDE DEF r, here
  <2>5. /\ currentSong' = currentSong
        /\ \/ player' = [player EXCEPT ![t[1]] = r]
           \/ player' = [player EXCEPT ![t[1]] = [r EXCEPT !.cue = here]]
    BY DEF CheckFlag, r, here
  <2> QED
    BY <2>2, <2>3, <2>4, <2>5, <1>1 DEF TypeOK
<1>3. \A n \in Node \ {t[1]} : player'[n] = player[n]
  BY <1>2 DEF TypeOK
<1>4. Back(q) = Back(p)
  BY <1>1, <1>2, PlaceApart
<1> QED
  BY <1>2, <1>3, <1>4 DEF View

\* A song is loaded.
LEMMA LoadView ==
    ASSUME TypeOK, SongInv, NEW t \in Thread, LoadDone(t)
    PROVE  /\ View(t[1])' = Loaded(View(t[1]))
           /\ player'[t[1]].cue = Start /\ currentSong'[t[1]] = Asked
           /\ \A n \in Node \ {t[1]} :
                 View(n)' = View(n) /\ currentSong'[n] = currentSong[n]
<1> DEFINE p == player[t[1]]
<1>1. p \in PlayerType /\ t[1] \in Node /\ Start \in Cue
  BY TwoKinds DEF TypeOK, PlayerType, Cue
<1>2. /\ player' = [player EXCEPT ![t[1]] = Loaded(player[t[1]])]
      /\ currentSong' = [currentSong EXCEPT ![t[1]] = Asked]
  BY DEF LoadDone, SongInv, TheSong
<1>3. player'[t[1]] = Loaded(player[t[1]])
      /\ \A n \in Node \ {t[1]} : player'[n] = player[n]
  BY <1>1, <1>2 DEF TypeOK
<1>4. currentSong'[t[1]] = Asked
      /\ \A n \in Node \ {t[1]} : currentSong'[n] = currentSong[n]
  BY <1>1, <1>2 DEF TypeOK
<1>5. Back(Loaded(p)) = Loaded(Back(p))
  BY <1>1, PlaceApart
<1>6. Loaded(p).cue = Start
  BY DEF Loaded
<1> QED
  BY <1>3, <1>4, <1>5, <1>6 DEF View

LEMMA WorkerTogether ==
    ASSUME Together, AllInv, NEW w \in Worker, ThreadStep(w)
    PROVE  TogetherInv' /\ (Calm \/ Loading(w[1]) \/ Acting(w[1]))
<1> DEFINE n == w[1]
<1>1. /\ pc[w] \in {"loading", "check", "apply"} /\ flag[n]
      /\ n \in Node /\ n \in up /\ job[w] \in Message
  <2>1. pc[w] # "idle"
    BY DEF ThreadStep, LoadDone, LoadFail, CheckFlag, SendLoad, LoadReturn,
           BroadcastCommand, Apply
  <2> QED
    BY <2>1, TwoKinds DEF AllInv, TurnInv, Marked, SongInv, Living, TypeOK
<1>2. LoadDone(w) \/ CheckFlag(w) \/ Apply(w)
  BY <1>1 DEF ThreadStep, SendLoad, LoadReturn, BroadcastCommand, LoadFail,
              Together, Reliable
<1>3. /\ UNCHANGED <<up, net, typed>>
      /\ \A u \in User : todo'[u] = todo[u]
      /\ \/ /\ LoadDone(w) \/ Apply(w)
            /\ Goto(w, "idle") /\ job' = [job EXCEPT ![w] = NoJob]
         \/ CheckFlag(w) /\ pc[w] = "check" /\ Goto(w, "apply") /\ job' = job
  <2>1. CASE CheckFlag(w)
    <3>1. ~Forwarded(w)
      BY <1>1 DEF Forwarded
    <3> QED
      BY <2>1, <3>1, TwoKinds DEF CheckFlag, TypeOK, AllInv
  <2>2. CASE LoadDone(w) \/ Apply(w)
    BY <2>2 DEF LoadDone, Apply, Return, Finish
  <2> QED
    BY <1>2, <2>1, <2>2
<1>4. /\ \A t \in Thread \ {w} : pc'[t] = pc[t] /\ job'[t] = job[t]
      /\ \/ pc'[w] = "idle" /\ (LoadDone(w) \/ Apply(w))
         \/ /\ CheckFlag(w) /\ pc'[w] = "apply" /\ pc[w] = "check"
            /\ job'[w] = job[w]
  BY <1>3, GotoOne, TwoKinds DEF AllInv, TypeOK
<1>5. /\ \A u \in User : pc'[u] = pc[u] /\ job'[u] = job[u] /\ todo'[u] = todo[u]
      /\ \A x \in Worker \ {w} : pc'[x] = pc[x] /\ job'[x] = job[x]
  BY <1>3, <1>4, TwoKinds
<1>6. \A k : (Due(k)' <=> Due(k)) /\ (Meant(k)' <=> Meant(k))
  BY <1>5 DEF Due, Meant
<1>7. \A a \in UserAction : Doing(a)' => Doing(a)
  BY <1>1, <1>3, <1>4, TwoKinds DEF Doing
\* No other request has to do with this client.
<1>8. /\ \A m \in net : m.to # n
      /\ \A x \in Worker \ {w} : x[1] = n => pc[x] = "idle"
      /\ \A u \in User : pc[u] # "idle" => u[1] # n
  BY <1>1 DEF AllInv, TurnInv, OneRequest, TogetherInv, NotBack
\* A handler that does not load is told after the loads.
<1>9. pc[w] # "loading" => \A u \in User : pc[u] \in {"idle", "apply"}
  BY <1>1, TwoKinds
  DEF AllInv, TypeOK, PC, TurnInv, StillAlone, OnlyLoads, Before
<1>10. /\ \A k \in Node \ {n} : /\ Coming(k)' <=> Coming(k)
                                /\ Told(k)' <=> Told(k)
       /\ pc[w] # "loading" => \A k : Coming(k)' <=> Coming(k)
       /\ pc'[w] = "idle" => ~Coming(n)' /\ ~Told(n)'
  BY <1>1, <1>3, <1>4, <1>5, <1>8 DEF Coming, Told
<1>11. ASSUME LoadDone(w) PROVE Loading(n)
  <2>1. pc[w] = "loading" /\ pc'[w] = "idle"
    BY <1>11, <1>3, <1>4 DEF LoadDone, CheckFlag
  <2>2. Coming(n) /\ ~Coming(n)' /\ ~Told(n)' /\ ~Told(n)
    BY <1>8, <1>10, <2>1 DEF Coming, Told
  <2>3. \E u \in User : /\ pc[u] = "bwait" /\ n \notin todo[u]
                        /\ \A v \in User \ {u} : pc[v] = "idle"
    BY <1>1, <2>2 DEF AllInv, TogetherInv, Loads, TurnInv, OneUser
  <2>4. ~Due(n)
    BY <2>3 DEF Due, AllInv, TogetherInv, Loads
  <2>5. \A k \in Node : ActionAhead(k)' <=> ActionAhead(k)
    BY <1>6, <1>10, <2>2, AheadParts, AheadPartsNext
  <2>6. \A k \in Node \ {n} : LoadAhead(k)' <=> LoadAhead(k)
    BY <1>6, <1>10, AheadParts, AheadPartsNext
  <2>7. LoadAhead(n) /\ ~LoadAhead(n)'
    BY <1>6, <2>2, <2>4, AheadParts, AheadPartsNext
  <2>8. /\ View(n)' = Loaded(View(n)) /\ currentSong'[n] = Asked
        /\ player'[n].cue = Start
        /\ \A k \in Node \ {n} :
              View(k)' = View(k) /\ currentSong'[k] = currentSong[k]
    BY <1>11, LoadView, TwoKinds DEF AllInv
  <2>9. up \subseteq Node
    BY DEF AllInv, TypeOK
  <2> QED
    BY <1>1, <1>3, <1>7, <2>5, <2>6, <2>7, <2>8, <2>9 DEF Loading, Keeps
<1>12. ASSUME CheckFlag(w) PROVE Calm
  <2>1. pc[w] = "check" /\ pc'[w] = "apply" /\ job' = job
    BY <1>12, <1>3, <1>4 DEF LoadDone, Apply, CheckFlag
  <2>2. Told(n) /\ Told(n)'
    BY <2>1 DEF Told
  <2>3. \A k \in Node : /\ ActionAhead(k)' <=> ActionAhead(k)
                        /\ LoadAhead(k)' <=> LoadAhead(k)
    BY <1>6, <1>10, <2>1, <2>2, AheadParts, AheadPartsNext
  <2>4. /\ \A k \in Node : View(k)' = View(k)
        /\ currentSong' = currentSong
    BY <1>12, CheckView, TwoKinds DEF AllInv
  <2>5. up \subseteq Node
    BY DEF AllInv, TypeOK
  <2> QED
    BY <1>3, <1>7, <2>3, <2>4, <2>5 DEF Calm, Keeps
<1>13. ASSUME Apply(w) PROVE Acting(n)
  <2>1. pc[w] = "apply" /\ pc'[w] = "idle"
    BY <1>13, <1>3, <1>4 DEF Apply, CheckFlag
  <2>2. Told(n) /\ ~Told(n)' /\ ~Coming(n)'
    BY <1>10, <2>1 DEF Told
  <2>3. \A u \in User : pc[u] \in {"idle", "apply"}
    BY <1>9, <2>1
  <2>4. ~Meant(n) /\ \A k : ~Due(k)
    BY <1>8, <2>3 DEF Meant, Due, AllInv, TogetherInv, Loads
  <2>5. \A k \in Node : ~Coming(k)
    BY <2>3 DEF AllInv, TogetherInv, Loads
  <2>6. \A k \in Node : ~LoadAhead(k) /\ ~LoadAhead(k)'
    BY <1>6, <1>10, <2>1, <2>4, <2>5, AheadParts, AheadPartsNext
  <2>7. ActionAhead(n) /\ ~ActionAhead(n)'
    BY <1>6, <2>2, <2>4, AheadParts, AheadPartsNext
  <2>8. \A k \in Node \ {n} : ActionAhead(k)' <=> ActionAhead(k)
    BY <1>6, <1>10, AheadParts, AheadPartsNext
  <2>9. job[w].action \in UserAction /\ Doing(job[w].action)
    BY <1>1, <2>1, TwoKinds
    DEF Message, Doing, AllInv, TogetherInv, Loads
  <2>10. /\ View(n)' = Group!Do(job[w].action, View(n))
         /\ \A k \in Node \ {n} : View(k)' = View(k)
         /\ currentSong' = currentSong
    BY <1>13, <2>9, ApplyView, TwoKinds DEF AllInv
  <2>11. up \subseteq Node
    BY DEF AllInv, TypeOK
  <2> QED
    BY <1>1, <1>3, <1>7, <2>6, <2>7, <2>8, <2>9, <2>10, <2>11
    DEF Acting, Keeps
<1>14. Steady'
  BY <1>3, <1>5 DEF AllInv, TogetherInv, Steady
<1>15. NotBack'
  BY <1>3, <1>5, <1>8 DEF AllInv, TogetherInv, NotBack
<1>16. Loads'
  <2>1. \A x \in Worker : pc'[x] # "idle" =>
          (pc'[x] = "loading" <=> job'[x].action = "load")
    BY <1>1, <1>4, <1>5 DEF AllInv, TogetherInv, Loads
  <2>2. \A k : Coming(k)' => Coming(k)
    BY <1>3, <1>4, <1>5 DEF Coming
  <2> QED
    BY <1>5, <2>1, <2>2 DEF AllInv, TogetherInv, Loads
<1>17. OneAction'
  BY <1>7 DEF AllInv, TogetherInv, OneAction
<1> QED
  BY <1>2, <1>11, <1>12, <1>13, <1>14, <1>15, <1>16, <1>17 DEF TogetherInv

LEMMA UserTogether ==
    ASSUME Together, AllInv, NEW u \in User, ThreadStep(u)
    PROVE  TogetherInv' /\ (Calm \/ Loading(u[1]) \/ Acting(u[1]))
<1> DEFINE n == u[1]
<1>1. /\ pc[u] # "idle" /\ u \in Thread /\ u \notin Worker
      /\ n \in Node /\ n \in up /\ n \in Issuers /\ Peers[n] = Node \ {n}
      /\ \A v \in User \ {u} : pc[v] = "idle" /\ todo[v] = {}
      /\ job[u] \in Message /\ job[u].hop = 0
      /\ job[u].action \in UserAction
  <2>1. pc[u] # "idle"
    BY DEF ThreadStep, LoadDone, LoadFail, CheckFlag, SendLoad, LoadReturn,
           BroadcastCommand, Apply
  <2>2. n \in Issuers /\ Issuers \subseteq up
    BY <2>1 DEF AllInv, TogetherInv, Steady
  <2>3. job[u] \in Message /\ job[u].hop = 0 /\ job[u].action # "load"
    BY <2>1, TwoKinds DEF AllInv, TypeOK, SongInv, TheSong
  <2>4. \A v \in User \ {u} : pc[v] = "idle" /\ todo[v] = {}
    BY <2>1 DEF AllInv, TurnInv, OneUser, TogetherInv, Loads
  <2> QED
    BY <2>1, <2>2, <2>3, <2>4, TwoKinds DEF Together, Message
<1>2. up' = up /\ typed' = typed /\ up \subseteq Node
  BY DEF ThreadStep, LoadDone, LoadFail, CheckFlag, SendLoad, LoadReturn,
         BroadcastCommand, Apply, Return, Finish, AllInv, TypeOK
\* What is ahead depends on this user only, and on the requests.
<1>3. \A k : /\ Due(k) <=> /\ job[u].action = "play"
                           /\ \/ pc[u] = "loading"
                              \/ pc[u] = "check" /\ k # n
                              \/ k \in todo[u]
             /\ Meant(k) <=> (pc[u] = "apply" => k = n)
  BY <1>1 DEF Due, Meant
\* It suffices to look at the user and at the requests.
<1>4. ASSUME NEW l, Goto(u, l),
             \A t \in Thread \ {u} : job'[t] = job[t] /\ todo'[t] = todo[t],
             l # "idle" => job'[u].action = job[u].action,
             l = "bwait" => job[u].action = "play",
             l # "loading",
             l \notin {"bcast", "bwait"} => todo'[u] = {},
             n \notin todo'[u],
             \A m \in net' :
                \/ m \in net
                \/ /\ m.from = u /\ m.to # n
                   /\ m.action = "load" => l = "bwait" /\ m.to \notin todo'[u]
                   /\ m.action # "load" => m.action = job[u].action,
             \A p \in Node : ~Coming(p)
      PROVE  /\ TogetherInv'
             /\ \A a \in UserAction : Doing(a)' => Doing(a)
             /\ \A k : Due(k)' <=> /\ job'[u].action = "play"
                                   /\ k \in todo'[u] \/ (l = "check" /\ k # n)
             /\ \A k : Meant(k)' <=> l # "idle" /\ (l = "apply" => k = n)
             /\ \A w \in Worker : pc'[w] = pc[w]
  <2>1. pc'[u] = l /\ \A t \in Thread \ {u} : pc'[t] = pc[t]
    BY <1>1, <1>4, GotoOne DEF AllInv
  <2>2. /\ \A v \in User \ {u} : /\ pc'[v] = "idle" /\ todo'[v] = {}
                                 /\ job'[v] = job[v]
        /\ \A w \in Worker : pc'[w] = pc[w] /\ job'[w] = job[w]
    BY <2>1, <1>1, <1>4, TwoKinds
  <2>3. \A a \in UserAction : Doing(a)' => Doing(a)
    <3> SUFFICES ASSUME NEW a \in UserAction, Doing(a)' PROVE Doing(a)
      OBVIOUS
    <3>1. CASE \E t \in Thread : pc'[t] # "idle" /\ job'[t].action = a
      BY <3>1, <2>1, <1>1, <1>4 DEF Doing
    <3>2. CASE \E m \in net' : m.action = a
      <4>1. a # "load"
        BY DEF UserAction
      <4> QED
        BY <3>2, <4>1, <1>1, <1>4 DEF Doing
    <3> QED
      BY <3>1, <3>2 DEF Doing
  <2>4. Steady'
    BY <2>1, <2>2, <1>1, <1>2, <1>4 DEF AllInv, TogetherInv, Steady
  <2>5. NotBack'
    BY <2>1, <2>2, <1>1, <1>4 DEF AllInv, TogetherInv, NotBack
  <2>6. Loads'
    <3>1. ASSUME NEW p \in Node, Coming(p)'
          PROVE  l = "bwait" /\ p \notin todo'[u]
      <4>1. ~\E w \in Worker : w[1] = p /\ pc'[w] = "loading"
        BY <2>2, <1>4 DEF Coming
      <4>2. PICK m \in net' : m.to = p /\ m.action = "load"
        BY <3>1, <4>1 DEF Coming
      <4>3. m \notin net
        BY <4>2, <1>4 DEF Coming
      <4> QED
        BY <4>2, <4>3, <1>4
    <3>2. \A w \in Worker : pc'[w] # "idle" =>
            (pc'[w] = "loading" <=> job'[w].action = "load")
      BY <2>2 DEF AllInv, TogetherInv, Loads
    <3>3. \A v \in User :
            /\ pc'[v] \in {"loading", "bwait"} => job'[v].action = "play"
            /\ pc'[v] \notin {"bcast", "bwait"} => todo'[v] = {}
      BY <2>1, <2>2, <1>4
    <3> QED
      BY <3>1, <3>2, <3>3, <2>1 DEF Loads
  <2>7. OneAction'
    BY <2>3 DEF AllInv, TogetherInv, OneAction
  <2>8. \A k : Due(k)' <=> /\ job'[u].action = "play"
                           /\ k \in todo'[u] \/ (l = "check" /\ k # n)
    BY <2>1, <2>2, <1>4 DEF Due
  <2>9. \A k : Meant(k)' <=> l # "idle" /\ (l = "apply" => k = n)
    BY <2>1, <2>2 DEF Meant
  <2> QED
    BY <2>2, <2>3, <2>4, <2>5, <2>6, <2>7, <2>8, <2>9 DEF TogetherInv
\* Before its command is with the others, nothing else is under way.
<1>5. pc[u] \in Before => net = {} /\ \A w \in Worker : pc[w] = "idle"
  BY DEF AllInv, TurnInv, StillAlone
<1>6. pc[u] \in Before => \A k : ~Coming(k) /\ ~Told(k)
  BY <1>5 DEF Coming, Told
<1>7. CASE LoadDone(u)
  <2>1. /\ pc[u] = "loading" /\ Goto(u, "check")
        /\ UNCHANGED <<job, net, todo>>
    BY <1>1, <1>7 DEF LoadDone
  <2>2. todo[u] = {} /\ job[u].action = "play"
    BY <2>1 DEF AllInv, TogetherInv, Loads
  <2>3. /\ TogetherInv'
        /\ \A a \in UserAction : Doing(a)' => Doing(a)
        /\ \A k : Due(k)' <=> k # n
        /\ \A k : Meant(k)'
        /\ \A w \in Worker : pc'[w] = pc[w]
    BY <2>1, <2>2, <1>4, <1>6 DEF Before
  <2>4. \A k : /\ Due(k) /\ Meant(k) /\ ~Coming(k) /\ ~Told(k)
               /\ ~Coming(k)' /\ ~Told(k)'
    BY <2>1, <2>2, <2>3, <1>3, <1>5 DEF Before, Coming, Told
  <2>5. \A k : /\ LoadAhead(k) /\ ActionAhead(k) /\ ActionAhead(k)'
               /\ LoadAhead(k)' <=> k # n
    BY <2>3, <2>4, AheadParts, AheadPartsNext
  <2>6. /\ View(n)' = Loaded(View(n)) /\ currentSong'[n] = Asked
        /\ player'[n].cue = Start
        /\ \A k \in Node \ {n} :
              View(k)' = View(k) /\ currentSong'[k] = currentSong[k]
    BY <1>1, <1>7, LoadView DEF AllInv
  <2>7. Loading(n)
    BY <2>3, <2>5, <2>6, <1>1, <1>2 DEF Loading, Keeps
  <2> QED
    BY <2>3, <2>7
<1>8. CASE CheckFlag(u)
  <2>1. ~flag[n]
    BY <1>1, <1>5, <1>8
    DEF CheckFlag, Before, AllInv, FlagHasOwner
  <2>2. /\ pc[u] = "check" /\ Goto(u, "bcast") /\ net' = net
        /\ \A t \in Thread \ {u} : job'[t] = job[t] /\ todo'[t] = todo[t]
        /\ job'[u].action = job[u].action
    BY <1>1, <1>8, <2>1 DEF CheckFlag, Forwarded, AllInv, TypeOK, Message
  <2>3. todo'[u] = IF job[u].action = "play" THEN Node \ {n} ELSE {}
    <3>1. job[u].action = "play" => currentSong[n] # NoSong
      BY <2>2, <1>1 DEF AllInv, SongInv, Ready, HasSong, TheSong
    <3> QED
      BY <3>1, <2>1, <1>1, <1>8 DEF CheckFlag, Forwarded, AllInv, TypeOK
  <2>4. /\ TogetherInv'
        /\ \A a \in UserAction : Doing(a)' => Doing(a)
        /\ \A k : Due(k)' <=> job[u].action = "play" /\ k \in todo'[u]
        /\ \A k : Meant(k)'
        /\ \A w \in Worker : pc'[w] = pc[w]
    BY <2>2, <2>3, <1>4, <1>6 DEF Before
  <2>5. \A k \in Node : /\ Due(k)' <=> Due(k)
                        /\ Meant(k)
                        /\ ~Coming(k) /\ ~Told(k)
                        /\ ~Coming(k)' /\ ~Told(k)'
    <3>1. todo[u] = {}
      BY <2>2 DEF AllInv, TogetherInv, Loads
    <3> QED
      BY <3>1, <2>2, <2>3, <2>4, <1>3, <1>5 DEF Before, Coming, Told
  <2>6. \A k \in Node : /\ LoadAhead(k)' <=> LoadAhead(k)
                        /\ ActionAhead(k)' <=> ActionAhead(k)
    BY <2>4, <2>5, AheadParts, AheadPartsNext
  <2>7. currentSong' = currentSong /\ \A k \in Node : View(k)' = View(k)
    BY <1>1, <1>8, CheckView DEF AllInv
  <2>8. Calm
    BY <2>4, <2>6, <2>7, <1>2 DEF Calm, Keeps
  <2> QED
    BY <2>4, <2>8
<1>9. ASSUME NEW p \in Node, SendLoad(u, p) PROVE TogetherInv' /\ Calm
  <2> DEFINE r == Request(u, "load", p)
  <2>1. /\ pc[u] = "bcast" /\ job' = job /\ p \in todo[u]
        /\ todo' = [todo EXCEPT ![u] = todo[u] \ {p}]
        /\ UNCHANGED <<player, currentSong>>
        /\ \/ net' = net \cup {r} /\ Goto(u, "bwait")
           \/ UNCHANGED <<pc, net>> /\ p \notin up
    BY <1>1, <1>9, ConstantsAssumption DEF SendLoad, Together, Reliable
  <2>2. job[u].action = "play" /\ n \notin todo[u]
    BY <2>1, <1>1 DEF AllInv, SongInv, TheSong, TogetherInv, NotBack
  <2>3. /\ r.action = "load" /\ r.to = p /\ r.from = u
    BY <1>1 DEF Request, Message
  <2>4. /\ todo'[u] = todo[u] \ {p}
        /\ \A t \in Thread \ {u} : todo'[t] = todo[t]
    BY <2>1, <1>1 DEF AllInv, TypeOK
  <2> HIDE DEF r
  <2>5. CASE net' = net \cup {r} /\ Goto(u, "bwait")
    <3>1. /\ TogetherInv'
          /\ \A a \in UserAction : Doing(a)' => Doing(a)
          /\ \A k : Due(k)' <=> k \in todo'[u]
          /\ \A k : Meant(k)'
          /\ \A w \in Worker : pc'[w] = pc[w]
      BY <2>1, <2>2, <2>3, <2>4, <2>5, <1>1, <1>4, <1>6 DEF Before
    <3>2. \A k : /\ Coming(k)' <=> k = p
                 /\ ~Coming(k) /\ ~Told(k)' /\ ~Told(k)
                 /\ Meant(k) /\ (Due(k) <=> k \in todo[u])
      BY <3>1, <2>1, <2>2, <2>3, <2>5, <1>3, <1>5 DEF Before, Coming, Told
    <3>3. \A k : /\ LoadAhead(k)' <=> LoadAhead(k)
                 /\ ActionAhead(k)' <=> ActionAhead(k)
      BY <3>1, <3>2, <2>1, <2>4, AheadParts, AheadPartsNext
    <3>4. Calm
      BY <3>1, <3>3, <2>1, <1>2 DEF Calm, Keeps, View
    <3> QED
      BY <3>1, <3>4
  <2>6. CASE UNCHANGED <<pc, net>> /\ p \notin up
    <3>1. Goto(u, "bcast")
      BY <2>1, <2>6 DEF Goto, AllInv, TypeOK
    <3>2. /\ TogetherInv'
          /\ \A a \in UserAction : Doing(a)' => Doing(a)
          /\ \A k : Due(k)' <=> k \in todo'[u]
          /\ \A k : Meant(k)'
          /\ \A w \in Worker : pc'[w] = pc[w]
      BY <3>1, <2>1, <2>2, <2>4, <2>6, <1>1, <1>4, <1>6 DEF Before
    <3>3. \A k : /\ ~Coming(k)' /\ ~Coming(k) /\ ~Told(k)' /\ ~Told(k)
                 /\ Meant(k) /\ (Due(k) <=> k \in todo[u])
      BY <3>2, <2>1, <2>2, <2>6, <1>3, <1>5 DEF Before, Coming, Told
    <3>4. \A k \in up : /\ LoadAhead(k)' <=> LoadAhead(k)
                        /\ ActionAhead(k)' <=> ActionAhead(k)
      BY <3>2, <3>3, <2>4, <2>6, AheadParts, AheadPartsNext
    <3>5. Calm
      BY <3>2, <3>4, <2>1, <1>2 DEF Calm, Keeps, View
    <3> QED
      BY <3>2, <3>5
  <2> QED
    BY <2>1, <2>5, <2>6
<1>10. CASE LoadReturn(u)
  <2>1. /\ pc[u] = "bwait" /\ Goto(u, "bcast") /\ ~LoadPending(u)
        /\ UNCHANGED <<job, net, todo, player, currentSong>>
    BY <1>10 DEF LoadReturn, Together, Reliable, InTurn
  <2>2. net = {} /\ \A w \in Worker : pc[w] = "idle"
    BY <2>1 DEF LoadPending, AllInv, TurnInv, OnlyLoads
  <2>3. n \notin todo[u] /\ job[u].action = "play"
    BY <2>1 DEF AllInv, TogetherInv, NotBack, Loads
  <2>4. \A k : ~Coming(k) /\ ~Told(k)
    BY <2>2 DEF Coming, Told
  <2>5. /\ TogetherInv'
        /\ \A a \in UserAction : Doing(a)' => Doing(a)
        /\ \A k : Due(k)' <=> k \in todo[u]
        /\ \A k : Meant(k)'
        /\ \A w \in Worker : pc'[w] = pc[w]
    BY <2>1, <2>3, <2>4, <1>1, <1>4
  <2>6. \A k : /\ Due(k) <=> k \in todo[u]
               /\ Meant(k) /\ ~Coming(k)' /\ ~Told(k)'
    BY <2>1, <2>2, <2>3, <2>5, <1>3 DEF Coming, Told
  <2>7. \A k : /\ LoadAhead(k)' <=> LoadAhead(k)
               /\ ActionAhead(k)' <=> ActionAhead(k)
    BY <2>4, <2>5, <2>6, AheadParts, AheadPartsNext
  <2>8. Calm
    BY <2>1, <2>5, <2>7, <1>2 DEF Calm, Keeps, View
  <2> QED
    BY <2>5, <2>8
<1>11. CASE BroadcastCommand(u)
  <2> DEFINE r(p) == Request(u, job[u].action, p)
  <2>1. /\ pc[u] = "bcast" /\ Goto(u, "apply") /\ todo[u] = {}
        /\ UNCHANGED <<job, todo, player, currentSong>>
        /\ net' = {r(p) : p \in (Node \ {n}) \cap up}
    BY <1>1, <1>5, <1>11, ConstantsAssumption
    DEF BroadcastCommand, Before, Together, Reliable
  <2>2. \A p : /\ r(p).action = job[u].action /\ r(p).action # "load"
               /\ r(p).to = p /\ r(p).from = u
    BY <1>1 DEF Request, Message, UserAction
  <2> HIDE DEF r
  <2>3. /\ TogetherInv'
        /\ \A a \in UserAction : Doing(a)' => Doing(a)
        /\ \A k : ~Due(k)'
        /\ \A k : Meant(k)' <=> k = n
        /\ \A w \in Worker : pc'[w] = pc[w]
    BY <2>1, <2>2, <1>1, <1>4, <1>6 DEF Before
  <2>4. \A k \in up : k # n => Told(k)'
    BY <2>1, <2>2, <1>2 DEF Told
  <2>5. \A k : Meant(k) /\ ~Due(k) /\ ~Coming(k) /\ ~Coming(k)'
    BY <2>1, <2>2, <2>3, <1>3, <1>5 DEF Before, Coming
  <2>6. \A k \in up : /\ LoadAhead(k)' <=> LoadAhead(k)
                      /\ ActionAhead(k)' <=> ActionAhead(k)
    BY <2>3, <2>4, <2>5, AheadParts, AheadPartsNext
  <2>7. Calm
    BY <2>1, <2>3, <2>6, <1>2 DEF Calm, Keeps, View
  <2> QED
    BY <2>3, <2>7
<1>12. CASE Apply(u)
  <2>1. /\ pc[u] = "apply" /\ Goto(u, "idle") /\ UNCHANGED <<net, todo>>
        /\ job' = [job EXCEPT ![u] = NoJob]
    BY <1>12 DEF Apply, Return, Finish
  <2>2. todo[u] = {}
    BY <2>1 DEF AllInv, TogetherInv, Loads
  <2>3. \A k \in Node : ~Coming(k)
    BY <2>1, <1>1 DEF AllInv, TogetherInv, Loads
  <2>4. /\ TogetherInv'
        /\ \A a \in UserAction : Doing(a)' => Doing(a)
        /\ \A k : ~Due(k)' /\ ~Meant(k)'
        /\ \A w \in Worker : pc'[w] = pc[w]
    BY <2>1, <2>2, <2>3, <1>1, <1>4 DEF AllInv, TypeOK
  <2>5. ~Told(n)
    BY <1>1 DEF Told, AllInv, TogetherInv, NotBack
  <2>6. \A k \in Node : /\ ~Due(k) /\ (Meant(k) <=> k = n)
                        /\ ~Coming(k)' /\ (Told(k)' <=> Told(k))
    BY <2>1, <2>2, <2>3, <2>4, <1>3 DEF Coming, Told
  <2>7. \A k \in Node : ~LoadAhead(k)' /\ ~LoadAhead(k)
    BY <2>3, <2>4, <2>6, AheadParts, AheadPartsNext
  <2>8. \A k \in Node : /\ k = n => ActionAhead(k) /\ ~ActionAhead(k)'
                        /\ k # n => (ActionAhead(k)' <=> ActionAhead(k))
    BY <2>4, <2>5, <2>6, AheadParts, AheadPartsNext
  <2>9. /\ View(n)' = Group!Do(job[u].action, View(n))
        /\ \A k \in Node \ {n} : View(k)' = View(k)
        /\ currentSong' = currentSong
    BY <1>1, <1>12, ApplyView DEF AllInv
  <2>10. Doing(job[u].action)
    BY <1>1 DEF Doing
  <2>11. Acting(n)
    BY <2>4, <2>7, <2>8, <2>9, <2>10, <1>1, <1>2 DEF Acting, Keeps
  <2> QED
    BY <2>4, <2>11
<1> QED
  BY <1>7, <1>8, <1>9, <1>10, <1>11, <1>12
  DEF ThreadStep, LoadFail, Together, Reliable

\* A request is only lost with the client it was for.
LEMMA LoseTogether ==
    ASSUME Together, AllInv, NEW m \in net, Lose(m)
    PROVE  TogetherInv' /\ Calm
<1>1. /\ m.to \notin up /\ net' = net \ {m}
      /\ UNCHANGED <<up, currentSong, player, pc, job, todo, typed>>
  BY DEF Lose, Together, Reliable, AllInv, TogetherInv, Steady
<1>2. \A k \in net : k \in net' \/ k = m
  BY <1>1
<1>3. /\ \A n \in up : Coming(n)' <=> Coming(n)
      /\ \A n \in up : Told(n)' <=> Told(n)
      /\ \A n \in Node : Coming(n)' => Coming(n)
  BY <1>1, <1>2 DEF Coming, Told
<1>4. \A n : (Due(n)' <=> Due(n)) /\ (Meant(n)' <=> Meant(n))
  BY <1>1 DEF Due, Meant
<1>5. \A a \in UserAction : Doing(a)' => Doing(a)
  BY <1>1 DEF Doing
<1>6. \A n \in up : /\ LoadAhead(n)' <=> LoadAhead(n)
                    /\ ActionAhead(n)' <=> ActionAhead(n)
  BY <1>3, <1>4, AheadParts, AheadPartsNext
<1>7. Calm
  BY <1>1, <1>5, <1>6 DEF Calm, Keeps, View
<1>8. Steady' /\ NotBack'
  BY <1>1 DEF AllInv, TogetherInv, Steady, NotBack
<1>9. Loads'
  BY <1>1, <1>3 DEF AllInv, TogetherInv, Loads
<1>10. OneAction'
  BY <1>5 DEF AllInv, TogetherInv, OneAction
<1> QED
  BY <1>7, <1>8, <1>9, <1>10 DEF TogetherInv

\* A client that crashes takes only its own work with it.
Leaving(n) ==
    /\ n \in up /\ up' = up \ {n}
    /\ UNCHANGED <<typed, player, currentSong>>
    /\ \A k \in up \ {n} : /\ LoadAhead(k)' <=> LoadAhead(k)
                           /\ ActionAhead(k)' <=> ActionAhead(k)
    /\ \A a \in UserAction : Doing(a)' => Doing(a)

LEMMA CrashTogether ==
    ASSUME Together, AllInv, NEW n \in Node, Crash(n)
    PROVE  TogetherInv' /\ Leaving(n)
<1>1. /\ n \in up /\ n \notin Issuers /\ up' = up \ {n}
      /\ UNCHANGED <<net, currentSong, player, typed>>
      /\ \A t \in Thread : /\ t[1] = n => pc'[t] = "idle" /\ todo'[t] = {}
                                          /\ job'[t] = NoJob
                           /\ t[1] # n => /\ pc'[t] = pc[t]
                                          /\ job'[t] = job[t]
                                          /\ todo'[t] = todo[t]
  BY DEF Crash, AllInv, TypeOK, Together
\* No user sits there.
<1>2. \A u \in User : pc'[u] = pc[u] /\ todo'[u] = todo[u]
                      /\ (pc[u] # "idle" => job'[u] = job[u])
  <2> SUFFICES ASSUME NEW u \in User
               PROVE  pc'[u] = pc[u] /\ todo'[u] = todo[u]
                      /\ (pc[u] # "idle" => job'[u] = job[u])
    OBVIOUS
  <2>1. CASE pc[u] # "idle"
    BY <2>1, <1>1, TwoKinds DEF AllInv, TogetherInv, Steady
  <2>2. CASE pc[u] = "idle"
    BY <2>2, <1>1, TwoKinds DEF AllInv, TogetherInv, Loads
  <2> QED
    BY <2>1, <2>2
<1>3. \A w \in Worker : /\ pc'[w] # "idle" => /\ pc'[w] = pc[w]
                                              /\ job'[w] = job[w]
                                              /\ w[1] # n
                        /\ w[1] # n => pc'[w] = pc[w]
  BY <1>1, TwoKinds
<1>4. \A k : (Due(k)' <=> Due(k)) /\ (Meant(k)' <=> Meant(k))
  <2>1. \A u \in User : pc[u] = "idle" => todo[u] = {}
    BY DEF AllInv, TogetherInv, Loads
  <2> QED
    BY <1>2, <2>1 DEF Due, Meant
<1>5. /\ \A k : k # n => (Coming(k)' <=> Coming(k)) /\ (Told(k)' <=> Told(k))
      /\ \A k : Coming(k)' => Coming(k)
  BY <1>1, <1>3 DEF Coming, Told
<1>6. \A a \in UserAction : Doing(a)' => Doing(a)
  BY <1>1 DEF Doing
<1>7. \A k \in up \ {n} : /\ LoadAhead(k)' <=> LoadAhead(k)
                          /\ ActionAhead(k)' <=> ActionAhead(k)
  BY <1>4, <1>5, AheadParts, AheadPartsNext
<1>8. Steady' /\ NotBack'
  BY <1>1, <1>2, <1>3 DEF AllInv, TogetherInv, Steady, NotBack
<1>9. Loads'
  BY <1>2, <1>3, <1>5 DEF AllInv, TogetherInv, Loads
<1>10. OneAction'
  BY <1>6 DEF AllInv, TogetherInv, OneAction
<1> QED
  BY <1>1, <1>6, <1>7, <1>8, <1>9, <1>10 DEF TogetherInv, Leaving

\* A command is typed when nobody has anything ahead, and is ahead of all.
Commanding(a, s) ==
    /\ UNCHANGED <<up, player, currentSong>>
    /\ typed' = Append(typed, [action |-> a, song |-> s])
    /\ \A k : ~LoadAhead(k) /\ ~ActionAhead(k)
    /\ \A k : ActionAhead(k)' /\ (LoadAhead(k)' <=> a = "play")
    /\ \A b \in UserAction : Doing(b)' => b = a

LEMMA IssueTogether ==
    ASSUME Together, AllInv,
           NEW n \in Node, NEW a \in UserAction, NEW s \in Song \cup {NoSong},
           Issue(n, a, s)
    PROVE  TogetherInv' /\ Commanding(a, s)
<1> DEFINE u == <<n, Main>>
<1>1. u \in User /\ u \in Thread /\ u[1] = n /\ n \in Issuers
  BY TwoKinds DEF User, Issue
<1>2. /\ net = {} /\ net' = {} /\ \A t \in Thread : pc[t] = "idle"
      /\ UNCHANGED <<up, player, currentSong, todo>>
      /\ typed' = Append(typed, [action |-> a, song |-> s])
  BY DEF Issue, InTurn, Reliable, Together, Quiet
<1>3. /\ pc'[u] = IF a = "play" THEN "loading" ELSE "check"
      /\ \A t \in Thread \ {u} : pc'[t] = "idle"
  BY <1>1, <1>2, GotoOne DEF Issue, AllInv
<1>4. job'[u].action = a
  BY <1>1 DEF Issue, AllInv, TypeOK
<1>5. \A v \in User : todo[v] = {}
  BY <1>2, TwoKinds DEF AllInv, TogetherInv, Loads
<1> HIDE DEF u
<1>6. \A k : ~Due(k) /\ ~Meant(k) /\ ~Coming(k) /\ ~Told(k)
  BY <1>2, <1>5, TwoKinds DEF Due, Meant, Coming, Told
<1>7. \A v \in User \ {u} : pc'[v] = "idle" /\ todo'[v] = {}
  BY <1>2, <1>3, <1>5, TwoKinds
<1>8. \A w \in Worker : pc'[w] = "idle"
  BY <1>1, <1>3, TwoKinds
<1>9. /\ \A k : Due(k)' <=> a = "play"
      /\ \A k : Meant(k)'
      /\ \A k : ~Coming(k)' /\ ~Told(k)'
  <2>1. \A k : ~Coming(k)' /\ ~Told(k)'
    BY <1>2, <1>8 DEF Coming, Told
  <2>2. \A k : Meant(k)'
    BY <1>1, <1>3 DEF Meant
  <2>3. a = "play" => \A k : Due(k)'
    BY <1>1, <1>3, <1>4 DEF Due
  <2>4. a # "play" => \A k : ~Due(k)'
    BY <1>1, <1>2, <1>3, <1>4, <1>5, <1>7 DEF Due
  <2> QED
    BY <2>1, <2>2, <2>3, <2>4
<1>10. \A b \in UserAction : Doing(b)' => b = a
  BY <1>1, <1>2, <1>3, <1>4 DEF Doing
<1>11. Commanding(a, s)
  BY <1>2, <1>6, <1>9, <1>10, AheadParts, AheadPartsNext DEF Commanding
<1>12. Steady' /\ NotBack'
  BY <1>1, <1>2, <1>5, <1>7, <1>8
  DEF AllInv, TogetherInv, Steady, NotBack
<1>13. Loads'
  BY <1>1, <1>2, <1>3, <1>4, <1>5, <1>7, <1>8, <1>9 DEF Loads
<1>14. OneAction'
  BY <1>10 DEF OneAction
<1> QED
  BY <1>11, <1>12, <1>13, <1>14 DEF TogetherInv

-----------------------------------------------------------------------------
\* Every step is one of these.
LEMMA TogetherStep ==
    ASSUME Together, AllInv, [Next]_vars
    PROVE  /\ TogetherInv'
           /\ \/ Calm
              \/ \E n \in Node : Loading(n) \/ Acting(n) \/ Leaving(n)
              \/ \E a \in UserAction, s \in Song \cup {NoSong} :
                    Commanding(a, s) /\ (a = "play" <=> s # NoSong)
<1>1. ASSUME NEW t \in Thread, ThreadStep(t)
      PROVE  /\ TogetherInv'
             /\ Calm \/ \E n \in Node : Loading(n) \/ Acting(n)
  BY <1>1, TwoKinds, WorkerTogether, UserTogether
<1>2. ASSUME UNCHANGED vars PROVE TogetherInv' /\ Calm
  <2>1. TogetherInv'
    BY <1>2 DEF vars, AllInv, TogetherInv, Steady, NotBack, Loads, Coming,
                OneAction, Doing
  <2>2. \A n : /\ LoadAhead(n)' <=> LoadAhead(n)
               /\ ActionAhead(n)' <=> ActionAhead(n)
    BY <1>2 DEF vars, LoadAhead, ActionAhead
  <2> QED
    BY <1>2, <2>1, <2>2 DEF vars, Calm, Keeps, View, Doing
<1>3. ASSUME NEW n \in Node, NEW a \in UserAction,
             NEW s \in Song \cup {NoSong}, Issue(n, a, s)
      PROVE  /\ TogetherInv' /\ Commanding(a, s)
             /\ a = "play" <=> s # NoSong
  BY <1>3, IssueTogether DEF Issue
<1> QED
  BY <1>1, <1>2, <1>3, ReceiveTogether, LoseTogether, CrashTogether DEF Next

\* Everything proved so far holds together.
LEMMA TogetherInit == ASSUME Together PROVE Init => TogetherInv
BY TwoKinds, ConstantsAssumption
DEF Init, TogetherInv, Steady, NotBack, Loads, Coming, OneAction, Doing

LEMMA SongInit == Init => SongInv
BY TwoKinds DEF Init, SongInv, Living, LastCommand, TheSong, Ready

LEMMA AllInvariant == ASSUME Together PROVE Spec => []AllInv
<1>1. Reliable /\ InTurn
  BY DEF Together, Reliable
<1>2. AllInv /\ [Next]_vars => TogetherInv'
  BY TogetherStep
<1>3. AllInv <=> TypeOK /\ TurnInv /\ FlagHasOwner /\ SongInv /\ TogetherInv
  BY DEF AllInv
<1>4. TypeOK /\ TurnInv /\ SongInv /\ [Next]_vars => TurnInv' /\ SongInv'
  BY <1>1, TurnStep, SongStep
<1> QED
  BY <1>2, <1>3, <1>4, TogetherInit, SongInit, TurnInit, TypeCorrect,
     FlagOwned, PTL
  DEF Spec
-----------------------------------------------------------------------------
\* The three things a client can have ahead.
AheadForms ==
    \A n \in Node :
        /\ n \in up /\ LoadAhead(n) =>
              Ahead(n) = <<"load", "play">> /\ ActionAhead(n) /\ Doing("play")
        /\ n \in up /\ ~LoadAhead(n) /\ ActionAhead(n) =>
              Ahead(n) = <<TheAction>>
        /\ n \notin up \/ (~LoadAhead(n) /\ ~ActionAhead(n)) =>
              Ahead(n) = << >>

LEMMA AheadForm == AllInv => AheadForms
<1> SUFFICES ASSUME AllInv, NEW n \in Node
             PROVE  /\ n \in up /\ LoadAhead(n) =>
                          /\ Ahead(n) = <<"load", "play">>
                          /\ ActionAhead(n) /\ Doing("play")
                    /\ n \in up /\ ~LoadAhead(n) /\ ActionAhead(n) =>
                          Ahead(n) = <<TheAction>>
                    /\ n \notin up \/ (~LoadAhead(n) /\ ~ActionAhead(n)) =>
                          Ahead(n) = << >>
  BY DEF AheadForms
<1>1. ASSUME LoadAhead(n) PROVE Meant(n) /\ Doing("play")
  <2>1. \E u \in User : /\ job[u].action = "play"
                        /\ pc[u] \in {"loading", "check", "bcast", "bwait"}
    <3>1. CASE Due(n)
      BY <3>1 DEF Due, AllInv, TogetherInv, Loads
    <3>2. CASE Coming(n)
      BY <3>2 DEF AllInv, TogetherInv, Loads
    <3> QED
      BY <1>1, <3>1, <3>2, AheadParts
  <2> QED
    BY <2>1, TwoKinds DEF Meant, Doing
<1>2. ASSUME LoadAhead(n), n \in up PROVE TheAction = "play"
  <2>1. "play" \in UserAction
    BY DEF UserAction
  <2> QED
    BY <1>1, <1>2, <2>1, TheOnlyAction, AheadParts DEF OnlyTheAction
<1>3. /\ << >> \o << >> = << >>
      /\ \A a : << >> \o <<a>> = <<a>>
  OBVIOUS
<1>4. ASSUME LoadAhead(n), n \in up PROVE Ahead(n) = <<"load", "play">>
  <2>1. Ahead(n) = <<"load">> \o <<TheAction>>
    BY <1>1, <1>4, AheadParts DEF Ahead
  <2> QED
    BY <2>1, <1>2, <1>4, TwoSteps
<1> QED
  BY <1>1, <1>3, <1>4, AheadParts DEF Ahead

LEMMA AheadNext == AllInv' => AheadForms' /\ OnlyTheAction'
BY AheadForm, TheOnlyAction, PTL

LEMMA StableAhead ==
    ASSUME AllInv, AllInv', NEW n \in up, n \in up',
           LoadAhead(n)' <=> LoadAhead(n),
           ActionAhead(n)' <=> ActionAhead(n),
           \A a \in UserAction : Doing(a)' => Doing(a)
    PROVE  Ahead(n)' = Ahead(n)
<1>1. AheadForms /\ AheadForms' /\ OnlyTheAction /\ OnlyTheAction'
  BY AheadForm, TheOnlyAction, AheadNext
<1>2. n \in Node
  BY DEF AllInv, TypeOK
<1>3. ActionAhead(n) => TheAction' = TheAction
  BY <1>1 DEF OnlyTheAction
<1> QED
  BY <1>1, <1>2, <1>3 DEF AheadForms

\* What the group sees of the players and the songs.
LEMMA ViewsAre ==
    /\ Views = [n \in Node |-> View(n)]
    /\ Views' = [n \in Node |-> View(n)']
    /\ Aheads' = [n \in Node |-> Ahead(n)']
BY DEF Views, View, Back, Aheads

LEMMA CalmGroup ==
    ASSUME AllInv, AllInv', Calm PROVE UNCHANGED Group!vars
<1>1. \A n \in Node : Ahead(n)' = Ahead(n)
  <2>1. \A n \in up : Ahead(n)' = Ahead(n)
    BY StableAhead DEF Calm, Keeps
  <2>2. \A n \in Node \ up : Ahead(n)' = << >> /\ Ahead(n) = << >>
    BY AheadForm, AheadNext DEF AheadForms, Calm, Keeps
  <2> QED
    BY <2>1, <2>2
<1>2. currentSong' = currentSong
  BY DEF Calm, Keeps, AllInv, TypeOK
<1> QED
  BY <1>1, <1>2, ViewsAre DEF Calm, Keeps, Wanted, Aheads, Group!vars

LEMMA LoadingGroup ==
    ASSUME AllInv, AllInv', NEW n \in Node, Loading(n) PROVE Group!Carry(n)
<1>1. /\ Ahead(n) = <<"load", "play">> /\ ActionAhead(n)
      /\ n \in up /\ up' = up /\ Doing("play")
  BY AheadForm DEF AheadForms, Loading, Keeps
<1>2. Ahead(n)' = <<"play">>
  <2>1. "play" \in UserAction
    BY DEF UserAction
  <2>2. ~LoadAhead(n)' /\ ActionAhead(n)'
    BY <1>1 DEF Loading, Keeps
  <2>3. TheAction' = "play"
    BY <1>1, <2>1, <2>2, TheOnlyAction, AheadNext
    DEF OnlyTheAction, Loading, Keeps
  <2> QED
    BY <1>1, <2>2, <2>3, AheadNext DEF AheadForms
<1>3. \A k \in Node \ {n} : Ahead(k)' = Ahead(k)
  <2>1. \A k \in up \ {n} : Ahead(k)' = Ahead(k)
    BY StableAhead DEF Loading, Keeps
  <2>2. \A k \in Node \ up : Ahead(k)' = << >> /\ Ahead(k) = << >>
    BY AheadForm, AheadNext DEF AheadForms, Loading, Keeps
  <2> QED
    BY <2>1, <2>2
<1>4. /\ Head(<<"load", "play">>) = "load"
      /\ Tail(<<"load", "play">>) = <<"play">>
      /\ <<"load", "play">> # << >>
  OBVIOUS
<1>5. Aheads' = [Aheads EXCEPT ![n] = Tail(Aheads[n])]
  BY <1>1, <1>2, <1>3, <1>4, ViewsAre DEF Aheads
<1>6. Aheads[n] # << >> /\ Head(Aheads[n]) = "load"
  BY <1>1, <1>4 DEF Aheads
<1>7. Views' = [Views EXCEPT ![n] = Group!Do("load", Views[n])]
  BY ViewsAre, GroupPlayers DEF Loading, Keeps
<1>8. Wanted' = Wanted /\ Wanted.song = Asked
  <2>1. typed # << >>
    <3>1. \E j \in Message : j.cmd = Len(typed)
      BY <1>1 DEF Doing, AllInv, SongInv, LastCommand, TypeOK
    <3>2. Len(typed) \in 1 .. MaxCommands
      BY <3>1 DEF Message
    <3> QED
      BY <3>2, ConstantsAssumption
  <2> QED
    BY <2>1 DEF Wanted, Asked, Loading, Keeps
<1>9. currentSong' = [currentSong EXCEPT ![n] = Wanted.song]
  BY <1>8 DEF Loading, Keeps, AllInv, TypeOK
<1> QED
  BY <1>1, <1>5, <1>6, <1>7, <1>8, <1>9 DEF Group!Carry

LEMMA ActingGroup ==
    ASSUME AllInv, AllInv', NEW n \in Node, Acting(n) PROVE Group!Carry(n)
<1>1. PICK a \in UserAction : Doing(a) /\ View(n)' = Group!Do(a, View(n))
  BY DEF Acting
<1>2. /\ Ahead(n) = <<a>> /\ n \in up /\ up' = up
      /\ \A k \in up : Ahead(k) = << >> \/ Ahead(k) = <<a>>
  BY <1>1, AheadForm, TheOnlyAction
  DEF AheadForms, OnlyTheAction, Acting, Keeps, AllInv, TypeOK
<1>3. Ahead(n)' = << >>
  BY <1>2, AheadNext DEF AheadForms, Acting, Keeps
<1>4. \A k \in Node \ {n} : Ahead(k)' = Ahead(k)
  <2>1. \A k \in up \ {n} : Ahead(k)' = Ahead(k)
    BY StableAhead DEF Acting, Keeps
  <2>2. \A k \in Node \ up : Ahead(k)' = << >> /\ Ahead(k) = << >>
    BY AheadForm, AheadNext DEF AheadForms, Acting, Keeps
  <2> QED
    BY <2>1, <2>2
<1>5. Head(<<a>>) = a /\ Tail(<<a>>) = << >> /\ <<a>> # << >> /\ a # "load"
  BY DEF UserAction
<1>6. Aheads' = [Aheads EXCEPT ![n] = Tail(Aheads[n])]
  BY <1>2, <1>3, <1>4, <1>5, ViewsAre DEF Aheads
<1>7. Aheads[n] # << >> /\ Head(Aheads[n]) = a
  BY <1>2, <1>5 DEF Aheads
<1>8. \A k \in up : Aheads[k] = << >> \/ Head(Aheads[k]) = a
  BY <1>2, <1>5 DEF Aheads, AllInv, TypeOK
<1>9. Views' = [Views EXCEPT ![n] = Group!Do(a, Views[n])]
  BY <1>1, ViewsAre DEF Acting, Keeps
<1>10. currentSong' = currentSong /\ Wanted' = Wanted
  BY DEF Acting, Keeps, AllInv, TypeOK, Wanted
<1>11. currentSong' = [currentSong EXCEPT ![n] = currentSong[n]]
  BY <1>10 DEF AllInv, TypeOK
<1> QED
  BY <1>2, <1>5, <1>6, <1>7, <1>8, <1>9, <1>10, <1>11 DEF Group!Carry

LEMMA LeavingGroup ==
    ASSUME AllInv, AllInv', NEW n \in Node, Leaving(n) PROVE Group!Leave(n)
<1>1. \A k \in Node \ {n} : Ahead(k)' = Ahead(k)
  <2>1. \A k \in up \ {n} : Ahead(k)' = Ahead(k)
    BY StableAhead DEF Leaving
  <2>2. \A k \in Node \ up : Ahead(k)' = << >> /\ Ahead(k) = << >>
    BY AheadForm, AheadNext DEF AheadForms, Leaving
  <2> QED
    BY <2>1, <2>2
<1>2. Ahead(n)' = << >>
  BY AheadNext DEF AheadForms, Leaving
<1>3. Aheads' = [Aheads EXCEPT ![n] = << >>]
  BY <1>1, <1>2, ViewsAre DEF Aheads
<1> QED
  BY <1>3 DEF Leaving, Views, Wanted, Group!Leave

LEMMA CommandingGroup ==
    ASSUME AllInv, AllInv', NEW a \in UserAction,
           NEW s \in Song \cup {NoSong},
           Commanding(a, s), a = "play" <=> s # NoSong
    PROVE  Group!Next
<1> DEFINE steps == Group!Steps(a)
<1>1. \A n \in Node : Ahead(n) = << >>
  BY AheadForm DEF AheadForms, Commanding
<1>2. \A n \in up : Ahead(n)' = steps
  BY AheadNext
  DEF AheadForms, OnlyTheAction, Commanding, AllInv, TypeOK, Group!Steps
<1>3. \A n \in Node \ up : Ahead(n)' = << >>
  BY AheadNext DEF AheadForms, Commanding
<1>4. Wanted' = [action |-> a, song |-> s]
  <2>1. /\ typed \in Seq(Typed) /\ Len(typed) \in Nat
        /\ typed' = Append(typed, [action |-> a, song |-> s])
    BY DEF Commanding, AllInv, TypeOK
  <2>2. /\ Len(typed') = Len(typed) + 1
        /\ typed'[Len(typed')] = [action |-> a, song |-> s]
        /\ typed' # << >>
    BY <2>1
  <2> QED
    BY <2>2 DEF Wanted
<1> HIDE DEF steps
<1>5. Aheads' = [n \in Node |-> IF n \in up THEN steps ELSE << >>]
  BY <1>2, <1>3, ViewsAre
<1>6. Group!Command(a, s)
  BY <1>1, <1>4, <1>5
  DEF steps, Commanding, Aheads, Views, AllInv, TypeOK, Group!Command
<1> QED
  BY <1>6 DEF UserAction, Group!Next

LEMMA GroupStep ==
    ASSUME Together, AllInv, AllInv', [Next]_vars
    PROVE  [Group!Next]_(Group!vars)
BY TogetherStep, CalmGroup, LoadingGroup, ActingGroup, LeavingGroup,
   CommandingGroup
DEF Group!Next

LEMMA GroupInit == ASSUME Together PROVE Init => Group!Init
<1> SUFFICES ASSUME Init PROVE Group!Init
  OBVIOUS
<1>1. \A n \in Node : ~LoadAhead(n) /\ ~ActionAhead(n)
  BY TwoKinds DEF Init, LoadAhead, ActionAhead
<1>2. Aheads = [n \in Node |-> << >>]
  BY <1>1 DEF Aheads, Ahead
<1>3. Views = [n \in Node |-> NewPlayer]
  BY DEF Init, Views, NewPlayer, Start
<1> QED
  BY <1>2, <1>3, GroupPlayers DEF Init, Wanted, Group!Init

\* The clients act as one player: every step of theirs is a step of the
\* group, which commands, carries out, or loses a member, or no step at all.
THEOREM OnePlayer == ASSUME Together PROVE Spec => ActsAsOnePlayer
<1>1. AllInv /\ AllInv' /\ [Next]_vars => [Group!Next]_(Group!vars)
  BY GroupStep
<1> QED
  BY <1>1, GroupInit, AllInvariant, PTL DEF Spec, ActsAsOnePlayer, Group!Safety

\* Between two commands nobody has anything ahead.
LEMMA QuietAhead ==
    ASSUME AllInv, Quiet PROVE \A k \in up : Aheads[k] = << >>
<1>1. \A k \in Node : ~LoadAhead(k) /\ ~ActionAhead(k)
  BY TwoKinds DEF Quiet, LoadAhead, ActionAhead, AllInv, TogetherInv, Loads
<1> QED
  BY <1>1, AheadForm DEF AheadForms, Aheads, AllInv, TypeOK

\* So what is true of the group is true of them: when nothing is under way
\* the clients that live have the same song, flag and sound.
THEOREM EndSynced == ASSUME Together PROVE Spec => []Synced
<1>1. TypeOK /\ AllInv /\ Group!InStep => Synced
  <2> SUFFICES ASSUME AllInv, Group!InStep, Quiet, NEW m \in up, NEW n \in up
               PROVE  /\ currentSong[m] = currentSong[n]
                      /\ player[m].playing = player[n].playing
                      /\ player[m].unit = player[n].unit
    BY DEF Synced
  <2>1. \A k \in up : Aheads[k] = << >>
    BY QuietAhead
  <2>2. Views[m] = Views[n] /\ currentSong[m] = currentSong[n]
    BY <2>1 DEF Group!InStep
  <2>3. player \in [Node -> PlayerType] /\ m \in Node /\ n \in Node
    BY DEF AllInv, TypeOK, PlayerType
  <2>4. Back(player[m]) = Back(player[n])
    BY <2>2, <2>3 DEF Views, Back
  <2>5. /\ player[m].playing = Back(player[m]).playing
        /\ player[m].unit = Back(player[m]).unit
        /\ player[n].playing = Back(player[n]).playing
        /\ player[n].unit = Back(player[n]).unit
    BY <2>3, SetBack
  <2> QED
    BY <2>2, <2>4, <2>5
<1>2. ActsAsOnePlayer => []Group!InStep
  BY Group!EndsInStep DEF ActsAsOnePlayer
<1> QED
  BY <1>1, <1>2, OnePlayer, AllInvariant, TypeCorrect, PTL

\* And they are in the state the last command asked for, with its song.
THEOREM EndAsAsked == ASSUME Together PROVE Spec => []AsAsked
<1>1. AllInv /\ Group!InStep => AsAsked
  <2> DEFINE last == typed[Len(typed)]
  <2> SUFFICES ASSUME AllInv, Group!InStep, Quiet, typed # << >>, NEW n \in up
               PROVE  /\ last.action = "play" => /\ currentSong[n] = last.song
                                                 /\ player[n].unit # "none"
                      /\ last.action \in {"play", "resume"} =>
                            player[n].playing
                      /\ last.action \in {"pause", "stop"} =>
                            ~player[n].playing /\ player[n].unit # "running"
    BY DEF AsAsked
  <2>1. Group!InState(Views[n], currentSong[n])
    BY QuietAhead DEF Group!InStep
  <2>2. Wanted = last
    BY DEF Wanted
  <2>3. /\ n \in Node /\ player \in [Node -> PlayerType]
        /\ Views[n] = Back(player[n])
    BY DEF AllInv, TypeOK, PlayerType, Views, Back
  <2>4. /\ Views[n].playing = player[n].playing
        /\ Views[n].unit = player[n].unit
    BY <2>3, SetBack
  <2> HIDE DEF last
  <2> QED
    BY <2>1, <2>2, <2>4 DEF Group!InState
<1>2. ActsAsOnePlayer => []Group!InStep
  BY Group!EndsInStep DEF ActsAsOnePlayer
<1> QED
  BY <1>1, <1>2, OnePlayer, AllInvariant, PTL

-----------------------------------------------------------------------------
\* The group has no places in the song; the clients have, and where they
\* are depends on the command: those who resumed are where they were told,
\* those who loaded are at the beginning, and who paused does not run.
Resuming(c) ==
    /\ \A n \in up : ActionAhead(n) \/ player[n].cue = c
    /\ \A m \in net : m.cue = c
    /\ \A w \in Worker : pc[w] # "idle" =>
          /\ job[w].cue = c
          /\ pc[w] = "apply" => player[w[1]].cue = c
    /\ \A u \in User : pc[u] \in {"bcast", "apply"} =>
          job[u].cue = c /\ player[u[1]].cue = c

Place(a) ==
    /\ a \in {"pause", "stop"} =>
          \A n \in up : ActionAhead(n) \/ player[n].unit # "running"
    /\ a = "play" => \A n \in up : LoadAhead(n) \/ player[n].cue = Start
    /\ a = "resume" => \E c \in Cue : Resuming(c)

\* A unit that runs is flagged, so pause and stop reach it.
RunsFlagged == \A n \in Node : player[n].unit = "running" => player[n].playing

Placed == \A a \in UserAction : Doing(a) => Place(a)

PlaceInv == RunsFlagged /\ Placed /\ Aligned

\* Unless nothing is under way, an action is.
LEMMA SomeAction == AllInv /\ ~Quiet => \E a \in UserAction : Doing(a)
<1> SUFFICES ASSUME AllInv, ~Quiet PROVE \E a \in UserAction : Doing(a)
  OBVIOUS
<1>1. ASSUME NEW u \in User, pc[u] # "idle"
      PROVE  \E a \in UserAction : Doing(a)
  <2>1. job[u].action \in UserAction
    BY <1>1, TwoKinds DEF AllInv, TypeOK, Message, SongInv, TheSong
  <2> QED
    BY <2>1, <1>1, TwoKinds DEF Doing
<1>2. ASSUME NEW p \in Node, Coming(p)
      PROVE  \E a \in UserAction : Doing(a)
  BY <1>1, <1>2 DEF AllInv, TogetherInv, Loads
<1>3. ASSUME NEW w \in Worker, pc[w] # "idle"
      PROVE  \E a \in UserAction : Doing(a)
  <2>1. CASE job[w].action = "load"
    BY <2>1, <1>2, <1>3, TwoKinds DEF Coming, AllInv, TogetherInv, Loads
  <2>2. CASE job[w].action # "load"
    <3>1. job[w].action \in UserAction
      BY <2>2, <1>3, TwoKinds DEF AllInv, TypeOK, Message
    <3> QED
      BY <3>1, <1>3, TwoKinds DEF Doing
  <2> QED
    BY <2>1, <2>2
<1>4. ASSUME NEW m \in net PROVE \E a \in UserAction : Doing(a)
  <2>1. m \in Message
    BY DEF AllInv, TypeOK
  <2>2. CASE m.action = "load"
    BY <2>1, <2>2, <1>2 DEF Coming, Message
  <2>3. CASE m.action # "load"
    BY <2>1, <2>3 DEF Doing, Message
  <2> QED
    BY <2>2, <2>3
<1> QED
  BY <1>1, <1>3, <1>4, TwoKinds DEF Quiet

\* A thread at work has the action that is under way, or loads for a play.
LEMMA WorksForTheAction ==
    ASSUME AllInv, NEW a \in UserAction, Doing(a)
    PROVE  /\ \A t \in Thread : pc[t] # "idle" =>
                 job[t].action = a \/ (job[t].action = "load" /\ a = "play")
           /\ \A m \in net :
                 m.action = a \/ (m.action = "load" /\ a = "play")
           /\ \A t \in Thread : pc[t] \in {"loading", "bwait"} => a = "play"
           /\ \A n \in Node : LoadAhead(n) => a = "play"
<1>1. \A b \in UserAction : Doing(b) => b = a
  BY DEF AllInv, TogetherInv, OneAction
<1>2. \A p \in Node : Coming(p) => a = "play"
  <2>1. \A u \in User : pc[u] = "bwait" => Doing("play")
    BY TwoKinds DEF Doing, AllInv, TogetherInv, Loads
  <2> QED
    BY <2>1, <1>1 DEF UserAction, AllInv, TogetherInv, Loads
<1>3. ASSUME NEW t \in Thread, pc[t] # "idle"
      PROVE  /\ job[t].action = a \/ (job[t].action = "load" /\ a = "play")
             /\ pc[t] \in {"loading", "bwait"} => a = "play"
  <2>1. job[t] \in Message
    BY <1>3 DEF AllInv, TypeOK
  <2>2. job[t].action \in UserAction => job[t].action = a
    BY <1>1, <1>3 DEF Doing
  <2>3. job[t].action = "load" \/ (t \in Worker /\ pc[t] = "loading")
            => a = "play"
    BY <1>2, <1>3, TwoKinds
    DEF Coming, AllInv, TogetherInv, Loads, SongInv, TheSong
  <2>4. t \in User /\ pc[t] \in {"loading", "bwait"} => a = "play"
    BY <2>2 DEF UserAction, AllInv, TogetherInv, Loads
  <2>5. t \in Worker => pc[t] # "bwait"
    BY <1>3 DEF AllInv, TurnInv, Marked
  <2> QED
    BY <2>1, <2>2, <2>3, <2>4, <2>5, TwoKinds DEF Message
<1>4. ASSUME NEW m \in net
      PROVE  m.action = a \/ (m.action = "load" /\ a = "play")
  BY <1>1, <1>2 DEF Doing, Coming, Message, AllInv, TypeOK
<1>5. ASSUME NEW n \in Node, LoadAhead(n) PROVE a = "play"
  <2>1. Due(n) => Doing("play")
    BY TwoKinds DEF Due, Doing, AllInv, TogetherInv, Loads
  <2> QED
    BY <2>1, <1>1, <1>2, <1>5, AheadParts DEF UserAction
<1> QED
  BY <1>3, <1>4, <1>5

\* The group sees everything of a player but its place.
LEMMA ViewParts ==
    TypeOK => \A n \in Node : /\ View(n).playing = player[n].playing
                              /\ View(n).unit = player[n].unit
                              /\ View(n) \in PlayerType
BY SetBack DEF TypeOK, PlayerType, View

LEMMA ViewPartsNext ==
    TypeOK' => \A n \in Node : /\ (View(n)').playing = player'[n].playing
                               /\ (View(n)').unit = player'[n].unit
BY SetBack DEF TypeOK, PlayerType, View

\* A unit that runs stays flagged, and pause and stop halt it.
LEMMA FlaggedPlayers ==
    ASSUME NEW p \in PlayerType, p.unit = "running" => p.playing,
           NEW a \in UserAction
    PROVE  /\ Group!Do(a, p).unit = "running" => Group!Do(a, p).playing
           /\ Loaded(p).unit # "running"
           /\ a \in {"pause", "stop"} => Group!Do(a, p).unit # "running"
<1>1. Loaded(p).unit # "running"
  BY DEF Loaded
<1>2. /\ Played(p).unit = "running" => Played(p).playing
      /\ Resumed(p).unit = "running" => Resumed(p).playing
  BY DEF Played, Resumed, PlayerType
<1>3. Paused(p, Start).unit # "running" /\ Stopped(p).unit # "running"
  BY DEF Paused, Stopped, Halt, PlayerType
<1> QED
  BY <1>1, <1>2, <1>3, GroupPlayers DEF UserAction

\* What a thread's step does to the places: it touches its own player only,
\* and a play leaves the place alone or goes back to the beginning.
LEMMA PlacesTouched ==
    ASSUME TypeOK, NEW t \in Thread, ThreadStep(t)
    PROVE  /\ \A n \in Node \ {t[1]} : player'[n] = player[n]
           /\ UNCHANGED <<up, typed>>
           /\ job[t].action \in {"play", "load"}
                 => player'[t[1]].cue \in {player[t[1]].cue, Start}
           /\ Apply(t) /\ job[t].action = "resume"
                 => player'[t[1]].cue = player[t[1]].cue
<1> DEFINE p == player[t[1]]
           q == player'[t[1]]
<1>1. p \in PlayerType /\ t[1] \in Node /\ player \in [Node -> PlayerType]
  BY TwoKinds DEF TypeOK, PlayerType
<1>2. UNCHANGED <<up, typed>>
  BY DEF ThreadStep, LoadDone, LoadFail, CheckFlag, SendLoad, LoadReturn,
         BroadcastCommand, Apply, Return, Finish
<1>3. CASE LoadDone(t)
  <2>1. player' = [player EXCEPT ![t[1]] = Loaded(p)] /\ pc[t] = "loading"
    BY <1>3 DEF LoadDone
  <2>2. q.cue = Start
    BY <2>1, <1>1 DEF Loaded
  <2> QED
    BY <2>1, <2>2, <1>1, <1>2, <1>3 DEF Apply
<1>4. CASE LoadFail(t)
  <2>1. /\ player' = player \/ player' = [player EXCEPT ![t[1]] = Rejected(p)]
        /\ pc[t] = "loading"
    BY <1>4 DEF LoadFail
  <2>2. Rejected(p).cue = p.cue
    BY <1>1 DEF Rejected, PlayerType
  <2>3. q.cue = p.cue /\ \A n \in Node \ {t[1]} : player'[n] = player[n]
    BY <2>1, <2>2, <1>1
  <2> QED
    BY <2>1, <2>3, <1>2 DEF Apply
<1>5. CASE CheckFlag(t)
  <2>1. pc[t] = "check"
    BY <1>5 DEF CheckFlag
  <2>2. \A n \in Node \ {t[1]} : player'[n] = player[n]
    BY <1>5, <1>1 DEF CheckFlag
  <2>3. job[t].action \in {"play", "load"} => q = p
    BY <1>5, <1>1 DEF CheckFlag, Repositioned
  <2> QED
    BY <2>1, <2>2, <2>3, <1>2 DEF LoadDone, LoadFail, Apply
<1>6. CASE Apply(t)
  <2>1. player' = [player EXCEPT ![t[1]] = Effect(t)] /\ pc[t] = "apply"
    BY <1>6 DEF Apply
  <2>2. /\ job[t].action = "play" => Effect(t) = Played(p)
        /\ job[t].action = "load" => Effect(t) = Stopped(p)
        /\ job[t].action = "resume" => Effect(t) = Resumed(p)
    BY DEF Effect
  <2>3. /\ Played(p).cue = p.cue /\ Resumed(p).cue = p.cue
        /\ Stopped(p).cue \in {p.cue, Start}
    BY <1>1 DEF Played, Resumed, Stopped, PlayerType
  <2>4. q = Effect(t) /\ \A n \in Node \ {t[1]} : player'[n] = player[n]
    BY <2>1, <1>1
  <2> QED
    BY <2>1, <2>2, <2>3, <2>4, <1>2 DEF LoadDone, LoadFail
<1>7. CASE LoadReturn(t) \/ BroadcastCommand(t) \/ \E k \in Node : SendLoad(t, k)
  BY <1>7, <1>2 DEF LoadReturn, BroadcastCommand, SendLoad, LoadDone,
                    LoadFail, Apply
<1> QED
  BY <1>3, <1>4, <1>5, <1>6, <1>7 DEF ThreadStep

\* Whoever runs is flagged, in the next state as well.
LEMMA RunsFlaggedStep ==
    ASSUME Together, AllInv, AllInv', RunsFlagged, [Next]_vars
    PROVE  RunsFlagged'
<1>1. /\ \A n \in Node : /\ View(n).playing = player[n].playing
                         /\ View(n).unit = player[n].unit
                         /\ View(n) \in PlayerType
      /\ \A n \in Node : /\ (View(n)').playing = player'[n].playing
                         /\ (View(n)').unit = player'[n].unit
  BY ViewParts, ViewPartsNext DEF AllInv
<1>2. ASSUME NEW n \in Node
      PROVE  \/ View(n)' = View(n) \/ View(n)' = Loaded(View(n))
             \/ \E a \in UserAction : View(n)' = Group!Do(a, View(n))
  <2>1. CASE \E a \in UserAction, s \in Song \cup {NoSong} : Commanding(a, s)
    BY <2>1 DEF Commanding, View
  <2>2. CASE \E k \in Node : Leaving(k)
    BY <2>2 DEF Leaving, View
  <2>3. CASE Calm
    BY <2>3 DEF Calm, Keeps
  <2>4. CASE \E k \in Node : Loading(k)
    BY <2>4 DEF Loading, Keeps
  <2>5. CASE \E k \in Node : Acting(k)
    BY <2>5 DEF Acting, Keeps
  <2> QED
    BY <2>1, <2>2, <2>3, <2>4, <2>5, TogetherStep
<1>3. ASSUME NEW n \in Node, player'[n].unit = "running"
      PROVE  player'[n].playing
  <2>1. View(n).unit = "running" => View(n).playing
    BY <1>1 DEF RunsFlagged
  <2>2. (View(n)').unit = "running"
    BY <1>1, <1>3
  <2>3. /\ View(n) \in PlayerType /\ Loaded(View(n)).unit # "running"
        /\ \A a \in UserAction :
              Group!Do(a, View(n)).unit = "running"
                => Group!Do(a, View(n)).playing
    <3> DEFINE v == View(n)
    <3>1. v \in PlayerType /\ (v.unit = "running" => v.playing)
      BY <1>1, <2>1
    <3> HIDE DEF v
    <3>2. ASSUME NEW a \in UserAction
          PROVE  /\ Loaded(v).unit # "running"
                 /\ Group!Do(a, v).unit = "running" => Group!Do(a, v).playing
      BY <3>1, FlaggedPlayers, Zenon
    <3>3. Loaded(v).unit # "running"
      BY <3>2 DEF UserAction
    <3> QED
      BY <3>1, <3>2, <3>3, Zenon DEF v
  <2>4. CASE View(n)' = View(n)
    BY <2>1, <2>2, <2>4, <1>1
  <2>5. CASE \E a \in UserAction : View(n)' = Group!Do(a, View(n))
    <3>1. (View(n)').playing
      BY <2>2, <2>3, <2>5
    <3> QED
      BY <3>1, <1>1
  <2> QED
    BY <2>2, <2>3, <2>4, <2>5, <1>2
<1> QED
  BY <1>3 DEF RunsFlagged

\* Who has stopped, paused or not, stays so, and the others have it ahead.
LEMMA HaltPlace ==
    ASSUME Together, AllInv, AllInv', RunsFlagged, [Next]_vars,
           NEW a \in {"pause", "stop"}, Doing(a),
           \A n \in up : ActionAhead(n) \/ player[n].unit # "running"
    PROVE  \A n \in up' : ActionAhead(n)' \/ player'[n].unit # "running"
<1>1. /\ \A n \in Node : /\ View(n).playing = player[n].playing
                         /\ View(n).unit = player[n].unit
                         /\ View(n) \in PlayerType
      /\ \A n \in Node : (View(n)').unit = player'[n].unit
  BY ViewParts, ViewPartsNext DEF AllInv
<1>2. a \in UserAction /\ a # "play" /\ \A b \in UserAction : Doing(b) => b = a
  BY DEF UserAction, AllInv, TogetherInv, OneAction
<1>3. \A k \in Node : ~LoadAhead(k)
  BY <1>2, WorksForTheAction
<1>4. up \subseteq Node
  BY DEF AllInv, TypeOK
<1>5. CASE Calm
  BY <1>1, <1>4, <1>5 DEF Calm, Keeps
<1>6. ASSUME NEW n \in Node, Acting(n)
      PROVE  \A k \in up' : ActionAhead(k)' \/ player'[k].unit # "running"
  <2>1. View(n)' = Group!Do(a, View(n))
    BY <1>2, <1>6 DEF Acting
  <2>2. player'[n].unit # "running"
    BY <2>1, <1>1, <1>2, FlaggedPlayers DEF RunsFlagged
  <2>3. \A k \in up \ {n} :
          /\ player'[k].unit = player[k].unit
          /\ ActionAhead(k)' <=> ActionAhead(k)
    BY <1>1, <1>4, <1>6 DEF Acting, Keeps
  <2> QED
    BY <2>2, <2>3, <1>6 DEF Acting, Keeps
<1>7. ASSUME NEW n \in Node, Leaving(n)
      PROVE  \A k \in up' : ActionAhead(k)' \/ player'[k].unit # "running"
  BY <1>7 DEF Leaving
<1>8. ASSUME NEW b \in UserAction, NEW s \in Song \cup {NoSong},
             Commanding(b, s)
      PROVE  \A k \in up' : ActionAhead(k)' \/ player'[k].unit # "running"
  BY <1>8 DEF Commanding
<1>9. \A n \in Node : ~Loading(n)
  BY <1>3 DEF Loading
<1> QED
  BY <1>5, <1>6, <1>7, <1>8, <1>9, TogetherStep

\* Who has loaded is at the beginning, and the others have the load ahead.
LEMMA PlayPlace ==
    ASSUME Together, AllInv, [Next]_vars, Doing("play"),
           \A n \in up : LoadAhead(n) \/ player[n].cue = Start
    PROVE  \A n \in up' : LoadAhead(n)' \/ player'[n].cue = Start
<1>1. up \subseteq Node /\ "play" \in UserAction
  BY DEF AllInv, TypeOK, UserAction
<1>2. \A n \in Node : player'[n].cue \in {player[n].cue, Start}
  <2>1. ASSUME NEW t \in Thread, ThreadStep(t)
        PROVE  \A n \in Node : player'[n].cue \in {player[n].cue, Start}
    <3>1. pc[t] # "idle"
      BY <2>1 DEF ThreadStep, LoadDone, LoadFail, CheckFlag, SendLoad,
                  LoadReturn, BroadcastCommand, Apply
    <3>2. job[t].action \in {"play", "load"}
      BY <3>1, <1>1, WorksForTheAction
    <3> QED
      BY <2>1, <3>2, PlacesTouched DEF AllInv
  <2>2. CASE player' = player
    BY <2>2
  <2> QED
    BY <2>1, <2>2 DEF Next, Issue, Receive, Lose, Crash, vars
<1>3. ASSUME NEW n \in up'
      PROVE  LoadAhead(n)' \/ player'[n].cue = Start
  <2>1. n \in up /\ n \in Node
    BY <1>1, TogetherStep
    DEF Calm, Loading, Acting, Leaving, Commanding, Keeps
  <2>2. CASE LoadAhead(n)' <=> LoadAhead(n)
    BY <2>1, <2>2, <1>2
  <2>3. CASE ~(LoadAhead(n)' <=> LoadAhead(n))
    <3>1. ASSUME ~LoadAhead(n) PROVE player'[n].cue = Start
      BY <3>1, <2>1, <1>2
    <3>2. ASSUME LoadAhead(n) PROVE player'[n].cue = Start
      <4>1. \A b, s : ~Commanding(b, s)
        BY <3>2 DEF Commanding
      <4>2. \A k \in Node : ~Leaving(k)
        BY <2>1, <2>3 DEF Leaving
      <4>3. ~Calm /\ \A k \in Node : ~Acting(k)
        BY <2>1, <2>3 DEF Calm, Acting, Keeps
      <4>4. \A k \in Node : Loading(k) => k = n
        BY <2>1, <2>3 DEF Loading, Keeps
      <4> QED
        BY <4>1, <4>2, <4>3, <4>4, TogetherStep DEF Loading
    <3> QED
      BY <3>1, <3>2
  <2> QED
    BY <2>2, <2>3
<1> QED
  BY <1>3

\* A thread that resumes takes its player to the place of the resume, and
\* hands the place on; the user's thread is where the place gets its name.
LEMMA ResumeThread ==
    ASSUME Together, AllInv, Doing("resume"), NEW c \in Cue, Resuming(c),
           NEW t \in Thread, ThreadStep(t)
    PROVE  \E d \in Cue : Resuming(d)'
<1> DEFINE n == t[1]
<1>1. /\ pc[t] \in {"check", "bcast", "apply"} /\ job[t].action = "resume"
      /\ n \in Node /\ up \subseteq Node /\ player \in [Node -> PlayerType]
      /\ job[t] \in Message
  <2>1. pc[t] # "idle"
    BY DEF ThreadStep, LoadDone, LoadFail, CheckFlag, SendLoad, LoadReturn,
           BroadcastCommand, Apply
  <2>2. "resume" \in UserAction /\ "resume" # "play"
    BY DEF UserAction
  <2> QED
    BY <2>1, <2>2, WorksForTheAction, TwoKinds
    DEF AllInv, TypeOK, PC, PlayerType
<1>2. /\ \A k \in Node \ {n} : player'[k] = player[k]
      /\ UNCHANGED <<up, typed>>
      /\ Apply(t) => player'[n].cue = player[n].cue
  BY <1>1, PlacesTouched DEF AllInv
<1>3. \A k \in up \ {n} : ActionAhead(k)' <=> ActionAhead(k)
  <2>1. Calm \/ Loading(n) \/ Acting(n)
    BY TwoKinds, WorkerTogether, UserTogether
  <2> QED
    BY <2>1 DEF Calm, Loading, Acting, Keeps
<1>4. ASSUME player'[n].cue = c
      PROVE  \A k \in up' : ActionAhead(k)' \/ player'[k].cue = c
  BY <1>1, <1>2, <1>3, <1>4 DEF Resuming
<1>5. CASE t \in Worker
  <2>1. pc[t] \in {"check", "apply"} /\ flag[n] /\ job[t].cue = c
    BY <1>1, <1>5 DEF AllInv, TurnInv, Marked, Resuming
  <2>2. CASE pc[t] = "check"
    <3>1. CheckFlag(t) /\ ~Forwarded(t)
      BY <2>1, <2>2 DEF ThreadStep, LoadDone, LoadFail, SendLoad, LoadReturn,
                        BroadcastCommand, Apply, Forwarded
    <3>2. /\ player' = [player EXCEPT ![n] = Repositioned(t)]
          /\ Repositioned(t) = [player[n] EXCEPT !.cue = c]
          /\ job' = [job EXCEPT ![t] = job[t]]
          /\ Goto(t, "apply") /\ net' = net
      BY <3>1, <2>1, <1>1, <1>5 DEF CheckFlag, Repositioned
    <3>3. player'[n].cue = c /\ job' = job
      BY <3>2, <1>1 DEF PlayerType, AllInv, TypeOK
    <3>4. pc'[t] = "apply" /\ \A x \in Thread \ {t} : pc'[x] = pc[x]
      BY <3>2, GotoOne DEF AllInv
    <3>5. \A w \in Worker : pc'[w] # "idle" =>
            job'[w].cue = c /\ (pc'[w] = "apply" => player'[w[1]].cue = c)
      BY <3>3, <3>4, <1>2, <2>1, <1>5, TwoKinds DEF Resuming
    <3>6. \A u \in User : pc'[u] \in {"bcast", "apply"} =>
            job'[u].cue = c /\ player'[u[1]].cue = c
      BY <3>3, <3>4, <1>2, <1>5, TwoKinds DEF Resuming
    <3> QED
      BY <3>2, <3>3, <3>5, <3>6, <1>4 DEF Resuming
  <2>3. CASE pc[t] = "apply"
    <3>1. Apply(t)
      BY <2>3 DEF ThreadStep, LoadDone, LoadFail, SendLoad, LoadReturn,
                  BroadcastCommand, CheckFlag
    <3>2. player'[n].cue = c /\ net' = net
      BY <3>1, <1>2, <1>5, <2>3 DEF Resuming, Apply, Return, Finish
    <3>3. /\ pc'[t] = "idle"
          /\ \A x \in Thread \ {t} : pc'[x] = pc[x] /\ job'[x] = job[x]
      <4>1. Goto(t, "idle") /\ job' = [job EXCEPT ![t] = NoJob]
        BY <3>1 DEF Apply, Return, Finish
      <4> QED
        BY <4>1, GotoOne DEF AllInv, TypeOK
    <3>4. \A w \in Worker : pc'[w] # "idle" =>
            job'[w].cue = c /\ (pc'[w] = "apply" => player'[w[1]].cue = c)
      BY <3>2, <3>3, <1>2, TwoKinds DEF Resuming
    <3>5. \A u \in User : pc'[u] \in {"bcast", "apply"} =>
            job'[u].cue = c /\ player'[u[1]].cue = c
      BY <3>2, <3>3, <1>2, <1>5, TwoKinds DEF Resuming
    <3> QED
      BY <3>2, <3>4, <3>5, <1>4 DEF Resuming
  <2> QED
    BY <2>1, <2>2, <2>3
<1>6. CASE t \in User
  <2>1. \A u \in User \ {t} : pc[u] = "idle"
    BY <1>1, <1>6 DEF AllInv, TurnInv, OneUser
  <2>2. pc[t] \in {"check", "bcast"} =>
          net = {} /\ \A w \in Worker : pc[w] = "idle"
    BY <1>6 DEF AllInv, TurnInv, StillAlone, Before
  <2>3. CASE CheckFlag(t)
    <3>1. ~flag[n] /\ pc[t] = "check"
      BY <1>1, <2>2, <2>3 DEF CheckFlag, AllInv, FlagHasOwner
    <3>2. Repositioned(t) = player[n] /\ Forwarded(t)
      BY <3>1, <1>6, TwoKinds DEF Repositioned, Forwarded
    <3>3. PICK here \in Cue : here = Position(player[n], n, job[t].cmd)
      BY <1>1 DEF Position, PlayerType, Cue, Message
    <3>4. /\ player' = [player EXCEPT ![n] = [player[n] EXCEPT !.cue = here]]
          /\ job' = [job EXCEPT ![t] = [job[t] EXCEPT !.cue = here]]
          /\ Goto(t, "bcast") /\ net' = {}
      BY <3>1, <3>2, <3>3, <2>2, <2>3, <1>1 DEF CheckFlag
    <3>5. player'[n].cue = here /\ job'[t].cue = here
      BY <3>4, <1>1 DEF PlayerType, Message, AllInv, TypeOK
    <3>6. pc'[t] = "bcast" /\ \A x \in Thread \ {t} : pc'[x] = pc[x]
      BY <3>4, GotoOne DEF AllInv
    <3>7. /\ \A w \in Worker : pc'[w] = "idle"
          /\ \A u \in User \ {t} : pc'[u] = "idle"
      BY <3>1, <3>6, <2>1, <2>2, <1>6, TwoKinds
    <3>8. \A k \in up' : ActionAhead(k)'
      BY <3>6, <1>6 DEF ActionAhead
    <3>9. Resuming(here)'
      BY <3>4, <3>5, <3>7, <3>8, <1>1 DEF Resuming
    <3> QED
      BY <3>9
  <2>4. CASE BroadcastCommand(t)
    <3>1. /\ pc[t] = "bcast" /\ Goto(t, "apply")
          /\ UNCHANGED <<player, job>>
          /\ \A m \in net' : m \in net \/ \E p : m = Request(t, "resume", p)
      BY <2>4, <1>1 DEF BroadcastCommand
    <3>2. job[t].cue = c /\ player'[n].cue = c
      BY <3>1, <1>6 DEF Resuming
    <3>3. \A p : Request(t, "resume", p).cue = job[t].cue
      BY <1>1 DEF Request, Message
    <3>4. \A m \in net' : m.cue = c
      BY <3>1, <3>2, <3>3, <2>2
    <3>5. pc'[t] = "apply" /\ \A x \in Thread \ {t} : pc'[x] = pc[x]
      BY <3>1, GotoOne DEF AllInv
    <3>6. /\ \A w \in Worker : pc'[w] = "idle"
          /\ \A u \in User \ {t} : pc'[u] = "idle"
      BY <3>1, <3>5, <2>1, <2>2, <1>6, TwoKinds
    <3> QED
      BY <3>1, <3>2, <3>4, <3>6, <1>4 DEF Resuming
  <2>5. CASE Apply(t)
    <3>1. /\ Goto(t, "idle") /\ job' = [job EXCEPT ![t] = NoJob]
          /\ net' = net /\ pc[t] = "apply"
      BY <2>5 DEF Apply, Return, Finish
    <3>2. player'[n].cue = c
      BY <3>1, <2>5, <1>2, <1>6 DEF Resuming
    <3>3. /\ pc'[t] = "idle"
          /\ \A x \in Thread \ {t} : pc'[x] = pc[x] /\ job'[x] = job[x]
      BY <3>1, GotoOne DEF AllInv, TypeOK
    <3>4. \A w \in Worker : pc'[w] # "idle" =>
            job'[w].cue = c /\ (pc'[w] = "apply" => player'[w[1]].cue = c)
      BY <3>2, <3>3, <1>2, <1>6, TwoKinds DEF Resuming
    <3>5. \A u \in User : pc'[u] = "idle"
      BY <3>3, <2>1, TwoKinds
    <3> QED
      BY <3>1, <3>2, <3>4, <3>5, <1>4 DEF Resuming
  <2>6. ~\E p \in Node : SendLoad(t, p)
    BY <1>1, <1>6 DEF SendLoad, AllInv, SongInv, TheSong
  <2> QED
    BY <1>1, <2>3, <2>4, <2>5, <2>6
    DEF ThreadStep, LoadDone, LoadFail, LoadReturn
<1> QED
  BY <1>5, <1>6, TwoKinds

LEMMA ResumePlace ==
    ASSUME Together, AllInv, Doing("resume"), NEW c \in Cue, Resuming(c),
           [Next]_vars,
           ~\E n \in Node, a \in UserAction, s \in Song \cup {NoSong} :
               Issue(n, a, s)
    PROVE  \E d \in Cue : Resuming(d)'
<1>1. ASSUME NEW m \in net, NEW w \in Worker, Receive(m, w)
      PROVE  Resuming(c)'
  <2>1. /\ net' \subseteq net /\ job' = [job EXCEPT ![w] = m]
        /\ Goto(w, IF m.action = "load" THEN "loading" ELSE "check")
        /\ UNCHANGED <<up, player>>
    BY <1>1 DEF Receive
  <2>2. m.action # "load"
    BY WorksForTheAction DEF UserAction
  <2>3. pc'[w] = "check" /\ \A x \in Thread \ {w} : pc'[x] = pc[x]
    BY <2>1, <2>2, GotoOne, TwoKinds DEF AllInv
  <2>4. job'[w] = m /\ \A x \in Thread \ {w} : job'[x] = job[x]
    BY <2>1, TwoKinds DEF AllInv, TypeOK
  <2>5. \A k \in up : ActionAhead(k)' <=> ActionAhead(k)
    BY <1>1, ReceiveTogether DEF Calm, Keeps
  <2>6. \A x \in Worker : pc'[x] # "idle" =>
          job'[x].cue = c /\ (pc'[x] = "apply" => player'[x[1]].cue = c)
    BY <2>1, <2>3, <2>4, TwoKinds DEF Resuming
  <2>7. \A u \in User : pc'[u] = pc[u] /\ job'[u] = job[u]
    BY <2>3, <2>4, TwoKinds
  <2> QED
    BY <2>1, <2>5, <2>6, <2>7 DEF Resuming
<1>2. ASSUME NEW m \in net, Lose(m) PROVE Resuming(c)'
  <2>1. /\ net' \subseteq net /\ UNCHANGED <<up, player, pc, job>>
        /\ \A k \in up : ActionAhead(k)' <=> ActionAhead(k)
    BY <1>2, LoseTogether DEF Lose, Calm, Keeps
  <2> QED
    BY <2>1 DEF Resuming
<1>3. ASSUME NEW n \in Node, Crash(n) PROVE Resuming(c)'
  <2>1. /\ up' = up \ {n} /\ UNCHANGED <<net, player>>
        /\ \A t \in Thread : pc'[t] # "idle" =>
              pc'[t] = pc[t] /\ job'[t] = job[t]
        /\ \A k \in up \ {n} : ActionAhead(k)' <=> ActionAhead(k)
    BY <1>3, CrashTogether DEF Crash, Leaving
  <2>2. \A x \in Worker : pc'[x] # "idle" =>
          job'[x].cue = c /\ (pc'[x] = "apply" => player'[x[1]].cue = c)
    BY <2>1, TwoKinds DEF Resuming
  <2>3. \A u \in User : pc'[u] \in {"bcast", "apply"} =>
          job'[u].cue = c /\ player'[u[1]].cue = c
    BY <2>1, TwoKinds DEF Resuming
  <2> QED
    BY <2>1, <2>2, <2>3 DEF Resuming
<1>4. ASSUME UNCHANGED vars PROVE Resuming(c)'
  BY <1>4 DEF vars, Resuming, ActionAhead
<1> QED
  BY <1>1, <1>2, <1>3, <1>4, ResumeThread DEF Next

\* A command that is typed is ahead of everybody, and has no place yet.
LEMMA IssuePlace ==
    ASSUME Together, AllInv, NEW a \in UserAction, Doing(a)',
           NEW n \in Node, NEW b \in UserAction, NEW s \in Song \cup {NoSong},
           Issue(n, b, s)
    PROVE  Place(a)'
<1>1. Commanding(b, s) /\ a = b
  BY IssueTogether DEF Commanding
<1>2. /\ net' = {} /\ Quiet
      /\ Goto(<<n, Main>>, IF b = "play" THEN "loading" ELSE "check")
      /\ <<n, Main>> \in User /\ <<n, Main>> \in Thread
  BY TwoKinds
  DEF Issue, Quiet, Together, Reliable, InTurn, User, AllInv, TypeOK
<1>3. \A t \in Thread : pc'[t] \in {"idle", "loading", "check"}
  <2>1. \A t \in Thread : pc[t] = "idle"
    BY <1>2 DEF Quiet
  <2> QED
    BY <1>2, <2>1, GotoOne DEF AllInv
<1>4. \A w \in Worker : pc'[w] = "idle"
  <2>1. \A w \in Worker : w # <<n, Main>> /\ pc[w] = "idle"
    BY <1>2, TwoKinds DEF Quiet
  <2> QED
    BY <1>2, <2>1, GotoOne, TwoKinds DEF AllInv
<1>5. Resuming(Start)'
  <2>1. /\ \A m \in net' : m.cue = Start
        /\ \A k \in up' : ActionAhead(k)'
        /\ \A u \in User : pc'[u] \notin {"bcast", "apply"}
    BY <1>1, <1>2, <1>3, TwoKinds DEF Commanding
  <2> QED
    BY <2>1, <1>4 DEF Resuming
<1> QED
  BY <1>1, <1>5 DEF Commanding, Place, Cue

LEMMA PlacedStep ==
    ASSUME Together, AllInv, AllInv', RunsFlagged, Placed, [Next]_vars
    PROVE  Placed'
<1> SUFFICES ASSUME NEW a \in UserAction, Doing(a)' PROVE Place(a)'
  BY DEF Placed
<1>1. CASE \E n \in Node, b \in UserAction, s \in Song \cup {NoSong} :
             Issue(n, b, s)
  BY <1>1, IssuePlace
<1>2. CASE ~\E n \in Node, b \in UserAction, s \in Song \cup {NoSong} :
              Issue(n, b, s)
  <2>1. Doing(a)
    <3>1. \A t \in Thread : ThreadStep(t) =>
            Calm \/ \E n \in Node : Loading(n) \/ Acting(n)
      BY TwoKinds, WorkerTogether, UserTogether
    <3>2. ASSUME UNCHANGED vars PROVE Doing(a)
      BY <3>2 DEF vars, Doing
    <3> QED
      BY <1>2, <3>1, <3>2, ReceiveTogether, LoseTogether, CrashTogether
      DEF Next, Calm, Loading, Acting, Leaving, Keeps
  <2>2. Place(a)
    BY <2>1 DEF Placed
  <2>3. a \in {"pause", "stop"} =>
          \A n \in up' : ActionAhead(n)' \/ player'[n].unit # "running"
    BY <2>1, <2>2, HaltPlace DEF Place
  <2>4. a = "play" => \A n \in up' : LoadAhead(n)' \/ player'[n].cue = Start
    BY <2>1, <2>2, PlayPlace DEF Place
  <2>5. a = "resume" => \E c \in Cue : Resuming(c)'
    BY <1>2, <2>1, <2>2, ResumePlace DEF Place
  <2> QED
    BY <2>3, <2>4, <2>5 DEF Place, Cue
<1> QED
  BY <1>1, <1>2

\* When a command has ended, its place is everybody's.
LEMMA AlignedStep ==
    ASSUME Together, AllInv, AllInv', RunsFlagged, Placed, Aligned,
           [Next]_vars
    PROVE  Aligned'
<1> SUFFICES ASSUME Quiet', NEW m \in up', NEW n \in up',
                    player'[m].unit = "running", player'[n].unit = "running"
             PROVE  player'[m].cue = player'[n].cue
  BY DEF Aligned
<1>1. \A t \in Thread : pc'[t] = "idle"
  BY DEF Quiet
<1>2. \A k : ~LoadAhead(k)' /\ ~ActionAhead(k)'
  <2>1. net' = {} /\ \A u \in User : pc'[u] = "idle" /\ todo'[u] = {}
    BY <1>1, TwoKinds DEF Quiet, AllInv, TogetherInv, Loads
  <2>2. \A w \in Worker : pc'[w] = "idle"
    BY <1>1, TwoKinds
  <2> QED
    BY <2>1, <2>2 DEF LoadAhead, ActionAhead
<1>3. CASE ~Quiet
  <2>1. PICK a \in UserAction : Doing(a)
    BY <1>3, SomeAction
  <2>2. ~\E k \in Node, b \in UserAction, s \in Song \cup {NoSong} :
            Issue(k, b, s)
    BY <1>3 DEF Issue, Together, Reliable, InTurn
  <2>3. Place(a)
    BY <2>1 DEF Placed
  <2>4. a \notin {"pause", "stop"}
    BY <2>1, <2>3, <1>2, HaltPlace DEF Place
  <2>5. CASE a = "play"
    <3>1. \A k \in up' : player'[k].cue = Start
      BY <2>1, <2>3, <2>5, <1>2, PlayPlace DEF Place
    <3> QED
      BY <3>1
  <2>6. CASE a = "resume"
    <3>1. \E c \in Cue : Resuming(c)'
      BY <2>1, <2>2, <2>3, <2>6, ResumePlace DEF Place
    <3> QED
      BY <3>1, <1>2 DEF Resuming
  <2> QED
    BY <2>4, <2>5, <2>6 DEF UserAction
<1>4. CASE Quiet
  <2>1. player' = player /\ up' \subseteq up
    <3>1. \A t \in Thread : ~ThreadStep(t)
      BY <1>4 DEF Quiet, ThreadStep, LoadDone, LoadFail, CheckFlag, SendLoad,
                  LoadReturn, BroadcastCommand, Apply
    <3> QED
      BY <1>4, <3>1 DEF Quiet, Next, Issue, Crash, Receive, Lose, vars
  <2> QED
    BY <1>4, <2>1 DEF Aligned
<1> QED
  BY <1>3, <1>4

\* When nothing is under way the clients that sound do so from one place:
\* the beginning after a play, the place of the user's own player after a
\* resume, wherever the others had been paused.
THEOREM EndAligned == ASSUME Together PROVE Spec => []Aligned
<1>1. Init => PlaceInv
  BY TwoKinds DEF Init, PlaceInv, RunsFlagged, Placed, Doing, Aligned,
                  NewPlayer
<1>2. AllInv /\ AllInv' /\ PlaceInv /\ [Next]_vars => PlaceInv'
  BY RunsFlaggedStep, PlacedStep, AlignedStep DEF PlaceInv
<1>3. PlaceInv => Aligned
  BY DEF PlaceInv
<1> QED
  BY <1>1, <1>2, <1>3, AllInvariant, PTL DEF Spec
=============================================================================
