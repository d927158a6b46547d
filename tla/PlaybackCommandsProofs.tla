----------------------- MODULE PlaybackCommandsProofs -----------------------
(***************************************************************************)
(* For any clients, peers, slots and bounds: the specification is type     *)
(* correct, a raised flag always has a handler that will lower it, and a   *)
(* handler broadcasts only if another one lowered the flag under it.       *)
(*                                                                         *)
(* Where users type only when nothing is under way (InTurn) no peer sends  *)
(* a command on, every user's command goes out, and, if loads and calls    *)
(* succeed (Reliable), everybody plays the song that was asked for.        *)
(***************************************************************************)
EXTENDS PlaybackCommands, TLAPS

\* What happens to a player keeps it a player.
PlayerType == [playing : BOOLEAN, cue : Cue,
               unit : {"none", "ready", "running"}]

\* Every operation of the player maps players to players.
LEMMA PlayerOpsType ==
    ASSUME NEW p \in PlayerType, NEW c \in Cue
    PROVE  /\ Loaded(p) \in PlayerType
           /\ Rejected(p) \in PlayerType
           /\ Played(p) \in PlayerType
           /\ Paused(p, c) \in PlayerType
           /\ Resumed(p) \in PlayerType
           /\ Stopped(p) \in PlayerType
           /\ [p EXCEPT !.cue = c] \in PlayerType
  BY DEF PlayerType, Cue, Loaded, Rejected, Played, Paused, Resumed,
         Stopped, Halt, Restart, Start

\* The first part of every thread is its node.
LEMMA ThreadNode ==
    /\ \A t \in Thread : t[1] \in Node
    /\ \A w \in Worker : w[1] \in Node /\ w \in Thread
    /\ \A n \in Node : <<n, Main>> \in Thread /\ <<n, Main>> \notin Worker
  BY ConstantsAssumption DEF Thread, Worker, User

\* What Return leaves of the types.
LEMMA ReturnType ==
    ASSUME TypeOK, NEW t \in Thread, Return(t)
    PROVE  /\ up' \subseteq Node /\ flag' \in [Node -> BOOLEAN]
           /\ pc' \in [Thread -> PC]
           /\ job' \in [Thread -> Message \cup {NoJob}]
           /\ \A u \in Thread : pc'[u] # "idle" => job'[u] \in Message
           /\ todo' \in [Thread -> SUBSET Node] /\ net' \subseteq Message
           /\ typed' \in Seq(Typed)
           /\ Len(typed') <= MaxCommands
           /\ overlapped' \in [Worker -> BOOLEAN]
  BY ThreadNode DEF TypeOK, Return, Finish, Goto, LowerFlag, PC

\* A request derived from a command is well formed.
LEMMA RequestType ==
    ASSUME TypeOK, NEW t \in Thread, pc[t] # "idle", NEW p \in Node,
           NEW a \in UserAction \cup {"load"}
    PROVE  Request(t, a, p) \in Message
<1> DEFINE s == IF a = "load" THEN job[t].song ELSE NoSong
<1>1. job[t] \in Message
  BY DEF TypeOK
<1>2. s \in Song \cup {NoSong} /\ job[t].hop + 1 \in Nat
  BY <1>1 DEF Message
<1>3. Request(t, a, p) = [job[t] EXCEPT !.action = a, !.from = t, !.to = p,
                                        !.hop = job[t].hop + 1, !.song = s]
  BY DEF Request
<1> HIDE DEF s
<1> QED
  BY <1>1, <1>2, <1>3 DEF Message

\* The types survive every step.
LEMMA TypeStep == TypeOK /\ [Next]_vars => TypeOK'
<1> SUFFICES ASSUME TypeOK, [Next]_vars PROVE TypeOK'
  OBVIOUS
<1>p. player \in [Node -> PlayerType]
  BY DEF TypeOK, PlayerType
<1>1. ASSUME NEW n \in Node, NEW a \in UserAction,
             NEW s \in Song \cup {NoSong}, Issue(n, a, s)
      PROVE  TypeOK'
  <2>1. typed' \in Seq(Typed) /\ Len(typed') = Len(typed) + 1
    <3>1. [action |-> a, song |-> s] \in Typed
      BY DEF Typed
    <3> QED
      BY <1>1, <3>1 DEF Issue, TypeOK
  <2>2. Len(typed') \in 1 .. MaxCommands
    BY <1>1, <2>1, ConstantsAssumption DEF Issue, TypeOK
  <2>3. job'[<<n, Main>>] \in Message
    BY <1>1, <2>2, ThreadNode DEF Issue, TypeOK, Message, Cue, UserAction
  <2>4. job' \in [Thread -> Message \cup {NoJob}] /\ pc' \in [Thread -> PC]
    BY <1>1, <2>3, ThreadNode DEF Issue, TypeOK, Goto, PC
  <2>5. \A u \in Thread : pc'[u] # "idle" => job'[u] \in Message
    <3> SUFFICES ASSUME NEW u \in Thread, pc'[u] # "idle"
                 PROVE  job'[u] \in Message
      OBVIOUS
    <3>1. CASE u = <<n, Main>>
      BY <3>1, <2>3
    <3>2. CASE u # <<n, Main>>
      BY <1>1, <3>2 DEF Issue, TypeOK, Goto
    <3> QED
      BY <3>1, <3>2
  <2>6. UNCHANGED <<up, flag, currentSong, player, todo, net, overlapped>>
    BY <1>1 DEF Issue
  <2>7. Len(typed') <= MaxCommands
    BY <2>2, ConstantsAssumption
  <2> QED
    BY <2>1, <2>4, <2>5, <2>6, <2>7 DEF TypeOK
<1>2. ASSUME NEW m \in net, NEW w \in Worker, Receive(m, w)
      PROVE  TypeOK'
  <2>1. m \in Message /\ w \in Thread
    BY ThreadNode DEF TypeOK
  <2> QED
    BY <1>2, <2>1 DEF Receive, TypeOK, Goto, PC, Message
<1>3. ASSUME NEW t \in Thread, ThreadStep(t)
      PROVE  TypeOK'
  <2>n. t[1] \in Node /\ player[t[1]] \in PlayerType
    BY <1>p, ThreadNode
  <2>1. CASE LoadDone(t)
    <3>1. player' \in [Node -> PlayerType]
      BY <2>1, <2>n, <1>p, PlayerOpsType DEF LoadDone, Cue
    <3>2. job[t] \in Message
      BY <2>1 DEF LoadDone, TypeOK
    <3>3. currentSong' \in [Node -> Song \cup {NoSong}]
      BY <2>1, <3>2 DEF LoadDone, TypeOK, Message
    <3>4. CASE t \in Worker
      <4>1. Return(t)
        BY <2>1, <3>4 DEF LoadDone
      <4> QED
        BY <3>1, <3>3, <4>1, ReturnType DEF TypeOK, PlayerType
    <3>5. CASE t \notin Worker
      BY <2>1, <3>1, <3>2, <3>3, <3>5
      DEF LoadDone, TypeOK, PlayerType, Goto, PC
    <3> QED
      BY <3>4, <3>5
  <2>2. CASE LoadFail(t)
    <3>1. player' \in [Node -> PlayerType]
      BY <2>2, <2>n, <1>p, PlayerOpsType DEF LoadFail, Cue
    <3> QED
      BY <2>2, <3>1, ReturnType DEF LoadFail, TypeOK, PlayerType
  <2>3. CASE CheckFlag(t)
    <3> DEFINE p == Repositioned(t)
               here == Position(p, t[1], job[t].cmd)
    <3>1. job[t] \in Message
      BY <2>3 DEF CheckFlag, TypeOK
    <3>2. p \in PlayerType
      BY <3>1, <2>n, PlayerOpsType DEF Repositioned, Message
    <3>3. here \in Cue
      BY <3>1, <3>2, <2>n DEF Position, Message, PlayerType, Cue
    <3>4. [p EXCEPT !.cue = here] \in PlayerType
      BY <3>2, <3>3, PlayerOpsType
    <3>5. player' \in [Node -> PlayerType]
      <4> HIDE DEF p, here
      <4>1. \/ player' = [player EXCEPT ![t[1]] = p]
            \/ player' = [player EXCEPT ![t[1]] = [p EXCEPT !.cue = here]]
        BY <2>3 DEF CheckFlag, p, here
      <4> QED
        BY <4>1, <3>2, <3>4, <1>p
    <3>6. job' \in [Thread -> Message \cup {NoJob}] /\ job'[t] \in Message
      <4> HIDE DEF p, here
      <4>1. \/ job' = [job EXCEPT ![t] = [@ EXCEPT !.cue = here]]
            \/ job' = [job EXCEPT ![t] = [@ EXCEPT
                                            !.song = currentSong[t[1]]]]
            \/ job' = [job EXCEPT ![t] = @]
        BY <2>3 DEF CheckFlag, p, here
      <4>2. /\ [job[t] EXCEPT !.cue = here] \in Message
            /\ [job[t] EXCEPT !.song = currentSong[t[1]]] \in Message
        BY <3>1, <3>3, <2>n DEF Message, TypeOK
      <4> QED
        BY <4>1, <4>2, <3>1 DEF TypeOK
    <3>7. /\ todo' \in [Thread -> SUBSET Node]
          /\ pc' \in [Thread -> PC]
          /\ \A u \in Thread : u # t => pc'[u] = pc[u] /\ job'[u] = job[u]
      BY <2>3, <2>n, ConstantsAssumption DEF CheckFlag, TypeOK, Goto, PC
    <3> QED
      BY <2>3, <3>5, <3>6, <3>7 DEF CheckFlag, TypeOK, PlayerType
  <2>4. CASE \E p \in Node : SendLoad(t, p)
    <3>1. PICK p \in Node : SendLoad(t, p)
      BY <2>4
    <3>2. Request(t, "load", p) \in Message
      BY <3>1, RequestType DEF SendLoad
    <3> QED
      BY <3>1, <3>2 DEF SendLoad, TypeOK, Goto, PC
  <2>5. CASE LoadReturn(t)
    BY <2>5 DEF LoadReturn, TypeOK, Goto, PC
  <2>6. CASE BroadcastCommand(t)
    <3>1. job[t].action \in UserAction \cup {"load"}
      BY <2>6 DEF BroadcastCommand, TypeOK, Message
    <3>2. \A p \in Node : Request(t, job[t].action, p) \in Message
      BY <2>6, <3>1, RequestType DEF BroadcastCommand
    <3>3. net' \subseteq Message
      BY <2>6, <3>2 DEF BroadcastCommand, TypeOK
    <3> QED
      BY <2>6, <3>3 DEF BroadcastCommand, TypeOK, Goto, PC
  <2>7. CASE Apply(t)
    <3>1. job[t] \in Message
      BY <2>7 DEF Apply, TypeOK
    <3>2. <<t[1], job[t].cmd>> \in Cue
      BY <3>1, <2>n DEF Cue, Message
    <3>3. Effect(t) \in PlayerType
      BY <3>2, <2>n, PlayerOpsType DEF Effect
    <3>4. player' \in [Node -> PlayerType]
      BY <2>7, <3>3, <1>p DEF Apply
    <3> QED
      BY <2>7, <3>4, ReturnType DEF Apply, TypeOK, PlayerType
  <2> QED
    BY <1>3, <2>1, <2>2, <2>3, <2>4, <2>5, <2>6, <2>7 DEF ThreadStep
<1>4. ASSUME NEW m \in net, Lose(m)
      PROVE  TypeOK'
  BY <1>4 DEF Lose, TypeOK
<1>5. ASSUME NEW n \in Node, Crash(n)
      PROVE  TypeOK'
  BY <1>5, ThreadNode DEF Crash, TypeOK, PC
<1>6. CASE UNCHANGED vars
  BY <1>6 DEF vars, TypeOK
<1> QED
  BY <1>1, <1>2, <1>3, <1>4, <1>5, <1>6 DEF Next

\* Type correctness: every variable keeps its type, and a busy thread always
\* knows its command.
THEOREM TypeCorrect == Spec => []TypeOK
<1>1. Init => TypeOK
  BY ConstantsAssumption
  DEF Init, TypeOK, NewPlayer, Cue, Start, PC, NoJob
<1> QED
  BY <1>1, TypeStep, PTL DEF Spec

-----------------------------------------------------------------------------
\* A handler that is at work finds the flag up, unless it was lowered under
\* it: what makes both properties of the flag inductive.
FlagInv ==
    /\ FlagHasOwner
    /\ EchoNeedsOverlap
    /\ \A w \in Worker : pc[w] # "idle" /\ ~overlapped[w] => flag[w[1]]

\* A step of a thread either ends a handler, lowering the flag, or leaves the
\* flag alone and a handler at work; only a lowered flag lets it broadcast.
LEMMA ThreadStepShape ==
    ASSUME TypeOK, NEW t \in Thread, ThreadStep(t)
    PROVE  \/ t \in Worker /\ Return(t)
           \/ /\ UNCHANGED <<flag, overlapped>>
              /\ pc[t] # "idle"
              /\ \E l \in PC :
                   /\ pc' = [pc EXCEPT ![t] = l]
                   /\ t \in Worker => l # "idle"
                   /\ l \in {"bcast", "bwait"} =>
                        pc[t] \in {"bcast", "bwait"} \/ ~flag[t[1]]
<1>1. CASE LoadDone(t)
  BY <1>1 DEF LoadDone, Goto, PC
<1>2. ASSUME Return(t), pc[t] # "idle"
      PROVE  \/ t \in Worker /\ Return(t)
             \/ /\ t \notin Worker
                /\ UNCHANGED <<flag, overlapped>>
                /\ pc' = [pc EXCEPT ![t] = "idle"]
  BY <1>2 DEF Return, Finish, Goto
<1>3. CASE LoadFail(t)
  BY <1>2, <1>3 DEF LoadFail, PC
<1>4. CASE Apply(t)
  BY <1>2, <1>4 DEF Apply, PC
<1>5. CASE CheckFlag(t)
  <2>1. /\ UNCHANGED <<flag, overlapped>>
        /\ pc[t] = "check"
        /\ pc' = [pc EXCEPT ![t] = IF ~flag[t[1]] THEN "bcast" ELSE "apply"]
    BY <1>5 DEF CheckFlag, Goto, Forwarded
  <2> QED
    BY <2>1 DEF PC
<1>6. CASE \E p \in Node : SendLoad(t, p)
  <2>1. PICK p \in Node : SendLoad(t, p)
    BY <1>6
  <2>2. pc = [pc EXCEPT ![t] = pc[t]] /\ pc[t] \in PC
    BY DEF TypeOK
  <2> QED
    BY <2>1, <2>2 DEF SendLoad, Goto, PC
<1>7. CASE LoadReturn(t)
  BY <1>7 DEF LoadReturn, Goto, PC
<1>8. CASE BroadcastCommand(t)
  BY <1>8 DEF BroadcastCommand, Goto, PC
<1> QED
  BY <1>1, <1>3, <1>4, <1>5, <1>6, <1>7, <1>8 DEF ThreadStep

\* The flag invariant survives every step.
LEMMA FlagStep == TypeOK /\ FlagInv /\ [Next]_vars => FlagInv'
<1> SUFFICES ASSUME TypeOK, FlagInv, [Next]_vars PROVE FlagInv'
  OBVIOUS
<1> USE DEF FlagInv, FlagHasOwner, EchoNeedsOverlap
<1>1. ASSUME NEW n \in Node, NEW a \in UserAction,
             NEW s \in Song \cup {NoSong}, Issue(n, a, s)
      PROVE  FlagInv'
  <2>1. \A w \in Worker : pc'[w] = pc[w]
    BY <1>1, ThreadNode DEF Issue, Goto, TypeOK
  <2>2. UNCHANGED <<flag, overlapped>>
    BY <1>1 DEF Issue
  <2> QED
    BY <2>1, <2>2
<1>2. ASSUME NEW m \in net, NEW w \in Worker, Receive(m, w)
      PROVE  FlagInv'
  <2>1. /\ w \in Thread /\ m.to = w[1] /\ w[1] \in Node
        /\ pc[w] = "idle"
        /\ flag' = [flag EXCEPT ![w[1]] = TRUE]
        /\ overlapped' = [overlapped EXCEPT ![w] = FALSE]
        /\ \E l \in {"loading", "check"} : pc' = [pc EXCEPT ![w] = l]
    BY <1>2, ThreadNode DEF Receive, Free, Goto
  <2>2. \A v \in Worker : v # w => /\ pc'[v] = pc[v]
                                   /\ overlapped'[v] = overlapped[v]
    BY <2>1, ThreadNode DEF TypeOK
  <2>3. pc'[w] \in {"loading", "check"} /\ flag'[w[1]]
    BY <2>1 DEF TypeOK
  <2>4. \A n \in Node : n # w[1] => flag'[n] = flag[n]
    BY <2>1 DEF TypeOK
  <2>5. FlagHasOwner'
    <3> SUFFICES ASSUME NEW n \in Node, flag'[n]
                 PROVE  \E v \in Worker : v[1] = n /\ pc'[v] # "idle"
      OBVIOUS
    <3>1. CASE n = w[1]
      BY <3>1, <2>3
    <3>2. CASE n # w[1]
      <4>1. PICK v \in Worker : v[1] = n /\ pc[v] # "idle"
        BY <3>2, <2>4
      <4> QED
        BY <4>1, <3>2, <2>2
    <3> QED
      BY <3>1, <3>2
  <2>6. EchoNeedsOverlap'
    BY <2>2, <2>3
  <2>7. \A v \in Worker : pc'[v] # "idle" /\ ~overlapped'[v] => flag'[v[1]]
    BY <2>2, <2>3, <2>4, ThreadNode
  <2> QED
    BY <2>5, <2>6, <2>7
<1>3. ASSUME NEW t \in Thread, ThreadStep(t)
      PROVE  FlagInv'
  <2>n. t[1] \in Node
    BY ThreadNode
  <2>1. CASE t \in Worker /\ Return(t)
    <3>1. /\ pc' = [pc EXCEPT ![t] = "idle"]
          /\ flag' = [flag EXCEPT ![t[1]] = FALSE]
          /\ overlapped' = [w \in Worker |-> \/ overlapped[w]
                                             \/ w[1] = t[1] /\ w # t]
      BY <2>1 DEF Return, Finish, Goto, LowerFlag
    <3>2. \A w \in Worker : w # t => pc'[w] = pc[w]
      BY <3>1, ThreadNode DEF TypeOK
    <3>3. pc'[t] = "idle" /\ ~flag'[t[1]]
      BY <3>1, <2>n DEF TypeOK
    <3>4. \A n \in Node : n # t[1] => flag'[n] = flag[n]
      BY <3>1 DEF TypeOK
    <3>5. FlagHasOwner'
      <4> SUFFICES ASSUME NEW n \in Node, flag'[n]
                   PROVE  \E v \in Worker : v[1] = n /\ pc'[v] # "idle"
        OBVIOUS
      <4>1. PICK v \in Worker : v[1] = n /\ pc[v] # "idle"
        BY <3>3, <3>4
      <4> QED
        BY <4>1, <3>2, <3>3
    <3>6. EchoNeedsOverlap'
      BY <3>1, <3>2, <3>3
    <3>7. \A v \in Worker : pc'[v] # "idle" /\ ~overlapped'[v]
                               => flag'[v[1]]
      <4> SUFFICES ASSUME NEW v \in Worker,
                          pc'[v] # "idle", ~overlapped'[v]
                   PROVE  flag'[v[1]]
        OBVIOUS
      <4>1. v # t /\ ~overlapped[v] /\ v[1] # t[1]
        BY <3>1, <3>3
      <4> QED
        BY <4>1, <3>2, <3>4, ThreadNode
    <3> QED
      BY <3>5, <3>6, <3>7
  <2>2. CASE ~(t \in Worker /\ Return(t))
    <3>1. PICK l \in PC :
             /\ UNCHANGED <<flag, overlapped>>
             /\ pc[t] # "idle"
             /\ pc' = [pc EXCEPT ![t] = l]
             /\ t \in Worker => l # "idle"
             /\ l \in {"bcast", "bwait"} =>
                  pc[t] \in {"bcast", "bwait"} \/ ~flag[t[1]]
      BY <2>2, <1>3, ThreadStepShape
    <3>2. \A w \in Worker : w # t => pc'[w] = pc[w]
      BY <3>1, ThreadNode DEF TypeOK
    <3>3. t \in Worker => pc'[t] = l
      BY <3>1 DEF TypeOK
    <3>4. EchoNeedsOverlap'
      <4> SUFFICES ASSUME NEW w \in Worker, pc'[w] \in {"bcast", "bwait"}
                   PROVE  overlapped[w]
        BY <3>1
      <4>1. CASE w = t
        BY <4>1, <3>1, <3>3 DEF TypeOK
      <4>2. CASE w # t
        BY <4>2, <3>2
      <4> QED
        BY <4>1, <4>2
    <3>5. FlagHasOwner'
      BY <3>1, <3>2, <3>3
    <3>6. \A w \in Worker : pc'[w] # "idle" /\ ~overlapped'[w]
                               => flag'[w[1]]
      BY <3>1, <3>2, <3>3
    <3> QED
      BY <3>4, <3>5, <3>6
  <2> QED
    BY <2>1, <2>2
<1>4. ASSUME NEW m \in net, Lose(m)
      PROVE  FlagInv'
  BY <1>4 DEF Lose
<1>5. ASSUME NEW n \in Node, Crash(n)
      PROVE  FlagInv'
  <2>1. /\ flag' = [flag EXCEPT ![n] = FALSE]
        /\ overlapped' = overlapped
        /\ pc' = [t \in Thread |-> IF t[1] = n THEN "idle" ELSE pc[t]]
    BY <1>5 DEF Crash
  <2>2. \A w \in Worker : pc'[w] = IF w[1] = n THEN "idle" ELSE pc[w]
    BY <2>1, ThreadNode
  <2>3. /\ ~flag'[n]
        /\ \A k \in Node : k # n => flag'[k] = flag[k]
    BY <2>1 DEF TypeOK
  <2>4. EchoNeedsOverlap'
    BY <2>1, <2>2
  <2>5. FlagHasOwner'
    <3> SUFFICES ASSUME NEW k \in Node, flag'[k]
                 PROVE  \E v \in Worker : v[1] = k /\ pc'[v] # "idle"
      OBVIOUS
    <3>1. k # n /\ flag[k]
      BY <2>3
    <3>2. PICK v \in Worker : v[1] = k /\ pc[v] # "idle"
      BY <3>1
    <3> QED
      BY <3>1, <3>2, <2>2
  <2>6. \A w \in Worker : pc'[w] # "idle" /\ ~overlapped'[w] => flag'[w[1]]
    <3> SUFFICES ASSUME NEW w \in Worker, pc'[w] # "idle", ~overlapped'[w]
                 PROVE  flag'[w[1]]
      OBVIOUS
    <3>1. w[1] # n /\ pc[w] # "idle" /\ ~overlapped[w]
      BY <2>1, <2>2
    <3> QED
      BY <3>1, <2>3, ThreadNode
  <2> QED
    BY <2>4, <2>5, <2>6
<1>6. CASE UNCHANGED vars
  BY <1>6 DEF vars
<1> QED
  BY <1>1, <1>2, <1>3, <1>4, <1>5, <1>6 DEF Next

\* A raised command_from_broadcast_ always has a handler that will lower it.
THEOREM FlagOwned == Spec => []FlagHasOwner
<1>1. Init => FlagInv
  BY ThreadNode DEF Init, FlagInv, FlagHasOwner, EchoNeedsOverlap
<1>2. FlagInv => FlagHasOwner
  BY DEF FlagInv
<1> QED
  BY <1>1, <1>2, FlagStep, TypeCorrect, PTL DEF Spec

\* A handler broadcasts only if another handler of its client lowered the
\* flag while it was at work.
THEOREM EchoOnlyOverlapped == Spec => []EchoNeedsOverlap
<1>1. Init => FlagInv
  BY ThreadNode DEF Init, FlagInv, FlagHasOwner, EchoNeedsOverlap
<1>2. FlagInv => EchoNeedsOverlap
  BY DEF FlagInv
<1> QED
  BY <1>1, <1>2, FlagStep, TypeCorrect, PTL DEF Spec

-----------------------------------------------------------------------------
\* Users type only when nothing is under way, and nothing is given up while it
\* goes on.
InTurn == Serial /\ ~Deadlines

\* Where a user's command has not gone out yet.
Before == {"loading", "check", "bcast"}

\* At most one user is at work.
OneUser ==
    \A u, v \in User : pc[u] # "idle" /\ pc[v] # "idle" => u = v

\* Until its command is broadcast, nothing else is under way ...
StillAlone ==
    (\E u \in User : pc[u] \in Before) =>
        net = {} /\ \A w \in Worker : pc[w] = "idle"

\* ... but the load that it waits for.
OnlyLoads ==
    \A u \in User : pc[u] = "bwait" =>
        /\ \A m \in net : m.from = u /\ m.action = "load"
        /\ \A w \in Worker : pc[w] # "idle" =>
              pc[w] = "loading" /\ job[w].from = u

\* A client has at most one request to come or one handler at work.
OneRequest ==
    /\ \A m, k \in net : m.to = k.to => m = k
    /\ \A m \in net, w \in Worker : w[1] = m.to => pc[w] = "idle"
    /\ \A w, x \in Worker :
          w[1] = x[1] /\ pc[w] # "idle" /\ pc[x] # "idle" => w = x

\* Its flag stays up as long as the handler is at work.
Marked ==
    \A w \in Worker : pc[w] # "idle" =>
        pc[w] \in {"loading", "check", "apply"} /\ flag[w[1]]

TurnInv == OneUser /\ StillAlone /\ OnlyLoads /\ OneRequest /\ Marked

-----------------------------------------------------------------------------
\* Users and handlers are different threads.
LEMMA TwoKinds ==
    /\ \A u \in User : u \in Thread /\ u \notin Worker /\ u[1] \in Node
    /\ \A w \in Worker : w \in Thread /\ w \notin User /\ w[1] \in Node
    /\ \A t \in Thread : t \in User \/ t \in Worker
BY ConstantsAssumption DEF Thread, Worker, User

\* A thread goes to another place, the others stay.
LEMMA GotoOne ==
    ASSUME TypeOK, NEW t \in Thread, NEW l, Goto(t, l)
    PROVE  pc'[t] = l /\ \A u \in Thread \ {t} : pc'[u] = pc[u]
BY DEF TypeOK, Goto

LEMMA TurnInit == Init => TurnInv
BY TwoKinds DEF Init, TurnInv, OneUser, StillAlone, OnlyLoads, OneRequest,
                Marked, Before

\* A user types a command when nothing is under way.
LEMMA IssueTurn ==
    ASSUME InTurn, TypeOK, TurnInv,
           NEW n \in Node, NEW a \in UserAction, NEW s \in Song \cup {NoSong},
           Issue(n, a, s)
    PROVE  TurnInv'
<1> DEFINE u == <<n, Main>>
<1>1. u \in User
  BY DEF User
<1>2. /\ net = {} /\ net' = {} /\ flag' = flag
      /\ \A t \in Thread : pc[t] = "idle"
  BY DEF Issue, InTurn, Quiet
<1>3. /\ pc'[u] \in {"loading", "check"}
      /\ \A t \in Thread \ {u} : pc'[t] = "idle"
  BY <1>1, <1>2, TwoKinds, GotoOne DEF Issue
<1> HIDE DEF u
<1> QED
  BY <1>1, <1>2, <1>3, TwoKinds
  DEF TurnInv, OneUser, StillAlone, OnlyLoads, OneRequest, Marked

\* A request reaches a handler.
LEMMA ReceiveTurn ==
    ASSUME InTurn, TypeOK, TurnInv, NEW m \in net, NEW w \in Worker,
           Receive(m, w)
    PROVE  TurnInv'
<1>1. /\ pc[w] = "idle" /\ w[1] = m.to /\ net' = net \ {m}
      /\ flag' = [flag EXCEPT ![m.to] = TRUE]
      /\ job' = [job EXCEPT ![w] = m]
      /\ Goto(w, IF m.action = "load" THEN "loading" ELSE "check")
  BY DEF Receive, Free
<1>2. /\ pc'[w] = IF m.action = "load" THEN "loading" ELSE "check"
      /\ \A t \in Thread \ {w} : pc'[t] = pc[t]
  BY <1>1, TwoKinds, GotoOne
<1>3. job'[w] = m /\ \A t \in Thread \ {w} : job'[t] = job[t]
  BY <1>1, TwoKinds DEF TypeOK
<1>4. flag'[w[1]] /\ \A n \in Node : flag[n] => flag'[n]
  BY <1>1, TwoKinds DEF TypeOK
<1>5. \A u \in User : pc'[u] = pc[u] /\ pc[u] \notin Before
  BY <1>2, TwoKinds DEF TurnInv, StillAlone
<1>6. OneUser' /\ StillAlone'
  BY <1>5 DEF TurnInv, OneUser, StillAlone
<1>7. OnlyLoads'
  <2> SUFFICES ASSUME NEW u \in User, pc[u] = "bwait"
               PROVE  /\ \A k \in net' : k.from = u /\ k.action = "load"
                      /\ \A x \in Worker : pc'[x] # "idle" =>
                            pc'[x] = "loading" /\ job'[x].from = u
    BY <1>5 DEF OnlyLoads
  <2>1. m.from = u /\ m.action = "load"
    BY DEF TurnInv, OnlyLoads
  <2>2. pc'[w] = "loading" /\ job'[w].from = u
    BY <2>1, <1>2, <1>3
  <2>3. \A x \in Worker \ {w} : pc'[x] # "idle" =>
            pc'[x] = "loading" /\ job'[x].from = u
    BY <1>2, <1>3, TwoKinds DEF TurnInv, OnlyLoads
  <2> QED
    BY <2>2, <2>3, <1>1 DEF TurnInv, OnlyLoads
<1>8. OneRequest'
  <2>1. \A x \in Worker \ {w} : pc'[x] = pc[x]
    BY <1>2, TwoKinds
  <2>2. \A x \in Worker \ {w} : x[1] = w[1] => pc'[x] = "idle"
    BY <2>1, <1>1 DEF TurnInv, OneRequest
  <2>3. \A k \in net' : k \in net /\ k.to # w[1]
    BY <1>1 DEF TurnInv, OneRequest
  <2> QED
    BY <2>1, <2>2, <2>3 DEF TurnInv, OneRequest
<1>9. Marked'
  BY <1>2, <1>4, TwoKinds DEF TurnInv, Marked
<1> QED
  BY <1>6, <1>7, <1>8, <1>9 DEF TurnInv

\* A step of a handler: it goes on, still marked, or ends.
LEMMA WorkerTurn ==
    ASSUME TypeOK, TurnInv, NEW w \in Worker, ThreadStep(w)
    PROVE  TurnInv'
<1>1. pc[w] \in {"loading", "check", "apply"} /\ flag[w[1]]
  <2>1. pc[w] # "idle"
    BY DEF ThreadStep, LoadDone, LoadFail, CheckFlag, SendLoad, LoadReturn,
           BroadcastCommand, Apply
  <2> QED
    BY <2>1 DEF TurnInv, Marked
<1>2. LoadDone(w) \/ LoadFail(w) \/ CheckFlag(w) \/ Apply(w)
  BY <1>1 DEF ThreadStep, SendLoad, LoadReturn, BroadcastCommand
<1>3. /\ net' = net
      /\ \/ /\ Goto(w, "idle") /\ flag' = [flag EXCEPT ![w[1]] = FALSE]
            /\ job' = [job EXCEPT ![w] = NoJob]
         \/ /\ pc[w] = "check" /\ Goto(w, "apply") /\ flag' = flag
  <2>1. CASE CheckFlag(w)
    <3>1. net' = net /\ flag' = flag /\ pc[w] = "check"
          /\ Goto(w, IF Forwarded(w) THEN "bcast" ELSE "apply")
      BY <2>1 DEF CheckFlag
    <3>2. ~Forwarded(w)
      BY <1>1 DEF Forwarded
    <3> QED
      BY <3>1, <3>2
  <2>2. CASE ~CheckFlag(w)
    BY <2>2, <1>2 DEF LoadDone, LoadFail, Apply, Return, Finish, LowerFlag
  <2> QED
    BY <2>1, <2>2
<1>4. \A u \in User : pc'[u] = pc[u] /\ pc[u] \notin Before
  <2>1. \A u \in User : pc'[u] = pc[u]
    BY <1>3, GotoOne, TwoKinds
  <2>2. \A u \in User : pc[u] \notin Before
    BY <1>1 DEF TurnInv, StillAlone
  <2> QED
    BY <2>1, <2>2
<1>5. /\ \A x \in Worker \ {w} : pc'[x] = pc[x]
      /\ \A x \in Worker \ {w} : pc[x] # "idle" => x[1] # w[1]
      /\ pc'[w] \in {"idle", "apply"} /\ pc[w] # "idle"
  <2>1. pc'[w] \in {"idle", "apply"} /\ \A x \in Worker \ {w} : pc'[x] = pc[x]
    BY <1>3, GotoOne, TwoKinds
  <2> QED
    BY <2>1, <1>1 DEF TurnInv, OneRequest
<1>6. OneUser' /\ StillAlone'
  BY <1>4 DEF TurnInv, OneUser, StillAlone
<1>7. OnlyLoads'
  <2> SUFFICES ASSUME NEW u \in User, pc[u] = "bwait"
               PROVE  /\ \A k \in net' : k.from = u /\ k.action = "load"
                      /\ \A x \in Worker : pc'[x] # "idle" =>
                            pc'[x] = "loading" /\ job'[x].from = u
    BY <1>4 DEF OnlyLoads
  <2>1. pc[w] = "loading"
    BY <1>1 DEF TurnInv, OnlyLoads
  <2>2. Goto(w, "idle") /\ job' = [job EXCEPT ![w] = NoJob]
    BY <2>1, <1>3
  <2>3. pc'[w] = "idle" /\ \A x \in Worker \ {w} : job'[x] = job[x]
    BY <2>2, GotoOne, TwoKinds DEF TypeOK
  <2> QED
    BY <2>3, <1>3, <1>5 DEF TurnInv, OnlyLoads
<1>8. OneRequest'
  BY <1>3, <1>5 DEF TurnInv, OneRequest
<1>9. Marked'
  <2>1. ASSUME NEW x \in Worker \ {w}, pc'[x] # "idle"
        PROVE  pc'[x] \in {"loading", "check", "apply"} /\ flag'[x[1]]
    <3>1. x[1] # w[1] /\ pc'[x] = pc[x]
      BY <2>1, <1>5
    <3>2. flag'[x[1]] = flag[x[1]]
      BY <3>1, <1>3, TwoKinds DEF TypeOK
    <3> QED
      BY <3>1, <3>2, <2>1 DEF TurnInv, Marked
  <2>2. pc'[w] # "idle" => pc'[w] = "apply" /\ flag'[w[1]]
    BY <1>1, <1>3, <1>5, GotoOne, TwoKinds
  <2> QED
    BY <2>1, <2>2 DEF Marked
<1> QED
  BY <1>6, <1>7, <1>8, <1>9 DEF TurnInv

\* A step of a user whose command is not yet with the others.
LEMMA UserTurn ==
    ASSUME InTurn, TypeOK, TurnInv, NEW u \in User, ThreadStep(u)
    PROVE  TurnInv'
<1>1. /\ pc[u] # "idle" /\ u \in Thread /\ u \notin Worker
      /\ \A v \in User \ {u} : pc[v] = "idle"
  <2>1. pc[u] # "idle"
    BY DEF ThreadStep, LoadDone, LoadFail, CheckFlag, SendLoad, LoadReturn,
           BroadcastCommand, Apply
  <2> QED
    BY <2>1, TwoKinds DEF TurnInv, OneUser
\* It suffices to look at what becomes of the user and of the requests.
<1>2. ASSUME NEW l, Goto(u, l), UNCHANGED flag,
             \A w \in Worker : job'[w] = job[w],
             l \in Before => /\ net' = {}
                             /\ \A w \in Worker : pc[w] = "idle",
             l = "bwait" => /\ \A m \in net' : m.from = u /\ m.action = "load"
                            /\ \A w \in Worker : pc[w] = "idle",
             \A m, k \in net' : m.to = k.to => m = k,
             \A m \in net', w \in Worker : w[1] = m.to => pc[w] = "idle"
      PROVE  TurnInv'
  <2>1. pc'[u] = l /\ \A t \in Thread \ {u} : pc'[t] = pc[t]
    BY <1>1, <1>2, GotoOne
  <2>2. /\ \A v \in User \ {u} : pc'[v] = "idle"
        /\ \A w \in Worker : pc'[w] = pc[w]
    BY <2>1, <1>1, TwoKinds
  <2>3. OneUser' /\ StillAlone'
    BY <2>1, <2>2, <1>2 DEF OneUser, StillAlone, Before
  <2>4. OnlyLoads'
    BY <2>1, <2>2, <1>2 DEF OnlyLoads
  <2>5. OneRequest'
    BY <2>2, <1>2 DEF TurnInv, OneRequest
  <2>6. Marked'
    BY <2>2, <1>2 DEF TurnInv, Marked
  <2> QED
    BY <2>3, <2>4, <2>5, <2>6 DEF TurnInv
<1>3. pc[u] \in Before => net = {} /\ \A w \in Worker : pc[w] = "idle"
  BY DEF TurnInv, StillAlone
<1>4. CASE LoadDone(u) \/ CheckFlag(u)
  <2>1. /\ pc[u] \in Before /\ UNCHANGED <<flag, net>>
        /\ \E l : Goto(u, l) /\ l # "bwait"
    BY <1>1, <1>4 DEF LoadDone, CheckFlag, Before
  <2>2. \A w \in Worker : job'[w] = job[w]
    BY <1>1, <1>4, TwoKinds DEF LoadDone, CheckFlag, TypeOK
  <2> QED
    BY <2>1, <2>2, <1>2, <1>3
<1>5. CASE LoadFail(u) \/ Apply(u)
  <2>1. /\ Goto(u, "idle") /\ UNCHANGED <<flag, net>>
        /\ job' = [job EXCEPT ![u] = NoJob]
    BY <1>1, <1>5 DEF LoadFail, Apply, Return, Finish
  <2>2. \A w \in Worker : job'[w] = job[w]
    BY <2>1, <1>1, TwoKinds DEF TypeOK
  <2> QED
    BY <2>1, <2>2, <1>2 DEF Before, TurnInv, OneRequest
<1>6. ASSUME NEW p \in Node, SendLoad(u, p) PROVE TurnInv'
  <2>1. /\ pc[u] = "bcast" /\ UNCHANGED <<flag, job>>
        /\ \/ net' = net \cup {Request(u, "load", p)} /\ Goto(u, "bwait")
           \/ UNCHANGED <<pc, net>>
    BY <1>6 DEF SendLoad
  <2>2. CASE UNCHANGED <<pc, net>>
    BY <2>1, <2>2
    DEF TurnInv, OneUser, StillAlone, OnlyLoads, OneRequest, Marked
  <2>3. CASE net' = net \cup {Request(u, "load", p)} /\ Goto(u, "bwait")
    <3>1. job[u] \in Message
      BY <1>1 DEF TypeOK
    <3>2. /\ Request(u, "load", p).from = u
          /\ Request(u, "load", p).action = "load"
      BY <3>1 DEF Request, Message
    <3>3. net' = {Request(u, "load", p)}
      BY <2>1, <2>3, <1>3 DEF Before
    <3> QED
      BY <2>1, <2>3, <3>2, <3>3, <1>2, <1>3 DEF Before
  <2> QED
    BY <2>1, <2>2, <2>3
<1>7. CASE LoadReturn(u)
  <2>1. /\ pc[u] = "bwait" /\ Goto(u, "bcast") /\ UNCHANGED <<flag, job, net>>
        /\ ~LoadPending(u)
    BY <1>7 DEF LoadReturn, InTurn
  <2>2. net = {} /\ \A w \in Worker : pc[w] = "idle"
    BY <2>1 DEF LoadPending, TurnInv, OnlyLoads
  <2> QED
    BY <2>1, <2>2, <1>2
<1>8. CASE BroadcastCommand(u)
  <2>1. /\ pc[u] = "bcast" /\ Goto(u, "apply") /\ UNCHANGED <<flag, job>>
        /\ net = {} /\ \A w \in Worker : pc[w] = "idle"
    BY <1>8, <1>3 DEF BroadcastCommand, Before
  <2>2. \A m, k \in net' : m.to = k.to => m = k
    <3>1. job[u] \in Message
      BY <1>1 DEF TypeOK
    <3>2. \A p \in Node : Request(u, job[u].action, p).to = p
      BY <3>1 DEF Request, Message
    <3>3. \A m \in net' : \E p \in Node : m = Request(u, job[u].action, p)
      BY <2>1, <1>8, TwoKinds, ConstantsAssumption DEF BroadcastCommand
    <3> QED
      BY <3>2, <3>3
  <2> QED
    BY <2>1, <2>2, <1>2 DEF Before
<1> QED
  BY <1>4, <1>5, <1>6, <1>7, <1>8 DEF ThreadStep

LEMMA CrashTurn ==
    ASSUME TypeOK, TurnInv, NEW n \in Node, Crash(n) PROVE TurnInv'
<1>1. /\ net' = net
      /\ \A t \in Thread : /\ t[1] = n => pc'[t] = "idle"
                           /\ t[1] # n => pc'[t] = pc[t] /\ job'[t] = job[t]
      /\ \A k \in Node \ {n} : flag'[k] = flag[k]
  BY DEF Crash, TypeOK
<1>2. \A t \in Thread : pc'[t] # "idle" => /\ pc'[t] = pc[t]
                                           /\ job'[t] = job[t]
                                           /\ t[1] # n
  BY <1>1
<1>3. \A t \in Thread : pc[t] = "idle" => pc'[t] = "idle"
  BY <1>1
<1>4. OneUser' /\ StillAlone'
  BY <1>1, <1>2, <1>3, TwoKinds DEF TurnInv, OneUser, StillAlone, Before
<1>5. OnlyLoads'
  BY <1>1, <1>2, TwoKinds DEF TurnInv, OnlyLoads
<1>6. OneRequest'
  BY <1>1, <1>2, <1>3, TwoKinds DEF TurnInv, OneRequest
<1>7. Marked'
  BY <1>1, <1>2, TwoKinds DEF TurnInv, Marked
<1> QED
  BY <1>4, <1>5, <1>6, <1>7 DEF TurnInv

LEMMA TurnStep ==
    ASSUME InTurn, TypeOK, TurnInv, [Next]_vars PROVE TurnInv'
<1>1. ASSUME NEW m \in net, Lose(m) PROVE TurnInv'
  BY <1>1 DEF Lose, TurnInv, OneUser, StillAlone, OnlyLoads, OneRequest,
              Marked
<1>2. CASE UNCHANGED vars
  BY <1>2 DEF vars, TurnInv, OneUser, StillAlone, OnlyLoads, OneRequest,
              Marked
<1>3. ASSUME NEW t \in Thread, ThreadStep(t) PROVE TurnInv'
  BY <1>3, TwoKinds, WorkerTurn, UserTurn
<1> QED
  BY <1>1, <1>2, <1>3, IssueTurn, ReceiveTurn, CrashTurn DEF Next

\* The flag does break the loop: no handler broadcasts what it received.
THEOREM NoEchoInTurn == ASSUME InTurn PROVE Spec => []NoEcho
<1>1. TurnInv => NoEcho
  BY DEF TurnInv, Marked, NoEcho
<1> QED
  BY <1>1, TurnInit, TurnStep, TypeCorrect, PTL DEF Spec

\* And it stops nothing else: when a user's command looks at the flag no
\* handler is at work, so the flag is down and the command is broadcast.
THEOREM BroadcastInTurn == ASSUME InTurn PROVE Spec => UserCommandsAreBroadcast
<1>1. ASSUME TurnInv, TypeOK, FlagHasOwner, [Next]_vars,
             NEW u \in User, pc[u] = "check"
      PROVE  pc'[u] # "apply"
  <2>1. ~flag[u[1]]
    BY <1>1, TwoKinds DEF TurnInv, StillAlone, Before, FlagHasOwner
  <2>2. ASSUME NEW t \in Thread, ThreadStep(t) PROVE pc'[u] # "apply"
    <3>1. CASE t = u
      BY <3>1, <2>1, <2>2, <1>1, TwoKinds, GotoOne
      DEF ThreadStep, LoadDone, LoadFail, CheckFlag, Forwarded, SendLoad,
          LoadReturn, BroadcastCommand, Apply
    <3>2. CASE t # u
      <4>1. \E l : Goto(t, l) \/ pc' = pc
        BY <2>2 DEF ThreadStep, LoadDone, LoadFail, CheckFlag, SendLoad,
                    LoadReturn, BroadcastCommand, Apply, Return, Finish
      <4> QED
        BY <4>1, <3>2, <1>1, TwoKinds, GotoOne
    <3> QED
      BY <3>1, <3>2
  <2>3. CASE ~\E t \in Thread : ThreadStep(t)
    <3>1. \/ pc' = pc
          \/ \E t \in Thread : Goto(t, "loading") \/ Goto(t, "check")
          \/ \E n \in Node : Crash(n)
      BY <2>3, <1>1, TwoKinds
      DEF Next, Issue, Receive, Lose, vars, User
    <3> QED
      BY <3>1, <1>1, TwoKinds, GotoOne DEF Crash
  <2> QED
    BY <2>2, <2>3
<1>2. TurnInv /\ TypeOK /\ FlagHasOwner /\ [Next]_vars =>
        [\A u \in User : pc[u] = "check" => pc'[u] # "apply"]_vars
  BY <1>1
<1> QED
  BY <1>2, TurnInit, TurnStep, TypeCorrect, FlagOwned, PTL
  DEF Spec, UserCommandsAreBroadcast
-----------------------------------------------------------------------------
\* When loads succeed and calls between clients that live arrive, every
\* client plays the song that was asked for.
Reliable == InTurn /\ ~Failures /\ ~Lossy /\ MaxHops > 0

Asked == typed[Len(typed)].song
HasSong(n) == currentSong[n] = Asked /\ player[n].unit # "none"

\* The load of p is under way.
Coming(p) ==
    \/ \E m \in net : m.to = p /\ m.action = "load"
    \/ \E w \in Worker : w[1] = p /\ pc[w] = "loading"

Living == \A t \in Thread : pc[t] # "idle" => t[1] \in up

LastCommand ==
    /\ \A t \in Thread : pc[t] # "idle" => job[t].cmd = Len(typed)
    /\ \A m \in net : m.cmd = Len(typed)

TheSong ==
    /\ \A t \in Thread : pc[t] = "loading" => job[t].song = Asked
    /\ \A m \in net : m.action = "load" => m.song = Asked
    /\ \A u \in User : pc[u] # "idle" =>
          /\ job[u].hop = 0 /\ job[u].action # "load"
          /\ pc[u] \in {"bcast", "bwait"} /\ job[u].action # "play"
                => todo[u] = {}
          /\ job[u].action = "play" => job[u].song = Asked /\ Asked # NoSong

\* Who is past the load of a play has the song, and a user that still
\* broadcasts one has called, or is about to call, everybody else.
Ready ==
    /\ \A t \in Thread :
          job[t].action = "play" /\ pc[t] \notin {"idle", "loading"}
              => HasSong(t[1])
    /\ \A m \in net : m.action = "play" /\ m.to \in up => HasSong(m.to)
    /\ \A u \in User :
          job[u].action = "play" /\ pc[u] \in {"bcast", "bwait"} =>
              \A p \in Peers[u[1]] \cap up :
                  p \in todo[u] \/ HasSong(p) \/ Coming(p)

SongInv == Living /\ LastCommand /\ TheSong /\ Ready

\* Nothing takes a song away once its command is under way.
LEMMA SongStays ==
    ASSUME Reliable, TypeOK, TheSong, NEW t \in Thread, ThreadStep(t),
           NEW n \in Node, HasSong(n)
    PROVE  HasSong(n)'
<1>1. /\ typed' = typed /\ t[1] \in Node
      /\ player \in [Node -> PlayerType]
  BY TwoKinds DEF ThreadStep, LoadDone, LoadFail, CheckFlag, SendLoad,
     LoadReturn, BroadcastCommand, Apply, Return, Finish, TypeOK, PlayerType
<1>2. CASE LoadDone(t)
  <2>1. /\ player' = [player EXCEPT ![t[1]] = Loaded(player[t[1]])]
        /\ currentSong' = [currentSong EXCEPT ![t[1]] = Asked]
    BY <1>2 DEF LoadDone, TheSong
  <2>2. Loaded(player[t[1]]).unit = "ready"
    BY DEF Loaded
  <2> QED
    BY <2>1, <2>2, <1>1 DEF HasSong, Asked, TypeOK
<1>3. ASSUME NEW q, player' = [player EXCEPT ![t[1]] = q],
             currentSong' = currentSong,
             player[t[1]].unit # "none" => q.unit # "none"
      PROVE  HasSong(n)'
  BY <1>1, <1>3 DEF HasSong, Asked
<1>4. CASE Apply(t)
  <2>1. player' = [player EXCEPT ![t[1]] = Effect(t)]
        /\ currentSong' = currentSong
    BY <1>4 DEF Apply
  <2>2. player[t[1]] \in PlayerType
    BY <1>1
  <2>3. player[t[1]].unit # "none" => Effect(t).unit # "none"
    <3> DEFINE p == player[t[1]]
    <3>1. p.unit # "none" =>
            /\ Played(p).unit # "none" /\ Resumed(p).unit # "none"
            /\ Stopped(p).unit # "none"
            /\ \A c : Paused(p, c).unit # "none"
      BY <2>2 DEF Played, Resumed, Stopped, Paused, Halt, Restart, PlayerType
    <3> QED
      BY <3>1 DEF Effect
  <2> QED
    BY <2>1, <2>3, <1>3
<1>5. CASE CheckFlag(t)
  <2> DEFINE q == player'[t[1]]
  <2>1. currentSong' = currentSong /\ q.unit = player[t[1]].unit
        /\ player' = [player EXCEPT ![t[1]] = q]
    BY <1>1, <1>5 DEF CheckFlag, Repositioned, PlayerType
  <2> QED
    BY <2>1, <1>1 DEF HasSong, Asked
<1>6. CASE UNCHANGED <<player, currentSong>>
  BY <1>1, <1>6 DEF HasSong, Asked
<1> QED
  BY <1>2, <1>4, <1>5, <1>6
  DEF ThreadStep, LoadFail, SendLoad, LoadReturn, BroadcastCommand, Reliable

LEMMA IssueSong ==
    ASSUME Reliable, TypeOK,
           NEW n \in Node, NEW a \in UserAction, NEW s \in Song \cup {NoSong},
           Issue(n, a, s)
    PROVE  SongInv'
<1> DEFINE u == <<n, Main>>
<1>1. u \in User /\ u \in Thread /\ u[1] = n /\ n \in up /\ up' = up
  BY TwoKinds DEF User, Issue
<1>2. net = {} /\ net' = {} /\ \A t \in Thread : pc[t] = "idle"
  BY DEF Issue, InTurn, Reliable, Quiet
<1>3. /\ pc'[u] = IF a = "play" THEN "loading" ELSE "check"
      /\ \A t \in Thread \ {u} : pc'[t] = "idle"
  BY <1>1, <1>2, GotoOne DEF Issue
<1>4. /\ job'[u].action = a /\ job'[u].song = s /\ job'[u].hop = 0
      /\ job'[u].cmd = Len(typed')
  BY <1>1 DEF Issue, TypeOK
<1>5. Asked' = s /\ (a = "play" => s # NoSong)
  BY DEF Issue, Asked, TypeOK
<1> HIDE DEF u
<1>6. Living' /\ LastCommand'
  BY <1>1, <1>2, <1>3, <1>4 DEF Living, LastCommand
<1>7. TheSong'
  BY <1>1, <1>2, <1>3, <1>4, <1>5, TwoKinds DEF TheSong, UserAction
<1>8. Ready'
  BY <1>1, <1>2, <1>3, <1>4, TwoKinds DEF Ready
<1> QED
  BY <1>6, <1>7, <1>8 DEF SongInv

LEMMA ReceiveSong ==
    ASSUME Reliable, TypeOK, SongInv, NEW m \in net, NEW w \in Worker,
           Receive(m, w)
    PROVE  SongInv'
<1>1. /\ w[1] = m.to /\ m.to \in up /\ net' = net \ {m}
      /\ job' = [job EXCEPT ![w] = m]
      /\ Goto(w, IF m.action = "load" THEN "loading" ELSE "check")
      /\ UNCHANGED <<up, currentSong, player, todo, typed>>
  BY DEF Receive
<1>2. /\ pc'[w] = IF m.action = "load" THEN "loading" ELSE "check"
      /\ \A t \in Thread \ {w} : pc'[t] = pc[t]
  BY <1>1, TwoKinds, GotoOne
<1>3. job'[w] = m /\ \A t \in Thread \ {w} : job'[t] = job[t]
  BY <1>1, TwoKinds DEF TypeOK
<1>4. Asked' = Asked /\ \A n \in Node : HasSong(n)' = HasSong(n)
  BY <1>1 DEF Asked, HasSong
<1>5. Living' /\ LastCommand'
  BY <1>1, <1>2, <1>3 DEF SongInv, Living, LastCommand
<1>6. TheSong'
  BY <1>1, <1>2, <1>3, <1>4, TwoKinds DEF SongInv, TheSong
<1>7. Ready'
  <2>1. \A t \in Thread :
          job'[t].action = "play" /\ pc'[t] \notin {"idle", "loading"}
              => HasSong(t[1])'
    BY <1>1, <1>2, <1>3, <1>4, TwoKinds DEF SongInv, Ready
  <2>2. \A k \in net' : k.action = "play" /\ k.to \in up' => HasSong(k.to)'
    BY <1>1, <1>4 DEF SongInv, Ready, TypeOK
  <2>3. \A p \in Node : Coming(p) => Coming(p)'
    <3> SUFFICES ASSUME NEW p \in Node, Coming(p) PROVE Coming(p)'
      OBVIOUS
    <3>1. CASE m.to = p /\ m.action = "load"
      BY <3>1, <1>1, <1>2 DEF Coming
    <3>2. CASE \E k \in net \ {m} : k.to = p /\ k.action = "load"
      BY <3>2, <1>1 DEF Coming
    <3>3. CASE \E x \in Worker : x[1] = p /\ pc[x] = "loading"
      <4>1. pc[w] = "idle"
        BY DEF Receive, Free
      <4> QED
        BY <3>3, <4>1, <1>2, TwoKinds DEF Coming
    <3> QED
      BY <3>1, <3>2, <3>3 DEF Coming
  <2>4. \A u \in User : pc'[u] = pc[u] /\ job'[u] = job[u]
    BY <1>2, <1>3, TwoKinds
  <2>5. \A u \in User :
          job'[u].action = "play" /\ pc'[u] \in {"bcast", "bwait"} =>
              \A p \in Peers[u[1]] \cap up' :
                  p \in todo'[u] \/ HasSong(p)' \/ Coming(p)'
    <3> SUFFICES ASSUME NEW u \in User,
                        job[u].action = "play", pc[u] \in {"bcast", "bwait"},
                        NEW p \in Peers[u[1]] \cap up
                 PROVE  p \in todo'[u] \/ HasSong(p)' \/ Coming(p)'
      BY <2>4, <1>1
    <3>1. p \in Node
      BY TwoKinds, ConstantsAssumption
    <3>2. p \in todo[u] \/ HasSong(p) \/ Coming(p)
      BY DEF SongInv, Ready
    <3> QED
      BY <3>1, <3>2, <2>3, <1>1, <1>4
  <2> QED
    BY <2>1, <2>2, <2>5 DEF Ready
<1> QED
  BY <1>5, <1>6, <1>7 DEF SongInv

LEMMA WorkerSong ==
    ASSUME Reliable, TypeOK, TurnInv, SongInv, NEW w \in Worker, ThreadStep(w)
    PROVE  SongInv'
<1>1. pc[w] \in {"loading", "check", "apply"} /\ flag[w[1]]
  <2>1. pc[w] # "idle"
    BY DEF ThreadStep, LoadDone, LoadFail, CheckFlag, SendLoad, LoadReturn,
           BroadcastCommand, Apply
  <2> QED
    BY <2>1 DEF TurnInv, Marked
<1>2. LoadDone(w) \/ CheckFlag(w) \/ Apply(w)
  BY <1>1 DEF ThreadStep, SendLoad, LoadReturn, BroadcastCommand, LoadFail,
              Reliable
<1>3. /\ UNCHANGED <<up, net, typed>>
      /\ \A u \in User : todo'[u] = todo[u]
      /\ \/ Goto(w, "idle") /\ job' = [job EXCEPT ![w] = NoJob]
         \/ pc[w] = "check" /\ Goto(w, "apply") /\ job' = job
  <2>1. CASE CheckFlag(w)
    <3>1. ~Forwarded(w)
      BY <1>1 DEF Forwarded
    <3> QED
      BY <2>1, <3>1, TwoKinds DEF CheckFlag, TypeOK
  <2>2. CASE LoadDone(w) \/ Apply(w)
    BY <2>2 DEF LoadDone, Apply, Return, Finish
  <2> QED
    BY <1>2, <2>1, <2>2
<1>4. /\ \A t \in Thread \ {w} : pc'[t] = pc[t] /\ job'[t] = job[t]
      /\ pc'[w] # "idle" => pc'[w] = "apply" /\ pc[w] = "check"
                            /\ job'[w] = job[w]
  BY <1>3, GotoOne, TwoKinds DEF TypeOK
<1>5. Asked' = Asked
  BY <1>3 DEF Asked
<1>6. \A n \in Node : HasSong(n) => HasSong(n)'
  BY SongStays, TwoKinds DEF SongInv
<1>7. Living' /\ LastCommand'
  BY <1>3, <1>4 DEF SongInv, Living, LastCommand
<1>8. TheSong'
  BY <1>3, <1>4, <1>5, TwoKinds DEF SongInv, TheSong
<1>9. Ready'
  <2>1. \A t \in Thread :
          job'[t].action = "play" /\ pc'[t] \notin {"idle", "loading"}
              => HasSong(t[1])'
    BY <1>4, <1>6, TwoKinds DEF SongInv, Ready
  <2>2. \A k \in net' : k.action = "play" /\ k.to \in up' => HasSong(k.to)'
    BY <1>3, <1>6 DEF SongInv, Ready, TypeOK
  <2>3. ASSUME NEW p \in Node, Coming(p) PROVE Coming(p)' \/ HasSong(p)'
    <3>1. CASE \E x \in Worker \ {w} : x[1] = p /\ pc[x] = "loading"
      BY <3>1, <1>4, TwoKinds DEF Coming
    <3>2. CASE w[1] = p /\ pc[w] = "loading"
      <4>1. LoadDone(w) /\ job[w].song = Asked
        BY <3>2, <1>2, TwoKinds DEF CheckFlag, Apply, SongInv, TheSong
      <4>2. /\ player' = [player EXCEPT ![p] = Loaded(player[p])]
            /\ currentSong' = [currentSong EXCEPT ![p] = Asked]
        BY <4>1, <3>2 DEF LoadDone
      <4> QED
        BY <4>2, <1>5 DEF HasSong, Loaded, TypeOK
    <3>3. CASE \E m \in net : m.to = p /\ m.action = "load"
      BY <3>3, <1>3 DEF Coming
    <3> QED
      BY <2>3, <3>1, <3>2, <3>3 DEF Coming
  <2>4. \A u \in User : pc'[u] = pc[u] /\ job'[u] = job[u]
    BY <1>4, TwoKinds
  <2>5. \A u \in User :
          job'[u].action = "play" /\ pc'[u] \in {"bcast", "bwait"} =>
              \A p \in Peers[u[1]] \cap up' :
                  p \in todo'[u] \/ HasSong(p)' \/ Coming(p)'
    <3> SUFFICES ASSUME NEW u \in User,
                        job[u].action = "play", pc[u] \in {"bcast", "bwait"},
                        NEW p \in Peers[u[1]] \cap up
                 PROVE  p \in todo'[u] \/ HasSong(p)' \/ Coming(p)'
      BY <2>4, <1>3
    <3>1. p \in Node
      BY TwoKinds, ConstantsAssumption
    <3>2. p \in todo[u] \/ HasSong(p) \/ Coming(p)
      BY DEF SongInv, Ready
    <3> QED
      BY <3>1, <3>2, <2>3, <1>3, <1>6
  <2> QED
    BY <2>1, <2>2, <2>5 DEF Ready
<1> QED
  BY <1>7, <1>8, <1>9 DEF SongInv

LEMMA UserSong ==
    ASSUME Reliable, TypeOK, TurnInv, SongInv, NEW u \in User, ThreadStep(u)
    PROVE  SongInv'
<1>1. /\ pc[u] # "idle" /\ u \in Thread /\ u \notin Worker /\ u[1] \in Node
      /\ \A v \in User \ {u} : pc[v] = "idle"
      /\ job[u] \in Message /\ job[u].cmd = Len(typed) /\ job[u].hop = 0
      /\ job[u].action # "load"
  <2>1. pc[u] # "idle"
    BY DEF ThreadStep, LoadDone, LoadFail, CheckFlag, SendLoad, LoadReturn,
           BroadcastCommand, Apply
  <2> QED
    BY <2>1, TwoKinds
    DEF TurnInv, OneUser, TypeOK, SongInv, LastCommand, TheSong
<1>2. \A n \in Node : HasSong(n) => HasSong(n)'
  BY <1>1, SongStays DEF SongInv
<1>3. up' = up /\ typed' = typed /\ Asked' = Asked
  BY DEF ThreadStep, LoadDone, LoadFail, CheckFlag, SendLoad, LoadReturn,
         BroadcastCommand, Apply, Return, Finish, Asked
\* It suffices to look at the user and at the requests.
<1>4. ASSUME NEW l, Goto(u, l), l # "loading",
             \A t \in Thread \ {u} : job'[t] = job[t],
             l # "idle" =>
                /\ job'[u].cmd = job[u].cmd /\ job'[u].hop = 0
                /\ job'[u].action = job[u].action
                /\ job[u].action = "play" =>
                      job'[u].song = Asked /\ HasSong(u[1])',
             l \in {"bcast", "bwait"} =>
                /\ job[u].action # "play" => todo'[u] = {}
                /\ job[u].action = "play" =>
                     \A p \in Peers[u[1]] \cap up :
                         p \in todo'[u] \/ HasSong(p)' \/ Coming(p)',
             \A m \in net' :
                \/ m \in net
                \/ /\ m.cmd = Len(typed)
                   /\ m.action = "load" => m.song = Asked
                   /\ m.action = "play" /\ m.to \in up => HasSong(m.to)'
      PROVE  SongInv'
  <2>1. pc'[u] = l /\ \A t \in Thread \ {u} : pc'[t] = pc[t]
    BY <1>1, <1>4, GotoOne
  <2>2. \A v \in User \ {u} : pc'[v] = "idle"
    BY <2>1, <1>1, TwoKinds
  <2>3. Living'
    BY <2>1, <1>1, <1>3 DEF SongInv, Living
  <2>4. LastCommand'
    <3>1. \A t \in Thread : pc'[t] # "idle" => job'[t].cmd = Len(typed)
      BY <2>1, <1>1, <1>4 DEF SongInv, LastCommand
    <3> QED
      BY <3>1, <1>3, <1>4 DEF SongInv, LastCommand
  <2>5. TheSong'
    <3>1. \A t \in Thread : pc'[t] = "loading" => job'[t].song = Asked'
      BY <2>1, <1>3, <1>4 DEF SongInv, TheSong
    <3>2. \A m \in net' : m.action = "load" => m.song = Asked'
      BY <1>3, <1>4 DEF SongInv, TheSong
    <3>3. job[u].action = "play" => Asked # NoSong
      BY <1>1 DEF SongInv, TheSong
    <3>4. \A v \in User : pc'[v] # "idle" =>
            /\ job'[v].hop = 0 /\ job'[v].action # "load"
            /\ pc'[v] \in {"bcast", "bwait"} /\ job'[v].action # "play"
                  => todo'[v] = {}
            /\ job'[v].action = "play" =>
                  job'[v].song = Asked' /\ Asked' # NoSong
      BY <2>1, <2>2, <1>1, <1>3, <1>4, <3>3
    <3> QED
      BY <3>1, <3>2, <3>4 DEF TheSong
  <2>6. Ready'
    <3>1. \A t \in Thread :
            job'[t].action = "play" /\ pc'[t] \notin {"idle", "loading"}
                => HasSong(t[1])'
      BY <2>1, <1>1, <1>2, <1>4, TwoKinds DEF SongInv, Ready
    <3>2. \A m \in net' : m.action = "play" /\ m.to \in up' => HasSong(m.to)'
      BY <1>2, <1>3, <1>4 DEF SongInv, Ready, TypeOK
    <3>3. \A v \in User :
            job'[v].action = "play" /\ pc'[v] \in {"bcast", "bwait"} =>
                \A p \in Peers[v[1]] \cap up' :
                    p \in todo'[v] \/ HasSong(p)' \/ Coming(p)'
      BY <2>1, <2>2, <1>3, <1>4
    <3> QED
      BY <3>1, <3>2, <3>3 DEF Ready
  <2> QED
    BY <2>3, <2>4, <2>5, <2>6 DEF SongInv
<1>5. pc[u] \in Before => net = {} /\ \A w \in Worker : pc[w] = "idle"
  BY DEF TurnInv, StillAlone
<1>6. job[u].action = "play" => job[u].song = Asked /\ Asked # NoSong
  BY <1>1 DEF SongInv, TheSong
<1>7. job[u].action = "play" /\ pc[u] # "loading" => HasSong(u[1])
  BY <1>1 DEF SongInv, Ready
<1>8. CASE LoadDone(u)
  <2>1. /\ Goto(u, "check") /\ UNCHANGED <<job, net>>
        /\ player' = [player EXCEPT ![u[1]] = Loaded(player[u[1]])]
        /\ currentSong' = [currentSong EXCEPT ![u[1]] = job[u].song]
    BY <1>1, <1>8 DEF LoadDone
  <2>2. job[u].action = "play" => HasSong(u[1])'
    BY <2>1, <1>1, <1>3, <1>6 DEF HasSong, Loaded, TypeOK
  <2> QED
    BY <2>1, <2>2, <1>1, <1>4, <1>6
<1>9. CASE CheckFlag(u)
  <2>1. /\ pc[u] = "check" /\ net' = net
        /\ Goto(u, IF Forwarded(u) THEN "bcast" ELSE "apply")
    BY <1>9 DEF CheckFlag
  <2>2. /\ \A t \in Thread \ {u} : job'[t] = job[t]
        /\ job'[u].cmd = job[u].cmd /\ job'[u].hop = job[u].hop
        /\ job'[u].action = job[u].action
    BY <1>1, <1>9 DEF CheckFlag, TypeOK, Message
  <2>3. CASE job[u].action = "play"
    <3>1. HasSong(u[1]) /\ currentSong[u[1]] = Asked /\ Asked # NoSong
      BY <2>1, <2>3, <1>6, <1>7 DEF HasSong
    <3>2. job'[u].song = Asked
      BY <3>1, <2>3, <1>1, <1>6, <1>9 DEF CheckFlag, TypeOK, Message
    <3>3. Forwarded(u) => todo'[u] = Peers[u[1]]
      BY <3>1, <2>3, <1>1, <1>9 DEF CheckFlag, TypeOK
    <3> QED
      BY <3>1, <3>2, <3>3, <2>1, <2>2, <2>3, <1>1, <1>2, <1>4
  <2>4. CASE job[u].action # "play"
    <3>1. todo'[u] = {}
      BY <2>4, <1>1, <1>9 DEF CheckFlag, TypeOK
    <3> QED
      BY <3>1, <2>1, <2>2, <2>4, <1>1, <1>4
  <2> QED
    BY <2>3, <2>4
<1>10. ASSUME NEW p \in Node, SendLoad(u, p) PROVE SongInv'
  <2> DEFINE r == Request(u, "load", p)
  <2>1. /\ pc[u] = "bcast" /\ job' = job /\ p \in todo[u]
        /\ todo' = [todo EXCEPT ![u] = todo[u] \ {p}]
        /\ \/ net' = net \cup {r} /\ Goto(u, "bwait")
           \/ UNCHANGED <<pc, net>> /\ p \notin up
    BY <1>1, <1>10, ConstantsAssumption DEF SendLoad, Reliable
  <2>2. job[u].action = "play"
    BY <2>1, <1>1 DEF SongInv, TheSong
  <2>3. /\ r.cmd = Len(typed) /\ r.action = "load" /\ r.song = Asked
        /\ r.to = p
    BY <2>2, <1>1, <1>6 DEF Request, Message
  <2>4. todo'[u] = todo[u] \ {p}
    BY <2>1, <1>1 DEF TypeOK
  <2>5. \A q \in Peers[u[1]] \cap up : q \in todo[u] \/ HasSong(q)
    <3>1. \A q \in Peers[u[1]] \cap up :
             q \in todo[u] \/ HasSong(q) \/ Coming(q)
      BY <2>1, <2>2 DEF SongInv, Ready
    <3> QED
      BY <3>1, <2>1, <1>5 DEF Coming, Before
  <2>6. ASSUME NEW q \in Peers[u[1]] \cap up,
               p \in up => r \in net'
        PROVE  q \in todo'[u] \/ HasSong(q)' \/ Coming(q)'
    <3>1. q \in Node
      BY <1>1, ConstantsAssumption
    <3> QED
      BY <3>1, <2>3, <2>4, <2>5, <2>6, <1>2 DEF Coming
  <2>7. CASE net' = net \cup {r} /\ Goto(u, "bwait")
    BY <2>1, <2>2, <2>3, <2>6, <2>7, <1>1, <1>2, <1>4, <1>6, <1>7
  <2>8. CASE UNCHANGED <<pc, net>> /\ p \notin up
    <3>1. Goto(u, "bcast")
      BY <2>1, <2>8 DEF Goto, TypeOK
    <3> QED
      BY <3>1, <2>1, <2>2, <2>6, <2>8, <1>1, <1>2, <1>4, <1>6, <1>7
  <2> QED
    BY <2>1, <2>7, <2>8
<1>11. CASE LoadReturn(u)
  <2>1. /\ pc[u] = "bwait" /\ Goto(u, "bcast")
        /\ UNCHANGED <<job, net, todo, player, currentSong>>
    BY <1>11 DEF LoadReturn
  <2>2. \A w \in Worker : pc'[w] = pc[w]
    BY <2>1, <1>1, TwoKinds, GotoOne
  <2>3. \A p \in Node : /\ (Coming(p) => Coming(p)')
                        /\ (HasSong(p) => HasSong(p)')
    BY <2>1, <2>2, <1>2 DEF Coming
  <2>4. job[u].action = "play" =>
          \A p \in Peers[u[1]] \cap up :
              p \in todo'[u] \/ HasSong(p)' \/ Coming(p)'
    <3>1. \A p \in Peers[u[1]] \cap up : p \in Node
      BY <1>1, ConstantsAssumption
    <3> QED
      BY <3>1, <2>1, <2>3 DEF SongInv, Ready
  <2>5. job[u].action # "play" => todo'[u] = {}
    BY <2>1, <1>1 DEF SongInv, TheSong
  <2> QED
    BY <2>1, <2>4, <2>5, <1>1, <1>2, <1>4, <1>6, <1>7
<1>12. CASE BroadcastCommand(u)
  <2>1. /\ pc[u] = "bcast" /\ Goto(u, "apply") /\ todo[u] = {} /\ job' = job
        /\ \A m \in net' :
              \/ m \in net
              \/ \E p \in Peers[u[1]] \cap up :
                    m = Request(u, job[u].action, p)
    BY <1>12 DEF BroadcastCommand
  <2>2. ASSUME NEW p \in Peers[u[1]] \cap up
        PROVE  /\ Request(u, job[u].action, p).cmd = Len(typed)
               /\ Request(u, job[u].action, p).action # "load"
               /\ Request(u, job[u].action, p).action = "play" =>
                     HasSong(p)' /\ Request(u, job[u].action, p).to = p
    <3>1. /\ Request(u, job[u].action, p).cmd = Len(typed)
          /\ Request(u, job[u].action, p).action = job[u].action
          /\ Request(u, job[u].action, p).to = p
      BY <1>1 DEF Request, Message
    <3>2. job[u].action = "play" => HasSong(p) \/ Coming(p)
      BY <2>1 DEF SongInv, Ready
    <3>3. ~Coming(p)
      BY <2>1, <1>5 DEF Coming, Before
    <3>4. p \in Node
      BY <1>1, ConstantsAssumption
    <3> QED
      BY <3>1, <3>2, <3>3, <3>4, <1>1, <1>2
  <2>3. \A m \in net' :
           \/ m \in net
           \/ /\ m.cmd = Len(typed)
              /\ m.action = "load" => m.song = Asked
              /\ m.action = "play" /\ m.to \in up => HasSong(m.to)'
    <3> SUFFICES ASSUME NEW m \in net', m \notin net
                 PROVE  /\ m.cmd = Len(typed)
                        /\ m.action = "load" => m.song = Asked
                        /\ m.action = "play" /\ m.to \in up
                              => HasSong(m.to)'
      OBVIOUS
    <3>1. PICK p \in Peers[u[1]] \cap up : m = Request(u, job[u].action, p)
      BY <2>1
    <3>2. m.cmd = Len(typed) /\ m.action # "load"
      BY <3>1, <2>2
    <3>3. m.action = "play" => HasSong(p)' /\ m.to = p
      BY <3>1, <2>2
    <3> QED
      BY <3>2, <3>3
  <2> QED
    BY <2>1, <2>3, <1>1, <1>2, <1>4, <1>6, <1>7
<1>13. CASE Apply(u)
  <2>1. Goto(u, "idle") /\ net' = net /\ job' = [job EXCEPT ![u] = NoJob]
    BY <1>13 DEF Apply, Return, Finish
  <2> QED
    BY <2>1, <1>1, <1>4 DEF TypeOK
<1> QED
  BY <1>8, <1>9, <1>10, <1>11, <1>12, <1>13
  DEF ThreadStep, LoadFail, Reliable

LEMMA LoseSong ==
    ASSUME Reliable, TypeOK, TurnInv, SongInv, NEW m \in net, Lose(m)
    PROVE  SongInv'
<1>1. /\ net' = net \ {m} /\ (m.to \notin up \/ m.from[1] \notin up)
      /\ UNCHANGED <<up, currentSong, player, pc, job, todo, typed>>
  BY DEF Lose, Reliable
<1>2. Asked' = Asked /\ \A n \in Node : HasSong(n)' = HasSong(n)
  BY <1>1 DEF HasSong, Asked
\* The load of a client that lives is not lost while its sender waits.
<1>3. ASSUME NEW u \in User, pc[u] \in {"bcast", "bwait"},
             NEW p \in up, Coming(p)
      PROVE  Coming(p)'
  <2>1. pc[u] = "bwait" /\ m.from = u
    BY <1>3 DEF TurnInv, StillAlone, OnlyLoads, Before
  <2>2. u[1] \in up
    BY <2>1, TwoKinds DEF SongInv, Living
  <2>3. m.to # p
    BY <1>1, <1>3, <2>1, <2>2
  <2>4. CASE \E k \in net : k.to = p /\ k.action = "load"
    <3>1. PICK k \in net : k.to = p /\ k.action = "load"
      BY <2>4
    <3>2. k \in net'
      BY <3>1, <2>3, <1>1
    <3> QED
      BY <3>1, <3>2 DEF Coming
  <2>5. CASE \E w \in Worker : w[1] = p /\ pc[w] = "loading"
    BY <2>5, <1>1 DEF Coming
  <2> QED
    BY <1>3, <2>4, <2>5 DEF Coming
<1>4. net' \subseteq net
  BY <1>1
<1>5. Living' /\ LastCommand'
  BY <1>1, <1>4 DEF SongInv, Living, LastCommand
<1>6. TheSong'
  BY <1>1, <1>2, <1>4 DEF SongInv, TheSong
<1>7. Ready'
  <2>1. \A t \in Thread :
          job'[t].action = "play" /\ pc'[t] \notin {"idle", "loading"}
              => HasSong(t[1])'
    BY <1>1, <1>2, TwoKinds DEF SongInv, Ready
  <2>2. \A k \in net' : k.action = "play" /\ k.to \in up' => HasSong(k.to)'
    BY <1>1, <1>2, <1>4 DEF SongInv, Ready, TypeOK
  <2>3. \A u \in User :
          job'[u].action = "play" /\ pc'[u] \in {"bcast", "bwait"} =>
              \A p \in Peers[u[1]] \cap up' :
                  p \in todo'[u] \/ HasSong(p)' \/ Coming(p)'
    <3> SUFFICES ASSUME NEW u \in User,
                        job[u].action = "play", pc[u] \in {"bcast", "bwait"},
                        NEW p \in Peers[u[1]] \cap up
                 PROVE  p \in todo'[u] \/ HasSong(p)' \/ Coming(p)'
      BY <1>1
    <3>1. p \in Node
      BY TwoKinds, ConstantsAssumption
    <3>2. p \in todo[u] \/ HasSong(p) \/ Coming(p)
      BY DEF SongInv, Ready
    <3> QED
      BY <3>1, <3>2, <1>1, <1>2, <1>3
  <2> QED
    BY <2>1, <2>2, <2>3 DEF Ready
<1> QED
  BY <1>5, <1>6, <1>7 DEF SongInv

LEMMA CrashSong ==
    ASSUME TypeOK, SongInv, NEW n \in Node, Crash(n) PROVE SongInv'
<1>1. /\ up' = up \ {n} /\ UNCHANGED <<net, currentSong, player, typed>>
      /\ \A t \in Thread : /\ t[1] = n => pc'[t] = "idle"
                           /\ t[1] # n => /\ pc'[t] = pc[t]
                                          /\ job'[t] = job[t]
                                          /\ todo'[t] = todo[t]
  BY DEF Crash, TypeOK
<1>2. \A t \in Thread : pc'[t] # "idle" =>
          t[1] # n /\ pc'[t] = pc[t] /\ job'[t] = job[t] /\ todo'[t] = todo[t]
  BY <1>1
<1>3. Asked' = Asked /\ \A k \in Node : HasSong(k)' = HasSong(k)
  BY <1>1 DEF HasSong, Asked
<1>4. Living' /\ LastCommand'
  BY <1>1, <1>2 DEF SongInv, Living, LastCommand
<1>5. TheSong'
  BY <1>1, <1>2, <1>3, TwoKinds DEF SongInv, TheSong
<1>6. Ready'
  <2>1. \A t \in Thread :
          job'[t].action = "play" /\ pc'[t] \notin {"idle", "loading"}
              => HasSong(t[1])'
    BY <1>2, <1>3, TwoKinds DEF SongInv, Ready
  <2>2. \A k \in net' : k.action = "play" /\ k.to \in up' => HasSong(k.to)'
    BY <1>1, <1>3 DEF SongInv, Ready, TypeOK
  <2>3. \A p \in up' : Coming(p) => Coming(p)'
    BY <1>1, TwoKinds DEF Coming
  <2>4. \A u \in User :
          job'[u].action = "play" /\ pc'[u] \in {"bcast", "bwait"} =>
              \A p \in Peers[u[1]] \cap up' :
                  p \in todo'[u] \/ HasSong(p)' \/ Coming(p)'
    <3> SUFFICES ASSUME NEW u \in User,
                        job'[u].action = "play",
                        pc'[u] \in {"bcast", "bwait"},
                        NEW p \in Peers[u[1]] \cap up'
                 PROVE  p \in todo'[u] \/ HasSong(p)' \/ Coming(p)'
      OBVIOUS
    <3>1. /\ job[u].action = "play" /\ pc[u] \in {"bcast", "bwait"}
          /\ todo'[u] = todo[u]
      BY <1>2, TwoKinds
    <3>2. p \in Node /\ p \in Peers[u[1]] \cap up
      BY <1>1, TwoKinds, ConstantsAssumption
    <3>3. p \in todo[u] \/ HasSong(p) \/ Coming(p)
      BY <3>1, <3>2 DEF SongInv, Ready
    <3> QED
      BY <3>1, <3>2, <3>3, <2>3, <1>3
  <2> QED
    BY <2>1, <2>2, <2>4 DEF Ready
<1> QED
  BY <1>4, <1>5, <1>6 DEF SongInv

LEMMA SongStep ==
    ASSUME Reliable, TypeOK, TurnInv, SongInv, [Next]_vars PROVE SongInv'
<1>1. CASE UNCHANGED vars
  BY <1>1 DEF vars, SongInv, Living, LastCommand, TheSong, Ready, HasSong,
              Asked, Coming
<1>2. ASSUME NEW t \in Thread, ThreadStep(t) PROVE SongInv'
  BY <1>2, TwoKinds, WorkerSong, UserSong
<1> QED
  BY <1>1, <1>2, IssueSong, ReceiveSong, LoseSong, CrashSong DEF Next

\* Whatever the peer lists and whoever crashes: no client, the user's or a
\* peer, plays before it has the song that was asked for.
THEOREM EverybodyPlaysTheSong ==
    ASSUME Reliable PROVE Spec => []PlaysTheSongAskedFor
<1>1. Init => SongInv
  BY TwoKinds DEF Init, SongInv, Living, LastCommand, TheSong, Ready
<1>2. SongInv => PlaysTheSongAskedFor
  BY DEF SongInv, LastCommand, Ready, HasSong, Asked, PlaysTheSongAskedFor
<1>3. InTurn
  BY DEF Reliable
<1> QED
  BY <1>1, <1>2, <1>3, SongStep, TurnInit, TurnStep, TypeCorrect, PTL
  DEF Spec
=============================================================================
