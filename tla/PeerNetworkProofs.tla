------------------------- MODULE PeerNetworkProofs -------------------------
(***************************************************************************)
(* For any clients, addresses, handlers and bounds: the specification is   *)
(* type correct, and no client gets into its own list of peers as long as  *)
(* it is only found behind the address it gives as its own.                *)
(*                                                                         *)
(* Where users type only when nothing is under way (InTurn) nobody lists   *)
(* an address twice and, if everybody sees the same addresses (OneView)    *)
(* and no call fails without a reason, a gossip ties its group together.   *)
(***************************************************************************)
EXTENDS PeerNetwork, SequenceTheorems, WellFoundedInduction, TLAPS

\* A set of numbers that has an element has a least one.
LEMMA MinInSet ==
    ASSUME NEW I \in SUBSET Nat, I # {}
    PROVE  Min(I) \in I
<1> DEFINE R == {ss \in Nat \X Nat : ss[1] < ss[2]}
<1>1. IsWellFoundedOn(R, Nat)
  BY NatLessThanWellFounded DEF OpToRel
<1> HIDE DEF R
<1>2. PICK x \in I : \A y \in I : <<y, x>> \notin R
  BY <1>1, WFMin
<1>3. \A y \in I : x =< y
  <2> SUFFICES ASSUME NEW y \in I
               PROVE  x =< y
    OBVIOUS
  <2>1. ~(<<y, x>> \in R)
    BY <1>2
  <2>2. x \in Nat /\ y \in Nat
    OBVIOUS
  <2> QED
    BY <2>1, <2>2, SMT DEF R
<1> QED
  BY <1>3 DEF Min

\* DisconnectFromPeer only takes away.
LEMMA DisconnectedType ==
    ASSUME NEW S, NEW s \in Seq(S), NEW e
    PROVE  Disconnected(s, e) \in Seq(S)
<1> DEFINE I == {i \in 1 .. Len(s) : s[i] = e}
           k == Min(I)
<1>1. CASE I = {}
  BY <1>1 DEF Disconnected, RemoveFirst
<1>2. CASE I # {}
  <2>1. k \in 1 .. Len(s)
    <3>1. I \in SUBSET Nat
      OBVIOUS
    <3> QED
      BY <1>2, <3>1, MinInSet
  <2>2. Disconnected(s, e) = RemoveAt(s, k)
    BY <1>2 DEF Disconnected, RemoveFirst, SelectInSeq
  <2> HIDE DEF k
  <2>3. SubSeq(s, 1, k - 1) \in Seq(S)
    BY <2>1, SubSeqProperties
  <2>4. SubSeq(s, k + 1, Len(s)) \in Seq(S)
    BY <2>1, SubSeqProperties
  <2> QED
    BY <2>2, <2>3, <2>4, ConcatProperties DEF RemoveAt
<1> QED
  BY <1>1, <1>2

\* Threads are pairs that begin with their node.
LEMMA ThreadNode ==
    /\ \A t \in Thread : t[1] \in Node
    /\ \A h \in Handler : h \in Thread
    /\ \A n \in Node : <<n, Main>> \in User /\ <<n, Main>> \in Thread
  BY DEF Thread, Handler, User

LEMMA IdleType ==
    ASSUME NEW t \in Thread
    PROVE  Idle(t) \in ThreadType /\ Idle(t).at = "idle"
  BY DEF Idle, ThreadType

\* The peer a thread works on is a client.
LEMMA TargetType ==
    ASSUME TypeOK, NEW t \in Thread, thread[t].list # << >>
    PROVE  Head(thread[t].list) \in Addr /\ Target(t) \in Node
<1>1. thread[t].list \in Seq(Addr)
  BY DEF TypeOK, ThreadType
<1>2. Head(thread[t].list) \in Addr
  BY <1>1, HeadTailProperties
<1> QED
  BY <1>2, ThreadNode, NetworkAssumption DEF Target

\* What TypeOK says of the threads.
ThreadsOK(th) ==
    /\ th \in [Thread -> ThreadType]
    /\ \A t \in Thread : th[t].at \notin {"idle", "exit"}
                             => th[t].list # << >>

\* A thread that goes on to its next address.
LEMMA NextAddressType ==
    ASSUME TypeOK, NEW t \in Thread, NEW label \in {"check", "gossip"},
           NextAddress(t, label)
    PROVE  ThreadsOK(thread')
<1> DEFINE r == thread[t]
           q == [r EXCEPT !.at = label, !.list = Tail(r.list)]
<1>1. r \in ThreadType /\ r.list \in Seq(Addr)
  BY DEF TypeOK, ThreadType
<1>2. thread' = [thread EXCEPT ![t] = IF Len(r.list) > 1 THEN q ELSE Idle(t)]
  BY DEF NextAddress
<1>3. ASSUME Len(r.list) > 1
      PROVE  q \in ThreadType /\ q.list # << >>
  <2>1. Tail(r.list) \in Seq(Addr) /\ Len(Tail(r.list)) >= 1
    BY <1>1, <1>3, HeadTailProperties
  <2>2. Len(<< >>) = 0
    OBVIOUS
  <2>3. q \in ThreadType /\ q.list = Tail(r.list)
    BY <1>1, <2>1 DEF ThreadType
  <2> HIDE DEF q
  <2> QED
    BY <2>1, <2>2, <2>3
<1> HIDE DEF q
<1>4. thread'[t] \in ThreadType
  BY <1>2, <1>3, IdleType DEF TypeOK
<1>5. thread'[t].at # "idle" => thread'[t].list # << >>
  BY <1>2, <1>3, IdleType DEF TypeOK
<1>6. \A u \in Thread : u # t => thread'[u] = thread[u]
  BY <1>2 DEF TypeOK
<1>7. thread' \in [Thread -> ThreadType]
  BY <1>2, <1>4, <1>6 DEF TypeOK
<1> QED
  BY <1>5, <1>6, <1>7 DEF TypeOK, ThreadsOK

\* A thread whose record is replaced by a good one.
LEMMA ThreadSetType ==
    ASSUME TypeOK, NEW t \in Thread, NEW r \in ThreadType,
           r.at \in {"idle", "exit"} \/ r.list # << >>,
           thread' = [thread EXCEPT ![t] = r]
    PROVE  ThreadsOK(thread')
  BY DEF TypeOK, ThreadsOK

\* The steps of a thread keep the types.
LEMMA ThreadStepType ==
    ASSUME TypeOK, NEW t \in Thread, ThreadStep(t)
    PROVE  TypeOK'
<1> USE ThreadNode
<1>0. thread[t] \in ThreadType
  BY DEF TypeOK
<1>1. CASE CheckConnected(t)
  <2>1. thread' = [thread EXCEPT ![t] = [thread[t] EXCEPT !.at = "ping"]]
           => ThreadsOK(thread')
    <3>1. [thread[t] EXCEPT !.at = "ping"] \in ThreadType
      BY <1>0 DEF ThreadType
    <3>2. [thread[t] EXCEPT !.at = "ping"].list # << >>
      BY <1>1, <1>0 DEF CheckConnected, TypeOK, ThreadType
    <3> QED
      BY <3>1, <3>2, ThreadSetType
  <2>2. ThreadsOK(thread')
    BY <1>1, <2>1, NextAddressType DEF CheckConnected
  <2> QED
    BY <1>1, <2>2 DEF CheckConnected, TypeOK, ThreadsOK
<1>2. CASE Ping(t)
  <2>1. thread' = [thread EXCEPT ![t] = [thread[t] EXCEPT !.at = "push"]]
           => ThreadsOK(thread')
    <3>1. [thread[t] EXCEPT !.at = "push"] \in ThreadType
      BY <1>0 DEF ThreadType
    <3>2. [thread[t] EXCEPT !.at = "push"].list # << >>
      BY <1>2, <1>0 DEF Ping, TypeOK, ThreadType
    <3> QED
      BY <3>1, <3>2, ThreadSetType
  <2>2. ThreadsOK(thread')
    BY <1>2, <2>1, NextAddressType DEF Ping
  <2> QED
    BY <1>2, <2>2 DEF Ping, TypeOK, ThreadsOK
<1>3. CASE Push(t)
  <2>1. ThreadsOK(thread')
    BY <1>3, NextAddressType DEF Push
  <2>2. Append(peers[t[1]], Head(thread[t].list)) \in Seq(Addr)
    <3>1. thread[t].list # << >>
      BY <1>3 DEF Push, TypeOK
    <3> QED
      BY <3>1, TargetType, AppendProperties DEF TypeOK
  <2> QED
    BY <1>3, <2>1, <2>2 DEF Push, TypeOK, ThreadsOK
<1>4. CASE SendGossip(t)
  <2>1. thread[t].list # << >>
    BY <1>4 DEF SendGossip, TypeOK
  <2>2. thread' = [thread EXCEPT ![t] = [thread[t] EXCEPT !.at = "gwait"]]
           => ThreadsOK(thread')
    <3>1. [thread[t] EXCEPT !.at = "gwait"] \in ThreadType
      BY <1>0 DEF ThreadType
    <3>2. [thread[t] EXCEPT !.at = "gwait"].list # << >>
      BY <2>1, <1>0 DEF ThreadType
    <3> QED
      BY <3>1, <3>2, ThreadSetType
  <2>3. ThreadsOK(thread')
    BY <1>4, <2>2, NextAddressType DEF SendGossip
  <2>4. [to |-> Target(t), from |-> t, list |-> thread[t].full] \in Message
    BY <1>0, <2>1, TargetType DEF Message, ThreadType
  <2>5. net' \subseteq Message
    BY <1>4, <2>4 DEF SendGossip, TypeOK
  <2> QED
    BY <1>4, <2>3, <2>5 DEF SendGossip, TypeOK, ThreadsOK
<1>5. CASE GossipReturn(t)
  <2>1. ThreadsOK(thread')
    BY <1>5, NextAddressType DEF GossipReturn
  <2> QED
    BY <1>5, <2>1 DEF GossipReturn, TypeOK, ThreadsOK
<1>6. CASE SendExit(t)
  <2>1. Tail(thread[t].list) \in Seq(Addr)
    BY <1>0, <1>6, HeadTailProperties DEF SendExit, ThreadType
  <2>2. [thread[t] EXCEPT !.list = Tail(thread[t].list)] \in ThreadType
    BY <1>0, <2>1 DEF ThreadType
  <2>3. [thread[t] EXCEPT !.list = Tail(thread[t].list)].at = "exit"
    BY <1>0, <1>6 DEF SendExit, ThreadType
  <2>4. thread' = [thread EXCEPT ![t] =
                     [thread[t] EXCEPT !.list = Tail(thread[t].list)]]
    BY <1>6 DEF SendExit
  <2>5. ThreadsOK(thread')
    BY <2>2, <2>3, <2>4, ThreadSetType
  <2>6. Target(t) \in Node
    BY <1>6, TargetType DEF SendExit
  <2>7. Disconnected(peers[Target(t)], Outgoing[t[1]]) \in Seq(Addr)
    BY <2>6, DisconnectedType DEF TypeOK
  <2>8. peers' \in [Node -> Seq(Addr)]
    BY <1>6, <2>6, <2>7 DEF SendExit, TypeOK
  <2> QED
    BY <1>6, <2>5, <2>8 DEF SendExit, TypeOK, ThreadsOK
<1>7. CASE Depart(t)
  <2>1. ThreadsOK(thread')
    BY <1>7, IdleType, ThreadSetType DEF Depart
  <2>2. << >> \in Seq(Addr)
    OBVIOUS
  <2>3. peers' \in [Node -> Seq(Addr)]
    BY <1>7, <2>2 DEF Depart, TypeOK
  <2> QED
    BY <1>7, <2>1, <2>3 DEF Depart, TypeOK, ThreadsOK
<1> QED
  BY <1>1, <1>2, <1>3, <1>4, <1>5, <1>6, <1>7 DEF ThreadStep

\* A command puts the user's thread to work on a list of addresses.
LEMMA CommandType ==
    ASSUME TypeOK, NEW n \in Node, NEW label \in {"check", "gossip", "exit"},
           NEW l \in Seq(Addr), NEW f \in Seq(Addr),
           label = "exit" \/ l # << >>,
           thread' = [thread EXCEPT ![<<n, Main>>] =
                        [thread[<<n, Main>>] EXCEPT !.at = label, !.list = l,
                                                    !.full = f]]
    PROVE  ThreadsOK(thread')
<1> DEFINE t == <<n, Main>>
           r == [thread[t] EXCEPT !.at = label, !.list = l, !.full = f]
<1>1. t \in Thread /\ thread[t] \in ThreadType
  BY ThreadNode DEF TypeOK
<1>2. r \in ThreadType /\ r.at = label /\ r.list = l
  BY <1>1 DEF ThreadType
<1>3. thread' = [thread EXCEPT ![t] = r]
  OBVIOUS
<1> HIDE DEF r, t
<1> QED
  BY <1>1, <1>2, <1>3, ThreadSetType

\* A command typed is within the bound.
LEMMA TypedType ==
    ASSUME TypeOK, NEW n \in Node, Typed(n)
    PROVE  ops' \in 0 .. MaxOps
  BY NetworkAssumption DEF TypeOK, Typed

\* Every step keeps the types.
LEMMA TypeStep == TypeOK /\ [Next]_vars => TypeOK'
<1> SUFFICES ASSUME TypeOK, [Next]_vars
             PROVE  TypeOK'
  OBVIOUS
<1> USE ThreadNode
<1>1. ASSUME NEW n \in Node, NEW a \in Addr, Join(n, a)
      PROVE  TypeOK'
  <2> DEFINE t == <<n, Main>>
  <2>1. <<a>> \in Seq(Addr) /\ Len(<<a>>) = 1 /\ Len(<< >>) = 0
    OBVIOUS
  <2>2. thread[t] \in ThreadType
    BY DEF TypeOK
  <2>3. thread' = [thread EXCEPT ![t] =
                     [thread[t] EXCEPT !.at = "check", !.list = <<a>>,
                                       !.full = thread[t].full]]
    BY <1>1, <2>2 DEF Join, TypeOK, ThreadType
  <2>4. thread[t].full \in Seq(Addr)
    BY <2>2 DEF ThreadType
  <2>5. ThreadsOK(thread')
    BY <2>1, <2>3, <2>4, CommandType
  <2> QED
    BY <1>1, <2>5, TypedType DEF Join, TypeOK, ThreadsOK
<1>2. ASSUME NEW n \in Node, NEW a \in Addr, Leave(n, a)
      PROVE  TypeOK'
  <2>1. Disconnected(peers[n], a) \in Seq(Addr)
    BY DisconnectedType DEF TypeOK
  <2> QED
    BY <1>2, <2>1, TypedType DEF Leave, TypeOK
<1>3. ASSUME NEW n \in Node, Gossip(n)
      PROVE  TypeOK'
  <2> DEFINE t == <<n, Main>>
             f == Append(peers[n], Self[n])
  <2>1. peers[n] \in Seq(Addr) /\ peers[n] # << >>
    BY <1>3 DEF Gossip, TypeOK
  <2>2. f \in Seq(Addr)
    BY <2>1, AppendProperties, NetworkAssumption
  <2> HIDE DEF f
  <2>3. thread[t] \in ThreadType
    BY DEF TypeOK
  <2>4. thread' = [thread EXCEPT ![t] =
                     [thread[t] EXCEPT !.at = "gossip", !.list = peers[n],
                                       !.full = f]]
    BY <1>3, <2>3 DEF Gossip, TypeOK, ThreadType, f
  <2>5. ThreadsOK(thread')
    BY <2>1, <2>2, <2>4, CommandType
  <2>6. group' \subseteq Node
    <3>1. \A a \in Range(peers[n]) : a \in Addr
      BY <2>1, ElementOfSeq DEF Range
    <3> QED
      BY <1>3, <3>1, NetworkAssumption DEF Gossip
  <2> QED
    BY <1>3, <2>5, <2>6, TypedType DEF Gossip, TypeOK, ThreadsOK
<1>4. ASSUME NEW n \in Node, Quit(n)
      PROVE  TypeOK'
  <2> DEFINE t == <<n, Main>>
  <2>1. peers[n] \in Seq(Addr) /\ thread[t] \in ThreadType
    BY DEF TypeOK
  <2>2. thread' = [thread EXCEPT ![t] =
                     [thread[t] EXCEPT !.at = "exit", !.list = peers[n],
                                       !.full = thread[t].full]]
    BY <1>4, <2>1 DEF Quit, TypeOK, ThreadType
  <2>3. thread[t].full \in Seq(Addr)
    BY <2>1 DEF ThreadType
  <2>4. ThreadsOK(thread')
    BY <2>1, <2>2, <2>3, CommandType
  <2> QED
    BY <1>4, <2>4, TypedType DEF Quit, TypeOK, ThreadsOK
<1>5. ASSUME NEW n \in Node, Crash(n)
      PROVE  TypeOK'
  <2>1. \A t \in Thread :
           thread'[t] = IF t[1] = n THEN Idle(t) ELSE thread[t]
    BY <1>5 DEF Crash
  <2>2. \A t \in Thread : thread'[t] \in ThreadType
    BY <2>1, IdleType DEF TypeOK
  <2>3. thread' \in [Thread -> ThreadType]
    BY <1>5, <2>2 DEF Crash
  <2>4. ThreadsOK(thread')
    BY <2>1, <2>3, IdleType DEF ThreadsOK, TypeOK
  <2>5. << >> \in Seq(Addr)
    OBVIOUS
  <2>6. peers' \in [Node -> Seq(Addr)]
    BY <1>5, <2>5 DEF Crash, TypeOK
  <2> QED
    BY <1>5, <2>4, <2>6 DEF Crash, TypeOK, ThreadsOK
<1>6. ASSUME NEW t \in Thread, ThreadStep(t)
      PROVE  TypeOK'
  BY <1>6, ThreadStepType
<1>7. ASSUME NEW m \in net, NEW h \in Handler, HandleGossip(m, h)
      PROVE  TypeOK'
  <2> DEFINE r == [at |-> "check", list |-> m.list, full |-> << >>,
                   from |-> m.from]
  <2>1. m \in Message /\ << >> \in Seq(Addr)
    BY DEF TypeOK
  <2>2. r \in ThreadType
    BY <2>1 DEF Message, ThreadType
  <2>3. thread' = [thread EXCEPT ![h] = IF m.list = << >> THEN Idle(h)
                                        ELSE r]
    BY <1>7 DEF HandleGossip
  <2>4. ThreadsOK(thread')
    <3>1. CASE m.list = << >>
      BY <2>3, <3>1, IdleType, ThreadSetType
    <3>2. CASE m.list # << >>
      BY <2>2, <2>3, <3>2, ThreadSetType
    <3> QED
      BY <3>1, <3>2
  <2>5. peers' \in [Node -> Seq(Addr)]
    BY <1>7, <2>1 DEF HandleGossip, TypeOK
  <2> QED
    BY <1>7, <2>4, <2>5 DEF HandleGossip, TypeOK, ThreadsOK
<1>8. ASSUME NEW m \in net, LoseGossip(m)
      PROVE  TypeOK'
  BY <1>8 DEF LoseGossip, TypeOK
<1>9. CASE UNCHANGED vars
  BY <1>9 DEF vars, TypeOK
<1> QED
  BY <1>1, <1>2, <1>3, <1>4, <1>5, <1>6, <1>7, <1>8, <1>9 DEF Next

\* Types: lists hold addresses, and a thread that looks at, pings, appends or
\* tells the head of its list has a list with a head.
THEOREM TypeCorrect == Spec => []TypeOK
<1>1. Init => TypeOK
  <2> SUFFICES ASSUME Init
               PROVE  TypeOK
    OBVIOUS
  <2>1. << >> \in Seq(Addr)
    OBVIOUS
  <2>2. thread \in [Thread -> ThreadType]
    BY IdleType DEF Init
  <2>3. \A t \in Thread : thread[t].at = "idle"
    BY IdleType DEF Init
  <2>4. ops \in 0 .. MaxOps
    BY NetworkAssumption DEF Init
  <2> QED
    BY <2>1, <2>2, <2>3, <2>4 DEF Init, TypeOK
<1> QED
  BY <1>1, TypeStep, PTL DEF Spec

-----------------------------------------------------------------------------
\* A client is found only behind the address it gives as its own.
OneAddress == \A n \in Node, a \in Addr : Reach[n][a] = n => a = Self[n]

\* No user types an address of their own client.
NobodyJoinsItself == \A j \in Joins : Reach[j[1]][j[2]] # j[1]

\* The addresses that do not lead a client to itself.
Foreign(n) == {a \in Addr : Reach[n][a] # n}

\* What a thread pings or appends is foreign, and so is all that a user's
\* thread has on its list.
ThreadsForeign(th) ==
    /\ \A t \in Thread : th[t].at \in {"ping", "push"}
                             => Head(th[t].list) \in Foreign(t[1])
    /\ \A u \in User : th[u].list \in Seq(Foreign(u[1]))

SelfInv ==
    /\ \A n \in Node : peers[n] \in Seq(Foreign(n))
    /\ ThreadsForeign(thread)

\* Going on to the next address leaves only foreign ones with a user.
LEMMA NextAddressForeign ==
    ASSUME TypeOK, SelfInv, NEW t \in Thread,
           NEW label \in {"check", "gossip"}, NextAddress(t, label)
    PROVE  ThreadsForeign(thread')
<1> DEFINE list == thread[t].list
<1>1. \A u \in Thread : u # t => thread'[u] = thread[u]
  BY DEF NextAddress, TypeOK
<1>2. /\ thread'[t].at \notin {"ping", "push"}
      /\ thread'[t].list = IF Len(list) > 1 THEN Tail(list) ELSE << >>
  <2>1. thread[t] \in ThreadType
    BY DEF TypeOK
  <2> QED
    BY <2>1 DEF NextAddress, TypeOK, ThreadType, Idle
<1>3. t \in User => thread'[t].list \in Seq(Foreign(t[1]))
  <2> SUFFICES ASSUME t \in User
               PROVE  thread'[t].list \in Seq(Foreign(t[1]))
    OBVIOUS
  <2>1. list \in Seq(Foreign(t[1]))
    BY DEF SelfInv, ThreadsForeign
  <2>2. CASE Len(list) > 1
    <3>1. list # << >>
      <4>1. Len(<< >>) = 0
        OBVIOUS
      <4> QED
        BY <2>2, <4>1
    <3> HIDE DEF list
    <3>2. Tail(list) \in Seq(Foreign(t[1]))
      BY <2>1, <3>1, HeadTailProperties
    <3> QED
      BY <1>2, <2>2, <3>2
  <2>3. CASE ~(Len(list) > 1)
    <3>1. << >> \in Seq(Foreign(t[1]))
      OBVIOUS
    <3> QED
      BY <1>2, <2>3, <3>1
  <2> QED
    BY <2>2, <2>3
<1>4. User \subseteq Thread
  BY DEF Thread
<1> QED
  BY <1>1, <1>2, <1>3, <1>4 DEF SelfInv, ThreadsForeign

\* A thread whose record is replaced.
LEMMA ThreadSetForeign ==
    ASSUME TypeOK, SelfInv, NEW t \in Thread, NEW r,
           thread' = [thread EXCEPT ![t] = r],
           r.at \in {"ping", "push"} => Head(r.list) \in Foreign(t[1]),
           t \in User => r.list \in Seq(Foreign(t[1]))
    PROVE  ThreadsForeign(thread')
<1>1. \A u \in Thread : thread'[u] = IF u = t THEN r ELSE thread[u]
  BY DEF TypeOK
<1>2. User \subseteq Thread
  BY DEF Thread
<1> QED
  BY <1>1, <1>2 DEF SelfInv, ThreadsForeign

\* The steps of a thread keep every list foreign.
LEMMA ThreadStepForeign ==
    ASSUME TypeOK, SelfInv, OneAddress, NEW t \in Thread, ThreadStep(t)
    PROVE  SelfInv'
<1> USE ThreadNode
<1>0. /\ thread[t] \in ThreadType
      /\ t \in User => thread[t].list \in Seq(Foreign(t[1]))
  BY DEF TypeOK, SelfInv, ThreadsForeign
<1>1. CASE CheckConnected(t)
  <2>1. thread[t].at = "check" /\ peers' = peers
    BY <1>1 DEF CheckConnected
  <2>2. CASE Skips(t) \/ Connected(t[1], Head(thread[t].list))
    BY <1>1, <2>1, <2>2, NextAddressForeign DEF CheckConnected, SelfInv
  <2>3. CASE ~(Skips(t) \/ Connected(t[1], Head(thread[t].list)))
    <3> DEFINE r == [thread[t] EXCEPT !.at = "ping"]
    <3>1. thread' = [thread EXCEPT ![t] = r]
      BY <1>1, <2>3 DEF CheckConnected
    <3>2. r.at = "ping" /\ r.list = thread[t].list
      BY <1>0 DEF ThreadType
    <3>3. thread[t].list # << >>
      BY <2>1 DEF TypeOK
    <3>4. Head(thread[t].list) \in Foreign(t[1])
      <4>1. CASE t \in User
        BY <1>0, <3>3, <4>1, HeadTailProperties
      <4>2. CASE t \in Handler
        <5>1. Head(thread[t].list) # Self[t[1]]
          BY <2>3, <4>2 DEF Skips
        <5>2. Head(thread[t].list) \in Addr
          BY <3>3, TargetType
        <5> QED
          BY <5>1, <5>2 DEF OneAddress, Foreign
      <4> QED
        BY <4>1, <4>2 DEF Thread
    <3> HIDE DEF r
    <3>5. ThreadsForeign(thread')
      BY <1>0, <3>1, <3>2, <3>4, ThreadSetForeign
    <3> QED
      BY <2>1, <3>5 DEF SelfInv
  <2> QED
    BY <2>2, <2>3
<1>2. CASE Ping(t)
  <2>1. thread[t].at = "ping" /\ peers' = peers
    BY <1>2 DEF Ping
  <2>2. CASE NextAddress(t, "check")
    BY <2>1, <2>2, NextAddressForeign DEF SelfInv
  <2>3. CASE thread' = [thread EXCEPT ![t].at = "push"]
    <3> DEFINE r == [thread[t] EXCEPT !.at = "push"]
    <3>1. thread' = [thread EXCEPT ![t] = r]
      BY <2>3
    <3>2. r.list = thread[t].list
      BY <1>0 DEF ThreadType
    <3>3. Head(thread[t].list) \in Foreign(t[1])
      BY <2>1 DEF SelfInv, ThreadsForeign
    <3> HIDE DEF r
    <3>4. ThreadsForeign(thread')
      BY <1>0, <3>1, <3>2, <3>3, ThreadSetForeign
    <3> QED
      BY <2>1, <3>4 DEF SelfInv
  <2> QED
    BY <1>2, <2>2, <2>3 DEF Ping
<1>3. CASE Push(t)
  <2>1. thread[t].at = "push" /\ NextAddress(t, "check")
    BY <1>3 DEF Push
  <2>2. Head(thread[t].list) \in Foreign(t[1])
    BY <2>1 DEF SelfInv, ThreadsForeign
  <2>3. Append(peers[t[1]], Head(thread[t].list)) \in Seq(Foreign(t[1]))
    BY <2>2, AppendProperties DEF SelfInv
  <2>4. \A n \in Node : peers'[n] \in Seq(Foreign(n))
    BY <1>3, <2>3 DEF Push, SelfInv, TypeOK
  <2> QED
    BY <2>1, <2>4, NextAddressForeign DEF SelfInv
<1>4. CASE SendGossip(t)
  <2>1. peers' = peers
    BY <1>4 DEF SendGossip
  <2>2. CASE NextAddress(t, "gossip")
    BY <2>1, <2>2, NextAddressForeign DEF SelfInv
  <2>3. CASE thread' = [thread EXCEPT ![t].at = "gwait"]
    <3> DEFINE r == [thread[t] EXCEPT !.at = "gwait"]
    <3>1. thread' = [thread EXCEPT ![t] = r]
      BY <2>3
    <3>2. r.list = thread[t].list /\ r.at = "gwait"
      BY <1>0 DEF ThreadType
    <3> HIDE DEF r
    <3>3. ThreadsForeign(thread')
      BY <1>0, <3>1, <3>2, ThreadSetForeign
    <3> QED
      BY <2>1, <3>3 DEF SelfInv
  <2> QED
    BY <1>4, <2>2, <2>3 DEF SendGossip
<1>5. CASE GossipReturn(t)
  BY <1>5, NextAddressForeign DEF GossipReturn, SelfInv
<1>6. CASE SendExit(t)
  <2> DEFINE r == [thread[t] EXCEPT !.list = Tail(thread[t].list)]
  <2>1. thread' = [thread EXCEPT ![t] = r]
    BY <1>6 DEF SendExit
  <2>2. r.list = Tail(thread[t].list) /\ r.at = "exit"
    BY <1>0, <1>6 DEF SendExit, ThreadType
  <2>3. t \in User => r.list \in Seq(Foreign(t[1]))
    BY <1>0, <1>6, <2>2, HeadTailProperties DEF SendExit
  <2> HIDE DEF r
  <2>4. ThreadsForeign(thread')
    BY <2>1, <2>2, <2>3, ThreadSetForeign
  <2>5. Target(t) \in Node
    BY <1>6, TargetType DEF SendExit
  <2>6. Disconnected(peers[Target(t)], Outgoing[t[1]])
          \in Seq(Foreign(Target(t)))
    BY <2>5, DisconnectedType DEF SelfInv
  <2>7. \A n \in Node : peers'[n] \in Seq(Foreign(n))
    BY <1>6, <2>5, <2>6 DEF SendExit, SelfInv, TypeOK
  <2> QED
    BY <2>4, <2>7 DEF SelfInv
<1>7. CASE Depart(t)
  <2>1. /\ Idle(t).at = "idle" /\ Idle(t).list = << >>
        /\ << >> \in Seq(Foreign(t[1]))
    BY DEF Idle
  <2>2. ThreadsForeign(thread')
    BY <1>7, <2>1, ThreadSetForeign DEF Depart
  <2>3. \A n \in Node : peers'[n] \in Seq(Foreign(n))
    BY <1>7 DEF Depart, SelfInv, TypeOK
  <2> QED
    BY <2>2, <2>3 DEF SelfInv
<1> QED
  BY <1>1, <1>2, <1>3, <1>4, <1>5, <1>6, <1>7 DEF ThreadStep

\* A command gives the user's thread foreign addresses only.
LEMMA CommandForeign ==
    ASSUME TypeOK, SelfInv, NEW n \in Node,
           NEW l \in Seq(Foreign(n)),
           NEW r, r.list = l, r.at \notin {"ping", "push"},
           thread' = [thread EXCEPT ![<<n, Main>>] = r]
    PROVE  ThreadsForeign(thread')
<1>1. <<n, Main>> \in Thread /\ <<n, Main>>[1] = n
  BY ThreadNode
<1> QED
  BY <1>1, ThreadSetForeign

\* Every step keeps every list foreign.
LEMMA SelfStep ==
    ASSUME OneAddress, NobodyJoinsItself
    PROVE  TypeOK /\ SelfInv /\ [Next]_vars => SelfInv'
<1> SUFFICES ASSUME TypeOK, SelfInv, [Next]_vars
             PROVE  SelfInv'
  OBVIOUS
<1> USE ThreadNode
<1>1. ASSUME NEW n \in Node, NEW a \in Addr, Join(n, a)
      PROVE  SelfInv'
  <2> DEFINE r == [thread[<<n, Main>>] EXCEPT !.at = "check", !.list = <<a>>]
  <2>1. a \in Foreign(n)
    BY <1>1 DEF Join, NobodyJoinsItself, Foreign
  <2>2. thread[<<n, Main>>] \in ThreadType
    BY DEF TypeOK
  <2>3. thread' = [thread EXCEPT ![<<n, Main>>] = r]
    BY <1>1, <2>2 DEF Join, TypeOK, ThreadType
  <2>4. r.list = <<a>> /\ r.at = "check"
    BY <2>2 DEF ThreadType
  <2> HIDE DEF r
  <2>5. <<a>> \in Seq(Foreign(n))
    BY <2>1
  <2>6. ThreadsForeign(thread')
    BY <2>3, <2>4, <2>5, CommandForeign
  <2> QED
    BY <1>1, <2>6 DEF Join, SelfInv
<1>2. ASSUME NEW n \in Node, NEW a \in Addr, Leave(n, a)
      PROVE  SelfInv'
  <2>1. Disconnected(peers[n], a) \in Seq(Foreign(n))
    BY DisconnectedType DEF SelfInv
  <2> QED
    BY <1>2, <2>1 DEF Leave, SelfInv, TypeOK
<1>3. ASSUME NEW n \in Node, Gossip(n)
      PROVE  SelfInv'
  <2> DEFINE r == [thread[<<n, Main>>] EXCEPT
                     !.at = "gossip", !.list = peers[n],
                     !.full = Append(peers[n], Self[n])]
  <2>1. thread[<<n, Main>>] \in ThreadType
    BY DEF TypeOK
  <2>2. thread' = [thread EXCEPT ![<<n, Main>>] = r]
    BY <1>3, <2>1 DEF Gossip, TypeOK, ThreadType
  <2>3. r.list = peers[n] /\ r.at = "gossip"
    BY <2>1 DEF ThreadType
  <2> HIDE DEF r
  <2>4. ThreadsForeign(thread')
    BY <2>2, <2>3, CommandForeign DEF SelfInv
  <2> QED
    BY <1>3, <2>4 DEF Gossip, SelfInv
<1>4. ASSUME NEW n \in Node, Quit(n)
      PROVE  SelfInv'
  <2> DEFINE r == [thread[<<n, Main>>] EXCEPT !.at = "exit",
                                              !.list = peers[n]]
  <2>1. thread[<<n, Main>>] \in ThreadType
    BY DEF TypeOK
  <2>2. thread' = [thread EXCEPT ![<<n, Main>>] = r]
    BY <1>4, <2>1 DEF Quit, TypeOK, ThreadType
  <2>3. r.list = peers[n] /\ r.at = "exit"
    BY <2>1 DEF ThreadType
  <2> HIDE DEF r
  <2>4. ThreadsForeign(thread')
    BY <2>2, <2>3, CommandForeign DEF SelfInv
  <2> QED
    BY <1>4, <2>4 DEF Quit, SelfInv
<1>5. ASSUME NEW n \in Node, Crash(n)
      PROVE  SelfInv'
  <2>1. \A t \in Thread :
           thread'[t] = IF t[1] = n THEN Idle(t) ELSE thread[t]
    BY <1>5 DEF Crash
  <2>2. \A t \in Thread : /\ Idle(t).at = "idle" /\ Idle(t).list = << >>
                          /\ << >> \in Seq(Foreign(t[1]))
    BY DEF Idle
  <2>3. User \subseteq Thread
    BY DEF Thread
  <2>4. ThreadsForeign(thread')
    BY <2>1, <2>2, <2>3 DEF SelfInv, ThreadsForeign
  <2>5. \A k \in Node : peers'[k] \in Seq(Foreign(k))
    BY <1>5 DEF Crash, SelfInv, TypeOK
  <2> QED
    BY <2>4, <2>5 DEF SelfInv
<1>6. ASSUME NEW t \in Thread, ThreadStep(t)
      PROVE  SelfInv'
  BY <1>6, ThreadStepForeign
<1>7. ASSUME NEW m \in net, NEW h \in Handler, HandleGossip(m, h)
      PROVE  SelfInv'
  <2> DEFINE r == IF m.list = << >> THEN Idle(h)
                  ELSE [at |-> "check", list |-> m.list, full |-> << >>,
                        from |-> m.from]
  <2>1. thread' = [thread EXCEPT ![h] = r] /\ r.at \in {"idle", "check"}
    BY <1>7 DEF HandleGossip, Idle
  <2> HIDE DEF r
  <2>2. h \notin User
    BY NetworkAssumption DEF Handler, User
  <2>3. ThreadsForeign(thread')
    BY <2>1, <2>2, ThreadSetForeign
  <2>4. \A n \in Node : peers'[n] \in Seq(Foreign(n))
    BY <1>7 DEF HandleGossip, SelfInv, TypeOK
  <2> QED
    BY <2>3, <2>4 DEF SelfInv
<1>8. ASSUME NEW m \in net, LoseGossip(m)
      PROVE  SelfInv'
  BY <1>8 DEF LoseGossip, SelfInv
<1>9. CASE UNCHANGED vars
  BY <1>9 DEF vars, SelfInv
<1> QED
  BY <1>1, <1>2, <1>3, <1>4, <1>5, <1>6, <1>7, <1>8, <1>9 DEF Next

\* Whoever gossips about it, a client never counts itself among its peers, if
\* it is found only behind its own address and no user joins it to itself.
THEOREM NeverItsOwnPeer ==
    ASSUME OneAddress, NobodyJoinsItself
    PROVE  Spec => []NoSelfLoop
<1>1. Init => SelfInv
  <2> SUFFICES ASSUME Init
               PROVE  SelfInv
    OBVIOUS
  <2>1. \A S : << >> \in Seq(S)
    OBVIOUS
  <2>2. \A t \in Thread : /\ thread[t].at = "idle"
                          /\ thread[t].list = << >>
    BY DEF Init, Idle
  <2>3. User \subseteq Thread
    BY DEF Thread
  <2> QED
    BY <2>1, <2>2, <2>3 DEF Init, SelfInv, ThreadsForeign
<1>2. SelfInv => NoSelfLoop
  <2> SUFFICES ASSUME SelfInv, NEW n \in Node, NEW a \in Range(peers[n])
               PROVE  Reach[n][a] # n
    BY DEF NoSelfLoop
  <2>1. a \in Foreign(n)
    BY ElementOfSeq DEF SelfInv, Range
  <2> QED
    BY <2>1 DEF Foreign
<1>3. TypeOK /\ SelfInv /\ [Next]_vars => SelfInv'
  BY SelfStep
<1> QED
  BY <1>1, <1>2, <1>3, TypeCorrect, PTL DEF Spec

-----------------------------------------------------------------------------
\* Users type only when nothing is under way, and no gossip is given up while
\* its receiver goes on.
InTurn == Serial /\ ~Deadlines

Distinct(s) == \A i, j \in DOMAIN s : i # j => s[i] # s[j]

\* One user at a time; until it waits for a gossip it is the only thread.
OneUser == \A u, v \in User : Busy(u) /\ Busy(v) => u = v

Alone ==
    \A u \in User : Busy(u) /\ thread[u].at # "gwait" =>
        net = {} /\ \A h \in Handler : ~Busy(h)

\* One gossip is on its way or handled, and the one who waits has sent it.
OneGossip ==
    /\ \A m, k \in net : m = k
    /\ \A m \in net, h \in Handler : ~Busy(h)
    /\ \A h, k \in Handler : Busy(h) /\ Busy(k) => h = k

Waited ==
    \A u \in User : thread[u].at = "gwait" =>
        /\ \A m \in net : m.from = u
        /\ \A h \in Handler : Busy(h) => thread[h].from = u

Connecting(t) == thread[t].at \in {"ping", "push"}

HandlersConnect ==
    \A h \in Handler : thread[h].at \in {"idle", "check", "ping", "push"}

\* What a thread has looked at is still not listed.
Fresh ==
    \A t \in Thread :
        Connecting(t) => Head(thread[t].list) \notin Range(peers[t[1]])

TurnInv == /\ OneUser /\ Alone /\ OneGossip /\ Waited /\ HandlersConnect
           /\ Fresh /\ NoDuplicates

-----------------------------------------------------------------------------
LEMMA TwoKinds ==
    /\ \A u \in User : u \in Thread /\ u \notin Handler /\ u[1] \in Node
    /\ \A h \in Handler : h \in Thread /\ h \notin User /\ h[1] \in Node
    /\ \A t \in Thread : t \in User \/ t \in Handler
BY NetworkAssumption DEF Thread, Handler, User

LEMMA AppendDistinct ==
    ASSUME NEW S, NEW s \in Seq(S), NEW e \in S, Distinct(s), e \notin Range(s)
    PROVE  Distinct(Append(s, e))
BY DEF Distinct, Range

LEMMA DisconnectedDistinct ==
    ASSUME NEW S, NEW s \in Seq(S), NEW e, Distinct(s)
    PROVE  Distinct(Disconnected(s, e))
<1> DEFINE I == {i \in 1 .. Len(s) : s[i] = e}
           k == Min(I)
<1>1. CASE I = {}
  BY <1>1 DEF Disconnected, RemoveFirst
<1>2. CASE I # {}
  <2>1. k \in 1 .. Len(s)
    <3>1. I \in SUBSET Nat
      OBVIOUS
    <3> QED
      BY <1>2, <3>1, MinInSet
  <2>2. Disconnected(s, e) = RemoveAt(s, k)
    BY <1>2 DEF Disconnected, RemoveFirst, SelectInSeq
  <2> HIDE DEF k
  <2> DEFINE a == SubSeq(s, 1, k - 1)
             b == SubSeq(s, k + 1, Len(s))
  <2>3. /\ a \in Seq(S) /\ Len(a) = k - 1
        /\ \A i \in 1 .. k - 1 : a[i] = s[i]
    BY <2>1, SubSeqProperties
  <2>4. /\ b \in Seq(S) /\ Len(b) = Len(s) - k
        /\ \A i \in 1 .. Len(s) - k : b[i] = s[k + i]
    BY <2>1, SubSeqProperties
  <2>5. RemoveAt(s, k) = a \o b
    BY DEF RemoveAt
  <2> HIDE DEF a, b
  <2>6. /\ a \o b \in Seq(S) /\ Len(a \o b) = Len(s) - 1
        /\ \A i \in 1 .. Len(s) - 1 :
              (a \o b)[i] = IF i <= k - 1 THEN a[i] ELSE b[i - (k - 1)]
    <3>1. /\ a \o b \in Seq(S) /\ Len(a \o b) = Len(a) + Len(b)
          /\ \A i \in 1 .. Len(a) + Len(b) :
                (a \o b)[i] = IF i <= Len(a) THEN a[i] ELSE b[i - Len(a)]
      BY <2>3, <2>4, ConcatProperties
    <3>2. Len(a) + Len(b) = Len(s) - 1
      BY <2>1, <2>3, <2>4
    <3> QED
      BY <3>1, <3>2, <2>3
  <2>7. \A i \in 1 .. Len(s) - 1 :
              (a \o b)[i] = s[IF i < k THEN i ELSE i + 1]
    <3> SUFFICES ASSUME NEW i \in 1 .. Len(s) - 1
                 PROVE  (a \o b)[i] = s[IF i < k THEN i ELSE i + 1]
      OBVIOUS
    <3>1. CASE i < k
      BY <3>1, <2>1, <2>3, <2>6
    <3>2. CASE ~(i < k)
      <4>1. i - (k - 1) \in 1 .. Len(s) - k /\ k + (i - (k - 1)) = i + 1
        BY <3>2, <2>1
      <4>2. b[i - (k - 1)] = s[i + 1]
        BY <4>1, <2>4
      <4> QED
        BY <3>2, <4>2, <2>1, <2>6
    <3> QED
      BY <3>1, <3>2
  <2>8. DOMAIN (a \o b) = 1 .. Len(s) - 1
    BY <2>6
  <2>9. ASSUME NEW i \in 1 .. Len(s) - 1, NEW j \in 1 .. Len(s) - 1, i # j
        PROVE  (a \o b)[i] # (a \o b)[j]
    <3> DEFINE x == IF i < k THEN i ELSE i + 1
               y == IF j < k THEN j ELSE j + 1
    <3>1. x \in DOMAIN s /\ y \in DOMAIN s /\ x # y
      BY <2>1, <2>9
    <3>2. (a \o b)[i] = s[x] /\ (a \o b)[j] = s[y]
      BY <2>7
    <3> QED
      BY <3>1, <3>2 DEF Distinct
  <2> QED
    BY <2>2, <2>5, <2>8, <2>9 DEF Distinct
<1> QED
  BY <1>1, <1>2

\* What a step does to the thread that takes it: it goes on or is idle.
LEMMA NextAddressShape ==
    ASSUME TypeOK, NEW t \in Thread, NEW label, NextAddress(t, label)
    PROVE  /\ \A u \in Thread \ {t} : thread'[u] = thread[u]
           /\ \/ thread'[t].at = "idle"
              \/ thread'[t].at = label /\ thread'[t].from = thread[t].from
BY DEF NextAddress, TypeOK, ThreadType, Idle

LEMMA TurnInit == Init => TurnInv
BY TwoKinds DEF Init, TurnInv, OneUser, Alone, OneGossip, Waited, Busy,
   HandlersConnect, Fresh, Connecting, NoDuplicates, Idle

\* A user's command that leaves the lists alone.
LEMMA TypedTurn ==
    ASSUME InTurn, TypeOK, TurnInv, NEW n \in Node, Typed(n),
           net' = net, peers' = peers,
           thread'[<<n, Main>>].at \in {"check", "gossip", "exit"},
           \A t \in Thread \ {<<n, Main>>} : thread'[t] = thread[t]
    PROVE  TurnInv'
<1> DEFINE u == <<n, Main>>
<1>1. u \in User
  BY DEF User
<1>2. net = {} /\ \A t \in Thread : thread[t].at = "idle"
  BY DEF Typed, InTurn, Quiet, Busy
<1>3. /\ thread'[u].at \in {"check", "gossip", "exit"}
      /\ \A t \in Thread \ {u} : thread'[t].at = "idle"
  BY <1>2
<1> HIDE DEF u
<1> QED
  BY <1>1, <1>2, <1>3, TwoKinds
  DEF TurnInv, OneUser, Alone, OneGossip, Waited, Busy, HandlersConnect,
      Fresh, Connecting, NoDuplicates

\* A thread connects, and no other one does: what it looked at is still not
\* listed when it stores it.
LEMMA StepFresh ==
    ASSUME TypeOK, Fresh, NoDuplicates, NEW t \in Thread,
           \A u \in Thread \ {t} : ~Connecting(u) /\ thread'[u] = thread[u],
           CheckConnected(t) \/ Ping(t) \/ Push(t)
    PROVE  Fresh' /\ NoDuplicates'
<1>1. CASE CheckConnected(t)
  <2>1. peers' = peers
    BY <1>1 DEF CheckConnected
  <2>2. CASE Skips(t) \/ Connected(t[1], Head(thread[t].list))
    <3>1. ~Connecting(t)'
      BY <1>1, <2>2, NextAddressShape DEF CheckConnected, Connecting
    <3> QED
      BY <2>1, <3>1 DEF Fresh, NoDuplicates, Connecting
  <2>3. CASE ~(Skips(t) \/ Connected(t[1], Head(thread[t].list)))
    <3>1. thread'[t].list = thread[t].list
      BY <1>1, <2>3 DEF CheckConnected, TypeOK, ThreadType
    <3> QED
      BY <2>1, <2>3, <3>1 DEF Fresh, NoDuplicates, Connecting, Connected
  <2> QED
    BY <2>2, <2>3
<1>2. CASE Ping(t)
  <2>1. peers' = peers /\ Connecting(t)
    BY <1>2 DEF Ping, Connecting
  <2>2. ~Connecting(t)' \/ thread'[t].list = thread[t].list
    BY <1>2, NextAddressShape DEF Ping, Connecting, TypeOK, ThreadType
  <2> QED
    BY <2>1, <2>2 DEF Fresh, NoDuplicates, Connecting
<1>3. CASE Push(t)
  <2> DEFINE a == Head(thread[t].list)
             n == t[1]
  <2>1. /\ peers' = [peers EXCEPT ![n] = Append(peers[n], a)]
        /\ thread[t].at = "push" /\ ~Connecting(t)'
    BY <1>3, NextAddressShape DEF Push, Connecting
  <2>2. n \in Node /\ a \in Addr /\ peers[n] \in Seq(Addr)
    BY <2>1, TwoKinds, TargetType DEF TypeOK
  <2>3. a \notin Range(peers[n])
    BY <2>1 DEF Fresh, Connecting
  <2>4. Distinct(Append(peers[n], a))
    BY <2>2, <2>3, AppendDistinct DEF NoDuplicates, Distinct
  <2>5. NoDuplicates'
    BY <2>1, <2>2, <2>4 DEF NoDuplicates, Distinct, TypeOK
  <2>6. Fresh'
    BY <2>1 DEF Fresh, Connecting
  <2> QED
    BY <2>5, <2>6
<1> QED
  BY <1>1, <1>2, <1>3

\* A step of a handler, which is all there is besides a user who waits.
LEMMA HandlerTurn ==
    ASSUME TypeOK, TurnInv, NEW h \in Handler, ThreadStep(h)
    PROVE  TurnInv'
<1>1. Busy(h) /\ thread[h].at \in {"check", "ping", "push"}
  BY DEF ThreadStep, CheckConnected, Ping, Push, SendGossip, GossipReturn,
         SendExit, Depart, Busy, TurnInv, HandlersConnect
<1>2. CheckConnected(h) \/ Ping(h) \/ Push(h)
  BY <1>1 DEF ThreadStep, SendGossip, GossipReturn, SendExit, Depart
<1>3. net = {} /\ \A t \in Thread \ {h} : ~Connecting(t)
  BY <1>1, TwoKinds DEF TurnInv, OneGossip, Alone, Busy, Connecting
<1>4. /\ net' = net
      /\ \A t \in Thread \ {h} : thread'[t] = thread[t]
      /\ \/ thread'[h].at = "idle"
         \/ /\ thread'[h].at \in {"check", "ping", "push"}
            /\ thread'[h].from = thread[h].from
  <2>1. CASE NextAddress(h, "check")
    BY <2>1, <1>2, NextAddressShape, TwoKinds DEF CheckConnected, Ping, Push
  <2>2. ASSUME NEW l \in {"ping", "push"},
               thread' = [thread EXCEPT ![h].at = l]
        PROVE  /\ \A t \in Thread \ {h} : thread'[t] = thread[t]
               /\ thread'[h].at = l /\ thread'[h].from = thread[h].from
    BY <2>2, TwoKinds DEF TypeOK, ThreadType
  <2>3. net' = net /\ (NextAddress(h, "check")
           \/ \E l \in {"ping", "push"} : thread' = [thread EXCEPT ![h].at = l])
    BY <1>2 DEF CheckConnected, Ping, Push
  <2> QED
    BY <2>1, <2>2, <2>3
<1>5. OneUser' /\ Alone' /\ OneGossip' /\ Waited' /\ HandlersConnect'
  BY <1>1, <1>3, <1>4, TwoKinds
  DEF TurnInv, OneUser, Alone, OneGossip, Waited, HandlersConnect, Busy
<1>6. Fresh' /\ NoDuplicates'
  BY <1>2, <1>3, <1>4, StepFresh, TwoKinds DEF TurnInv
<1> QED
  BY <1>5, <1>6 DEF TurnInv

\* Lists only change while nobody connects: nothing has to stay fresh.
LEMMA NobodyConnects ==
    ASSUME TypeOK, NoDuplicates, \A t \in Thread : ~Connecting(t)',
           \/ peers' = peers
           \/ \E n \in Node : peers' = [peers EXCEPT ![n] = << >>]
           \/ \E n \in Node : \E a :
                 peers' = [peers EXCEPT ![n] = Disconnected(peers[n], a)]
    PROVE  Fresh' /\ NoDuplicates'
<1>1. Fresh'
  BY DEF Fresh, Connecting
<1>2. NoDuplicates <=> \A n \in Node : Distinct(peers[n])
  BY DEF NoDuplicates, Distinct
<1>3. ASSUME NEW n \in Node, NEW s, Distinct(s),
             peers' = [peers EXCEPT ![n] = s]
      PROVE  NoDuplicates'
  <2>1. \A k \in Node : peers'[k] = IF k = n THEN s ELSE peers[k]
    BY <1>3 DEF TypeOK
  <2>2. \A k \in Node : Distinct(peers'[k])
    BY <2>1, <1>2, <1>3
  <2> QED
    BY <2>2 DEF NoDuplicates, Distinct
<1>4. Distinct(<< >>)
  BY DEF Distinct
<1>5. \A n \in Node : \A a : Distinct(Disconnected(peers[n], a))
  BY <1>2, DisconnectedDistinct DEF TypeOK
<1>6. CASE peers' = peers
  BY <1>1, <1>6 DEF NoDuplicates
<1>7. CASE \E n \in Node : peers' = [peers EXCEPT ![n] = << >>]
  BY <1>1, <1>3, <1>4, <1>7
<1>8. CASE \E n \in Node : \E a :
              peers' = [peers EXCEPT ![n] = Disconnected(peers[n], a)]
  BY <1>1, <1>3, <1>5, <1>8
<1> QED
  BY <1>1, <1>6, <1>7, <1>8

\* A step of a user.
LEMMA UserTurn ==
    ASSUME InTurn, TypeOK, TurnInv, NEW u \in User, ThreadStep(u)
    PROVE  TurnInv'
<1>1. Busy(u) /\ u \in Thread /\ u \notin Handler /\ u[1] \in Node
      /\ \A v \in User \ {u} : thread[v].at = "idle"
  <2>1. Busy(u)
    BY DEF ThreadStep, CheckConnected, Ping, Push, SendGossip, GossipReturn,
           SendExit, Depart, Busy
  <2> QED
    BY <2>1, TwoKinds DEF TurnInv, OneUser, Busy
\* Nothing else is under way, nor is a gossip that has just returned.
<1>2. net = {} /\ \A h \in Handler : thread[h].at = "idle"
  <2>1. CASE thread[u].at # "gwait"
    BY <2>1, <1>1 DEF TurnInv, Alone, Busy
  <2>2. CASE thread[u].at = "gwait"
    <3>1. ~GossipPending(u)
      BY <2>2 DEF ThreadStep, CheckConnected, Ping, Push, SendGossip,
                  GossipReturn, SendExit, Depart, InTurn
    <3> QED
      BY <2>2, <3>1 DEF GossipPending, TurnInv, Waited, Busy
  <2> QED
    BY <2>1, <2>2
<1>3. ASSUME \A t \in Thread \ {u} : thread'[t] = thread[t],
             \/ net' = {} /\ thread'[u].at # "gwait"
             \/ \E m : net' = {m} /\ m.from = u /\ thread'[u].at = "gwait",
             Fresh' /\ NoDuplicates'
      PROVE  TurnInv'
  <2>1. /\ \A v \in User \ {u} : thread'[v].at = "idle"
        /\ \A h \in Handler : thread'[h].at = "idle"
    BY <1>1, <1>2, <1>3, TwoKinds
  <2>2. OneUser' /\ Alone' /\ OneGossip' /\ Waited' /\ HandlersConnect'
    BY <2>1, <1>3
    DEF OneUser, Alone, OneGossip, Waited, HandlersConnect, Busy
  <2> QED
    BY <2>2, <1>3 DEF TurnInv
<1>4. \A t \in Thread \ {u} : ~Connecting(t)
  BY <1>1, <1>2, TwoKinds DEF Connecting
<1>5. CASE CheckConnected(u) \/ Ping(u) \/ Push(u)
  <2>1. net' = net /\ (NextAddress(u, "check")
           \/ \E l \in {"ping", "push"} : thread' = [thread EXCEPT ![u].at = l])
    BY <1>5 DEF CheckConnected, Ping, Push
  <2>2. /\ \A t \in Thread \ {u} : thread'[t] = thread[t]
        /\ thread'[u].at # "gwait"
    BY <2>1, <1>1, NextAddressShape DEF TypeOK, ThreadType
  <2> QED
    BY <2>1, <2>2, <1>1, <1>2, <1>3, <1>4, <1>5, StepFresh DEF TurnInv
<1>6. CASE SendGossip(u) \/ GossipReturn(u)
  <2>1. /\ peers' = peers
        /\ \/ net' = net /\ NextAddress(u, "gossip")
           \/ /\ \E m : net' = net \cup {m} /\ m.from = u
              /\ thread' = [thread EXCEPT ![u].at = "gwait"]
    <3> DEFINE m == [to |-> Target(u), from |-> u, list |-> thread[u].full]
    <3>1. m.from = u
      OBVIOUS
    <3>2. CASE SendGossip(u)
      <4>1. /\ peers' = peers
            /\ \/ net' = net /\ NextAddress(u, "gossip")
               \/ /\ net' = net \cup {m}
                  /\ thread' = [thread EXCEPT ![u].at = "gwait"]
        BY <3>2 DEF SendGossip
      <4> QED
        BY <4>1, <3>1
    <3>3. CASE GossipReturn(u)
      BY <3>3 DEF GossipReturn
    <3> QED
      BY <1>6, <3>2, <3>3
  <2>2. /\ \A t \in Thread \ {u} : thread'[t] = thread[t]
        /\ \/ net' = {} /\ thread'[u].at \in {"idle", "gossip"}
           \/ /\ \E m : net' = {m} /\ m.from = u
              /\ thread'[u].at = "gwait"
    BY <2>1, <1>1, <1>2, NextAddressShape DEF TypeOK, ThreadType
  <2>3. \A t \in Thread : ~Connecting(t)'
    BY <2>2, <1>4 DEF Connecting
  <2> QED
    BY <2>1, <2>2, <2>3, <1>3, NobodyConnects DEF TurnInv
<1>7. CASE SendExit(u)
  <2>1. /\ net' = net /\ thread[u].at = "exit" /\ thread[u].list # << >>
        /\ thread' = [thread EXCEPT ![u].list = Tail(@)]
    BY <1>7 DEF SendExit
  <2>2. /\ \A t \in Thread \ {u} : thread'[t] = thread[t]
        /\ thread'[u].at = "exit"
    BY <2>1, <1>1 DEF TypeOK, ThreadType
  <2>3. Target(u) \in Node
    BY <2>1, <1>1, TargetType
  <2>4. \/ peers' = peers
        \/ \E n \in Node : \E a :
              peers' = [peers EXCEPT ![n] = Disconnected(peers[n], a)]
    BY <2>3, <1>7 DEF SendExit
  <2>5. \A t \in Thread : ~Connecting(t)'
    BY <2>2, <1>4 DEF Connecting
  <2> QED
    BY <2>1, <2>2, <2>4, <2>5, <1>2, <1>3, NobodyConnects DEF TurnInv
<1>8. CASE Depart(u)
  <2>1. /\ net' = net /\ thread' = [thread EXCEPT ![u] = Idle(u)]
        /\ peers' = [peers EXCEPT ![u[1]] = << >>]
    BY <1>8 DEF Depart
  <2>2. /\ \A t \in Thread \ {u} : thread'[t] = thread[t]
        /\ thread'[u].at = "idle"
    BY <2>1, <1>1 DEF TypeOK, Idle
  <2>3. \A t \in Thread : ~Connecting(t)'
    BY <2>2, <1>4 DEF Connecting
  <2> QED
    BY <2>1, <2>2, <2>3, <1>1, <1>2, <1>3, NobodyConnects DEF TurnInv
<1> QED
  BY <1>5, <1>6, <1>7, <1>8 DEF ThreadStep

\* A gossip reaches its handler.
LEMMA HandleTurn ==
    ASSUME TypeOK, TurnInv, NEW m \in net, NEW h \in Handler,
           HandleGossip(m, h)
    PROVE  TurnInv'
<1>1. /\ \A t \in Thread \ {h} : thread'[t] = thread[t]
      /\ thread'[h].at \in {"idle", "check"}
      /\ thread'[h].at # "idle" => thread'[h].from = m.from
      /\ peers' = [peers EXCEPT ![m.to] = << >>]
      /\ m.to \in Node
  BY TwoKinds DEF HandleGossip, TypeOK, Idle, Up
<1>2. net' = {}
  BY DEF HandleGossip, TurnInv, OneGossip
<1>3. /\ \A u \in User : thread[u].at \in {"idle", "gwait"}
      /\ \A k \in Handler : thread[k].at = "idle"
  BY DEF TurnInv, Alone, OneGossip, Busy
<1>4. OneUser' /\ Alone' /\ OneGossip' /\ HandlersConnect'
  BY <1>1, <1>2, <1>3, TwoKinds
  DEF TurnInv, OneUser, Alone, OneGossip, HandlersConnect, Busy
<1>5. Waited'
  <2> SUFFICES ASSUME NEW u \in User, thread[u].at = "gwait"
               PROVE  \A k \in Handler : thread'[k].at # "idle" =>
                                             thread'[k].from = u
    BY <1>1, <1>2, TwoKinds DEF Waited, Busy
  <2>1. m.from = u
    BY DEF TurnInv, Waited
  <2> QED
    BY <2>1, <1>1, <1>3, TwoKinds
<1>6. \A t \in Thread : ~Connecting(t)'
  BY <1>1, <1>3, TwoKinds DEF Connecting
<1>7. Fresh' /\ NoDuplicates'
  BY <1>1, <1>6, NobodyConnects DEF TurnInv
<1> QED
  BY <1>4, <1>5, <1>7 DEF TurnInv

LEMMA CrashTurn ==
    ASSUME TypeOK, TurnInv, NEW n \in Node, Crash(n) PROVE TurnInv'
<1>1. /\ net' = net /\ peers' = [peers EXCEPT ![n] = << >>]
      /\ \A t \in Thread : /\ t[1] = n => thread'[t].at = "idle"
                           /\ t[1] # n => thread'[t] = thread[t]
  BY DEF Crash, Idle
<1>2. \A t \in Thread : \/ thread'[t].at = "idle"
                        \/ t[1] # n /\ thread'[t] = thread[t]
  BY <1>1
<1>3. OneUser' /\ Alone'
  BY <1>1, <1>2, TwoKinds DEF TurnInv, OneUser, Alone, Busy
<1>4. OneGossip' /\ Waited' /\ HandlersConnect'
  BY <1>1, <1>2, TwoKinds
  DEF TurnInv, OneGossip, Waited, HandlersConnect, Busy
<1>5. Fresh'
  <2> SUFFICES ASSUME NEW t \in Thread, Connecting(t)'
               PROVE  Head(thread'[t].list) \notin Range(peers'[t[1]])
    BY DEF Fresh
  <2>1. t[1] # n /\ thread'[t] = thread[t]
    BY <1>2 DEF Connecting
  <2>2. peers'[t[1]] = peers[t[1]]
    BY <2>1, <1>1, TwoKinds DEF TypeOK
  <2> QED
    BY <2>1, <2>2 DEF TurnInv, Fresh, Connecting
<1>6. NoDuplicates'
  BY <1>1 DEF TurnInv, NoDuplicates, TypeOK
<1> QED
  BY <1>3, <1>4, <1>5, <1>6 DEF TurnInv

LEMMA TurnStep ==
    ASSUME InTurn, TypeOK, TurnInv, [Next]_vars PROVE TurnInv'
<1>1. ASSUME NEW n \in Node, NEW l \in {"check", "gossip", "exit"}, Typed(n),
             net' = net, peers' = peers, NEW r, r.at = l,
             thread' = [thread EXCEPT ![<<n, Main>>] = r]
      PROVE  TurnInv'
  <2>1. <<n, Main>> \in Thread
    BY <1>1 DEF Thread, User
  <2>2. /\ thread'[<<n, Main>>] = r
        /\ \A t \in Thread \ {<<n, Main>>} : thread'[t] = thread[t]
    BY <2>1, <1>1 DEF TypeOK
  <2> QED
    BY <2>2, <1>1, TypedTurn
<1>2. ASSUME NEW n \in Node, NEW a \in Addr, Join(n, a) PROVE TurnInv'
  <2> DEFINE r == [thread[<<n, Main>>] EXCEPT !.at = "check", !.list = <<a>>]
  <2>1. r.at = "check"
    BY <1>2, ThreadNode DEF TypeOK, ThreadType
  <2>2. /\ Typed(n) /\ net' = net /\ peers' = peers
        /\ thread' = [thread EXCEPT ![<<n, Main>>] = r]
    BY <1>2, ThreadNode DEF Join, TypeOK
  <2> QED
    BY <2>1, <2>2, <1>1
<1>3. ASSUME NEW n \in Node, Gossip(n) PROVE TurnInv'
  <2> DEFINE r == [thread[<<n, Main>>] EXCEPT
                     !.at = "gossip", !.list = peers[n],
                     !.full = Append(peers[n], Self[n])]
  <2>1. r.at = "gossip"
    BY <1>3, ThreadNode DEF TypeOK, ThreadType
  <2>2. /\ Typed(n) /\ net' = net /\ peers' = peers
        /\ thread' = [thread EXCEPT ![<<n, Main>>] = r]
    BY <1>3, ThreadNode DEF Gossip, TypeOK
  <2> QED
    BY <2>1, <2>2, <1>1
<1>4. ASSUME NEW n \in Node, Quit(n) PROVE TurnInv'
  <2> DEFINE r == [thread[<<n, Main>>] EXCEPT !.at = "exit",
                                              !.list = peers[n]]
  <2>1. r.at = "exit"
    BY <1>4, ThreadNode DEF TypeOK, ThreadType
  <2>2. /\ Typed(n) /\ net' = net /\ peers' = peers
        /\ thread' = [thread EXCEPT ![<<n, Main>>] = r]
    BY <1>4, ThreadNode DEF Quit, TypeOK
  <2> QED
    BY <2>1, <2>2, <1>1
<1>5. ASSUME NEW n \in Node, NEW a \in Addr, Leave(n, a) PROVE TurnInv'
  <2>1. /\ \A t \in Thread : thread[t].at = "idle"
        /\ thread' = thread /\ net' = net
        /\ peers' = [peers EXCEPT ![n] = Disconnected(peers[n], a)]
    BY <1>5 DEF Leave, Typed, InTurn, Quiet, Busy
  <2>2. Fresh' /\ NoDuplicates'
    BY <2>1, NobodyConnects DEF TurnInv, Connecting
  <2> QED
    BY <2>1, <2>2
    DEF TurnInv, OneUser, Alone, OneGossip, Waited, HandlersConnect, Busy
<1>6. ASSUME NEW m \in net, LoseGossip(m) PROVE TurnInv'
  BY <1>6 DEF LoseGossip, TurnInv, OneUser, Alone, OneGossip, Waited,
              HandlersConnect, Busy, Fresh, Connecting, NoDuplicates
<1>7. CASE UNCHANGED vars
  BY <1>7 DEF vars, TurnInv, OneUser, Alone, OneGossip, Waited,
              HandlersConnect, Busy, Fresh, Connecting, NoDuplicates
<1>8. ASSUME NEW t \in Thread, ThreadStep(t) PROVE TurnInv'
  BY <1>8, TwoKinds, HandlerTurn, UserTurn
<1> QED
  BY <1>2, <1>3, <1>4, <1>5, <1>6, <1>7, <1>8, HandleTurn, CrashTurn DEF Next

\* Commands given one at a time list nobody twice: the test of ConnectToPeer,
\* made before the ping, still holds when the address is stored.
THEOREM NobodyListedTwice == ASSUME InTurn PROVE Spec => []NoDuplicates
<1>1. TurnInv => NoDuplicates
  BY DEF TurnInv
<1> QED
  BY <1>1, TurnInit, TurnStep, TypeCorrect, PTL DEF Spec

-----------------------------------------------------------------------------
\* All clients find the same client behind an address, and each client behind
\* the address it gives as its own; no ping and no call to a client that is
\* up fails.
OneView ==
    /\ \A m, n \in Node : Reach[m] = Reach[n]
    /\ \A n \in Node : Reach[n][Self[n]] = n

Dependable == InTurn /\ ~Flaky /\ OneView

\* The list has an address of q.
Names(list, q) == \E a \in Range(list) : Reach[q][a] = q

Covers(list) == \A q \in group : Names(list, q)

\* How far the gossip has come with p: p is on the sender's list, or the
\* request is on its way, or p has or is about to get to every other member.
Untold(p) ==
    \E u \in User : \/ thread[u].at = "gossip" /\ Names(thread[u].list, p)
                    \/ /\ thread[u].at = "gwait"
                       /\ Names(Tail(thread[u].list), p)

Coming(p) == \E m \in net : m.to = p

Knows(p) ==
    \A q \in (group \cap Up) \ {p} :
        \/ Names(peers[p], q)
        \/ \E h \in Handler : h[1] = p /\ Busy(h) /\ Names(thread[h].list, q)

Living == \A u \in User : Busy(u) => u[1] \in Up

Telling ==
    /\ \A u \in User : Busy(u) =>
          thread[u].at \in {"gossip", "gwait"} /\ Covers(thread[u].full)
    /\ \A m \in net : /\ Covers(m.list)
                      /\ m.from \in User /\ thread[m.from].at = "gwait"

Meshing == \A p \in group \cap Up : Untold(p) \/ Coming(p) \/ Knows(p)

MeshInv == Living /\ (group # {} => Telling /\ Meshing)

-----------------------------------------------------------------------------
\* What goes with the head of a list was under that address.
LEMMA HeadOrTail ==
    ASSUME NEW list \in Seq(Addr), list # << >>, NEW q, Names(list, q)
    PROVE  Reach[q][Head(list)] = q \/ Names(Tail(list), q)
<1>1. PICK i \in 1 .. Len(list) : Reach[q][list[i]] = q
  BY DEF Names, Range
<1>2. CASE i = 1
  BY <1>1, <1>2
<1>3. CASE i # 1
  <2>1. /\ i - 1 \in DOMAIN Tail(list)
        /\ Tail(list)[i - 1] = list[i]
    BY <1>3, HeadTailProperties
  <2> QED
    BY <1>1, <2>1 DEF Names, Range
<1> QED
  BY <1>2, <1>3

LEMMA NamesAppend ==
    ASSUME NEW list \in Seq(Addr), NEW a \in Addr, NEW q
    PROVE  Names(Append(list, a), q) <=> Names(list, q) \/ Reach[q][a] = q
<1>1. Range(Append(list, a)) = Range(list) \cup {a}
  <2>1. /\ DOMAIN Append(list, a) = 1 .. Len(list) + 1
        /\ \A i \in 1 .. Len(list) : Append(list, a)[i] = list[i]
        /\ Append(list, a)[Len(list) + 1] = a
        /\ DOMAIN list = 1 .. Len(list)
    BY AppendProperties
  <2> QED
    BY <2>1 DEF Range
<1> QED
  BY <1>1 DEF Names

\* A thread that goes on has the tail of its list left, or nothing.
LEMMA GoesOn ==
    ASSUME TypeOK, NEW t \in Thread, thread[t].list # << >>, NEW label,
           NextAddress(t, label)
    PROVE  /\ \A u \in Thread \ {t} : thread'[u] = thread[u]
           /\ \/ /\ thread'[t].at = "idle"
                 /\ \A q : ~Names(Tail(thread[t].list), q)
              \/ /\ thread'[t].at = label
                 /\ thread'[t].list = Tail(thread[t].list)
                 /\ thread'[t].full = thread[t].full
<1>1. thread[t] \in ThreadType /\ thread[t].list \in Seq(Addr)
  BY DEF TypeOK, ThreadType
<1>2. CASE Len(thread[t].list) > 1
  BY <1>1, <1>2 DEF NextAddress, TypeOK, ThreadType
<1>3. CASE ~(Len(thread[t].list) > 1)
  <2>1. Tail(thread[t].list) = << >>
    BY <1>1, <1>3, HeadTailProperties, EmptySeq
  <2>2. \A q : ~Names(Tail(thread[t].list), q)
    BY <2>1 DEF Names, Range
  <2> QED
    BY <1>3, <2>2 DEF NextAddress, TypeOK, Idle
<1> QED
  BY <1>2, <1>3

LEMMA MeshInit == Init => MeshInv
BY DEF Init, MeshInv, Living, Busy, Idle, Thread

\* Whoever works is up.
LEMMA LivingStep ==
    ASSUME TypeOK, TurnInv, Living, [Next]_vars PROVE Living'
<1> USE DEF Living, Busy
<1>1. ASSUME NEW n \in Node, Typed(n), status' = status,
             \A t \in Thread \ {<<n, Main>>} : thread'[t] = thread[t]
      PROVE  Living'
  BY <1>1, TwoKinds DEF Typed, Up
<1>2. ASSUME NEW n \in Node, Gossip(n) \/ Quit(n) PROVE Living'
  <2>1. /\ Typed(n) /\ status' = status
        /\ \A t \in Thread \ {<<n, Main>>} : thread'[t] = thread[t]
    BY <1>2 DEF Gossip, Quit, TypeOK
  <2> QED
    BY <2>1, <1>1
<1>3. ASSUME NEW n \in Node, NEW a \in Addr, Join(n, a) \/ Leave(n, a)
      PROVE  Living'
  <2>1. /\ Typed(n) /\ status' = status
        /\ \A t \in Thread \ {<<n, Main>>} : thread'[t] = thread[t]
    BY <1>3 DEF Join, Leave, TypeOK
  <2> QED
    BY <2>1, <1>1
<1>4. ASSUME NEW n \in Node, Crash(n) PROVE Living'
  <2>1. \A u \in User : /\ u[1] = n => thread'[u].at = "idle"
                        /\ u[1] # n => /\ thread'[u] = thread[u]
                                       /\ status'[u[1]] = status[u[1]]
    BY <1>4, TwoKinds DEF Crash, Idle, TypeOK
  <2> QED
    BY <2>1 DEF Up
<1>5. ASSUME NEW t \in Thread, ThreadStep(t), ~Depart(t) PROVE Living'
  <2>1. /\ status' = status /\ thread[t].at # "idle"
        /\ \A u \in Thread \ {t} : thread'[u] = thread[u]
    BY <1>5 DEF ThreadStep, CheckConnected, Ping, Push, SendGossip,
                GossipReturn, SendExit, NextAddress, TypeOK
  <2> QED
    BY <2>1, TwoKinds DEF Up
<1>6. ASSUME NEW t \in Thread, Depart(t) PROVE Living'
  <2>1. /\ status' = [status EXCEPT ![t[1]] = "gone"]
        /\ thread'[t].at = "idle"
        /\ \A u \in Thread \ {t} : thread'[u] = thread[u]
        /\ thread[t].at = "exit"
    BY <1>6 DEF Depart, TypeOK, Idle
  <2>2. t \in User
    BY <2>1, TwoKinds DEF TurnInv, HandlersConnect
  <2>3. \A u \in User : thread'[u].at = "idle"
    BY <2>1, <2>2, TwoKinds DEF TurnInv, OneUser
  <2> QED
    BY <2>3
<1>7. ASSUME NEW m \in net, NEW h \in Handler, HandleGossip(m, h)
      PROVE  Living'
  <2>1. status' = status /\ \A u \in Thread \ {h} : thread'[u] = thread[u]
    BY <1>7 DEF HandleGossip, TypeOK
  <2> QED
    BY <2>1, TwoKinds DEF Up
<1>8. ASSUME NEW m \in net, LoseGossip(m) PROVE Living'
  BY <1>8 DEF LoseGossip, Up
<1>9. CASE UNCHANGED vars
  BY <1>9 DEF vars, Up
<1> QED
  BY <1>2, <1>3, <1>4, <1>5, <1>6, <1>7, <1>8, <1>9 DEF Next

\* A handler gets its client to the next member, or to one that it has.
LEMMA HandlerMesh ==
    ASSUME Dependable, TypeOK, TurnInv, Telling, Meshing,
           NEW h \in Handler, ThreadStep(h)
    PROVE  Telling' /\ Meshing'
<1> DEFINE p == h[1]
           a == Head(thread[h].list)
<1>1. /\ thread[h].at \in {"check", "ping", "push"} /\ Busy(h)
      /\ CheckConnected(h) \/ Ping(h) \/ Push(h)
  BY DEF ThreadStep, CheckConnected, Ping, Push, SendGossip, GossipReturn,
         SendExit, Depart, Busy, TurnInv, HandlersConnect
<1>2. /\ h \in Thread /\ p \in Node /\ thread[h].list # << >>
      /\ thread[h].list \in Seq(Addr) /\ a \in Addr
      /\ \A n \in Node : peers[n] \in Seq(Addr)
  BY <1>1, TwoKinds, TargetType DEF TypeOK, ThreadType
<1>3. /\ UNCHANGED <<status, net, group>> /\ Up' = Up
      /\ \A t \in Thread \ {h} : thread'[t] = thread[t]
      /\ \A n \in Node \ {p} : peers'[n] = peers[n]
      /\ \A q : Names(peers[p], q) => Names(peers'[p], q)
  <2>1. UNCHANGED <<status, net, group>> /\ Up' = Up
    BY <1>1 DEF CheckConnected, Ping, Push, Up
  <2>2. \A t \in Thread \ {h} : thread'[t] = thread[t]
    BY <1>1, <1>2 DEF CheckConnected, Ping, Push, NextAddress, TypeOK
  <2>3. peers' = peers \/ peers' = [peers EXCEPT ![p] = Append(peers[p], a)]
    BY <1>1 DEF CheckConnected, Ping, Push
  <2>4. \A q : Names(peers[p], q) => Names(Append(peers[p], a), q)
    BY <1>2, NamesAppend
  <2> HIDE DEF a
  <2> QED
    BY <2>1, <2>2, <2>3, <2>4, <1>2 DEF TypeOK
<1>4. /\ \A u \in User : thread'[u] = thread[u]
      /\ \A k \in Handler \ {h} : thread'[k] = thread[k]
  BY <1>3, TwoKinds
<1>5. Telling'
  <2>1. \A list : Covers(list)' <=> Covers(list)
    BY <1>3 DEF Covers, Names
  <2>2. \A u \in User : Busy(u)' <=> Busy(u)
    BY <1>4 DEF Busy
  <2> QED
    BY <2>1, <2>2, <1>3, <1>4 DEF Telling, Covers, Names
<1>6. \A k : (Untold(k)' <=> Untold(k)) /\ (Coming(k)' <=> Coming(k))
  BY <1>3, <1>4 DEF Untold, Coming, Names
<1>7. ASSUME NEW k \in Node, k # p, Knows(k) PROVE Knows(k)'
  <2>1. \A x \in Handler : x[1] = k => thread'[x] = thread[x]
    BY <1>4, <1>7
  <2> QED
    BY <2>1, <1>3, <1>7 DEF Knows, Names, Busy
\* What it had to go through it has, has still to go through, or is down.
<1>8. ASSUME NEW q \in Up, q # p, Names(thread[h].list, q)
      PROVE  \/ Names(peers'[p], q)
             \/ thread'[h].at # "idle" /\ Names(thread'[h].list, q)
  <2>1. Reach[q][a] = q \/ Names(Tail(thread[h].list), q)
    BY <1>2, <1>8, HeadOrTail
  <2>2. q \in Node /\ Reach[q][a] = Reach[p][a]
    BY <1>2 DEF Dependable, OneView, Up
  <2>3. CASE NextAddress(h, "check") /\ Names(Tail(thread[h].list), q)
    BY <2>3, <1>2, GoesOn
  <2>4. ASSUME thread' = [thread EXCEPT ![h].at = "ping"]
                  \/ thread' = [thread EXCEPT ![h].at = "push"]
        PROVE  thread'[h].at # "idle" /\ Names(thread'[h].list, q)
    BY <2>4, <1>2, <1>8 DEF TypeOK, ThreadType
  <2>5. CASE Reach[q][a] = q /\ NextAddress(h, "check")
    <3>1. CASE CheckConnected(h) /\ Skips(h)
      BY <3>1, <2>2, <2>5, <1>2, <1>8 DEF Skips, Dependable, OneView
    <3>2. CASE CheckConnected(h) /\ Connected(p, a)
      BY <3>2, <2>5, <1>3 DEF Connected, Names
    <3>3. CASE CheckConnected(h) /\ ~Skips(h) /\ ~Connected(p, a)
      BY <3>3, <2>4 DEF CheckConnected
    <3>4. CASE Ping(h) /\ Target(h) \notin Up
      BY <3>4, <2>2, <2>5, <1>8 DEF Target
    <3>5. CASE Ping(h) /\ Target(h) \in Up
      BY <3>5, <2>4 DEF Ping, Dependable
    <3>6. CASE Push(h)
      <4>1. peers'[p] = Append(peers[p], a)
        BY <3>6, <1>2 DEF Push, TypeOK
      <4> QED
        BY <4>1, <2>5, <1>2, NamesAppend
    <3> QED
      BY <3>1, <3>2, <3>3, <3>4, <3>5, <3>6, <1>1
  <2>6. \/ NextAddress(h, "check")
        \/ thread' = [thread EXCEPT ![h].at = "ping"]
        \/ thread' = [thread EXCEPT ![h].at = "push"]
    BY <1>1 DEF CheckConnected, Ping, Push
  <2> QED
    BY <2>1, <2>3, <2>4, <2>5, <2>6
<1>9. ASSUME Knows(p) PROVE Knows(p)'
  <2> SUFFICES ASSUME NEW q \in (group \cap Up) \ {p}
               PROVE  \/ Names(peers'[p], q)
                      \/ \E x \in Handler : /\ x[1] = p /\ thread'[x].at # "idle"
                                            /\ Names(thread'[x].list, q)
    BY <1>3 DEF Knows, Names, Busy
  <2>1. CASE Names(peers[p], q)
    BY <2>1, <1>3
  <2>2. CASE \E x \in Handler : x[1] = p /\ Busy(x) /\ Names(thread[x].list, q)
    <3>1. PICK x \in Handler : x[1] = p /\ Busy(x) /\ Names(thread[x].list, q)
      BY <2>2
    <3>2. CASE x = h
      BY <3>1, <3>2, <1>8
    <3>3. CASE x # h
      BY <3>1, <3>3, <1>4 DEF Busy
    <3> QED
      BY <3>2, <3>3
  <2> QED
    BY <2>1, <2>2, <1>9 DEF Knows
<1>10. Meshing'
  <2> SUFFICES ASSUME NEW k \in group \cap Up
               PROVE  Untold(k)' \/ Coming(k)' \/ Knows(k)'
    BY <1>3 DEF Meshing
  <2>1. k \in Node
    BY DEF Up
  <2> QED
    BY <2>1, <1>6, <1>7, <1>9 DEF Meshing
<1> QED
  BY <1>5, <1>10

\* The sender tells the next member, or has been answered by it.
LEMMA UserMesh ==
    ASSUME Dependable, TypeOK, TurnInv, Telling, Meshing,
           NEW u \in User, ThreadStep(u)
    PROVE  Telling' /\ Meshing'
<1> DEFINE list == thread[u].list
           m == [to |-> Target(u), from |-> u, list |-> thread[u].full]
<1>1. /\ thread[u].at \in {"gossip", "gwait"} /\ Covers(thread[u].full)
      /\ SendGossip(u) \/ GossipReturn(u)
      /\ \A v \in User \ {u} : thread[v].at = "idle"
  BY DEF ThreadStep, CheckConnected, Ping, Push, SendGossip, GossipReturn,
         SendExit, Depart, Busy, Telling, TurnInv, OneUser
<1>2. /\ u \in Thread /\ u[1] \in Node /\ list # << >> /\ list \in Seq(Addr)
      /\ Target(u) \in Node
  BY <1>1, TwoKinds, TargetType DEF TypeOK, ThreadType
<1>3. /\ UNCHANGED <<status, peers, group>> /\ Up' = Up
      /\ \A t \in Thread \ {u} : thread'[t] = thread[t]
  BY <1>1, <1>2 DEF SendGossip, GossipReturn, NextAddress, TypeOK, Up
<1>4. /\ \A h \in Handler : thread'[h] = thread[h]
      /\ \A v \in User \ {u} : thread'[v].at = "idle"
  BY <1>1, <1>3, TwoKinds
<1>5. \A k : Knows(k)' <=> Knows(k)
  BY <1>3, <1>4 DEF Knows, Names, Busy
<1>6. \A l : Covers(l)' <=> Covers(l)
  BY <1>3 DEF Covers, Names
<1>7. \A k : Untold(k) <=> \/ thread[u].at = "gossip" /\ Names(list, k)
                           \/ thread[u].at = "gwait" /\ Names(Tail(list), k)
  BY <1>1 DEF Untold
<1>8. \A k : Untold(k)' <=>
         \/ thread'[u].at = "gossip" /\ Names(thread'[u].list, k)
         \/ thread'[u].at = "gwait" /\ Names(Tail(thread'[u].list), k)
  BY <1>4 DEF Untold, Names
<1>9. ASSUME thread[u].at = "gwait" => net = {}, net' = net,
             NextAddress(u, "gossip"),
             thread[u].at = "gossip" => Target(u) \notin Up
      PROVE  Telling' /\ Meshing'
  <2>1. net = {}
    BY <1>1, <1>9 DEF TurnInv, Alone, Busy
  <2>2. \/ /\ thread'[u].at = "idle" /\ \A q : ~Names(Tail(list), q)
        \/ /\ thread'[u].at = "gossip" /\ thread'[u].list = Tail(list)
           /\ thread'[u].full = thread[u].full
    BY <1>2, <1>9, GoesOn
  <2>3. Telling'
    BY <2>1, <2>2, <1>1, <1>4, <1>6, <1>9 DEF Telling, Busy, Covers, Names
  <2>4. ASSUME NEW k \in Up, Untold(k) PROVE Untold(k)'
    <3>1. Names(Tail(list), k)
      <4>1. CASE thread[u].at = "gwait"
        BY <4>1, <2>4, <1>7
      <4>2. CASE thread[u].at = "gossip"
        <5>1. Reach[k][Head(list)] = k \/ Names(Tail(list), k)
          BY <4>2, <2>4, <1>2, <1>7, HeadOrTail
        <5>2. Reach[k][Head(list)] # k
          BY <4>2, <2>4, <1>2, <1>9 DEF Target, Dependable, OneView, Up
        <5> QED
          BY <5>1, <5>2
      <4> QED
        BY <4>1, <4>2, <1>1
    <3> QED
      BY <3>1, <2>2, <1>8
  <2>5. Meshing'
    <3>1. \A k : ~Coming(k)
      BY <2>1 DEF Coming
    <3> QED
      BY <3>1, <2>4, <1>3, <1>5 DEF Meshing
  <2> QED
    BY <2>3, <2>5
<1>10. CASE SendGossip(u) /\ net' = net \cup {m}
                /\ thread' = [thread EXCEPT ![u].at = "gwait"]
  <2>1. /\ m.to = Target(u) /\ m.from = u /\ m.list = thread[u].full
    OBVIOUS
  <2>2. /\ thread'[u].at = "gwait" /\ thread'[u].list = list
        /\ thread'[u].full = thread[u].full
        /\ net = {} /\ thread[u].at = "gossip"
    BY <1>1, <1>2, <1>10
    DEF TypeOK, ThreadType, SendGossip, TurnInv, Alone, Busy
  <2> HIDE DEF m, list
  <2>3. net' = {m}
    BY <1>10, <2>2
  <2>4. Telling'
    <3>1. /\ \A v \in User : Busy(v)' => v = u
          /\ \A q \in group' : Names(thread'[u].full, q)
      BY <2>2, <1>1, <1>3, <1>4 DEF Busy, Covers
    <3>2. /\ \A k \in net' : k = m
          /\ \A q \in group' : Names(m.list, q)
      BY <2>1, <2>3, <1>1, <1>3 DEF Covers
    <3> QED
      BY <3>1, <3>2, <2>1, <2>2 DEF Telling, Covers, Names
  <2>5. ASSUME NEW k \in Node, Untold(k) PROVE Untold(k)' \/ Coming(k)'
    <3>1. Reach[k][Head(list)] = k \/ Names(Tail(list), k)
      BY <2>2, <2>5, <1>2, <1>7, HeadOrTail
    <3>2. Reach[k][Head(list)] = k => m.to = k
      BY <2>1, <2>5, <1>2 DEF Target, Dependable, OneView, list
    <3> QED
      BY <3>1, <3>2, <2>2, <2>3, <1>8 DEF Coming
  <2>6. \A k : ~Coming(k)
    BY <2>2 DEF Coming
  <2>7. Meshing'
    BY <2>5, <2>6, <1>3, <1>5 DEF Meshing, Up
  <2> QED
    BY <2>4, <2>7
<1>11. CASE SendGossip(u) /\ ~(net' = net \cup {m}
                /\ thread' = [thread EXCEPT ![u].at = "gwait"])
  <2>1. /\ Target(u) \notin Up /\ NextAddress(u, "gossip") /\ net' = net
        /\ thread[u].at = "gossip"
    BY <1>11 DEF SendGossip, Dependable
  <2> QED
    BY <2>1, <1>9
<1>12. CASE GossipReturn(u)
  <2>1. /\ thread[u].at = "gwait" /\ ~GossipPending(u) /\ net' = net
        /\ NextAddress(u, "gossip")
    BY <1>12 DEF GossipReturn, Dependable, InTurn
  <2>2. net = {}
    BY <2>1 DEF GossipPending, TurnInv, Waited
  <2> QED
    BY <2>1, <2>2, <1>9
<1> QED
  BY <1>1, <1>10, <1>11, <1>12

\* A member forgets its peers and has all the others to connect to.
LEMMA HandleMesh ==
    ASSUME Dependable, TypeOK, TurnInv, Telling, Meshing,
           NEW m \in net, NEW h \in Handler, HandleGossip(m, h)
    PROVE  Telling' /\ Meshing'
<1> DEFINE p == m.to
<1>1. /\ UNCHANGED <<status, group>> /\ Up' = Up
      /\ p \in Up /\ h[1] = p /\ net' = {} /\ net = {m}
      /\ \A k \in Node \ {p} : peers'[k] = peers[k]
      /\ thread' = [thread EXCEPT ![h] =
                      IF m.list = << >> THEN Idle(h)
                      ELSE [at |-> "check", list |-> m.list,
                            full |-> << >>, from |-> m.from]]
  BY DEF HandleGossip, TypeOK, Up, TurnInv, OneGossip
<1>2. /\ \A t \in Thread \ {h} : thread'[t] = thread[t]
      /\ m.list # << >> => thread'[h].at = "check" /\ thread'[h].list = m.list
  BY <1>1, TwoKinds DEF TypeOK
<1>3. /\ \A u \in User : thread'[u] = thread[u]
      /\ \A x \in Handler \ {h} : thread'[x] = thread[x]
  BY <1>2, TwoKinds
<1>4. Telling'
  BY <1>1, <1>3 DEF Telling, Covers, Names, Busy
<1>5. \A q \in group : Names(m.list, q)
  BY DEF Telling, Covers
<1>6. Knows(p)'
  <2> SUFFICES ASSUME NEW q \in group
               PROVE  thread'[h].at # "idle" /\ Names(thread'[h].list, q)
    BY <1>1 DEF Knows, Names, Busy
  <2>1. Names(m.list, q) /\ m.list # << >>
    BY <1>5 DEF Names, Range
  <2> QED
    BY <2>1, <1>2
<1>7. ASSUME NEW k \in group \cap Up, k # p
      PROVE  Untold(k)' \/ Knows(k)'
  <2>1. Untold(k) \/ Knows(k)
    BY <1>1, <1>7 DEF Meshing, Coming
  <2>2. Untold(k) => Untold(k)'
    BY <1>3 DEF Untold, Names
  <2>3. Knows(k) => Knows(k)'
    <3>1. \A x \in Handler : x[1] = k => thread'[x] = thread[x]
      BY <1>1, <1>3, <1>7
    <3>2. peers'[k] = peers[k]
      BY <1>1, <1>7 DEF Up
    <3> QED
      BY <3>1, <3>2, <1>1 DEF Knows, Names, Busy
  <2> QED
    BY <2>1, <2>2, <2>3
<1>8. Meshing'
  BY <1>1, <1>6, <1>7 DEF Meshing
<1> QED
  BY <1>4, <1>8

\* A request is only lost with the client it was for.
LEMMA LoseMesh ==
    ASSUME Dependable, Living, Telling, Meshing, NEW m \in net, LoseGossip(m)
    PROVE  Telling' /\ Meshing'
<1>1. /\ m.to \notin Up /\ net' = net \ {m} /\ Up' = Up
      /\ UNCHANGED <<peers, thread, group>>
  BY DEF LoseGossip, Dependable, Living, Telling, Busy, Up
<1>2. Telling'
  BY <1>1 DEF Telling, Covers, Names, Busy
<1>3. \A k \in Up : Coming(k) => Coming(k)'
  BY <1>1 DEF Coming
<1>4. \A k : (Untold(k) => Untold(k)') /\ (Knows(k) => Knows(k)')
  BY <1>1 DEF Untold, Knows, Names, Busy
<1> QED
  BY <1>1, <1>2, <1>3, <1>4 DEF Meshing

\* A member that crashes while the sender lives takes nothing with it.
LEMMA CrashMesh ==
    ASSUME TypeOK, Telling, Meshing, NEW n \in Node, Crash(n),
           ~Busy(<<n, Main>>)
    PROVE  Telling' /\ Meshing'
<1>1. /\ UNCHANGED <<net, group>> /\ Up' = Up \ {n}
      /\ \A k \in Node \ {n} : peers'[k] = peers[k]
      /\ \A t \in Thread : /\ t[1] = n => thread'[t].at = "idle"
                           /\ t[1] # n => thread'[t] = thread[t]
  BY DEF Crash, TypeOK, Up, Idle
<1>2. \A u \in User : /\ Busy(u)' <=> Busy(u)
                      /\ Busy(u) => thread'[u] = thread[u]
  <2>1. \A u \in User : u[1] = n => u = <<n, Main>>
    BY DEF User
  <2> QED
    BY <2>1, <1>1, TwoKinds DEF Busy
<1>3. Telling'
  BY <1>1, <1>2 DEF Telling, Covers, Names, Busy
<1>4. \A k : Untold(k) => Untold(k)'
  BY <1>2 DEF Untold, Names, Busy
<1>5. \A k : Coming(k) => Coming(k)'
  BY <1>1 DEF Coming
<1>6. ASSUME NEW k \in Node, k # n, Knows(k) PROVE Knows(k)'
  <2>1. \A x \in Handler : x[1] = k => thread'[x] = thread[x]
    BY <1>1, <1>6, TwoKinds
  <2> QED
    BY <2>1, <1>1, <1>6 DEF Knows, Names, Busy
<1>7. Meshing'
  BY <1>1, <1>4, <1>5, <1>6 DEF Meshing, Up
<1> QED
  BY <1>3, <1>7

\* A gossip begins: the sender has everybody on its list but itself.
LEMMA GossipMesh ==
    ASSUME Dependable, TypeOK, NEW n \in Node, Gossip(n)
    PROVE  Telling' /\ Meshing'
<1> DEFINE u == <<n, Main>>
<1>1. u \in User /\ u \in Thread /\ u[1] = n
  BY DEF User, Thread
<1>2. /\ net = {} /\ net' = {} /\ \A t \in Thread : thread[t].at = "idle"
      /\ UNCHANGED <<status, peers>> /\ Up' = Up
      /\ group' = {n} \cup {Reach[n][a] : a \in Range(peers[n])}
      /\ thread' = [thread EXCEPT ![u] =
                      [thread[u] EXCEPT !.at = "gossip", !.list = peers[n],
                         !.full = Append(peers[n], Self[n])]]
  BY <1>1 DEF Gossip, Typed, Dependable, InTurn, Quiet, Busy, TypeOK, Up
<1>3. /\ thread'[u].at = "gossip" /\ thread'[u].list = peers[n]
      /\ thread'[u].full = Append(peers[n], Self[n])
      /\ \A t \in Thread \ {u} : thread'[t].at = "idle"
  BY <1>1, <1>2 DEF TypeOK, ThreadType
<1> HIDE DEF u
<1>4. peers[n] \in Seq(Addr) /\ Self[n] \in Addr
  BY NetworkAssumption DEF TypeOK
<1>5. \A q \in group' : q # n => Names(peers[n], q)
  <2> SUFFICES ASSUME NEW a \in Range(peers[n])
               PROVE  Names(peers[n], Reach[n][a])
    BY <1>2
  <2>1. Reach[n][a] \in Node /\ Reach[Reach[n][a]] = Reach[n]
    BY <1>4, NetworkAssumption DEF Dependable, OneView, Range
  <2> QED
    BY <2>1 DEF Names
<1>6. \A q \in group' : Names(Append(peers[n], Self[n]), q)
  BY <1>4, <1>5, NamesAppend DEF Dependable, OneView
<1>7. Telling'
  <2>1. \A v \in User : thread'[v].at # "idle" => v = u
    BY <1>3, TwoKinds
  <2>2. \A q \in group' : Names(thread'[u].full, q)
    BY <1>3, <1>6
  <2> QED
    BY <2>1, <2>2, <1>2, <1>3 DEF Telling, Covers, Names, Busy
<1>8. Knows(n)'
  BY <1>2, <1>5 DEF Knows, Names
<1>9. ASSUME NEW k \in group', k # n PROVE Untold(k)'
  BY <1>1, <1>3, <1>5, <1>9 DEF Untold, Names
<1>10. Meshing'
  BY <1>8, <1>9 DEF Meshing
<1> QED
  BY <1>7, <1>10

LEMMA MeshStep ==
    ASSUME Dependable, TypeOK, TurnInv, MeshInv, [Next]_vars PROVE MeshInv'
<1>1. Living'
  BY LivingStep DEF MeshInv
<1> SUFFICES ASSUME group' # {} PROVE Telling' /\ Meshing'
  BY <1>1 DEF MeshInv
<1>2. CASE \E n \in Node : Gossip(n)
  BY <1>2, GossipMesh
<1>3. CASE ~\E n \in Node : Gossip(n)
  <2>1. /\ group' = group
        /\ \A n \in Node : Crash(n) => ~Busy(<<n, Main>>)
        /\ \A n \in Node : ~Quit(n)
        /\ \A n \in Node, a \in Addr : ~Join(n, a) /\ ~Leave(n, a)
    <3>1. \A t \in Thread : ThreadStep(t) => group' = group
      BY DEF ThreadStep, CheckConnected, Ping, Push, SendGossip, GossipReturn,
             SendExit, Depart
    <3> QED
      BY <1>3, <3>1
      DEF Next, vars, Quit, Join, Leave, Crash, HandleGossip, LoseGossip
  <2>2. Living /\ Telling /\ Meshing
    BY <2>1 DEF MeshInv
  <2>3. ASSUME UNCHANGED vars PROVE Telling' /\ Meshing'
    <3>1. Up' = Up
      BY <2>3 DEF vars, Up
    <3> QED
      BY <2>2, <2>3, <3>1 DEF vars, Telling, Meshing, Covers, Names, Busy,
                              Untold, Coming, Knows
  <2>4. ASSUME NEW t \in Thread, ThreadStep(t) PROVE Telling' /\ Meshing'
    BY <2>2, <2>4, TwoKinds, HandlerMesh, UserMesh
  <2> QED
    BY <1>3, <2>1, <2>2, <2>3, <2>4, HandleMesh, LoseMesh, CrashMesh DEF Next
<1> QED
  BY <1>2, <1>3

\* A gossip that nothing crosses ties its group together, whoever dies on
\* the way: once it is over every two members that are up list each other.
THEOREM GossipTiesTheGroup == ASSUME Dependable PROVE Spec => []GossipMakesMesh
<1>1. TypeOK /\ MeshInv => GossipMakesMesh
  <2> SUFFICES ASSUME TypeOK, MeshInv, Quiet,
                      NEW m \in group \cap Up, NEW n \in group \cap Up, m # n
               PROVE  \E a \in Range(peers[m]) : Reach[m][a] = n
    BY DEF GossipMakesMesh
  <2>1. /\ \A t \in Thread : thread[t].at = "idle"
        /\ net = {}
    BY DEF Quiet, Busy
  <2>2. Knows(m)
    <3>1. ~Untold(m) /\ ~Coming(m)
      BY <2>1, TwoKinds DEF Untold, Coming
    <3> QED
      BY <3>1 DEF MeshInv, Meshing
  <2>3. Names(peers[m], n)
    BY <2>1, <2>2, TwoKinds DEF Knows, Busy
  <2>4. m \in Node /\ n \in Node
    BY DEF Up
  <2> QED
    BY <2>3, <2>4 DEF Names, Dependable, OneView
<1>2. Dependable => InTurn
  BY DEF Dependable
<1> QED
  BY <1>1, <1>2, MeshInit, MeshStep, TurnInit, TurnStep, TypeCorrect, PTL
  DEF Spec
=============================================================================
