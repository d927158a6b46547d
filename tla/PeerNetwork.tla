---------------------------- MODULE PeerNetwork ----------------------------
(***************************************************************************)
(* Who is connected to whom: connected_peers_ of every client, changed by  *)
(* the commands join, leave, gossip and quit of its user and by the Gossip *)
(* and Exit handlers that peers call.  A connection is nothing but an      *)
(* address in the list, appended after a ping; the list is locked for each *)
(* look or change, never across a ping.                                    *)
(*                                                                         *)
(* Threads are <<node, Main>>, the command loop, and <<node, slot>>, the   *)
(* Gossip handlers in flight.                                              *)
(***************************************************************************)
EXTENDS Naturals, Sequences, SequencesExt, Functions

CONSTANTS
    Node, Slot, Main,
    Addr,       \* the addresses, as strings, that lead to some client
    Self,       \* the address each node gives as its own (GetLocalIPAddress)
    Reach,      \* the node that each node finds behind an address
    Outgoing,   \* how a peer sees the calls of each node: context->peer()
    Joins,      \* what users may join: pairs of a node and an address
    MaxOps,     \* bound: commands typed, over all users
    Mortal,     \* the clients that may crash
    Serial,     \* users type only when nothing is under way
    Flaky,      \* a ping or a call may fail although the peer is up
    Deadlines   \* the 2 s deadline of a gossip may expire before its answer

ASSUME NetworkAssumption ==
    /\ Main \notin Slot
    /\ Self \in [Node -> Addr]
    /\ Reach \in [Node -> [Addr -> Node]]
    /\ Joins \subseteq Node \X Addr
    /\ MaxOps \in Nat /\ Mortal \subseteq Node
    /\ {Serial, Flaky, Deadlines} \subseteq BOOLEAN

Handler == Node \X Slot
User    == Node \X {Main}
Thread  == Handler \cup User

VARIABLES
    status,   \* "up", "gone" (has quit), "crashed"
    peers,    \* connected_peers_
    thread,   \* what each thread does, see ThreadType
    net,      \* Gossip requests on their way
    ops,      \* commands typed so far
    group     \* history: whom the last gossip was about, {} after any other op

vars == <<status, peers, thread, net, ops, group>>

\* A thread has `list` still to work through, its head first; `full` is what
\* a gossip tells, `from` the thread that a handler will answer.
ThreadType ==
    [at : {"idle", "check", "ping", "push", "gossip", "gwait", "exit"},
     list : Seq(Addr), full : Seq(Addr), from : Thread]

Message == [to : Node, from : Thread, list : Seq(Addr)]

TypeOK ==
    /\ status \in [Node -> {"up", "gone", "crashed"}]
    /\ peers \in [Node -> Seq(Addr)]
    /\ thread \in [Thread -> ThreadType]
    /\ \A t \in Thread : thread[t].at \notin {"idle", "exit"}
                             => thread[t].list # << >>
    /\ net \subseteq Message
    /\ ops \in 0 .. MaxOps
    /\ group \subseteq Node

Idle(t) == [at |-> "idle", list |-> << >>, full |-> << >>, from |-> t]

Init ==
    /\ status = [n \in Node |-> "up"]
    /\ peers = [n \in Node |-> << >>]
    /\ thread = [t \in Thread |-> Idle(t)]
    /\ net = {}
    /\ ops = 0
    /\ group = {}

-----------------------------------------------------------------------------
Up == {n \in Node : status[n] = "up"}
Busy(t) == thread[t].at # "idle"
Quiet == net = {} /\ \A t \in Thread : ~Busy(t)

Connected(n, a) == a \in Range(peers[n])

\* The node that a thread finds behind the address it works on.
Target(t) == Reach[t[1]][Head(thread[t].list)]

\* Address a without its first occurrence: DisconnectFromPeer.
Disconnected(list, a) == RemoveFirst(list, a)

\* Fault: one address too many.
NextAddressLate(t, label) ==
    LET list == thread[t].list
    IN thread' = [thread EXCEPT ![t] =
                    IF Len(list) >= 1
                    THEN [@ EXCEPT !.at = label, !.list = Tail(list)]
                    ELSE Idle(t)]

\* On to the next address, or done.
NextAddress(t, label) ==
    LET list == thread[t].list
    IN thread' = [thread EXCEPT ![t] =
                    IF Len(list) > 1
                    THEN [@ EXCEPT !.at = label, !.list = Tail(list)]
                    ELSE Idle(t)]

\* A command typed by the user of n.
Typed(n) ==
    /\ n \in Up
    /\ ~Busy(<<n, Main>>)
    /\ Serial => Quiet
    /\ ops < MaxOps
    /\ ops' = ops + 1

-----------------------------------------------------------------------------
\* join: ConnectToPeer from the command loop.
Join(n, a) ==
    /\ Typed(n)
    /\ <<n, a>> \in Joins
    /\ thread' = [thread EXCEPT ![<<n, Main>>].at = "check",
                                ![<<n, Main>>].list = <<a>>]
    /\ group' = {}
    /\ UNCHANGED <<status, peers, net>>

\* leave: DisconnectFromPeer from the command loop.
Leave(n, a) ==
    /\ Typed(n)
    /\ Connected(n, a)
    /\ peers' = [peers EXCEPT ![n] = Disconnected(@, a)]
    /\ group' = {}
    /\ UNCHANGED <<status, thread, net>>

\* Fault: the gossip leaves out who sends it.
GossipWithoutSelf(n) ==
    /\ Typed(n)
    /\ peers[n] # << >>
    /\ thread' = [thread EXCEPT ![<<n, Main>>].at = "gossip",
                                ![<<n, Main>>].list = peers[n],
                                ![<<n, Main>>].full = peers[n]]
    /\ group' = {n} \cup {Reach[n][a] : a \in Range(peers[n])}
    /\ UNCHANGED <<status, peers, net>>

\* gossip: BroadcastGossip takes its copy of the list and adds itself: the
\* server of a client that takes commands runs.
Gossip(n) ==
    /\ Typed(n)
    /\ peers[n] # << >>
    /\ thread' = [thread EXCEPT ![<<n, Main>>].at = "gossip",
                                ![<<n, Main>>].list = peers[n],
                                ![<<n, Main>>].full = Append(peers[n], Self[n])]
    /\ group' = {n} \cup {Reach[n][a] : a \in Range(peers[n])}
    /\ UNCHANGED <<status, peers, net>>

\* quit: the destructor's BroadcastExit takes its copy of the list.
Quit(n) ==
    /\ Typed(n)
    /\ thread' = [thread EXCEPT ![<<n, Main>>].at = "exit",
                                ![<<n, Main>>].list = peers[n]]
    /\ group' = {}
    /\ UNCHANGED <<status, peers, net>>

-----------------------------------------------------------------------------
\* Fault: a handler connects to its own address.
SkipsNone(t) == FALSE

\* A Gossip handler passes over its own address, compared as a string.
Skips(t) == t \in Handler /\ Head(thread[t].list) = Self[t[1]]

\* Fault: the list is not looked at.
PingAlways(t) ==
    /\ thread[t].at = "check"
    /\ thread' = [thread EXCEPT ![t].at = "ping"]
    /\ UNCHANGED <<status, peers, net, ops, group>>

\* ConnectToPeer, first look at the list; a handler passes over itself before.
CheckConnected(t) ==
    /\ thread[t].at = "check"
    /\ IF Skips(t) \/ Connected(t[1], Head(thread[t].list))
       THEN NextAddress(t, "check")
       ELSE thread' = [thread EXCEPT ![t].at = "ping"]
    /\ UNCHANGED <<status, peers, net, ops, group>>

\* ConnectToPeer pings, holding no lock.
Ping(t) ==
    /\ thread[t].at = "ping"
    /\ \/ Target(t) \in Up /\ thread' = [thread EXCEPT ![t].at = "push"]
       \/ /\ Flaky \/ Target(t) \notin Up
          /\ NextAddress(t, "check")
    /\ UNCHANGED <<status, peers, net, ops, group>>

\* ConnectToPeer stores the address.
Push(t) ==
    /\ thread[t].at = "push"
    /\ peers' = [peers EXCEPT ![t[1]] = Append(@, Head(thread[t].list))]
    /\ NextAddress(t, "check")
    /\ UNCHANGED <<status, net, ops, group>>

\* Fault: a peer that does not answer is called again.
RetryGossip(t) ==
    /\ thread[t].at = "gossip"
    /\ Target(t) \in Up
    /\ net' = net \cup {[to |-> Target(t), from |-> t,
                         list |-> thread[t].full]}
    /\ thread' = [thread EXCEPT ![t].at = "gwait"]
    /\ UNCHANGED <<status, peers, ops, group>>

\* BroadcastGossip calls the next peer of its copy and waits, unless the call
\* fails at once.
SendGossip(t) ==
    /\ thread[t].at = "gossip"
    /\ \/ /\ Target(t) \in Up
          /\ net' = net \cup {[to |-> Target(t), from |-> t,
                               list |-> thread[t].full]}
          /\ thread' = [thread EXCEPT ![t].at = "gwait"]
       \/ /\ Flaky \/ Target(t) \notin Up
          /\ NextAddress(t, "gossip")
          /\ UNCHANGED net
    /\ UNCHANGED <<status, peers, ops, group>>

GossipPending(t) ==
    \/ \E m \in net : m.from = t
    \/ \E h \in Handler : Busy(h) /\ thread[h].from = t

\* The gossip RPC returns: answered, failed, or past its deadline.
GossipReturn(t) ==
    /\ thread[t].at = "gwait"
    /\ ~GossipPending(t) \/ Deadlines
    /\ NextAddress(t, "gossip")
    /\ UNCHANGED <<status, peers, net, ops, group>>

\* Fault: a client-wide lock is held while peers are told.
HandleGossipExclusive(m, h) ==
    /\ m.to \in Up
    /\ thread[<<m.to, Main>>].at # "gwait"
    /\ h[1] = m.to /\ ~Busy(h)
    /\ net' = net \ {m}
    /\ peers' = [peers EXCEPT ![m.to] = << >>]
    /\ thread' = [thread EXCEPT ![h] =
                    [at |-> "check", list |-> m.list,
                     full |-> << >>, from |-> m.from]]
    /\ UNCHANGED <<status, ops, group>>

\* PeerService::Gossip: forget every peer, then connect to those named.
HandleGossip(m, h) ==
    /\ m.to \in Up
    /\ h[1] = m.to /\ ~Busy(h)
    /\ net' = net \ {m}
    /\ peers' = [peers EXCEPT ![m.to] = << >>]
    /\ thread' = [thread EXCEPT ![h] =
                    IF m.list = << >> THEN Idle(h)
                    ELSE [at |-> "check", list |-> m.list,
                          full |-> << >>, from |-> m.from]]
    /\ UNCHANGED <<status, ops, group>>

\* BroadcastExit calls the next peer; PeerService::Exit removes there the
\* address the call came from.
SendExit(t) ==
    /\ thread[t].at = "exit"
    /\ thread[t].list # << >>
    /\ \/ /\ Target(t) \in Up
          /\ peers' = [peers EXCEPT ![Target(t)] =
                         Disconnected(@, Outgoing[t[1]])]
       \/ /\ Flaky \/ Target(t) \notin Up
          /\ UNCHANGED peers
    /\ thread' = [thread EXCEPT ![t].list = Tail(@)]
    /\ UNCHANGED <<status, net, ops, group>>

\* StopServer waits for the handlers; then the client is gone.
Depart(t) ==
    /\ thread[t].at = "exit"
    /\ thread[t].list = << >>
    /\ \A h \in Handler : h[1] = t[1] => ~Busy(h)
    /\ status' = [status EXCEPT ![t[1]] = "gone"]
    /\ peers' = [peers EXCEPT ![t[1]] = << >>]
    /\ thread' = [thread EXCEPT ![t] = Idle(t)]
    /\ UNCHANGED <<net, ops, group>>

\* A request that never reaches a client that is up.
LoseGossip(m) ==
    /\ m.to \notin Up \/ m.from[1] \notin Up \/ Flaky
    /\ net' = net \ {m}
    /\ UNCHANGED <<status, peers, thread, ops, group>>

\* A client dies.  The gossip it was sending is left half done, and promises
\* nothing any more: its peers may have been told of each other or not.
Crash(n) ==
    /\ n \in Up \cap Mortal
    /\ status' = [status EXCEPT ![n] = "crashed"]
    /\ peers' = [peers EXCEPT ![n] = << >>]
    /\ thread' = [t \in Thread |-> IF t[1] = n THEN Idle(t) ELSE thread[t]]
    /\ group' = IF Busy(<<n, Main>>) THEN {} ELSE group
    /\ UNCHANGED <<net, ops>>

ThreadStep(t) ==
    \/ CheckConnected(t) \/ Ping(t) \/ Push(t) \/ SendGossip(t)
    \/ GossipReturn(t) \/ SendExit(t) \/ Depart(t)

Next ==
    \/ \E n \in Node : Gossip(n) \/ Quit(n) \/ Crash(n)
    \/ \E n \in Node, a \in Addr : Join(n, a) \/ Leave(n, a)
    \/ \E t \in Thread : ThreadStep(t)
    \/ \E m \in net, h \in Handler : HandleGossip(m, h)
    \/ \E m \in net : LoseGossip(m)

\* Threads run, and a request reaches a handler or fails.
Fairness ==
    /\ \A t \in Thread : WF_vars(ThreadStep(t))
    /\ \A n \in Node : WF_vars(\E m \in net, h \in Handler :
                                 m.to = n /\ HandleGossip(m, h))
    /\ WF_vars(\E m \in net : m.to \notin Up /\ LoseGossip(m))

Spec == Init /\ [][Next]_vars /\ Fairness
-----------------------------------------------------------------------------
\* A client never counts itself among its peers, whoever gossips about it:
\* it would answer its own broadcasts.
NoSelfLoop == \A n \in Node : \A a \in Range(peers[n]) : Reach[n][a] # n

\* "Check if already connected": no peer is listed, and called, twice.
NoDuplicates ==
    \A n \in Node : \A i, j \in DOMAIN peers[n] :
        i # j => peers[n][i] # peers[n][j]

\* A gossip ties its group together: once it is over and its sender has lived
\* to end it, every two clients of the group that are still up list each
\* other, whoever else crashed on the way.
GossipMakesMesh ==
    Quiet => \A m, n \in group \cap Up :
        m # n => \E a \in Range(peers[m]) : Reach[m][a] = n

\* "Notify all peers that this client is exiting": a peer that has been told
\* does not list the client any more.
ExitRemoves ==
    [][\A n \in Node :
         LET t == <<n, Main>>
         IN (/\ thread[t].at = "exit" /\ thread[t].list # << >>
             /\ Target(t) \in Up /\ thread'[t].list # thread[t].list)
                => \A a \in Range(peers'[Target(t)]) :
                      Reach[Target(t)][a] # n]_vars

\* Every command ends: no caller waits for ever for a gossip to be answered.
OpsEnd == \A t \in Thread : Busy(t) ~> ~Busy(t)
=============================================================================
