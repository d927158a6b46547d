-------------------------- MODULE ClientLifecycle --------------------------
(***************************************************************************)
(* The life of a client process from main() to its return: the peer        *)
(* server, its thread and its handlers, and what ~AudioClient and          *)
(* ~PeerNetwork do while peers still call.                                 *)
(*                                                                         *)
(* The PeerNetwork is counted by shared_ptrs: one in the AudioClient, one  *)
(* in main(), and one in every Gossip or Exit handler while it runs.  The  *)
(* thread that lets the count fall to 0 runs the destructor.  A handler    *)
(* that copies the pointer after that raises the count from 0 and, when it *)
(* lets go, runs the destructor again: the copy of a shared_ptr that is    *)
(* being destroyed is undefined, and this is what the libraries do.        *)
(*                                                                         *)
(* gRPC is external: Shutdown takes no more requests and waits for the     *)
(* handlers under way; Wait returns when it has.                           *)
(***************************************************************************)
EXTENDS Integers, FiniteSets

CONSTANTS
    Node,      \* the clients
    Slot,      \* handlers a client may have under way
    Main,      \* names the main thread
    Peers,     \* connected_peers_ of each client when it quits
    Quitters,  \* whose users quit
    Incoming   \* what others send each client: "gossip", and "request" for
               \* Ping, SendMusicCommand and GetPosition

ASSUME LifecycleAssumption ==
    /\ Main \notin Slot /\ IsFiniteSet(Slot)
    /\ Peers \in [Node -> SUBSET Node]
    /\ Quitters \subseteq Node
    /\ Incoming \in [Node -> SUBSET {"request", "gossip"}]

VARIABLES
    pc,       \* where the main thread and the handlers are
    refs,     \* shared_ptrs to the PeerNetwork
    server,   \* server_: "none", "up", "shutting"
    running,  \* server_running_
    waiter,   \* server_thread_: "none", "waiting", "done", "joined"
    todo,     \* of each thread: the peers its BroadcastExit has yet to call
    told,     \* history: the peers that were called
    exits     \* Exit requests on their way: <<from, to>>

calls == <<todo, told, exits>>
vars  == <<pc, refs, server, running, waiter, calls>>

Handler == Node \X Slot
Thread  == Handler \cup (Node \X {Main})

Destructor == {"unref", "tell", "await", "stop", "wait", "join", "clear"}

TypeOK ==
    /\ pc \in [Thread -> {"start", "loop", "free", "exited", "idle", "serve",
                          "take", "use"} \cup Destructor]
    /\ refs \in [Node -> Nat]
    /\ server \in [Node -> {"none", "up", "shutting"}]
    /\ running \in [Node -> BOOLEAN]
    /\ waiter \in [Node -> {"none", "waiting", "done", "joined"}]
    /\ todo \in [Thread -> SUBSET Node]
    /\ told \in [Node -> SUBSET Node]
    /\ exits \subseteq Node \X Node

Init ==
    /\ pc = [t \in Thread |-> IF t[2] = Main THEN "start" ELSE "idle"]
    /\ refs = [n \in Node |-> 2]
    /\ server = [n \in Node |-> "none"]
    /\ running = [n \in Node |-> FALSE]
    /\ waiter = [n \in Node |-> "none"]
    /\ todo = [t \in Thread |-> {}]
    /\ told = [n \in Node |-> {}]
    /\ exits = {}

Goto(t, label) == pc' = [pc EXCEPT ![t] = label]

\* StartServer, which fails if the port is taken; main() carries on.
Start(n) ==
    /\ pc[<<n, Main>>] = "start"
    /\ Goto(<<n, Main>>, "loop")
    /\ \/ /\ server' = [server EXCEPT ![n] = "up"]
          /\ running' = [running EXCEPT ![n] = TRUE]
          /\ waiter' = [waiter EXCEPT ![n] = "waiting"]
       \/ UNCHANGED <<server, running, waiter>>
    /\ UNCHANGED <<refs, calls>>

\* quit: main() returns, its own pointer goes first, then the client's.
Quit(n) ==
    /\ n \in Quitters /\ pc[<<n, Main>>] = "loop"
    /\ refs' = [refs EXCEPT ![n] = @ - 1]
    /\ Goto(<<n, Main>>, "unref")
    /\ UNCHANGED <<server, running, waiter, calls>>

-----------------------------------------------------------------------------
\* What a thread does after the pointer it held is gone.
Resume(t) == IF t[2] = Main THEN "free" ELSE "idle"

\* The last pointer is let go: the destructor runs, BroadcastExit copies the
\* list of peers.
Destroy(t) == /\ Goto(t, "tell")
              /\ todo' = [todo EXCEPT ![t] = Peers[t[1]]]

\* Fault: reset() and then the destructor of the pointer let go twice.
UnrefTwice(t) ==
    /\ pc[t] = "unref"
    /\ refs' = [refs EXCEPT ![t[1]] = @ - 2]
    /\ IF refs[t[1]] <= 2 THEN Destroy(t) ELSE Goto(t, Resume(t)) /\ todo' = todo
    /\ UNCHANGED <<server, running, waiter, told, exits>>

Unref(t) ==
    /\ pc[t] = "unref"
    /\ refs' = [refs EXCEPT ![t[1]] = @ - 1]
    /\ IF refs[t[1]] = 1 THEN Destroy(t) ELSE Goto(t, Resume(t)) /\ todo' = todo
    /\ UNCHANGED <<server, running, waiter, told, exits>>

\* BroadcastExit calls one peer after the other ...
Tell(t) ==
    /\ pc[t] = "tell"
    /\ \E p \in todo[t] : /\ todo' = [todo EXCEPT ![t] = @ \ {p}]
                          /\ told' = [told EXCEPT ![t[1]] = @ \cup {p}]
                          /\ exits' = exits \cup {<<t[1], p>>}
    /\ Goto(t, "await")
    /\ UNCHANGED <<refs, server, running, waiter>>

\* Fault: the call has no deadline, and a peer may never take it.
AnsweredAtLast(t) ==
    /\ pc[t] = "await"
    /\ \A m \in exits : m[1] # t[1]
    /\ Goto(t, "tell")
    /\ UNCHANGED <<refs, server, running, waiter, calls>>

\* ... and waits for each: for the answer, for the call to fail, or for its
\* deadline.  What came of it is only logged.
Answered(t) ==
    /\ pc[t] = "await"
    /\ Goto(t, "tell")
    /\ UNCHANGED <<refs, server, running, waiter, calls>>

\* Fault: a client whose server does not run calls nobody.
ToldIfServing(t) ==
    /\ pc[t] = "tell" /\ (todo[t] = {} \/ ~running[t[1]])
    /\ Goto(t, "stop")
    /\ todo' = [todo EXCEPT ![t] = {}]
    /\ UNCHANGED <<refs, server, running, waiter, told, exits>>

\* Nobody is left to be called.
Told(t) ==
    /\ pc[t] = "tell" /\ todo[t] = {}
    /\ Goto(t, "stop")
    /\ UNCHANGED <<refs, server, running, waiter, calls>>

\* Fault: StopServer sees the flag of another moment and returns.
StopSkipped(t) ==
    /\ pc[t] = "stop"
    /\ Goto(t, "clear")
    /\ UNCHANGED <<refs, server, running, waiter, calls>>

\* StopServer calls Shutdown, unless no server was started ...
Stop(t) ==
    /\ pc[t] = "stop"
    /\ server' = [server EXCEPT ![t[1]] = IF running[t[1]] THEN "shutting"
                                          ELSE @]
    /\ Goto(t, IF running[t[1]] THEN "wait" ELSE "clear")
    /\ UNCHANGED <<refs, running, waiter, calls>>

Handled(n) == \A s \in Slot : pc[<<n, s>>] = "idle"

\* ... which returns when the last handler has, the caller's own included.
Shut(t) ==
    /\ pc[t] = "wait" /\ Handled(t[1])
    /\ Goto(t, "join")
    /\ UNCHANGED <<refs, server, running, waiter, calls>>

\* The server's thread: Wait returns, server_running_ goes down.
ServerThread(n) ==
    /\ waiter[n] = "waiting" /\ server[n] = "shutting" /\ Handled(n)
    /\ waiter' = [waiter EXCEPT ![n] = "done"]
    /\ running' = [running EXCEPT ![n] = FALSE]
    /\ UNCHANGED <<pc, refs, server, calls>>

\* Fault: a server that no longer runs is not joined.
JoinIfRunning(t) ==
    /\ pc[t] = "join"
    /\ running[t[1]] => waiter[t[1]] # "waiting"
    /\ waiter' = [waiter EXCEPT ![t[1]] = IF running[t[1]] THEN "joined" ELSE @]
    /\ running' = [running EXCEPT ![t[1]] = FALSE]
    /\ Goto(t, "clear")
    /\ UNCHANGED <<refs, server, calls>>

Join(t) ==
    /\ pc[t] = "join" /\ waiter[t[1]] # "waiting"
    /\ waiter' = [waiter EXCEPT ![t[1]] = "joined"]
    /\ running' = [running EXCEPT ![t[1]] = FALSE]
    /\ Goto(t, "clear")
    /\ UNCHANGED <<refs, server, calls>>

\* DisconnectFromAllPeers; the members of the PeerNetwork are destroyed.
Clear(t) ==
    /\ pc[t] = "clear"
    /\ Goto(t, Resume(t))
    /\ UNCHANGED <<refs, server, running, waiter, calls>>

\* The rest of the AudioClient is destroyed and the process ends.
Free(n) ==
    /\ pc[<<n, Main>>] = "free"
    /\ pc' = [t \in Thread |-> IF t[1] # n THEN pc[t]
                               ELSE IF t[2] = Main THEN "exited" ELSE "idle"]
    /\ server' = [server EXCEPT ![n] = "none"]
    /\ todo' = [t \in Thread |-> IF t[1] = n THEN {} ELSE todo[t]]
    /\ UNCHANGED <<refs, running, waiter, told, exits>>

-----------------------------------------------------------------------------
\* A request reaches a handler; those of Gossip and Exit want the PeerNetwork.
Arrive(n, s) ==
    /\ server[n] = "up" /\ pc[<<n, s>>] = "idle"
    /\ \/ \E k \in Incoming[n] :
            /\ Goto(<<n, s>>, IF k = "gossip" THEN "take" ELSE "serve")
            /\ UNCHANGED exits
       \/ \E m \in exits : /\ m[2] = n /\ exits' = exits \ {m}
                           /\ Goto(<<n, s>>, "take")
    /\ UNCHANGED <<refs, server, running, waiter, todo, told>>

\* A handler that only needs the client.
Serve(t) ==
    /\ pc[t] = "serve"
    /\ Goto(t, "idle")
    /\ UNCHANGED <<refs, server, running, waiter, calls>>

\* GetPeerNetwork copies the pointer.
Take(t) ==
    /\ pc[t] = "take"
    /\ refs' = [refs EXCEPT ![t[1]] = @ + 1]
    /\ Goto(t, "use")
    /\ UNCHANGED <<server, running, waiter, calls>>

Use(t) ==
    /\ pc[t] = "use"
    /\ Goto(t, "unref")
    /\ UNCHANGED <<refs, server, running, waiter, calls>>

\* A call fails, or its deadline passes before a handler takes it.
Lose(m) ==
    /\ exits' = exits \ {m}
    /\ UNCHANGED <<pc, refs, server, running, waiter, todo, told>>

Step(t) == \/ Unref(t) \/ Tell(t) \/ Answered(t) \/ Told(t) \/ Stop(t)
           \/ Shut(t) \/ Join(t) \/ Clear(t)
           \/ Serve(t) \/ Take(t) \/ Use(t)

Next ==
    \/ \E n \in Node : \/ Start(n) \/ Quit(n) \/ Free(n) \/ ServerThread(n)
                       \/ \E s \in Slot : Arrive(n, s)
    \/ \E t \in Thread : Step(t)
    \/ \E m \in exits : Lose(m)

\* Threads run on; nobody has to quit and no request has to come.
Fairness == /\ \A t \in Thread : WF_vars(Step(t))
            /\ \A n \in Node : WF_vars(ServerThread(n)) /\ WF_vars(Free(n))

Spec == Init /\ [][Next]_vars /\ Fairness
-----------------------------------------------------------------------------
\* The PeerNetwork is not destroyed under a handler: whichever thread runs its
\* destructor, none is under way when the members go, the peer service that
\* the handlers belong to among them.
HandlersAreDone == \A t \in Thread : pc[t] = "clear" => Handled(t[1])

\* No std::thread is destroyed joinable (that would call terminate), whichever
\* thread gets there and although the server's thread lowers server_running_
\* on its own while StopServer is at work.
ServerIsJoined ==
    \A t \in Thread : pc[t] = "clear" => waiter[t[1]] \in {"none", "joined"}

\* By then every peer has been called, whether or not the calls before went
\* through, and whether or not a server of its own ever came up.
PeersAreTold ==
    \A t \in Thread : pc[t] = "clear" => told[t[1]] = Peers[t[1]]

\* main.cpp:29: "quit - Exit the client".  It does, although requests are under
\* way, peers do not answer and clients that quit call each other; or else a
\* handler that ran the destructor waits in Shutdown, for itself among others.
\* Nothing else keeps a client that quits.
QuitExits ==
    \A n \in Node :
        pc[<<n, Main>>] = "unref" ~>
            \/ pc[<<n, Main>>] = "exited"
            \/ \E s \in Slot : pc[<<n, s>>] = "wait"
=============================================================================
