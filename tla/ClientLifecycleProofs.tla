----------------------- MODULE ClientLifecycleProofs -----------------------
(***************************************************************************)
(* For any clients, peers and handlers, and whatever is sent to a client   *)
(* that quits: whichever thread destroys the PeerNetwork, its handlers are *)
(* done, its thread is joined and its peers have been called.  What may    *)
(* fail is that a thread gets there at all: a handler that runs the        *)
(* destructor waits for itself.                                            *)
(***************************************************************************)
EXTENDS ClientLifecycle, FiniteSetTheorems, TLAPS

Labels == {"start", "loop", "free", "exited", "idle", "serve", "take", "use"}
              \cup Destructor

Types ==
    /\ pc \in [Thread -> Labels]
    /\ refs \in [Node -> Int]
    /\ server \in [Node -> {"none", "up", "shutting"}]
    /\ running \in [Node -> BOOLEAN]
    /\ waiter \in [Node -> {"none", "waiting", "done", "joined"}]
    /\ todo \in [Thread -> SUBSET Node]
    /\ told \in [Node -> SUBSET Node]
    /\ exits \subseteq Node \X Node

At(n) == pc[<<n, Main>>]

\* Where the main thread and the handlers can be, whatever they are sent.
Places ==
    /\ \A n \in Node : At(n) \in {"start", "loop", "free", "exited"}
                                   \cup Destructor
    /\ \A n \in Node, s \in Slot :
          pc[<<n, s>>] \in {"idle", "serve", "take", "use"} \cup Destructor

\* The server of n and its thread.  Shutdown has been called by the main
\* thread, or by a handler that never gets on; requests are only taken before,
\* and the flag is up for as long as any is under way.
Serving(n) ==
    /\ server[n] = "none" =>
          /\ Handled(n)
          /\ At(n) # "exited" => waiter[n] = "none" /\ ~running[n]
    /\ server[n] = "up" => running[n] /\ waiter[n] = "waiting"
    /\ server[n] = "shutting" =>
          /\ waiter[n] # "none"
          /\ \/ At(n) \in {"wait", "join", "clear", "free"}
             \/ \E s \in Slot : pc[<<n, s>>] = "wait"
    /\ ~running[n] => waiter[n] # "waiting"
    /\ waiter[n] \in {"done", "joined"} => Handled(n)
    /\ At(n) \in {"start", "exited"} => server[n] = "none"
    /\ At(n) \in {"wait", "join"} => server[n] = "shutting"
    /\ At(n) \in {"join", "clear"} => Handled(n)
    /\ At(n) = "clear" => waiter[n] \in {"none", "joined"}
    /\ \A s \in Slot : pc[<<n, s>>] \notin {"join", "clear"}

\* Who is not on a thread's list any more has been called.
Telling(t) ==
    /\ todo[t] \subseteq Peers[t[1]] /\ told[t[1]] \subseteq Peers[t[1]]
    /\ pc[t] \in {"tell", "await"} => Peers[t[1]] \ todo[t] \subseteq told[t[1]]
    /\ pc[t] \in {"stop", "wait", "join", "clear"} =>
          Peers[t[1]] \subseteq told[t[1]]

SafeInv == /\ Types /\ Places
           /\ \A n \in Node : Serving(n)
           /\ \A t \in Thread : Telling(t)

LEMMA Threads ==
    /\ \A n \in Node : <<n, Main>> \in Thread
    /\ \A n \in Node, s \in Slot : <<n, s>> \in Thread /\ s # Main
    /\ \A t \in Thread : t = <<t[1], t[2]>> /\ t[1] \in Node
                         /\ (t[2] = Main \/ t[2] \in Slot)
BY LifecycleAssumption DEF Thread, Handler

\* Every step keeps the types.
LEMMA StepTypes ==
    ASSUME Types, NEW t \in Thread, Step(t) PROVE Types'
<1>0. t[1] \in Node /\ Peers[t[1]] \in SUBSET Node
  BY Threads, LifecycleAssumption
<1>1. CASE Unref(t)
  <2>1. pc' \in [Thread -> Labels] /\ todo' \in [Thread -> SUBSET Node]
    BY <1>1, <1>0 DEF Unref, Destroy, Types, Labels, Destructor, Goto, Resume
  <2> QED
    BY <1>1, <1>0, <2>1 DEF Unref, Types
<1>2. CASE Tell(t) \/ Answered(t) \/ Told(t)
  <2>1. /\ pc' \in [Thread -> Labels]
        /\ UNCHANGED <<refs, server, running, waiter>>
    BY <1>2, <1>0 DEF Tell, Answered, Told, Types, Labels, Destructor, Goto
  <2>2. CASE Tell(t)
    <3>1. PICK p \in todo[t] : /\ todo' = [todo EXCEPT ![t] = @ \ {p}]
                               /\ told' = [told EXCEPT ![t[1]] = @ \cup {p}]
                               /\ exits' = exits \cup {<<t[1], p>>}
      BY <2>2 DEF Tell
    <3>2. p \in Node /\ todo[t] \in SUBSET Node
      BY DEF Types
    <3> QED
      BY <1>0, <2>1, <3>1, <3>2 DEF Types
  <2>3. CASE Answered(t) \/ Told(t)
    BY <2>1, <2>3 DEF Answered, Told, calls, Types
  <2> QED
    BY <1>2, <2>2, <2>3
<1>3. CASE Stop(t)
  BY <1>3, <1>0 DEF Stop, calls, Types, Labels, Destructor, Goto
<1>4. CASE Shut(t)
  BY <1>4, <1>0 DEF Shut, calls, Types, Labels, Destructor, Goto
<1>5. CASE Join(t)
  BY <1>5, <1>0 DEF Join, calls, Types, Labels, Destructor, Goto
<1>6. CASE Clear(t)
  BY <1>6, <1>0 DEF Clear, calls, Types, Labels, Destructor, Goto, Resume
<1>7. CASE Serve(t)
  BY <1>7, <1>0 DEF Serve, calls, Types, Labels, Destructor, Goto
<1>8. CASE Take(t)
  BY <1>8, <1>0 DEF Take, calls, Types, Labels, Destructor, Goto
<1>9. CASE Use(t)
  BY <1>9, <1>0 DEF Use, calls, Types, Labels, Destructor, Goto
<1> QED
  BY <1>1, <1>2, <1>3, <1>4, <1>5, <1>6, <1>7, <1>8, <1>9 DEF Step

LEMMA MainTypes ==
    ASSUME Types, NEW n \in Node,
           Start(n) \/ Quit(n) \/ Free(n) \/ ServerThread(n)
    PROVE  Types'
<1>1. CASE Start(n)
  <2>1. pc' \in [Thread -> Labels]
    BY <1>1 DEF Start, Types, Labels, Goto
  <2>2. /\ server' \in [Node -> {"none", "up", "shutting"}]
        /\ running' \in [Node -> BOOLEAN]
        /\ waiter' \in [Node -> {"none", "waiting", "done", "joined"}]
    <3>1. CASE UNCHANGED <<server, running, waiter>>
      BY <3>1 DEF Types
    <3>2. CASE /\ server' = [server EXCEPT ![n] = "up"]
               /\ running' = [running EXCEPT ![n] = TRUE]
               /\ waiter' = [waiter EXCEPT ![n] = "waiting"]
      BY <3>2 DEF Types
    <3> QED
      BY <1>1, <3>1, <3>2 DEF Start
  <2> QED
    BY <1>1, <2>1, <2>2 DEF Start, calls, Types
<1>2. CASE Quit(n)
  BY <1>2, Threads DEF Quit, calls, Types, Labels, Destructor, Goto
<1>3. CASE Free(n)
  <2>1. "exited" \in Labels /\ "idle" \in Labels
    BY DEF Labels
  <2>2. pc' \in [Thread -> Labels]
    BY <1>3, <2>1 DEF Free, Types
  <2>3. server' \in [Node -> {"none", "up", "shutting"}]
    BY <1>3 DEF Free, Types
  <2>4. todo' \in [Thread -> SUBSET Node]
    BY <1>3 DEF Free, Types
  <2> QED
    BY <1>3, <2>2, <2>3, <2>4 DEF Free, Types
<1>4. CASE ServerThread(n)
  BY <1>4, Threads DEF ServerThread, calls, Types, Labels, Destructor, Goto
<1> QED
  BY <1>1, <1>2, <1>3, <1>4

LEMMA ArriveTypes ==
    ASSUME Types, NEW n \in Node, NEW s \in Slot, Arrive(n, s) PROVE Types'
<1>1. \E l \in {"take", "serve"} : pc' = [pc EXCEPT ![<<n, s>>] = l]
  BY DEF Arrive, Goto
<1>2. exits' \subseteq exits
  BY DEF Arrive
<1> QED
  BY <1>1, <1>2 DEF Types, Arrive, Labels

-----------------------------------------------------------------------------
LEMMA SafeInit == Init => SafeInv
<1> SUFFICES ASSUME Init PROVE SafeInv
  OBVIOUS
<1>1. Types
  BY DEF Init, Types, Labels, Destructor
<1>2. /\ \A n \in Node : At(n) = "start"
      /\ \A n \in Node, s \in Slot : pc[<<n, s>>] = "idle"
  BY Threads DEF Init, At
<1>3. Places
  BY <1>2 DEF Places
<1>4. ASSUME NEW n \in Node PROVE Serving(n)
  BY <1>2 DEF Init, Serving, Handled
<1>5. ASSUME NEW t \in Thread PROVE Telling(t)
  BY <1>2, Threads DEF Init, Telling
<1> QED
  BY <1>1, <1>3, <1>4, <1>5 DEF SafeInv

\* What a thread of one client does changes nothing at another one.
LEMMA ServingStays ==
    ASSUME NEW k \in Node, Serving(k), At(k)' = At(k),
           \A s \in Slot : pc'[<<k, s>>] = pc[<<k, s>>],
           server'[k] = server[k], running'[k] = running[k],
           waiter'[k] = waiter[k]
    PROVE  Serving(k)'
<1>1. Handled(k)' = Handled(k)
  BY DEF Handled
<1> QED
  BY <1>1 DEF Serving

\* A thread's step changes its own place only.
LEMMA OnePlace ==
    ASSUME Types, NEW t \in Thread, Step(t)
    PROVE  /\ \A u \in Thread : u # t => pc'[u] = pc[u]
           /\ \A k \in Node : k # t[1] => /\ server'[k] = server[k]
                                         /\ running'[k] = running[k]
                                         /\ waiter'[k] = waiter[k]
                                         /\ told'[k] = told[k]
<1>1. CASE Unref(t) \/ Tell(t) \/ Answered(t) \/ Told(t)
  BY <1>1 DEF Types, Unref, Destroy, Tell, Answered, Told, calls, Goto
<1>2. CASE Stop(t) \/ Shut(t) \/ Join(t) \/ Clear(t)
  BY <1>2 DEF Types, Stop, Shut, Join, Clear, calls, Goto
<1>3. CASE Serve(t) \/ Take(t) \/ Use(t)
  BY <1>3 DEF Types, Serve, Take, Use, calls, Goto
<1> QED
  BY <1>1, <1>2, <1>3 DEF Step

\* A handler that is under way keeps the server from being done.
LEMMA HandlerServes ==
    ASSUME Types, NEW n \in Node, NEW s \in Slot, Serving(n), Step(<<n, s>>)
    PROVE  Serving(n)'
<1> DEFINE t == <<n, s>>
<1>1. t \in Thread /\ t[1] = n /\ t[2] # Main
  BY Threads
<1>2. /\ \A r \in Slot \ {s} : pc'[<<n, r>>] = pc[<<n, r>>]
      /\ At(n)' = At(n)
  BY <1>1, OnePlace, Threads DEF At
<1>3. ~ Handled(n)
  BY <1>1 DEF Handled, Step, Unref, Tell, Answered, Told, Stop, Shut, Join,
              Clear, Serve, Take, Use
<1>4. /\ server[n] \in {"up", "shutting"} /\ running[n]
      /\ waiter[n] = "waiting" /\ At(n) \notin {"start", "join", "clear", "exited"}
  BY <1>3 DEF Serving, Types
<1>5. \/ UNCHANGED <<server, running, waiter>> /\ pc[t] # "wait"
         /\ pc'[t] \in {"idle", "tell", "await", "stop", "use", "unref"}
      \/ UNCHANGED <<running, waiter>> /\ pc[t] # "wait" /\ pc'[t] = "wait"
         /\ server' = [server EXCEPT ![n] = "shutting"]
  <2>1. CASE Unref(t) \/ Tell(t) \/ Answered(t) \/ Told(t)
    BY <2>1, <1>1 DEF Unref, Destroy, Tell, Answered, Told, Goto, Resume, Types
  <2>2. CASE Stop(t)
    BY <2>2, <1>1, <1>4 DEF Stop, Goto, Types
  <2>3. CASE Shut(t) \/ Join(t) \/ Clear(t)
    BY <2>3, <1>1, <1>3 DEF Shut, Join, Clear, Serving
  <2>4. CASE Serve(t) \/ Take(t) \/ Use(t)
    BY <2>4, <1>1 DEF Serve, Take, Use, Goto, Types
  <2> QED
    BY <2>1, <2>2, <2>3, <2>4 DEF Step
<1>6. ASSUME NEW r \in Slot PROVE pc'[<<n, r>>] \notin {"join", "clear"}
  <2>1. CASE r = s
    BY <2>1, <1>5
  <2>2. CASE r # s
    BY <2>2, <1>2 DEF Serving
  <2> QED
    BY <2>1, <2>2
<1>7. /\ server'[n] \in {"up", "shutting"} /\ running'[n]
      /\ waiter'[n] = "waiting"
      /\ server'[n] = "up" => server[n] = "up"
  BY <1>4, <1>5 DEF Types
<1>8. server'[n] = "shutting" =>
         \/ At(n)' \in {"wait", "join", "clear", "free"}
         \/ \E r \in Slot : pc'[<<n, r>>] = "wait"
  BY <1>2, <1>5 DEF Serving
<1>9. At(n) \in {"wait", "join"} => server'[n] = "shutting"
  BY <1>5 DEF Serving, Types
<1> QED
  BY <1>2, <1>4, <1>6, <1>7, <1>8, <1>9 DEF Serving

\* The main thread goes past StopServer if the server was never up, or when
\* its handlers are done and its thread is joined.
LEMMA MainServes ==
    ASSUME Types, Places, NEW n \in Node, Serving(n), Step(<<n, Main>>)
    PROVE  Serving(n)'
<1> DEFINE t == <<n, Main>>
<1>1. t \in Thread /\ t[1] = n /\ t[2] = Main /\ pc[t] = At(n) /\ pc'[t] = At(n)'
  BY Threads DEF At
<1>2. \A s \in Slot : pc'[<<n, s>>] = pc[<<n, s>>]
  BY <1>1, OnePlace, Threads
<1>3. Handled(n)' = Handled(n)
  BY <1>2 DEF Handled
<1>4. /\ server[n] \in {"none", "up", "shutting"} /\ running[n] \in BOOLEAN
      /\ waiter[n] \in {"none", "waiting", "done", "joined"}
  BY DEF Types
<1>5. CASE Unref(t) \/ Tell(t) \/ Answered(t) \/ Told(t)
  <2>1. /\ At(n) \in {"unref", "tell", "await"}
        /\ At(n)' \in {"tell", "free", "await", "stop"}
        /\ UNCHANGED <<server, running, waiter>>
    BY <1>1, <1>5 DEF Unref, Destroy, Tell, Answered, Told, Goto, Resume, Types
  <2> QED
    BY <2>1, <1>2, <1>3 DEF Serving
<1>6. CASE Stop(t)
  <2>1. /\ At(n) = "stop" /\ At(n)' = (IF running[n] THEN "wait" ELSE "clear")
        /\ server'[n] = (IF running[n] THEN "shutting" ELSE server[n])
        /\ UNCHANGED <<running, waiter>>
    BY <1>1, <1>6 DEF Stop, Goto, Types
  <2>2. CASE running[n]
    <3>1. server[n] # "none" /\ waiter[n] # "none"
      BY <2>1, <2>2, <1>4 DEF Serving
    <3> QED
      BY <2>1, <2>2, <3>1, <1>2, <1>3 DEF Serving
  <2>3. CASE ~ running[n]
    <3>1. waiter[n] \notin {"done", "joined"}
      <4>1. waiter[n] \in {"done", "joined"} =>
               Handled(n) /\ server[n] = "shutting"
        BY <2>1, <1>4 DEF Serving
      <4> QED
        BY <4>1, <2>1 DEF Serving, Handled
    <3>2. server[n] = "none" /\ Handled(n)
      BY <2>1, <2>3, <3>1, <1>4 DEF Serving
    <3> QED
      BY <2>1, <2>3, <3>1, <3>2, <1>2, <1>3, <1>4 DEF Serving
  <2> QED
    BY <2>2, <2>3
<1>7. CASE Shut(t)
  <2>1. /\ At(n) = "wait" /\ At(n)' = "join" /\ Handled(n)
        /\ UNCHANGED <<server, running, waiter>>
    BY <1>1, <1>7 DEF Shut, Goto, Types
  <2> QED
    BY <2>1, <1>2, <1>3 DEF Serving
<1>8. CASE Join(t)
  <2>1. /\ At(n) = "join" /\ At(n)' = "clear" /\ server' = server
        /\ waiter'[n] = "joined" /\ running'[n] = FALSE
    BY <1>1, <1>8 DEF Join, Goto, Types
  <2> QED
    BY <2>1, <1>2, <1>3 DEF Serving
<1>9. CASE Clear(t)
  <2>1. /\ At(n) = "clear" /\ At(n)' = "free"
        /\ UNCHANGED <<server, running, waiter>>
    BY <1>1, <1>9 DEF Clear, Goto, Resume, Types
  <2> QED
    BY <2>1, <1>2, <1>3 DEF Serving
<1>10. CASE Serve(t) \/ Take(t) \/ Use(t)
  BY <1>1, <1>10 DEF Serve, Take, Use, Places, Destructor
<1> QED
  BY <1>5, <1>6, <1>7, <1>8, <1>9, <1>10 DEF Step

\* main() before and after, the server's thread, and requests that arrive.
LEMMA OtherServes ==
    ASSUME Types, NEW n \in Node, Serving(n),
           \/ Start(n) \/ Quit(n) \/ Free(n) \/ ServerThread(n)
           \/ \E s \in Slot : Arrive(n, s)
    PROVE  Serving(n)'
<1>0. /\ <<n, Main>> \in Thread
      /\ server[n] \in {"none", "up", "shutting"} /\ running[n] \in BOOLEAN
      /\ waiter[n] \in {"none", "waiting", "done", "joined"}
  BY Threads DEF Types
<1>1. CASE Start(n)
  <2>1. /\ At(n) = "start" /\ At(n)' = "loop"
        /\ \A s \in Slot : pc'[<<n, s>>] = pc[<<n, s>>]
    BY <1>0, <1>1, Threads DEF Start, Goto, At, Types
  <2>2. server[n] = "none" /\ Handled(n)' = Handled(n)
    BY <2>1 DEF Serving, Handled
  <2>3. \/ server'[n] = "up" /\ running'[n] = TRUE /\ waiter'[n] = "waiting"
        \/ UNCHANGED <<server, running, waiter>>
    BY <1>1 DEF Start, Types
  <2> QED
    BY <2>1, <2>2, <2>3 DEF Serving
<1>2. CASE Quit(n)
  <2>1. /\ At(n) = "loop" /\ At(n)' = "unref"
        /\ \A s \in Slot : pc'[<<n, s>>] = pc[<<n, s>>]
        /\ UNCHANGED <<server, running, waiter>>
    BY <1>0, <1>2, Threads DEF Quit, Goto, At, Types
  <2>2. Handled(n)' = Handled(n)
    BY <2>1 DEF Handled
  <2> QED
    BY <2>1, <2>2 DEF Serving
<1>3. CASE Free(n)
  <2>1. /\ At(n)' = "exited" /\ server'[n] = "none"
        /\ \A s \in Slot : pc'[<<n, s>>] = "idle"
        /\ UNCHANGED <<running, waiter>>
    BY <1>0, <1>3, Threads DEF Free, At, Types
  <2>2. Handled(n)'
    BY <2>1 DEF Handled
  <2> QED
    BY <2>1, <2>2 DEF Serving
<1>4. CASE ServerThread(n)
  <2>1. /\ waiter[n] = "waiting" /\ server[n] = "shutting" /\ Handled(n)
        /\ waiter'[n] = "done" /\ running'[n] = FALSE /\ UNCHANGED <<pc, server>>
    BY <1>4 DEF ServerThread, Types
  <2>2. At(n)' = At(n) /\ Handled(n)' = Handled(n)
    BY <2>1 DEF At, Handled
  <2> QED
    BY <2>1, <2>2 DEF Serving
<1>5. ASSUME NEW s \in Slot, Arrive(n, s) PROVE Serving(n)'
  <2>1. /\ server[n] = "up" /\ UNCHANGED <<server, running, waiter>>
        /\ pc[<<n, s>>] = "idle"
        /\ \E l \in {"take", "serve"} : pc' = [pc EXCEPT ![<<n, s>>] = l]
    BY <1>5 DEF Arrive, Goto
  <2>2. /\ At(n)' = At(n)
        /\ \A r \in Slot : pc'[<<n, r>>] \in {pc[<<n, r>>], "take", "serve"}
    BY <2>1, <1>0, Threads DEF At, Types
  <2>3. At(n) \notin {"start", "exited", "wait", "join", "clear"}
    BY <2>1 DEF Serving
  <2> QED
    BY <2>1, <2>2, <2>3 DEF Serving
<1> QED
  BY <1>1, <1>2, <1>3, <1>4, <1>5

\* The lists of a client's threads, and whom it has called.
LEMMA TellingStep ==
    ASSUME Types, \A t \in Thread : Telling(t), NEW t \in Thread, Step(t),
           NEW u \in Thread
    PROVE  Telling(u)'
<1>1. t[1] \in Node /\ u[1] \in Node /\ Telling(u) /\ Telling(t)
  BY Threads
<1>2. \A v \in Thread : v # t => pc'[v] = pc[v]
  BY OnePlace
<1>3. CASE Unref(t)
  <2>1. /\ told' = told
        /\ \/ pc'[t] \in {"free", "idle"} /\ todo' = todo
           \/ pc'[t] = "tell" /\ todo' = [todo EXCEPT ![t] = Peers[t[1]]]
    BY <1>3 DEF Unref, Destroy, Resume, Goto, Types
  <2> QED
    BY <2>1, <1>1, <1>2 DEF Telling, Types
<1>4. CASE Tell(t)
  <2>1. PICK p \in todo[t] : /\ todo' = [todo EXCEPT ![t] = @ \ {p}]
                             /\ told' = [told EXCEPT ![t[1]] = @ \cup {p}]
    BY <1>4 DEF Tell
  <2>2. pc[t] = "tell" /\ pc'[t] = "await" /\ p \in Peers[t[1]]
    BY <1>4, <1>1 DEF Tell, Goto, Types, Telling
  <2>3. /\ told'[t[1]] = told[t[1]] \cup {p}
        /\ \A k \in Node : k # t[1] => told'[k] = told[k]
        /\ todo'[t] = todo[t] \ {p}
        /\ \A v \in Thread : v # t => todo'[v] = todo[v]
    BY <2>1, <1>1 DEF Types
  <2> QED
    BY <2>2, <2>3, <1>1, <1>2 DEF Telling
<1>5. CASE Answered(t) \/ Told(t)
  <2>1. /\ UNCHANGED <<todo, told>>
        /\ \/ pc[t] = "await" /\ pc'[t] = "tell"
           \/ pc[t] = "tell" /\ pc'[t] = "stop" /\ todo[t] = {}
    BY <1>5 DEF Answered, Told, Goto, Types, calls
  <2> QED
    BY <2>1, <1>1, <1>2 DEF Telling
<1>6. CASE Stop(t) \/ Shut(t) \/ Join(t) \/ Clear(t)
  <2>1. /\ UNCHANGED <<todo, told>>
        /\ pc[t] \in {"stop", "wait", "join", "clear"}
        /\ pc'[t] \in {"wait", "join", "clear", "free", "idle"}
    BY <1>6 DEF Stop, Shut, Join, Clear, Resume, Goto, Types, calls
  <2> QED
    BY <2>1, <1>1, <1>2 DEF Telling
<1>7. CASE Serve(t) \/ Take(t) \/ Use(t)
  <2>1. UNCHANGED <<todo, told>> /\ pc'[t] \in {"idle", "use", "unref"}
    BY <1>7 DEF Serve, Take, Use, Goto, Types, calls
  <2> QED
    BY <2>1, <1>1, <1>2 DEF Telling
<1> QED
  BY <1>3, <1>4, <1>5, <1>6, <1>7 DEF Step

LEMMA TellingOther ==
    ASSUME Types, \A t \in Thread : Telling(t), NEW n \in Node,
           \/ Start(n) \/ Quit(n) \/ Free(n) \/ ServerThread(n)
           \/ \E s \in Slot : Arrive(n, s),
           NEW u \in Thread
    PROVE  Telling(u)'
<1>1. told' = told /\ todo'[u] \subseteq todo[u]
  BY DEF Start, Quit, Free, ServerThread, Arrive, calls, Types
<1>2. \/ pc'[u] = pc[u] /\ todo'[u] = todo[u]
      \/ pc'[u] \in {"loop", "unref", "exited", "idle", "take", "serve"}
  <2>1. CASE Free(n)
    BY <2>1 DEF Free, Types
  <2>2. CASE Start(n) \/ Quit(n) \/ ServerThread(n)
    BY <2>2 DEF Start, Quit, ServerThread, calls, Goto, Types
  <2>3. CASE \E s \in Slot : Arrive(n, s)
    BY <2>3 DEF Arrive, Goto, Types
  <2> QED
    BY <2>1, <2>2, <2>3
<1> QED
  BY <1>1, <1>2 DEF Telling

LEMMA SafeNext == ASSUME SafeInv, Places', [Next]_vars PROVE SafeInv'
<1>1. CASE \E t \in Thread : Step(t)
  <2>1. PICK t \in Thread : Step(t)
    BY <1>1
  <2>2. t = <<t[1], t[2]>> /\ t[1] \in Node /\ (t[2] = Main \/ t[2] \in Slot)
    BY Threads
  <2>3. Serving(t[1])'
    BY <2>1, <2>2, HandlerServes, MainServes DEF SafeInv
  <2>4. ASSUME NEW k \in Node, k # t[1] PROVE Serving(k)'
    <3>1. At(k)' = At(k) /\ \A s \in Slot : pc'[<<k, s>>] = pc[<<k, s>>]
      BY <2>1, <2>4, OnePlace, Threads DEF SafeInv, At
    <3> QED
      BY <2>1, <2>4, <3>1, OnePlace, ServingStays DEF SafeInv
  <2>5. Types'
    BY <2>1, StepTypes DEF SafeInv
  <2> QED
    BY <2>1, <2>3, <2>4, <2>5, TellingStep DEF SafeInv
<1>2. CASE \E n \in Node : \/ Start(n) \/ Quit(n) \/ Free(n) \/ ServerThread(n)
                            \/ \E s \in Slot : Arrive(n, s)
  <2>1. PICK n \in Node : \/ Start(n) \/ Quit(n) \/ Free(n) \/ ServerThread(n)
                          \/ \E s \in Slot : Arrive(n, s)
    BY <1>2
  <2>2. Types' /\ Serving(n)'
    BY <2>1, MainTypes, ArriveTypes, OtherServes DEF SafeInv
  <2>3. ASSUME NEW k \in Node, k # n PROVE Serving(k)'
    <3>1. /\ \A u \in Thread : u[1] # n => pc'[u] = pc[u]
          /\ server'[k] = server[k] /\ running'[k] = running[k]
          /\ waiter'[k] = waiter[k]
      <4>1. CASE Start(n) \/ Quit(n)
        BY <2>3, <4>1 DEF SafeInv, Types, Start, Quit, Goto
      <4>2. CASE Free(n) \/ ServerThread(n)
        BY <2>3, <4>2 DEF SafeInv, Types, Free, ServerThread
      <4>3. CASE \E s \in Slot : Arrive(n, s)
        BY <4>3 DEF SafeInv, Types, Arrive, Goto
      <4> QED
        BY <2>1, <4>1, <4>2, <4>3
    <3>2. At(k)' = At(k) /\ \A s \in Slot : pc'[<<k, s>>] = pc[<<k, s>>]
      BY <2>3, <3>1, Threads DEF At
    <3> QED
      BY <3>1, <3>2, ServingStays DEF SafeInv
  <2> QED
    BY <2>1, <2>2, <2>3, TellingOther DEF SafeInv
<1>3. CASE (\E m \in exits : Lose(m)) \/ UNCHANGED vars
  <2>1. /\ exits' \subseteq exits
        /\ UNCHANGED <<pc, refs, server, running, waiter, todo, told>>
    BY <1>3 DEF Lose, vars, calls
  <2>2. Types' /\ \A t \in Thread : Telling(t)'
    BY <2>1 DEF SafeInv, Types, Telling
  <2>3. \A k \in Node : Serving(k)'
    BY <2>1, ServingStays DEF SafeInv, At
  <2> QED
    BY <2>2, <2>3 DEF SafeInv
<1> QED
  BY <1>1, <1>2, <1>3 DEF Next

LEMMA SafeHolds ==
    ASSUME SafeInv PROVE HandlersAreDone /\ ServerIsJoined /\ PeersAreTold
<1> SUFFICES ASSUME NEW t \in Thread, pc[t] = "clear"
             PROVE  /\ Handled(t[1]) /\ waiter[t[1]] \in {"none", "joined"}
                    /\ told[t[1]] = Peers[t[1]]
  BY DEF HandlersAreDone, ServerIsJoined, PeersAreTold
<1>1. Serving(t[1]) /\ Telling(t) /\ t = <<t[1], t[2]>>
  BY Threads DEF SafeInv
<1>2. At(t[1]) = "clear"
  BY <1>1, Threads DEF Serving, At
<1> QED
  BY <1>1, <1>2 DEF Serving, Telling
-----------------------------------------------------------------------------
\* The handlers that have a pointer to the PeerNetwork.
Holders(n) == {s \in Slot : pc[<<n, s>>] \in {"use", "unref"}}

\* The pointers of main() and of the AudioClient.
Own(label) == IF label \in {"start", "loop"} THEN 2
              ELSE IF label = "unref" THEN 1 ELSE 0

\* Whoever holds a pointer is counted.  The count may be higher: a process
\* that ends does so while handlers hold theirs.
Counted(n) == refs[n] >= Own(At(n)) + Cardinality(Holders(n))

CountInv == Types /\ Places /\ \A n \in Node : Counted(n)

LEMMA HoldersFinite ==
    ASSUME NEW n
    PROVE  IsFiniteSet(Holders(n)) /\ Cardinality(Holders(n)) \in Nat
BY LifecycleAssumption, FS_Subset, FS_CardinalityType DEF Holders

\* One handler takes a pointer or lets go of it.
LEMMA HoldersChange ==
    ASSUME NEW n \in Node, NEW s \in Slot,
           \A r \in Slot \ {s} : pc'[<<n, r>>] = pc[<<n, r>>]
    PROVE  /\ Cardinality(Holders(n))' =
                 Cardinality(Holders(n))
                 + (IF pc'[<<n, s>>] \in {"use", "unref"} THEN 1 ELSE 0)
                 - (IF pc[<<n, s>>] \in {"use", "unref"} THEN 1 ELSE 0)
           /\ Cardinality(Holders(n))' \in Nat
<1> DEFINE held == pc[<<n, s>>] \in {"use", "unref"}
           holds == pc'[<<n, s>>] \in {"use", "unref"}
<1>1. IsFiniteSet(Holders(n)) /\ Cardinality(Holders(n)) \in Nat
  BY HoldersFinite
<1>2. (s \in Holders(n) <=> held) /\ (s \in Holders(n)' <=> holds)
  BY DEF Holders
<1>3. \A r : r # s => (r \in Holders(n)' <=> r \in Holders(n))
  BY DEF Holders
<1> HIDE DEF held, holds
<1>4. Cardinality(Holders(n)') =
         Cardinality(Holders(n)) + (IF holds THEN 1 ELSE 0)
                                 - (IF held THEN 1 ELSE 0)
  <2>1. CASE holds /\ ~held
    <3>1. Holders(n)' = Holders(n) \cup {s} /\ s \notin Holders(n)
      BY <2>1, <1>2, <1>3
    <3>2. Cardinality(Holders(n)') = Cardinality(Holders(n)) + 1
      BY <3>1, <1>1, FS_AddElement
    <3> QED
      BY <2>1, <3>2, <1>1
  <2>2. CASE ~holds /\ held
    <3>1. Holders(n)' = Holders(n) \ {s} /\ s \in Holders(n)
      BY <2>2, <1>2, <1>3
    <3>2. Cardinality(Holders(n)') = Cardinality(Holders(n)) - 1
      BY <3>1, <1>1, FS_RemoveElement
    <3> QED
      BY <2>2, <3>2, <1>1
  <2>3. CASE holds <=> held
    <3>1. Holders(n)' = Holders(n)
      BY <2>3, <1>2, <1>3
    <3> QED
      BY <2>3, <3>1, <1>1
  <2> QED
    BY <2>1, <2>2, <2>3
<1>5. Cardinality(Holders(n)') \in Nat
  <2>1. Holders(n)' \subseteq Slot
    BY DEF Holders
  <2> QED
    BY <2>1, LifecycleAssumption, FS_Subset, FS_CardinalityType
<1> QED
  BY <1>4, <1>5 DEF held, holds

\* Clients that a step does not concern, or not in this.
LEMMA CountedStays ==
    ASSUME NEW k \in Node, Counted(k), refs'[k] = refs[k],
           Own(At(k)') <= Own(At(k)),
           \A s \in Slot : pc'[<<k, s>>] = pc[<<k, s>>],
           refs[k] \in Int
    PROVE  Counted(k)'
<1>1. Holders(k)' = Holders(k) /\ Cardinality(Holders(k)) \in Nat
  BY HoldersFinite DEF Holders
<1>2. Own(At(k)') \in Nat /\ Own(At(k)) \in Nat
  BY DEF Own
<1>3. refs'[k] >= Own(At(k)') + Cardinality(Holders(k)')
  BY <1>1, <1>2 DEF Counted
<1> QED
  BY <1>3 DEF Counted, Own

LEMMA CountInit == Init => CountInv
<1> SUFFICES ASSUME Init PROVE CountInv
  OBVIOUS
<1>1. Types
  BY DEF Init, Types, Labels, Destructor
<1>2. \A n \in Node : At(n) = "start" /\ refs[n] = 2
  BY Threads DEF Init, At
<1>3. \A n \in Node, s \in Slot : pc[<<n, s>>] = "idle"
  BY Threads DEF Init
<1>4. \A n \in Node : Holders(n) = {}
  BY <1>3 DEF Holders
<1> QED
  BY <1>1, <1>2, <1>3, <1>4, FS_EmptySet DEF CountInv, Places, Counted, Own

\* A step of the main thread or of a handler.
LEMMA CountThread ==
    ASSUME CountInv, NEW t \in Thread, Step(t) PROVE CountInv'
<1> DEFINE n == t[1]
<1>1. n \in Node /\ t = <<n, t[2]>> /\ (t[2] = Main \/ t[2] \in Slot)
  BY Threads
<1>2. Types'
  BY StepTypes DEF CountInv
<1>3. \A u \in Thread : u # t => pc'[u] = pc[u]
  BY OnePlace DEF CountInv
<1>4. /\ refs[n] \in Int
      /\ \A k \in Node : refs[k] \in Int /\ (k # n => refs'[k] = refs[k])
  BY <1>1 DEF CountInv, Types, Step, Unref, Tell, Answered, Told, Stop, Shut,
     Join, Clear, Serve, Take, Use
<1>5. ASSUME NEW k \in Node, k # n PROVE Counted(k)'
  <2>1. At(k)' = At(k) /\ \A s \in Slot : pc'[<<k, s>>] = pc[<<k, s>>]
    BY <1>3, <1>5, Threads DEF At
  <2>2. Own(At(k)') <= Own(At(k))
    BY <2>1 DEF Own
  <2> QED
    BY <1>4, <1>5, <2>1, <2>2, CountedStays DEF CountInv
\* What the labels of the thread are before and after, and what it does to the
\* count.
<1>6. \/ /\ pc[t] = "unref" /\ refs'[n] = refs[n] - 1
         /\ pc'[t] \in {"tell", IF t[2] = Main THEN "free" ELSE "idle"}
      \/ /\ pc[t] \in Destructor \ {"unref"} /\ refs'[n] = refs[n]
         /\ pc'[t] \in (Destructor \ {"unref"})
                          \cup {IF t[2] = Main THEN "free" ELSE "idle"}
      \/ pc[t] = "serve" /\ pc'[t] = "idle" /\ refs'[n] = refs[n]
      \/ pc[t] = "take" /\ pc'[t] = "use" /\ refs'[n] = refs[n] + 1
      \/ pc[t] = "use" /\ pc'[t] = "unref" /\ refs'[n] = refs[n]
  <2>1. CASE Unref(t)
    BY <2>1, <1>1 DEF Unref, Destroy, Goto, Resume, CountInv, Types
  <2>2. CASE \/ Tell(t) \/ Answered(t) \/ Told(t)
            \/ Stop(t) \/ Shut(t) \/ Join(t) \/ Clear(t)
    BY <2>2, <1>1 DEF Tell, Answered, Told, Stop, Shut, Join, Clear, Goto, Resume, CountInv,
                      Types, Destructor
  <2>3. CASE Serve(t)
    BY <2>3, <1>1 DEF Serve, Goto, CountInv, Types
  <2>4. CASE Take(t)
    BY <2>4, <1>1 DEF Take, Goto, CountInv, Types
  <2>5. CASE Use(t)
    BY <2>5, <1>1 DEF Use, Goto, CountInv, Types
  <2> QED
    BY <2>1, <2>2, <2>3, <2>4, <2>5 DEF Step
<1>7. CASE t[2] = Main
  <2>1. pc[t] = At(n) /\ pc'[t] = At(n)'
    BY <1>1, <1>7 DEF At
  <2>2. \A k \in Node, s \in Slot : pc'[<<k, s>>] = pc[<<k, s>>]
    BY <1>3, <1>7, Threads
  <2>3. At(n) \in {"start", "loop", "free", "exited"} \cup Destructor
    BY <1>1 DEF CountInv, Places
  <2>4. \/ At(n) = "unref" /\ refs'[n] = refs[n] - 1 /\ At(n)' \in {"tell", "free"}
        \/ /\ At(n) \in Destructor \ {"unref"} /\ refs'[n] = refs[n]
           /\ At(n)' \in (Destructor \ {"unref"}) \cup {"free"}
    BY <1>6, <1>7, <2>1, <2>3 DEF Destructor
  <2>5. Counted(n)'
    <3>1. Holders(n)' = Holders(n) /\ Cardinality(Holders(n)) \in Nat
      BY <2>2, <1>1, HoldersFinite DEF Holders
    <3>2. refs[n] >= Own(At(n)) + Cardinality(Holders(n))
      BY <1>1 DEF CountInv, Counted
    <3>3. Own(At(n)') = 0 /\ refs'[n] = refs[n] - Own(At(n))
      BY <2>4, <1>4 DEF Own, Destructor
    <3>4. Own(At(n)) \in Nat
      BY DEF Own
    <3>5. refs'[n] >= Own(At(n)') + Cardinality(Holders(n)')
      BY <3>1, <3>2, <3>3, <3>4, <1>4
    <3> QED
      BY <3>5 DEF Counted, Own
  <2>6. Places'
    <3>1. \A k \in Node : k # n => At(k)' = At(k)
      BY <1>3, <1>1, Threads DEF At
    <3> QED
      BY <2>2, <2>4, <3>1 DEF CountInv, Places, Destructor
  <2> QED
    BY <1>2, <1>5, <2>5, <2>6 DEF CountInv
<1>8. CASE t[2] # Main
  <2> DEFINE s == t[2]
  <2>1. s \in Slot /\ t = <<n, s>>
    BY <1>1, <1>8
  <2>2. \A k \in Node : At(k)' = At(k)
    BY <1>3, <1>8, Threads DEF At
  <2>3. Counted(n)'
    <3>1. \A r \in Slot \ {s} : pc'[<<n, r>>] = pc[<<n, r>>]
      BY <1>3, <1>1, <2>1, Threads
    <3>2. /\ Cardinality(Holders(n))' =
                 Cardinality(Holders(n))
                 + (IF pc'[<<n, s>>] \in {"use", "unref"} THEN 1 ELSE 0)
                 - (IF pc[<<n, s>>] \in {"use", "unref"} THEN 1 ELSE 0)
      BY <1>1, <2>1, <3>1, HoldersChange
    <3>3. /\ refs'[n] = refs[n]
                 + (IF pc'[t] \in {"use", "unref"} THEN 1 ELSE 0)
                 - (IF pc[t] \in {"use", "unref"} THEN 1 ELSE 0)
      BY <1>6, <1>4, <1>8 DEF Destructor
    <3>4. Own(At(n)) \in Nat /\ Own(At(n)') = Own(At(n))
      BY <2>2, <1>1 DEF Own
    <3>5. refs[n] >= Own(At(n)) + Cardinality(Holders(n))
          /\ Cardinality(Holders(n)) \in Nat
      BY <1>1, HoldersFinite DEF CountInv, Counted
    <3>6. refs'[n] >= Own(At(n)') + Cardinality(Holders(n))'
      BY <3>2, <3>3, <3>4, <3>5, <2>1, <1>4
    <3> QED
      BY <3>6 DEF Counted, Own
  <2>4. Places'
    <3>1. pc'[t] \in {"idle", "serve", "take", "use"} \cup Destructor
      BY <1>6, <1>8 DEF Destructor
    <3>2. \A k \in Node, r \in Slot : <<k, r>> # t => pc'[<<k, r>>] = pc[<<k, r>>]
      BY <1>3, Threads
    <3> QED
      BY <2>2, <3>1, <3>2 DEF CountInv, Places
  <2> QED
    BY <1>2, <1>5, <2>3, <2>4 DEF CountInv
<1> QED
  BY <1>7, <1>8

\* main(), the thread of the server and requests that arrive.
LEMMA CountOther ==
    ASSUME CountInv, NEW n \in Node,
           \/ Start(n) \/ Quit(n) \/ Free(n) \/ ServerThread(n)
           \/ \E s \in Slot : Arrive(n, s)
    PROVE  CountInv'
<1>0. /\ pc \in [Thread -> Labels] /\ refs \in [Node -> Int]
      /\ <<n, Main>> \in Thread
  BY Threads DEF CountInv, Types
<1>1. Types'
  BY MainTypes, ArriveTypes DEF CountInv
<1>2. CASE Start(n) \/ Quit(n)
  <2>1. \A k \in Node, s \in Slot : pc'[<<k, s>>] = pc[<<k, s>>]
    BY <1>0, <1>2, Threads DEF Start, Quit, Goto
  <2>2. \A k \in Node : k # n => At(k)' = At(k) /\ refs'[k] = refs[k]
    BY <1>0, <1>2, Threads DEF Start, Quit, Goto, At
  <2>3. \/ At(n) = "start" /\ At(n)' = "loop" /\ refs'[n] = refs[n]
        \/ At(n) = "loop" /\ At(n)' = "unref" /\ refs'[n] = refs[n] - 1
    BY <1>0, <1>2 DEF Start, Quit, Goto, At
  <2>4. Counted(n)'
    <3>1. Holders(n)' = Holders(n) /\ Cardinality(Holders(n)) \in Nat
      BY <2>1, HoldersFinite DEF Holders
    <3>2. refs[n] >= Own(At(n)) + Cardinality(Holders(n))
      BY DEF CountInv, Counted
    <3>3. refs'[n] >= Own(At(n)') + Cardinality(Holders(n)')
      BY <1>0, <2>3, <3>1, <3>2 DEF Own
    <3> QED
      BY <3>3 DEF Counted, Own
  <2>5. ASSUME NEW k \in Node, k # n PROVE Counted(k)'
    BY <1>0, <2>1, <2>2, <2>5, CountedStays DEF CountInv, Own
  <2>6. Places'
    BY <2>1, <2>2, <2>3 DEF CountInv, Places, Destructor
  <2> QED
    BY <1>1, <2>4, <2>5, <2>6 DEF CountInv
<1>3. CASE Free(n)
  <2>1. /\ \A k \in Node \ {n} : /\ At(k)' = At(k)
                                 /\ \A s \in Slot : pc'[<<k, s>>] = pc[<<k, s>>]
        /\ At(n)' = "exited" /\ At(n) = "free"
        /\ \A s \in Slot : pc'[<<n, s>>] = "idle"
        /\ refs' = refs
    BY <1>0, <1>3, Threads DEF Free, At
  <2>2. Counted(n)'
    <3>1. Holders(n)' = {} /\ Cardinality(Holders(n)) \in Nat
      BY <2>1, HoldersFinite DEF Holders
    <3>2. refs[n] >= 0
      BY <3>1, <2>1, <1>0 DEF CountInv, Counted, Own
    <3>3. refs'[n] >= Own(At(n)') + Cardinality(Holders(n)')
      BY <3>1, <3>2, <2>1, FS_EmptySet DEF Own
    <3> QED
      BY <3>3 DEF Counted, Own
  <2>3. ASSUME NEW k \in Node, k # n PROVE Counted(k)'
    BY <1>0, <2>1, <2>3, CountedStays DEF CountInv, Own
  <2>4. Places'
    BY <2>1 DEF CountInv, Places, Destructor
  <2> QED
    BY <1>1, <2>2, <2>3, <2>4 DEF CountInv
<1>4. CASE ServerThread(n)
  <2>1. UNCHANGED <<pc, refs>>
    BY <1>4 DEF ServerThread
  <2> QED
    BY <1>1, <2>1 DEF CountInv, Places, Counted, At, Own, Holders
<1>5. ASSUME NEW s \in Slot, Arrive(n, s) PROVE CountInv'
  <2>1. /\ refs' = refs /\ pc[<<n, s>>] = "idle"
        /\ \E l \in {"take", "serve"} : pc' = [pc EXCEPT ![<<n, s>>] = l]
    BY <1>5 DEF Arrive, Goto
  <2>2. /\ \A k \in Node : At(k)' = At(k)
        /\ \A k \in Node, r \in Slot :
              \/ pc'[<<k, r>>] = pc[<<k, r>>]
              \/ /\ pc[<<k, r>>] = "idle"
                 /\ pc'[<<k, r>>] \in {"take", "serve"}
    BY <1>0, <2>1, Threads DEF At
  <2>3. \A k \in Node : Holders(k)' = Holders(k)
    BY <2>2 DEF Holders
  <2>4. \A k \in Node : Counted(k)'
    BY <2>1, <2>2, <2>3 DEF CountInv, Counted, Own
  <2>5. Places'
    BY <2>2 DEF CountInv, Places
  <2> QED
    BY <1>1, <2>4, <2>5 DEF CountInv
<1> QED
  BY <1>2, <1>3, <1>4, <1>5

LEMMA CountNext == ASSUME CountInv, [Next]_vars PROVE CountInv'
<1>1. CASE \E m \in exits : Lose(m)
  <2>1. exits' \subseteq exits
        /\ UNCHANGED <<pc, refs, server, running, waiter, todo, told>>
    BY <1>1 DEF Lose
  <2> QED
    BY <2>1 DEF CountInv, Types, Places, Counted, At, Own, Holders
<1>2. CASE UNCHANGED vars
  BY <1>2 DEF vars, calls, CountInv, Types, Places, Counted, At, Own, Holders
<1> QED
  BY <1>1, <1>2, CountThread, CountOther DEF Next

\* Whatever comes in and whoever runs the destructor: the count of the
\* shared_ptr never falls below the pointers that are held, so never below 0.
THEOREM TypeCorrect == Spec => []TypeOK
<1>1. CountInv /\ [Next]_vars => CountInv'
  BY CountNext
<1>2. CountInv => TypeOK
  <2> SUFFICES ASSUME CountInv PROVE TypeOK
    OBVIOUS
  <2>1. ASSUME NEW n \in Node PROVE refs[n] \in Nat
    <3>1. refs[n] \in Int /\ refs[n] >= Own(At(n)) + Cardinality(Holders(n))
      BY DEF CountInv, Types, Counted
    <3>2. Own(At(n)) \in Nat /\ Cardinality(Holders(n)) \in Nat
      BY HoldersFinite DEF Own
    <3> QED
      BY <3>1, <3>2
  <2>2. pc \in [Thread -> Labels] /\ refs \in [Node -> Nat]
    BY <2>1 DEF CountInv, Types
  <2> QED
    BY <2>2 DEF CountInv, Types, TypeOK, Labels
<1> QED
  BY CountInit, <1>1, <1>2, PTL DEF Spec
-----------------------------------------------------------------------------
LEMMA SafeStep == SafeInv /\ CountInv /\ [Next]_vars => SafeInv' /\ CountInv'
BY SafeNext, CountNext DEF CountInv

\* Whatever comes in while clients quit and whichever thread runs the
\* destructor: no handler is under way when the members of the PeerNetwork are
\* destroyed, since the flag that StopServer looks at is up as long as one is ...
THEOREM HandlersEndFirst == Spec => []HandlersAreDone
BY SafeInit, CountInit, SafeStep, SafeHolds, PTL DEF Spec

\* ... the thread of its server has been joined, or never was ...
THEOREM ServerThreadIsJoined == Spec => []ServerIsJoined
BY SafeInit, CountInit, SafeStep, SafeHolds, PTL DEF Spec

\* ... and all its peers have been called, one after the other, answered or not.
THEOREM PeersHearOfTheExit == Spec => []PeersAreTold
BY SafeInit, CountInit, SafeStep, SafeHolds, PTL DEF Spec
=============================================================================
