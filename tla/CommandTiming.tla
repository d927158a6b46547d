--------------------------- MODULE CommandTiming ---------------------------
(***************************************************************************)
(* When the clients start to carry out one command: BroadcastCommand pings *)
(* every peer to measure the clock offset, computes a target time, turns   *)
(* it into a waiting time that it sends to the peers and waits itself.     *)
(*                                                                         *)
(* now is real time; a client's clock differs from it by its Skew.  Every  *)
(* wait of a thread has an earliest and a latest end (from, due) that Tick *)
(* respects.  Offsets are kept doubled, so that halving one loses nothing; *)
(* Float rounds them where the code makes floats of them.                  *)
(***************************************************************************)
EXTENDS Integers, Sequences

CONSTANTS
    Client, Sender,  \* the clients, and the one whose user gives a command
    Peers,           \* its connected_peers_
    Skew,            \* clock minus real time, of each client
    Word,            \* how many values a 32-bit field has
    Digits, Scales,  \* the largest significand of a float, what its unit may be
    Samples,         \* NUM_SAMPLES
    Margin, Ms,      \* the safety margin and a millisecond, in clock units
    Rest,            \* the pause after a ping
    Jitter,          \* latest a thread that could run does run
    MaxDelay,        \* latest a message arrives
    Beginnings,      \* times at which the command may be given
    MaxNow           \* bound on time, never reached by the code's steps

ASSUME TimingAssumption ==
    /\ Sender \in Client /\ Peers \in Seq(Client \ {Sender})
    /\ Skew \in [Client -> Int]
    /\ Word \in Nat \ {0} /\ Ms \in Nat \ {0}
    /\ Digits \in Nat /\ Scales \subseteq Nat \ {0}
    /\ Samples \in Nat /\ Margin \in Nat /\ Rest \in Nat
    /\ Jitter \in Nat /\ MaxDelay \in Nat
    /\ Beginnings \subseteq Int /\ MaxNow \in Int

VARIABLES
    now,                \* real time
    stage, from, due,   \* of each client: what it does, and until when
    todo,               \* the pings still to be made
    t0, t1, t2,         \* the clock readings of the ping under way
    sum, count,         \* sum_offset, doubled, and offsets.size()
    exact,              \* history: what sum would be if no message took time
    average,            \* avg_offset_, doubled
    target, wait        \* target_time_ns, wait_ms

threads == <<stage, from, due>>
pings   == <<todo, t0, t1, t2, sum, count, exact>>
vars    == <<now, threads, pings, average, target, wait>>

Receivers == {Peers[i] : i \in 1 .. Len(Peers)}
Clock(c) == now + Skew[c]

Abs(x) == IF x < 0 THEN - x ELSE x

\* What an int32 field keeps of an int64.
Truncated(t) == ((t + (Word \div 2)) % Word) - (Word \div 2)

\* The float nearest to num / den, in the finest unit its significand allows;
\* of two that are equally near the even one.  (No unit is finer than that of
\* a doubled offset: a fraction of half a nanosecond is rounded away.)
Float(num, den) ==
    {f[1] * f[2] : f \in
        {g \in (- Digits .. Digits) \X Scales :
            LET off == 2 * Abs(g[1] * g[2] * den - num)
            IN /\ off <= g[2] * den
               /\ off = g[2] * den => g[1] % 2 = 0
               /\ \A u \in Scales : u < g[2] => Digits * u * den < Abs(num)}}

Waiting == {"ping", "asked", "handled", "replied", "measured", "aimed",
            "called", "asleep"}

TypeOK ==
    /\ now \in Int /\ from \in [Client -> Int] /\ due \in [Client -> Int]
    /\ stage \in [Client -> Waiting \cup {"idle", "lost", "started"}]
    /\ todo \in Seq(Receivers)
    /\ t0 \in Int /\ t1 \in Int /\ t2 \in Int
    /\ sum \in Int /\ count \in Nat /\ exact \in Int
    /\ average \in Int /\ target \in Int /\ wait \in Nat
    /\ \A c \in Client : stage[c] \in Waiting => now <= due[c]
    /\ stage[Sender] \in {"asked", "handled", "replied"} => todo # <<>>

-----------------------------------------------------------------------------
Init ==
    /\ now \in Beginnings
    /\ stage = [c \in Client |-> "idle"]
    /\ from = [c \in Client |-> now] /\ due = from
    /\ todo = <<>> /\ t0 = 0 /\ t1 = 0 /\ t2 = 0
    /\ sum = 0 /\ count = 0 /\ exact = 0
    /\ average = 0 /\ target = 0 /\ wait = 0

At(c, s) == stage[c] = s /\ now >= from[c]

\* c goes on to s, to leave it between lo and hi from now on.
Go(c, s, lo, hi) ==
    /\ stage' = [stage EXCEPT ![c] = s]
    /\ from' = [from EXCEPT ![c] = now + lo]
    /\ due' = [due EXCEPT ![c] = now + hi]

\* The user's command: every peer is to be pinged Samples times.  Without
\* peers the call returns at once, and there is nothing to time.
BroadcastCommand ==
    /\ stage[Sender] = "idle" /\ Peers # <<>>
    /\ todo' = [i \in 1 .. Samples * Len(Peers) |->
                   Peers[(i - 1) \div Samples + 1]]
    /\ Go(Sender, "ping", 0, Jitter)
    /\ UNCHANGED <<now, t0, t1, t2, sum, count, exact, average, target, wait>>

SendPing ==
    /\ At(Sender, "ping") /\ todo # <<>>
    /\ t0' = Clock(Sender)
    /\ Go(Sender, "asked", 0, MaxDelay)
    /\ UNCHANGED <<now, todo, t1, t2, sum, count, exact, average, target, wait>>

\* The peer's handler reads its clock twice.
PingArrives ==
    /\ At(Sender, "asked")
    /\ t1' = Truncated(Clock(Head(todo)))
    /\ Go(Sender, "handled", 0, Jitter)
    /\ UNCHANGED <<now, todo, t0, t2, sum, count, exact, average, target, wait>>

PingAnswered ==
    /\ At(Sender, "handled")
    /\ t2' = Truncated(Clock(Head(todo)))
    /\ Go(Sender, "replied", 0, MaxDelay)
    /\ UNCHANGED <<now, todo, t0, t1, sum, count, exact, average, target, wait>>

\* The next round of the loop over the peers has readings of its own.
NextPing == todo' = Tail(todo) /\ t0' = 0 /\ t1' = 0 /\ t2' = 0

\* One offset more: of how many, and what a perfect one would be.
Sampled ==
    /\ count' = count + 1
    /\ exact' = exact + 2 * (Skew[Head(todo)] - Skew[Sender])

\* The answer is used, and the thread pauses before the next ping: the
\* difference becomes a float, and so does the sum.
TakeSample ==
    /\ At(Sender, "replied")
    /\ \E offset \in Float((t1 - t0) + (t2 - Clock(Sender)), 1) :
          sum' \in Float(sum + offset, 1)
    /\ Sampled
    /\ NextPing /\ Go(Sender, "ping", Rest, Rest + Jitter)
    /\ UNCHANGED <<now, average, target, wait>>

\* Fault: a ping that fails is tried again.
RetryPing ==
    /\ stage[Sender] \in {"asked", "handled", "replied"}
    /\ Go(Sender, "ping", 0, Jitter)
    /\ UNCHANGED <<now, pings, average, target, wait>>

\* The ping fails, or its deadline passes: no sample, on to the next one.
PingFails ==
    /\ stage[Sender] \in {"asked", "handled", "replied"}
    /\ NextPing /\ Go(Sender, "ping", 0, Jitter)
    /\ UNCHANGED <<now, sum, count, exact, average, target, wait>>

\* The average replaces the stored one if there is any sample.
SetAverageOffset ==
    /\ At(Sender, "ping") /\ todo = <<>>
    /\ IF count = 0 THEN average' = average ELSE average' \in Float(sum, count)
    /\ Go(Sender, "measured", 0, Jitter)
    /\ UNCHANGED <<now, pings, target, wait>>

\* max_rtt_ is 0 for ever: the program never sets it.
CalculateTargetExecutionTime ==
    /\ At(Sender, "measured")
    /\ target' = Clock(Sender) + Margin
    /\ Go(Sender, "aimed", 0, Jitter)
    /\ UNCHANGED <<now, pings, average, wait>>

\* Fault: that the target may have passed is forgotten.
WaitMsUnchecked(t) == (t - Clock(Sender)) \div Ms

\* Fault: what is left is taken for milliseconds.
WaitNs(t) == IF t > Clock(Sender) THEN t - Clock(Sender) ELSE 0

\* The clock is read again; what is left of the margin, in whole
\* milliseconds, is sent to every peer and waited for here.
WaitMs(t) == IF t > Clock(Sender) THEN (t - Clock(Sender)) \div Ms ELSE 0

\* Fault: the sender does not wait itself.
DispatchUnwaited ==
    /\ At(Sender, "aimed")
    /\ wait' = WaitMs(target)
    /\ stage' = [c \in Client |->
                    IF c = Sender THEN "asleep"
                    ELSE IF c \in Receivers THEN "called" ELSE stage[c]]
    /\ from' = [c \in Client |->
                   IF c \in Receivers \cup {Sender} THEN now ELSE from[c]]
    /\ due' = [c \in Client |->
                  IF c = Sender THEN now + Jitter
                  ELSE IF c \in Receivers THEN now + MaxDelay ELSE due[c]]
    /\ UNCHANGED <<now, pings, average, target>>

\* The command goes out to every peer at once, and the sender goes to sleep.
Dispatch ==
    /\ At(Sender, "aimed")
    /\ wait' = WaitMs(target)
    /\ stage' = [c \in Client |->
                    IF c = Sender THEN "asleep"
                    ELSE IF c \in Receivers THEN "called" ELSE stage[c]]
    /\ from' = [c \in Client |->
                   IF c = Sender THEN now + wait' * Ms
                   ELSE IF c \in Receivers THEN now ELSE from[c]]
    /\ due' = [c \in Client |->
                  IF c = Sender THEN now + wait' * Ms + Jitter
                  ELSE IF c \in Receivers THEN now + MaxDelay ELSE due[c]]
    /\ UNCHANGED <<now, pings, average, target>>

\* A peer's handler thread sleeps as long as it was told.
Arrive(p) ==
    /\ At(p, "called")
    /\ Go(p, "asleep", wait * Ms, wait * Ms + Jitter)
    /\ UNCHANGED <<now, pings, average, target, wait>>

Lose(p) ==
    /\ stage[p] = "called"
    /\ Go(p, "lost", 0, 0)
    /\ UNCHANGED <<now, pings, average, target, wait>>

\* The player is called: from[c] keeps the time.
Start(c) ==
    /\ At(c, "asleep")
    /\ Go(c, "started", 0, 0)
    /\ UNCHANGED <<now, pings, average, target, wait>>

\* Time passes while somebody waits and nobody is late.
Tick ==
    /\ now < MaxNow
    /\ \E c \in Client : stage[c] \in Waiting
    /\ \A c \in Client : stage[c] \in Waiting => now < due[c]
    /\ now' = now + 1
    /\ UNCHANGED <<threads, pings, average, target, wait>>

Measure == \/ BroadcastCommand \/ SendPing \/ PingArrives \/ PingAnswered
           \/ TakeSample \/ PingFails \/ SetAverageOffset
           \/ CalculateTargetExecutionTime \/ Dispatch

Next ==
    \/ Measure \/ Tick
    \/ \E c \in Client : Arrive(c) \/ Lose(c) \/ Start(c)

\* Threads and messages get on within their bounds, and time goes on.
Spec == Init /\ [][Next]_vars /\ WF_vars(Next)

-----------------------------------------------------------------------------
\* The clients that carry out the command start within one message delay and
\* one wake-up of each other, whatever their clocks say, however long the
\* pings took and whatever is left of the margin (sync_clock.h:76-80: "ensuring
\* all peers can execute a command at approximately the same time").
StartsClose ==
    \A c, d \in Client :
        stage[c] = "started" /\ stage[d] = "started"
            => from[c] - from[d] <= MaxDelay + Jitter

\* How late the sender may be for its own target: the clock is read again
\* after the target is computed, and by then the margin may have passed.
Late == IF Jitter > Margin THEN Jitter - Margin ELSE 0

\* Whoever carries the command out does so at the target time, by the sender's
\* clock: less than a millisecond early, since the wait is cut to whole ones,
\* and late by no more than one delay, one wake-up and what the sender itself
\* was late (peer_network.cpp:463-471: a margin that has passed must not become
\* a negative wait, nor nanoseconds be taken for milliseconds).
StartsOnTarget ==
    \A c \in Client : stage[c] = "started" =>
        LET t == from[c] + Skew[Sender]
        IN target - Ms < t /\ t <= target + Late + MaxDelay + Jitter

\* peer_network.cpp:359: "Calculate clock offset: ((t1 - t0) + (t2 - t3)) / 2".
\* The stored average is the clock offset of the peers, up to half a round
\* trip and the rounding; the answers hold too few bits of t1 and t2 for that.
OffsetIsSkew ==
    stage[Sender] = "measured" =>
        \E e \in - (count * MaxDelay) .. count * MaxDelay :
            2 * Abs(average * count - exact - e) <= count

\* A command given is carried out by its sender, whether or not any ping or
\* peer answers.
SenderStarts == stage[Sender] = "ping" ~> stage[Sender] = "started"
=============================================================================
