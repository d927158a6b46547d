------------------------ MODULE CommandTimingProofs ------------------------
(***************************************************************************)
(* The clients start a command close to each other and close to the time   *)
(* the sender chose, for any number of peers and samples, any clocks,      *)
(* floats, bounds and margin.                                              *)
(***************************************************************************)
EXTENDS CommandTiming, TLAPS

Stages == Waiting \cup {"idle", "lost", "started"}

\* The types the argument needs, and that nobody who waits is late.
Timely ==
    /\ now \in Int /\ target \in Int /\ wait \in Nat
    /\ stage \in [Client -> Stages]
    /\ from \in [Client -> Int] /\ due \in [Client -> Int]
    /\ \A c \in Client : stage[c] \in Waiting => now <= due[c]

Held == wait * Ms

\* Until the command goes out only the sender does anything; the target is
\* the margin away from the moment it was chosen at.
Undispatched ==
    /\ stage[Sender] = "aimed" =>
          /\ target = from[Sender] + Skew[Sender] + Margin
          /\ due[Sender] = from[Sender] + Jitter
    /\ stage[Sender] \notin {"called", "asleep", "started", "lost"}
    /\ \A c \in Client \ {Sender} : stage[c] = "idle"

\* What the sender waits for, from d on, is the target, but for a fraction of
\* a millisecond.
OnTarget(d) == /\ target - Ms < d + Held + Skew[Sender]
               /\ d + Held + Skew[Sender] <= target + Late

\* It went out at time d: from then on every client is on its way.
SentAt(d) ==
    /\ OnTarget(d)
    /\ \/ stage[Sender] = "asleep" /\ from[Sender] = d + Held
                                   /\ due[Sender] = d + Held + Jitter
       \/ stage[Sender] = "started" /\ d + Held <= from[Sender]
                                    /\ from[Sender] <= d + Held + Jitter
    /\ \A c \in Client \ {Sender} :
          \/ stage[c] \in {"idle", "lost"}
          \/ stage[c] = "called" /\ from[c] = d /\ due[c] = d + MaxDelay
          \/ stage[c] = "asleep" /\ d + Held <= from[c]
                                 /\ from[c] <= d + Held + MaxDelay
                                 /\ due[c] = from[c] + Jitter
          \/ stage[c] = "started" /\ d + Held <= from[c]
                                  /\ from[c] <= d + Held + MaxDelay + Jitter

Inv == Timely /\ (Undispatched \/ \E d \in Int : SentAt(d))

-----------------------------------------------------------------------------
LEMMA Constants ==
    /\ Sender \in Client /\ Receivers \subseteq Client \ {Sender}
    /\ Skew \in [Client -> Int] /\ Ms \in Nat /\ Ms > 0
    /\ Margin \in Nat /\ Rest \in Nat /\ Jitter \in Nat /\ MaxDelay \in Nat
    /\ Late \in Nat
<1>1. /\ Sender \in Client /\ Receivers \subseteq Client \ {Sender}
      /\ Skew \in [Client -> Int] /\ Ms \in Nat /\ Ms > 0
      /\ Margin \in Nat /\ Rest \in Nat /\ Jitter \in Nat /\ MaxDelay \in Nat
  BY TimingAssumption DEF TimingAssumption, Receivers
<1>2. Late \in Nat
  BY <1>1 DEF Late
<1> QED
  BY <1>1, <1>2

LEMMA WaitType ==
    ASSUME Timely, NEW t \in Int PROVE WaitMs(t) \in Nat
<1>1. Clock(Sender) \in Int
  BY Constants DEF Clock, Timely
<1> DEFINE left == t - Clock(Sender)
<1>2. left \in Int /\ (t > Clock(Sender) => left \in Nat)
  BY <1>1
<1> HIDE DEF left
<1>3. left \in Nat => left \div Ms \in Nat
  BY Constants
<1> QED
  BY <1>2, <1>3 DEF WaitMs, left

\* The wait is what is left of the margin, less than a millisecond cut off.
LEMMA WaitLength ==
    ASSUME Timely, NEW t \in Int, NEW h \in Int, h = WaitMs(t) * Ms
    PROVE  /\ t > Clock(Sender) => h <= t - Clock(Sender)
                                    /\ t - Clock(Sender) - Ms < h
           /\ t <= Clock(Sender) => h = 0
<1>1. Clock(Sender) \in Int
  BY Constants DEF Clock, Timely
<1> DEFINE left == t - Clock(Sender)
           q == left \div Ms
<1>2. CASE t > Clock(Sender)
  <2>1. left \in Int /\ WaitMs(t) = q
    BY <1>1, <1>2 DEF WaitMs
  <2> HIDE DEF left
  <2>2. /\ q \in Int /\ left % Ms = left - Ms * q
        /\ left % Ms \in 0 .. Ms - 1 /\ Ms * q \in Int
    BY <2>1, Constants
  <2> HIDE DEF q
  <2>3. h = Ms * q
    BY <2>1, <2>2, Constants
  <2>4. h <= left /\ left - Ms < h
    BY <2>1, <2>2, <2>3, Constants
  <2> QED
    BY <2>4, <1>1, <1>2 DEF left
<1>3. CASE t <= Clock(Sender)
  <2>1. WaitMs(t) = 0
    BY <1>1, <1>3 DEF WaitMs
  <2> QED
    BY <2>1, <1>1, <1>3, Constants
<1> QED
  BY <1>1, <1>2, <1>3

LEMMA Product == ASSUME NEW a \in Nat, NEW b \in Nat PROVE a * b \in Nat
  OBVIOUS

LEMMA HeldType == ASSUME Timely PROVE Held \in Nat
BY Constants, Product DEF Held, Timely

LEMMA InitInv == Init => Inv
<1> SUFFICES ASSUME Init PROVE Inv
  OBVIOUS
<1>1. now \in Int
  BY TimingAssumption DEF TimingAssumption, Init
<1>2. Timely
  BY <1>1, Constants DEF Init, Timely, Stages, Waiting
<1>3. Undispatched
  BY Constants DEF Init, Undispatched
<1> QED
  BY <1>2, <1>3 DEF Inv

\* A step of the sender's before the dispatch leaves everybody else idle.
LEMMA MeasuringStep ==
    ASSUME Inv, NEW s \in Waiting \ {"called", "asleep", "aimed"},
           NEW lo \in Int, NEW hi \in Nat, Go(Sender, s, lo, hi),
           stage[Sender] \notin {"asleep", "started"},
           now' = now, target' \in Int, wait' = wait
    PROVE  Inv'
<1>1. Undispatched
  BY DEF Inv, SentAt
<1>2. Timely'
  BY Constants DEF Inv, Timely, Go, Stages, Waiting
<1>3. Undispatched'
  BY <1>1, Constants DEF Inv, Timely, Undispatched, Go, Waiting
<1> QED
  BY <1>2, <1>3 DEF Inv

LEMMA AimStep ==
    ASSUME Inv, CalculateTargetExecutionTime PROVE Inv'
<1>1. /\ Undispatched /\ now \in Int
      /\ Skew[Sender] \in Int /\ target' = now + Skew[Sender] + Margin
      /\ now' = now /\ wait' = wait /\ Go(Sender, "aimed", 0, Jitter)
  BY Constants
  DEF Inv, Timely, SentAt, CalculateTargetExecutionTime, At, Clock
<1>2. /\ stage' = [stage EXCEPT ![Sender] = "aimed"]
      /\ from' = [from EXCEPT ![Sender] = now + 0]
      /\ due' = [due EXCEPT ![Sender] = now + Jitter]
  BY <1>1 DEF Go
<1>3. Timely'
  BY <1>1, <1>2, Constants DEF Inv, Timely, Stages, Waiting
<1>4. Undispatched'
  BY <1>1, <1>2, Constants DEF Inv, Timely, Undispatched
<1> QED
  BY <1>3, <1>4 DEF Inv

LEMMA DispatchStep ==
    ASSUME Inv, Dispatch PROVE Inv'
<1> DEFINE W == WaitMs(target)
<1>1. /\ now \in Int /\ now' = now /\ target' = target
      /\ target \in Int /\ W \in Nat /\ wait' = W
  BY WaitType DEF Inv, Timely, Dispatch
<1>2. Undispatched
  BY DEF Inv, SentAt, Dispatch, At
<1>3. Held' \in Nat /\ wait' * Ms = Held'
  BY <1>1, Constants, Product DEF Held
<1>4. Timely'
  <2>1. stage' \in [Client -> Stages]
    BY Constants DEF Inv, Timely, Dispatch, Stages, Waiting
  <2>2. from' \in [Client -> Int] /\ due' \in [Client -> Int]
    BY <1>1, <1>3, Constants DEF Inv, Timely, Dispatch
  <2>3. ASSUME NEW c \in Client, stage'[c] \in Waiting
        PROVE  now' <= due'[c]
    <3>1. CASE c = Sender
      BY <3>1, <1>1, <1>3, Constants DEF Dispatch
    <3>2. CASE c \in Receivers
      BY <3>2, <1>1, Constants DEF Dispatch
    <3>3. CASE c \notin Receivers \cup {Sender}
      BY <2>3, <3>3, <1>1 DEF Inv, Timely, Dispatch
    <3> QED
      BY <3>1, <3>2, <3>3
  <2> QED
    BY <2>1, <2>2, <2>3, <1>1 DEF Timely
<1>5. OnTarget(now)'
  <2>1. /\ stage[Sender] = "aimed" /\ from[Sender] \in Int
        /\ target = from[Sender] + Skew[Sender] + Margin
        /\ from[Sender] <= now /\ now <= from[Sender] + Jitter
    BY <1>2, Constants DEF Undispatched, Inv, Timely, Dispatch, At, Waiting
  <2>2. /\ Clock(Sender) = now + Skew[Sender] /\ Skew[Sender] \in Int
        /\ Held' = W * Ms /\ Ms \in Nat /\ Ms > 0
    BY <1>1, Constants DEF Clock, Held
  <2>3. /\ target > Clock(Sender) => /\ Held' <= target - Clock(Sender)
                                      /\ target - Clock(Sender) - Ms < Held'
        /\ target <= Clock(Sender) => Held' = 0
    BY <1>1, <1>3, <2>2, WaitLength DEF Inv
  <2>4. /\ Late = (IF Jitter > Margin THEN Jitter - Margin ELSE 0)
        /\ Jitter \in Nat /\ Margin \in Nat
    BY Constants DEF Late
  <2> HIDE DEF W
  <2>5. /\ target - Ms < now + Held' + Skew[Sender]
        /\ now + Held' + Skew[Sender] <= target + Late
    BY <1>1, <1>3, <2>1, <2>2, <2>3, <2>4
  <2> QED
    BY <1>1, <2>5 DEF OnTarget
<1>6. SentAt(now)'
  <2>1. /\ stage'[Sender] = "asleep" /\ from'[Sender] = now' + Held'
        /\ due'[Sender] = now' + Held' + Jitter
    BY <1>1, <1>3, Constants DEF Dispatch
  <2>2. ASSUME NEW c \in Client \ {Sender}, c \in Receivers
        PROVE  /\ stage'[c] = "called" /\ from'[c] = now'
               /\ due'[c] = now' + MaxDelay
    BY <2>2, <1>1, Constants DEF Dispatch
  <2>3. ASSUME NEW c \in Client \ {Sender}, c \notin Receivers
        PROVE  stage'[c] = "idle"
    BY <2>3, <1>2, Constants DEF Dispatch, Undispatched
  <2> QED
    BY <1>5, <2>1, <2>2, <2>3 DEF SentAt
<1> QED
  BY <1>1, <1>4, <1>6 DEF Inv

\* A client that arrives, is not reached, or starts keeps within its bounds.
LEMMA ClientStep ==
    ASSUME Inv, NEW c \in Client, Arrive(c) \/ Lose(c) \/ Start(c)
    PROVE  Inv'
<1>1. /\ now' = now /\ target' = target /\ wait' = wait /\ Held' = Held
      /\ now \in Int /\ Held \in Nat
  BY HeldType DEF Inv, Arrive, Lose, Start, Held, Timely
<1>2. PICK d \in Int : SentAt(d)
  BY DEF Inv, Undispatched, Arrive, Lose, Start, At
<1> USE DEF OnTarget
<1>3. CASE Arrive(c)
  <2>1. c # Sender /\ stage[c] = "called"
    BY <1>3, <1>2, Constants DEF SentAt, Arrive, At
  <2>2. now >= d /\ now <= d + MaxDelay
    BY <1>1, <1>3, <2>1, <1>2, Constants
    DEF SentAt, Arrive, At, Inv, Timely, Waiting
  <2>3. /\ stage' = [stage EXCEPT ![c] = "asleep"]
        /\ from' = [from EXCEPT ![c] = now + Held]
        /\ due' = [due EXCEPT ![c] = now + (Held + Jitter)]
    BY <1>3 DEF Arrive, Go, Held
  <2>4. Timely'
    BY <1>1, <2>3, Constants DEF Inv, Timely, Stages, Waiting
  <2>5. SentAt(d)'
    BY <2>1, <2>2, <2>3, <1>1, <1>2, Constants DEF SentAt, Inv, Timely
  <2> QED
    BY <2>4, <2>5 DEF Inv
<1>4. CASE Lose(c)
  <2>1. /\ stage[c] = "called"
        /\ stage' = [stage EXCEPT ![c] = "lost"]
        /\ from' = [from EXCEPT ![c] = now + 0]
        /\ due' = [due EXCEPT ![c] = now + 0]
    BY <1>4 DEF Lose, Go
  <2>2. Timely'
    BY <1>1, <2>1 DEF Inv, Timely, Stages, Waiting
  <2>3. SentAt(d)'
    BY <2>1, <1>1, <1>2, Constants DEF SentAt, Inv, Timely
  <2> QED
    BY <2>2, <2>3 DEF Inv
<1>5. CASE Start(c)
  <2>1. /\ stage[c] = "asleep" /\ now >= from[c] /\ now <= due[c]
        /\ stage' = [stage EXCEPT ![c] = "started"]
        /\ from' = [from EXCEPT ![c] = now + 0]
        /\ due' = [due EXCEPT ![c] = now + 0]
    BY <1>5 DEF Start, Go, At, Inv, Timely, Waiting
  <2>2. Timely'
    BY <1>1, <2>1 DEF Inv, Timely, Stages, Waiting
  <2>3. SentAt(d)'
    <3>1. CASE c = Sender
      BY <3>1, <2>1, <1>1, <1>2, Constants DEF SentAt, Inv, Timely
    <3>2. CASE c # Sender
      BY <3>2, <2>1, <1>1, <1>2, Constants DEF SentAt, Inv, Timely
    <3> QED
      BY <3>1, <3>2
  <2> QED
    BY <2>2, <2>3 DEF Inv
<1> QED
  BY <1>3, <1>4, <1>5

\* Time does not pass anybody's deadline.
LEMMA TickStep == ASSUME Inv, Tick PROVE Inv'
<1>1. UNCHANGED <<stage, from, due, target, wait>> /\ now' = now + 1
  BY DEF Tick, threads
<1>2. Timely'
  BY <1>1 DEF Inv, Timely, Tick
<1>3. Undispatched => Undispatched'
  BY <1>1 DEF Undispatched
<1>4. ASSUME NEW d \in Int, SentAt(d) PROVE SentAt(d)'
  BY <1>1, <1>4 DEF SentAt, OnTarget, Held
<1> QED
  BY <1>2, <1>3, <1>4 DEF Inv

LEMMA NextInv == ASSUME Inv, [Next]_vars PROVE Inv'
<1>1. now \in Int /\ target \in Int /\ Clock(Sender) + Margin \in Int
  BY Constants DEF Inv, Timely, Clock
<1>2. CASE BroadcastCommand
  <2>1. /\ Go(Sender, "ping", 0, Jitter)
        /\ stage[Sender] \notin {"asleep", "started"}
        /\ now' = now /\ target' \in Int /\ wait' = wait
    BY <1>1, <1>2 DEF BroadcastCommand
  <2>2. "ping" \in Waiting \ {"called", "asleep", "aimed"} /\ 0 \in Int /\ Jitter \in Nat
    BY Constants DEF Waiting
  <2> QED
    BY <2>1, <2>2, MeasuringStep
<1>3. CASE SendPing
  <2>1. /\ Go(Sender, "asked", 0, MaxDelay)
        /\ stage[Sender] \notin {"asleep", "started"}
        /\ now' = now /\ target' \in Int /\ wait' = wait
    BY <1>1, <1>3 DEF SendPing, At
  <2>2. "asked" \in Waiting \ {"called", "asleep", "aimed"} /\ 0 \in Int /\ MaxDelay \in Nat
    BY Constants DEF Waiting
  <2> QED
    BY <2>1, <2>2, MeasuringStep
<1>4. CASE PingArrives
  <2>1. /\ Go(Sender, "handled", 0, Jitter)
        /\ stage[Sender] \notin {"asleep", "started"}
        /\ now' = now /\ target' \in Int /\ wait' = wait
    BY <1>1, <1>4 DEF PingArrives, At
  <2>2. "handled" \in Waiting \ {"called", "asleep", "aimed"} /\ 0 \in Int /\ Jitter \in Nat
    BY Constants DEF Waiting
  <2> QED
    BY <2>1, <2>2, MeasuringStep
<1>5. CASE PingAnswered
  <2>1. /\ Go(Sender, "replied", 0, MaxDelay)
        /\ stage[Sender] \notin {"asleep", "started"}
        /\ now' = now /\ target' \in Int /\ wait' = wait
    BY <1>1, <1>5 DEF PingAnswered, At
  <2>2. /\ "replied" \in Waiting \ {"called", "asleep", "aimed"}
        /\ 0 \in Int /\ MaxDelay \in Nat
    BY Constants DEF Waiting
  <2> QED
    BY <2>1, <2>2, MeasuringStep
<1>6. CASE TakeSample
  <2>1. /\ Go(Sender, "ping", Rest, Rest + Jitter)
        /\ stage[Sender] \notin {"asleep", "started"}
        /\ now' = now /\ target' \in Int /\ wait' = wait
    BY <1>1, <1>6 DEF TakeSample, At
  <2>2. /\ "ping" \in Waiting \ {"called", "asleep", "aimed"}
        /\ Rest \in Int /\ Rest + Jitter \in Nat
    BY Constants DEF Waiting
  <2> QED
    BY <2>1, <2>2, MeasuringStep
<1>7. CASE PingFails
  <2>1. /\ Go(Sender, "ping", 0, Jitter)
        /\ stage[Sender] \notin {"asleep", "started"}
        /\ now' = now /\ target' \in Int /\ wait' = wait
    BY <1>1, <1>7 DEF PingFails
  <2>2. "ping" \in Waiting \ {"called", "asleep", "aimed"} /\ 0 \in Int /\ Jitter \in Nat
    BY Constants DEF Waiting
  <2> QED
    BY <2>1, <2>2, MeasuringStep
<1>8. CASE SetAverageOffset
  <2>1. /\ Go(Sender, "measured", 0, Jitter)
        /\ stage[Sender] \notin {"asleep", "started"}
        /\ now' = now /\ target' \in Int /\ wait' = wait
    BY <1>1, <1>8 DEF SetAverageOffset, At
  <2>2. "measured" \in Waiting \ {"called", "asleep", "aimed"} /\ 0 \in Int /\ Jitter \in Nat
    BY Constants DEF Waiting
  <2> QED
    BY <2>1, <2>2, MeasuringStep
<1>9. CASE CalculateTargetExecutionTime
  BY <1>9, AimStep
<1>10. CASE Dispatch
  BY <1>10, DispatchStep
<1>11. CASE Tick
  BY <1>11, TickStep
<1>12. CASE \E c \in Client : Arrive(c) \/ Lose(c) \/ Start(c)
  BY <1>12, ClientStep
<1>13. CASE UNCHANGED vars
  <2>1. UNCHANGED <<now, stage, from, due, target, wait>>
    BY <1>13 DEF vars, threads
  <2> QED
    BY <2>1 DEF Inv, Timely, Undispatched, SentAt, OnTarget, Held
<1> QED
  BY <1>2, <1>3, <1>4, <1>5, <1>6, <1>7, <1>8, <1>9, <1>10, <1>11, <1>12,
     <1>13 DEF Next, Measure

\* From the dispatch on, everybody starts within one bound of everybody else.
LEMMA InvStartsClose == Inv => StartsClose
<1> SUFFICES ASSUME Inv, NEW a \in Client, NEW b \in Client,
                    stage[a] = "started", stage[b] = "started"
             PROVE  from[a] - from[b] <= MaxDelay + Jitter
  BY DEF StartsClose
<1>1. PICK d \in Int : SentAt(d)
  BY Constants DEF Inv, Undispatched
<1>2. Held \in Nat /\ from[a] \in Int /\ from[b] \in Int
  BY HeldType DEF Inv, Timely
<1>3. /\ d + Held <= from[a] /\ from[a] <= d + Held + MaxDelay + Jitter
      /\ d + Held <= from[b] /\ from[b] <= d + Held + MaxDelay + Jitter
  BY <1>1, <1>2, Constants DEF SentAt
<1> QED
  BY <1>2, <1>3, Constants

\* The clients that carry out a command start within MaxDelay + Jitter of each
\* other, whatever the clocks, the pings and the margin: what is sent is a
\* time to wait, and the sender waits as long as its peers.
THEOREM CommandsStartTogether == Spec => []StartsClose
<1>1. Inv /\ [Next]_vars => Inv'
  BY NextInv
<1> QED
  BY InitInv, <1>1, InvStartsClose, PTL DEF Spec
LEMMA InvStartsOnTarget == Inv => StartsOnTarget
<1> SUFFICES ASSUME Inv, NEW c \in Client, stage[c] = "started"
             PROVE  /\ target - Ms < from[c] + Skew[Sender]
                    /\ from[c] + Skew[Sender]
                          <= target + Late + MaxDelay + Jitter
  BY DEF StartsOnTarget
<1>1. PICK d \in Int : SentAt(d)
  BY Constants DEF Inv, Undispatched
<1>2. Held \in Nat /\ from[c] \in Int /\ target \in Int
  BY HeldType DEF Inv, Timely
<1>3. d + Held <= from[c] /\ from[c] <= d + Held + MaxDelay + Jitter
  BY <1>1, <1>2, Constants DEF SentAt
<1>4. OnTarget(d)
  BY <1>1 DEF SentAt
<1> QED
  BY <1>2, <1>3, <1>4, Constants DEF OnTarget

\* Nobody starts a whole millisecond before the target the sender chose, nor
\* later than one delay, one wake-up and the sender's own lateness after it:
\* the wait is what is left of the margin, never negative, in milliseconds.
THEOREM CommandsStartOnTarget == Spec => []StartsOnTarget
<1>1. Inv /\ [Next]_vars => Inv'
  BY NextInv
<1> QED
  BY InitInv, <1>1, InvStartsOnTarget, PTL DEF Spec
-----------------------------------------------------------------------------
\* What the sender keeps while it measures.
Kept ==
    /\ todo \in Seq(Receivers)
    /\ t0 \in Int /\ t1 \in Int /\ t2 \in Int
    /\ sum \in Int /\ count \in Nat /\ exact \in Int /\ average \in Int
    /\ stage[Sender] \in {"asked", "handled", "replied"} => todo # << >>

LEMMA FloatType ==
    ASSUME NEW num, NEW den PROVE Float(num, den) \subseteq Int
<1>1. Digits \in Nat /\ Scales \subseteq Int
  BY TimingAssumption DEF TimingAssumption
<1>2. ASSUME NEW f \in (- Digits .. Digits) \X Scales PROVE f[1] * f[2] \in Int
  <2>1. f[1] \in - Digits .. Digits /\ f[2] \in Scales
    OBVIOUS
  <2>2. - Digits .. Digits \subseteq Int
    BY <1>1
  <2>3. f[1] \in Int /\ f[2] \in Int
    BY <1>1, <2>1, <2>2
  <2> QED
    BY <2>3
<1> QED
  BY <1>2 DEF Float

LEMMA TruncatedType == ASSUME NEW t \in Int PROVE Truncated(t) \in Int
<1>1. Word \in Nat \ {0} /\ Word \div 2 \in Int
  BY TimingAssumption DEF TimingAssumption
<1> DEFINE x == t + (Word \div 2)
<1>2. x \in Int
  BY <1>1
<1> HIDE DEF x
<1>3. x % Word \in Int
  BY <1>1, <1>2
<1> QED
  BY <1>1, <1>3 DEF Truncated, x

\* The list of pings is one of peers.
LEMMA PingList ==
    [i \in 1 .. Samples * Len(Peers) |-> Peers[(i - 1) \div Samples + 1]]
        \in Seq(Receivers)
<1> DEFINE L == Len(Peers)
<1>1. L \in Nat /\ Samples \in Nat /\ Samples * L \in Nat
  BY TimingAssumption DEF TimingAssumption
<1>2. ASSUME NEW i \in 1 .. Samples * L
      PROVE  Peers[(i - 1) \div Samples + 1] \in Receivers
  <2>1. Samples # 0
    BY <1>1
  <2> DEFINE x == i - 1
             q == x \div Samples
  <2>2. x \in Nat /\ x < Samples * L
    BY <1>1
  <2>3. /\ q \in Int /\ x % Samples = x - Samples * q
        /\ x % Samples \in 0 .. Samples - 1
        /\ Samples * q \in Int
    BY <1>1, <2>1, <2>2
  <2> HIDE DEF q
  <2>4. q < L
    <3>1. SUFFICES ASSUME q - L \in Nat PROVE FALSE
      BY <2>3, <1>1
    <3>2. Samples * (q - L) \in Nat
      BY <3>1, <1>1
    <3>3. Samples * (q - L) = Samples * q - Samples * L
      BY <1>1, <2>3
    <3>4. Samples * q <= x
      BY <2>2, <2>3, <1>1
    <3> QED
      BY <3>2, <3>3, <3>4, <2>2, <2>3, <1>1
  <2>5. q >= 0
    <3>1. SUFFICES ASSUME (0 - q) - 1 \in Nat PROVE FALSE
      BY <2>3
    <3>2. Samples * ((0 - q) - 1) \in Nat
      BY <3>1, <1>1
    <3>3. Samples * ((0 - q) - 1) = (0 - Samples * q) - Samples
      BY <1>1, <2>3
    <3> QED
      BY <3>2, <3>3, <2>2, <2>3, <1>1
  <2>6. q + 1 \in 1 .. L
    BY <2>3, <2>4, <2>5, <1>1
  <2> QED
    BY <2>6 DEF Receivers, q
<1> HIDE DEF L
<1> QED
  BY <1>1, <1>2 DEF L

LEMMA Goes ==
    ASSUME Timely, NEW s, NEW lo, NEW hi, Go(Sender, s, lo, hi)
    PROVE  /\ stage'[Sender] = s /\ from'[Sender] = now + lo
           /\ due'[Sender] = now + hi
BY Constants DEF Timely, Go

\* The peer that is pinged has a clock.
LEMMA ClockType ==
    ASSUME Timely, todo \in Seq(Receivers), todo # << >>
    PROVE  Clock(Head(todo)) \in Int /\ Skew[Head(todo)] \in Int
<1>1. Head(todo) \in Receivers
  OBVIOUS
<1> QED
  BY <1>1, Constants DEF Clock, Timely

LEMMA KeptStep == ASSUME Inv, Kept, [Next]_vars PROVE Kept'
<1>1. Timely /\ Clock(Sender) \in Int /\ Skew[Sender] \in Int
  BY Constants DEF Inv, Timely, Clock
<1>2. CASE BroadcastCommand
  <2>1. /\ stage'[Sender] = "ping" /\ todo' \in Seq(Receivers)
        /\ UNCHANGED <<t0, t1, t2, sum, count, exact, average>>
    BY <1>1, <1>2, Goes, PingList DEF BroadcastCommand
  <2> QED
    BY <2>1 DEF Kept
<1>3. CASE SendPing
  <2>1. /\ todo # << >> /\ t0' = Clock(Sender)
        /\ UNCHANGED <<todo, t1, t2, sum, count, exact, average>>
    BY <1>3 DEF SendPing
  <2> QED
    BY <1>1, <2>1 DEF Kept
<1>4. CASE PingArrives \/ PingAnswered
  <2>1. /\ todo # << >> /\ todo' = todo
        /\ t1' \in {t1, Truncated(Clock(Head(todo)))}
        /\ t2' \in {t2, Truncated(Clock(Head(todo)))}
        /\ UNCHANGED <<t0, sum, count, exact, average>>
    BY <1>4 DEF PingArrives, PingAnswered, At, Kept
  <2>2. Truncated(Clock(Head(todo))) \in Int
    BY <1>1, <2>1, ClockType, TruncatedType DEF Kept
  <2> QED
    BY <2>1, <2>2 DEF Kept
<1>5. CASE TakeSample
  <2>1. todo # << >> /\ todo \in Seq(Receivers) /\ exact \in Int /\ count \in Nat
    BY <1>5 DEF TakeSample, At, Kept
  <2>2. /\ stage'[Sender] = "ping" /\ todo' = Tail(todo) /\ average' = average
        /\ t0' = 0 /\ t1' = 0 /\ t2' = 0 /\ count' = count + 1
        /\ exact' = exact + 2 * (Skew[Head(todo)] - Skew[Sender])
    BY <1>1, <1>5, Goes DEF TakeSample, NextPing, Sampled
  <2>3. sum' \in Int
    BY <1>5, FloatType DEF TakeSample
  <2>4. exact' \in Int /\ Tail(todo) \in Seq(Receivers)
    BY <1>1, <2>1, <2>2, ClockType
  <2> QED
    BY <2>1, <2>2, <2>3, <2>4 DEF Kept
<1>6. CASE PingFails
  <2>1. /\ todo # << >> /\ stage'[Sender] = "ping" /\ todo' = Tail(todo)
        /\ t0' = 0 /\ t1' = 0 /\ t2' = 0
        /\ UNCHANGED <<sum, count, exact, average>>
    BY <1>1, <1>6, Goes DEF PingFails, NextPing, Kept
  <2> QED
    BY <2>1 DEF Kept
<1>7. CASE SetAverageOffset
  <2>1. /\ stage'[Sender] = "measured" /\ UNCHANGED pings
        /\ average' = average \/ average' \in Float(sum, count)
    BY <1>1, <1>7, Goes DEF SetAverageOffset
  <2>2. average' \in Int
    BY <2>1, FloatType DEF Kept
  <2> QED
    BY <2>1, <2>2 DEF Kept, pings
<1>8. CASE CalculateTargetExecutionTime
  <2>1. UNCHANGED <<pings, average>> /\ stage'[Sender] = "aimed"
    BY <1>1, <1>8, Goes DEF CalculateTargetExecutionTime
  <2> QED
    BY <2>1 DEF Kept, pings
<1>9. CASE Dispatch
  <2>1. UNCHANGED <<pings, average>> /\ stage'[Sender] = "asleep"
    BY <1>9, Constants DEF Dispatch
  <2> QED
    BY <2>1 DEF Kept, pings
<1>10. CASE \E c \in Client : Arrive(c) \/ Lose(c) \/ Start(c)
  <2>1. /\ UNCHANGED <<pings, average>>
        /\ \/ stage'[Sender] = stage[Sender]
           \/ stage'[Sender] \in {"asleep", "lost", "started"}
    BY <1>1, <1>10, Constants DEF Arrive, Lose, Start, Go, Timely
  <2> QED
    BY <2>1 DEF Kept, pings
<1>11. CASE Tick \/ UNCHANGED vars
  BY <1>11 DEF Kept, Tick, vars, threads, pings
<1> QED
  BY <1>2, <1>3, <1>4, <1>5, <1>6, <1>7, <1>8, <1>9, <1>10, <1>11
  DEF Next, Measure

\* Readings, sums and waits are what they should be, no thread is later than
\* its bound, and a ping under way is one of the list.
THEOREM TypeCorrect == Spec => []TypeOK
<1>1. Init => Kept
  BY Constants DEF Init, Kept
<1>2. Inv /\ Kept /\ [Next]_vars => Inv' /\ Kept'
  BY NextInv, KeptStep
<1>3. Inv /\ Kept => TypeOK
  BY DEF Inv, Timely, Kept, TypeOK, Stages
<1> QED
  BY InitInv, <1>1, <1>2, <1>3, PTL DEF Spec
=============================================================================
