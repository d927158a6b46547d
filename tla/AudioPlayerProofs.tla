------------------------- MODULE AudioPlayerProofs -------------------------
(***************************************************************************)
(* For any songs, positions, buffers and integer width: AudioPlayer is     *)
(* type correct; with one control thread, data is never replaced under a   *)
(* callback, what sounds can be silenced, and a song that is played in     *)
(* step is played within its bounds.                                       *)
(***************************************************************************)
EXTENDS AudioPlayer, TLAPS

\* Frames to copy: never more than the callback was asked for.
LEMMA FramesType ==
    ASSUME NEW pos \in Int, data \in Nat
    PROVE  FramesAvailable(pos) \in Nat
<1>1. Word \in Int /\ Word > 0 /\ FrameBytes \in Int /\ FrameBytes > 0
  BY PlayerAssumption
<1>2. data - DataPosition(pos) \in Int
  BY <1>1, PlayerAssumption DEF DataPosition
<1> DEFINE x == (data - DataPosition(pos)) % Word
<1>3. x \in Nat
  BY <1>1, <1>2
<1> HIDE DEF x
<1>4. x \div FrameBytes \in Nat
  BY <1>1, <1>3
<1> QED
  BY <1>4 DEF FramesAvailable, x

\* Positions stay unsigned integers.
LEMMA WordType ==
    ASSUME NEW k \in Int
    PROVE  k % Word \in 0 .. (Word - 1)
<1>1. Word \in Int /\ Word > 0
  BY PlayerAssumption
<1> QED
  BY <1>1

\* A thread inside load is in a load, and a thread that seeks is in a seek.
CallOK ==
    \A c \in Caller :
        /\ pc[c] \in {"clean", "fill", "setup"} => call[c].op = "load"
        /\ pc[c] = "seek" => call[c].op = "seek"

LEMMA CallType ==
    /\ \A o \in Calls \cup {NoCall} :
          /\ o.op = "load" => o.length \in Lengths
          /\ o.op = "seek" => o.to \in Positions
    /\ NoCall.op = "none"
<1>1. NoCall.op = "none"
  BY DEF NoCall
<1>2. ASSUME NEW o \in Calls
      PROVE  /\ o.op = "load" => o.length \in Lengths
             /\ o.op = "seek" => o.to \in Positions
  <2>1. CASE o \in [op : Ops \ {"load", "seek"}]
    BY <2>1
  <2>2. CASE o \in [op : Ops \cap {"load"}, kind : Kinds, length : Lengths]
    BY <2>2
  <2>3. CASE o \in [op : Ops \cap {"seek"}, to : Positions]
    BY <2>3
  <2> QED
    BY <1>2, <2>1, <2>2, <2>3 DEF Calls
<1> QED
  BY <1>1, <1>2

PCs == {"idle", "clean", "halt", "wait", "fill", "setup", "prepare", "test",
        "raise", "start", "lower", "rewind", "seek"}

\* What TypeOK and CallOK say of the control threads.
CallersOK(p, k) ==
    /\ p \in [Caller -> PCs]
    /\ k \in [Caller -> Calls \cup {NoCall}]
    /\ \A c \in Caller :
          /\ p[c] \in {"clean", "fill", "setup"} => k[c].op = "load"
          /\ p[c] = "seek" => k[c].op = "seek"

\* A thread that moves on in its call.
LEMMA GotoType ==
    ASSUME CallersOK(pc, call), NEW c \in Caller, NEW l \in PCs \ {"seek"},
           l \in {"clean", "fill", "setup"} => call[c].op = "load",
           Goto(c, l)
    PROVE  CallersOK(pc', call')
<1>1. /\ pc' = [pc EXCEPT ![c] = l]
      /\ call' = [call EXCEPT ![c] = IF l = "idle" THEN NoCall ELSE call[c]]
  BY DEF Goto
<1>2. pc' \in [Caller -> PCs]
  BY <1>1 DEF CallersOK
<1>3. call' \in [Caller -> Calls \cup {NoCall}]
  BY <1>1 DEF CallersOK
<1> QED
  BY <1>1, <1>2, <1>3 DEF CallersOK

\* The values that are not about control threads.
ValuesOK(p, d, u, r) ==
    /\ p \in 0 .. (Word - 1)
    /\ d \in Lengths \cup {0}
    /\ u \in {"none", "broken", "ready", "running"}
    /\ r \in [at : {"idle", "reading", "ending", "halting"},
              from : 0 .. (Word - 1), frames : 0 .. Buffer]

LEMMA TypeParts ==
    /\ TypeOK /\ CallOK <=> /\ playing \in BOOLEAN
                            /\ ValuesOK(position, data, unit, render)
                            /\ CallersOK(pc, call)
    /\ (TypeOK /\ CallOK)' <=> /\ playing' \in BOOLEAN
                               /\ ValuesOK(position', data', unit', render')
                               /\ CallersOK(pc', call')
  BY DEF TypeOK, CallOK, ValuesOK, CallersOK, PCs

\* The steps of a control thread keep the types.
LEMMA StepType ==
    ASSUME TypeOK, CallOK, NEW c \in Caller, Step(c)
    PROVE  (TypeOK /\ CallOK)'
<1>1. /\ playing \in BOOLEAN
      /\ ValuesOK(position, data, unit, render)
      /\ CallersOK(pc, call)
  BY TypeParts
<1>2. Header \in 0 .. (Word - 1) /\ 0 \in 0 .. (Word - 1)
  <2>1. Header \in Nat /\ Word \in Nat \ {0} /\ 2 * (Header + 0) < Word
    BY PlayerAssumption
  <2> QED
    BY <2>1
<1>3. CASE Clean(c)
  <2>1. CallersOK(pc', call')
    BY <1>1, <1>3, GotoType DEF Clean, CallOK, PCs
  <2> QED
    BY <1>1, <1>3, <2>1, TypeParts DEF Clean, ValuesOK
<1>4. CASE Fill(c)
  <2>1. call[c].op = "load"
    BY <1>4 DEF Fill, CallOK
  <2>2. call[c].length \in Lengths
    BY <1>1, <2>1, CallType DEF CallersOK
  <2>3. CallersOK(pc', call')
    BY <1>1, <1>4, <2>1, GotoType DEF Fill, PCs
  <2>4. ValuesOK(position', data', unit', render')
    BY <1>1, <1>2, <1>4, <2>2 DEF Fill, ValuesOK
  <2> QED
    BY <1>1, <1>4, <2>3, <2>4, TypeParts DEF Fill
<1>5. CASE Setup(c)
  <2>1. CallersOK(pc', call')
    BY <1>1, <1>5, GotoType DEF Setup, PCs
  <2> QED
    BY <1>1, <1>5, <2>1, TypeParts DEF Setup, ValuesOK
<1>6. CASE Prepare(c)
  <2>1. CallersOK(pc', call')
    BY <1>1, <1>6, GotoType DEF Prepare, PCs
  <2> QED
    BY <1>1, <1>2, <1>6, <2>1, TypeParts DEF Prepare, ValuesOK
<1>7. CASE Test(c)
  <2>1. \E l \in {"idle", "raise", "lower"} : Goto(c, l)
    BY <1>7 DEF Test
  <2>2. CallersOK(pc', call')
    BY <1>1, <2>1, GotoType DEF PCs
  <2> QED
    BY <1>1, <1>7, <2>2, TypeParts DEF Test, ValuesOK
<1>8. CASE Raise(c)
  <2>1. CallersOK(pc', call')
    BY <1>1, <1>8, GotoType DEF Raise, PCs
  <2> QED
    BY <1>1, <1>8, <2>1, TypeParts DEF Raise, ValuesOK
<1>9. CASE StartUnit(c)
  <2>1. CallersOK(pc', call')
    BY <1>1, <1>9, GotoType DEF StartUnit, PCs
  <2>2. playing' \in BOOLEAN
    BY <1>1, <1>9 DEF StartUnit
  <2>3. ValuesOK(position', data', unit', render')
    BY <1>1, <1>9 DEF StartUnit, ValuesOK
  <2> QED
    BY <2>1, <2>2, <2>3, TypeParts
<1>10. CASE Lower(c)
  <2>1. \E l \in {"rewind", "halt"} : Goto(c, l)
    BY <1>10 DEF Lower
  <2>2. CallersOK(pc', call')
    BY <1>1, <2>1, GotoType DEF PCs
  <2> QED
    BY <1>1, <1>10, <2>2, TypeParts DEF Lower, ValuesOK
<1>11. CASE Rewind(c)
  <2>1. CallersOK(pc', call')
    BY <1>1, <1>11, GotoType DEF Rewind, PCs
  <2> QED
    BY <1>1, <1>2, <1>11, <2>1, TypeParts DEF Rewind, ValuesOK
<1>12. CASE HaltUnit(c)
  <2>1. CallersOK(pc', call')
    BY <1>1, <1>12, GotoType DEF HaltUnit, PCs
  <2> QED
    BY <1>1, <1>12, <2>1, TypeParts DEF HaltUnit, Halt, ValuesOK
<1>13. CASE UnitHalted(c)
  <2>1. CallersOK(pc', call')
    BY <1>1, <1>13, GotoType DEF UnitHalted, PCs
  <2> QED
    BY <1>1, <1>13, <2>1, TypeParts DEF UnitHalted, ValuesOK
<1>14. CASE Seek(c)
  <2>1. call[c].to \in 0 .. (Word - 1)
    BY <1>1, <1>14, CallType, PlayerAssumption DEF Seek, CallOK, CallersOK
  <2>2. CallersOK(pc', call')
    BY <1>1, <1>14, GotoType DEF Seek, PCs
  <2> QED
    BY <1>1, <1>14, <2>1, <2>2, TypeParts DEF Seek, ValuesOK
<1> QED
  BY <1>3, <1>4, <1>5, <1>6, <1>7, <1>8, <1>9, <1>10, <1>11, <1>12, <1>13,
     <1>14 DEF Step

\* Every step keeps the types.
LEMMA TypeStep == TypeOK /\ CallOK /\ [Next]_vars => (TypeOK /\ CallOK)'
<1> SUFFICES ASSUME TypeOK, CallOK, [Next]_vars
             PROVE  (TypeOK /\ CallOK)'
  OBVIOUS
<1>1. /\ playing \in BOOLEAN
      /\ ValuesOK(position, data, unit, render)
      /\ CallersOK(pc, call)
  BY TypeParts
<1>2. ASSUME NEW c \in Caller, NEW o \in Calls, Invoke(c, o)
      PROVE  (TypeOK /\ CallOK)'
  <2>1. CallersOK(pc', call')
    BY <1>1, <1>2 DEF Invoke, CallersOK, PCs
  <2> QED
    BY <1>1, <1>2, <2>1, TypeParts DEF Invoke, ValuesOK
<1>3. ASSUME NEW c \in Caller, Step(c)
      PROVE  (TypeOK /\ CallOK)'
  BY <1>3, StepType
<1>4. CASE RenderBegin
  <2> DEFINE available == FramesAvailable(position)
             frames == IF available < Buffer THEN available ELSE Buffer
  <2>1. position \in Int /\ data \in Nat
    BY <1>1, PlayerAssumption DEF ValuesOK
  <2>2. available \in Nat
    BY <2>1, FramesType
  <2> HIDE DEF available
  <2>3. frames \in 0 .. Buffer
    BY <2>2, PlayerAssumption
  <2>4. render' = [at |-> "reading", from |-> position, frames |-> frames]
    BY <1>4 DEF RenderBegin, available
  <2> HIDE DEF frames
  <2>5. ValuesOK(position', data', unit', render')
    BY <1>1, <1>4, <2>3, <2>4 DEF RenderBegin, ValuesOK
  <2> QED
    BY <1>1, <1>4, <2>5, TypeParts DEF RenderBegin, CallersOK
<1>5. CASE RenderAdvance
  <2>1. position + render.frames * FrameBytes \in Int
    BY <1>1, PlayerAssumption DEF ValuesOK
  <2>2. position' \in 0 .. (Word - 1)
    BY <1>5, <2>1, WordType DEF RenderAdvance
  <2>3. NotRendering \in [at : {"idle", "reading", "ending", "halting"},
                          from : 0 .. (Word - 1), frames : 0 .. Buffer]
    BY PlayerAssumption DEF NotRendering
  <2>4. ValuesOK(position', data', unit', render')
    BY <1>1, <1>5, <2>2, <2>3 DEF RenderAdvance, ValuesOK
  <2> QED
    BY <1>1, <1>5, <2>4, TypeParts DEF RenderAdvance, CallersOK
<1>6. CASE RenderEnd
  BY <1>1, <1>6, TypeParts DEF RenderEnd, ValuesOK, CallersOK
<1>7. CASE RenderHalt
  <2>1. NotRendering \in [at : {"idle", "reading", "ending", "halting"},
                          from : 0 .. (Word - 1), frames : 0 .. Buffer]
    BY PlayerAssumption DEF NotRendering
  <2> QED
    BY <1>1, <1>7, <2>1, TypeParts DEF RenderHalt, Halt, ValuesOK, CallersOK
<1>8. CASE UNCHANGED vars
  BY <1>1, <1>8, TypeParts DEF vars
<1> QED
  BY <1>2, <1>3, <1>4, <1>5, <1>6, <1>7, <1>8 DEF Next, Render

LEMMA TypeInit == Init => TypeOK /\ CallOK
<1>1. 0 \in 0 .. (Word - 1) /\ 0 \in 0 .. Buffer
  BY PlayerAssumption
<1>2. Init => ValuesOK(position, data, unit, render)
  BY <1>1 DEF Init, ValuesOK, NotRendering
<1>3. Init => CallersOK(pc, call)
  BY DEF Init, CallersOK, PCs
<1> QED
  BY <1>2, <1>3, TypeParts DEF Init

\* Types: positions stay unsigned, and a callback never copies more frames
\* than it was asked for.
THEOREM TypeCorrect == Spec => []TypeOK
  BY TypeInit, TypeStep, PTL DEF Spec

-----------------------------------------------------------------------------
\* What holds of the unit and its callback with one control thread c.
UnitInv(c) ==
    \* a unit that runs with the flag down is about to be stopped
    /\ unit = "running" /\ ~playing => \/ render.at = "halting"
                                       \/ pc[c] \in {"rewind", "halt"}
    \* with the flag down no callback is under way, except under a call
    \* that stops the unit
    /\ ~playing /\ pc[c] \notin {"rewind", "halt", "wait"}
          => render.at \notin {"reading", "ending"}
    \* a unit about to be started does not run, or will be stopped
    /\ pc[c] \in {"raise", "start"}
          => /\ render.at \notin {"reading", "ending"}
             /\ unit = "running" => render.at = "halting"
    /\ pc[c] = "start" => playing
    /\ pc[c] = "wait" => unit # "running"
    /\ pc[c] \in {"fill", "setup"} => unit = "none"
    /\ unit \in {"none", "broken"} => render.at = "idle"

\* With one control thread, every step keeps UnitInv.
LEMMA UnitStep ==
    ASSUME NEW c, Caller = {c}
    PROVE  TypeOK /\ UnitInv(c) /\ [Next]_vars => UnitInv(c)'
<1> SUFFICES ASSUME TypeOK, UnitInv(c), [Next]_vars
             PROVE  UnitInv(c)'
  OBVIOUS
<1> USE DEF UnitInv
<1>1. /\ pc \in [Caller -> PCs] /\ c \in Caller
      /\ unit \in {"none", "broken", "ready", "running"}
      /\ render.at \in {"idle", "reading", "ending", "halting"}
      /\ playing \in BOOLEAN
  BY DEF TypeOK, PCs
<1>2. ASSUME NEW l, Goto(c, l)
      PROVE  pc'[c] = l
  BY <1>1, <1>2 DEF Goto
<1>3. ASSUME NEW o \in Calls, Invoke(c, o)
      PROVE  UnitInv(c)'
  <2>1. pc[c] = "idle" /\ pc'[c] \in {"clean", "prepare", "seek", "test"}
    BY <1>1, <1>3 DEF Invoke
  <2> QED
    BY <1>3, <2>1 DEF Invoke
<1>4. CASE Clean(c)
  BY <1>1, <1>2, <1>4 DEF Clean
<1>5. CASE Fill(c)
  BY <1>1, <1>2, <1>5 DEF Fill
<1>6. CASE Setup(c)
  BY <1>1, <1>2, <1>6 DEF Setup
<1>7. CASE Prepare(c)
  BY <1>1, <1>2, <1>7 DEF Prepare
<1>8. CASE Test(c)
  <2>1. pc[c] = "test" /\ pc'[c] \in {"idle", "raise", "lower"}
    BY <1>2, <1>8 DEF Test
  <2>2. pc'[c] = "raise" => ~playing
    BY <1>2, <1>8 DEF Test
  <2> QED
    BY <1>1, <1>8, <2>1, <2>2 DEF Test
<1>9. CASE Raise(c)
  BY <1>1, <1>2, <1>9 DEF Raise
<1>10. CASE StartUnit(c)
  <2>1. pc[c] = "start" /\ pc'[c] = "idle" /\ playing /\ render' = render
    BY <1>2, <1>10 DEF StartUnit
  <2>2. CASE unit \in {"ready", "running"}
    BY <1>1, <1>10, <2>1, <2>2 DEF StartUnit
  <2>3. CASE unit \in {"none", "broken"}
    BY <1>1, <1>10, <2>1, <2>3 DEF StartUnit
  <2> QED
    BY <1>1, <2>2, <2>3
<1>11. CASE Lower(c)
  <2>1. pc[c] = "lower" /\ pc'[c] \in {"rewind", "halt"}
    BY <1>2, <1>11 DEF Lower
  <2> QED
    BY <1>1, <1>11, <2>1 DEF Lower
<1>12. CASE Rewind(c)
  BY <1>1, <1>2, <1>12 DEF Rewind
<1>13. CASE HaltUnit(c)
  BY <1>1, <1>2, <1>13 DEF HaltUnit, Halt
<1>14. CASE UnitHalted(c)
  BY <1>1, <1>2, <1>14 DEF UnitHalted
<1>15. CASE Seek(c)
  BY <1>1, <1>2, <1>15 DEF Seek
<1>16. CASE RenderBegin
  BY <1>1, <1>16 DEF RenderBegin
<1>17. CASE RenderAdvance
  BY <1>1, <1>17 DEF RenderAdvance, NotRendering, TypeOK
<1>18. CASE RenderEnd
  BY <1>1, <1>18 DEF RenderEnd, TypeOK
<1>19. CASE RenderHalt
  BY <1>1, <1>19 DEF RenderHalt, Halt, NotRendering
<1>20. CASE UNCHANGED vars
  BY <1>20 DEF vars
<1> QED
  BY <1>3, <1>4, <1>5, <1>6, <1>7, <1>8, <1>9, <1>10, <1>11, <1>12, <1>13,
     <1>14, <1>15, <1>16, <1>17, <1>18, <1>19, <1>20 DEF Next, Step, Render

LEMMA UnitInvInit ==
    ASSUME NEW c, Caller = {c}
    PROVE  Init => UnitInv(c)
  BY DEF Init, UnitInv, NotRendering

\* With one control thread a unit that still runs when no call is under way
\* has its flag up: the next pause or stop reaches it.
THEOREM SoundCanBeStopped ==
    ASSUME NEW CONSTANT c, Caller = {c}
    PROVE  Spec => []SoundHasItsFlag
<1>1. UnitInv(c) => SoundHasItsFlag
  BY DEF UnitInv, SoundHasItsFlag, Quiescent
<1> QED
  BY <1>1, UnitInvInit, UnitStep, TypeCorrect, PTL DEF Spec

\* With one control thread no song is replaced while a callback copies it.
THEOREM DataIsKept ==
    ASSUME NEW CONSTANT c, Caller = {c}
    PROVE  Spec => []NoFillUnderRender
<1>1. UnitInv(c) => NoFillUnderRender
  BY DEF UnitInv, NoFillUnderRender
<1> QED
  BY <1>1, UnitInvInit, UnitStep, TypeCorrect, PTL DEF Spec
-----------------------------------------------------------------------------
LEMMA Quotient == ASSUME NEW x \in Nat, NEW F \in Nat, F > 0
                  PROVE  (x \div F) * F <= x
  OBVIOUS

LEMMA Monotone == ASSUME NEW f \in Nat, NEW q \in Nat, NEW F \in Nat, f <= q
                  PROVE  f * F <= q * F
  OBVIOUS

LEMMA SmallMod == ASSUME NEW x \in Int, NEW w \in Nat, 0 <= x, x < w
                  PROVE  x % w = x
  OBVIOUS

LEMMA WrapMod == ASSUME NEW x \in Int, NEW w \in Nat, x < 0, 0 <= x + w
                 PROVE  x % w = x + w
  OBVIOUS

\* A callback that starts within the song, or before its data, stays in it.
LEMMA FramesFit ==
    ASSUME NEW pos \in Nat, data \in Lengths \cup {0}, pos <= Total,
           NEW f \in Nat, f <= FramesAvailable(pos)
    PROVE  /\ pos + f * FrameBytes <= Total
           /\ pos >= Header => DataPosition(pos) = pos - Header
<1>1. /\ Header \in Nat \ {0} /\ FrameBytes \in Nat \ {0}
      /\ Word \in Nat \ {0} /\ data \in Nat /\ 2 * (Header + data) < Word
  BY PlayerAssumption
<1>2. (data - DataPosition(pos)) % Word = Total - pos
  <2>1. CASE pos >= Header
    <3>1. DataPosition(pos) = pos - Header
      BY <1>1, <2>1, SmallMod DEF DataPosition, Total
    <3>2. data - DataPosition(pos) = Total - pos
      BY <1>1, <3>1 DEF Total
    <3>3. Total - pos \in Nat /\ Total - pos < Word
      BY <1>1 DEF Total
    <3> QED
      BY <1>1, <3>2, <3>3, SmallMod
  <2>2. CASE pos < Header
    <3>1. DataPosition(pos) = pos - Header + Word
      BY <1>1, <2>2, WrapMod DEF DataPosition
    <3> QED
      BY <1>1, <2>2, <3>1, WrapMod DEF Total
  <2> QED
    BY <1>1, <2>1, <2>2
<1>3. Total - pos \in Nat
  BY <1>1 DEF Total
<1> DEFINE q == (Total - pos) \div FrameBytes
<1>4. q \in Nat /\ f <= q
  BY <1>1, <1>2, <1>3 DEF FramesAvailable
<1>5. q * FrameBytes <= Total - pos
  BY <1>1, <1>3, Quotient
<1> HIDE DEF q
<1>6. f * FrameBytes <= q * FrameBytes
  BY <1>1, <1>4, Monotone
<1>7. f * FrameBytes \in Int /\ q * FrameBytes \in Int
  BY <1>1, <1>4
<1>8. pos >= Header => DataPosition(pos) = pos - Header
  BY <1>1, SmallMod DEF DataPosition, Total
<1> QED
  BY <1>1, <1>5, <1>6, <1>7, <1>8 DEF Total

\* What a callback has to copy, in bytes.
Chunk == render.frames * FrameBytes

\* Where the position is, for a song that fills at least one callback.
PositionInv(c) ==
    /\ pc[c] = "seek" => ~playing /\ call[c].to <= Total
    /\ data >= Buffer * FrameBytes =>
          /\ position <= Total
          /\ render.at = "reading" => /\ position + Chunk <= Total
                                      /\ render.from >= Header =>
                                           ReadsInBounds

\* With one control thread that seeks only as the resume of a group in step
\* does, every step keeps the position in the song.
LEMMA PositionStep ==
    ASSUME NEW c, Caller = {c}, InStep = TRUE
    PROVE  TypeOK /\ CallOK /\ UnitInv(c) /\ PositionInv(c) /\ [Next]_vars
              => PositionInv(c)'
<1> SUFFICES ASSUME TypeOK, CallOK, UnitInv(c), PositionInv(c), [Next]_vars
             PROVE  PositionInv(c)'
  OBVIOUS
<1>1. /\ pc \in [Caller -> PCs] /\ c \in Caller /\ playing \in BOOLEAN
      /\ render.at \in {"idle", "reading", "ending", "halting"}
      /\ render.from \in Nat /\ render.frames \in 0 .. Buffer
      /\ position \in 0 .. (Word - 1) /\ data \in Nat
      /\ data \in Lengths \cup {0}
      /\ 2 * (Header + data) < Word
  BY PlayerAssumption DEF TypeOK, PCs
<1>2. /\ Header \in Nat /\ FrameBytes \in Nat /\ Word \in Nat
      /\ Buffer \in Nat
  BY PlayerAssumption
<1>3. ASSUME NEW l, Goto(c, l)
      PROVE  pc'[c] = l
  BY <1>1, <1>3 DEF Goto
<1>4. Chunk \in Nat /\ Buffer * FrameBytes \in Nat /\ Chunk <= Buffer * FrameBytes
  BY <1>1, <1>2, Monotone DEF Chunk
<1>5. ASSUME UNCHANGED <<position, data, render>>,
             pc'[c] # "seek"
      PROVE  PositionInv(c)'
  BY <1>5 DEF PositionInv, Chunk, ReadsInBounds, Total, DataPosition
<1>6. ASSUME NEW o \in Calls, Invoke(c, o)
      PROVE  PositionInv(c)'
  <2>1. UNCHANGED <<playing, position, data, render>>
    BY <1>6 DEF Invoke
  <2>2. ASSUME pc'[c] = "seek"
        PROVE  ~playing' /\ call'[c].to <= Total'
    <3>1. o.op = "seek" /\ call'[c] = o
      BY <1>1, <1>6, <2>2 DEF Invoke, TypeOK
    <3>2. o.to <= Total /\ ~playing
      <4>1. o.to \in Header .. Total
        BY <1>6, <3>1 DEF Invoke
      <4> QED
        BY <1>1, <1>2, <1>6, <3>1, <4>1 DEF Invoke, Total
    <3> QED
      BY <2>1, <3>1, <3>2 DEF Total
  <2> QED
    BY <2>1, <2>2 DEF PositionInv, Chunk, ReadsInBounds, Total, DataPosition
<1>7. CASE Clean(c)
  BY <1>3, <1>5, <1>7 DEF Clean
<1>8. CASE Fill(c)
  <2>1. render.at = "idle" /\ render' = render
    BY <1>8 DEF Fill, UnitInv
  <2>2. pc'[c] # "seek"
    BY <1>3, <1>8 DEF Fill
  <2>3. CASE UNCHANGED <<position, data>>
    BY <1>5, <2>1, <2>2, <2>3
  <2>4. CASE data' = call[c].length /\ position' \in {0, Header}
    <3>1. data' \in Nat
      <4>1. call[c] \in Calls \cup {NoCall} /\ call[c].op = "load"
        BY <1>1, <1>8 DEF Fill, CallOK, TypeOK
      <4> QED
        BY <2>4, <4>1, CallType, PlayerAssumption
    <3> QED
      BY <1>2, <2>1, <2>2, <2>4, <3>1 DEF PositionInv, Total
  <2> QED
    BY <1>8, <2>3, <2>4 DEF Fill
<1>9. CASE Setup(c)
  BY <1>3, <1>5, <1>9 DEF Setup
<1>10. ASSUME position' \in {position, Header}, UNCHANGED <<data, render>>,
              pc'[c] # "seek"
       PROVE  PositionInv(c)'
  <2>1. data >= Buffer * FrameBytes => Header <= Total /\ Header + Chunk <= Total
    BY <1>1, <1>2, <1>4 DEF Total
  <2> QED
    BY <1>10, <2>1 DEF PositionInv, Chunk, ReadsInBounds, Total, DataPosition
<1>11. CASE Prepare(c)
  BY <1>3, <1>10, <1>11 DEF Prepare
<1>12. CASE Test(c)
  <2>1. pc'[c] \in {"idle", "raise", "lower"}
    BY <1>3, <1>12 DEF Test
  <2> QED
    BY <1>5, <1>12, <2>1 DEF Test
<1>13. CASE Raise(c)
  BY <1>3, <1>5, <1>13 DEF Raise
<1>14. CASE StartUnit(c)
  BY <1>3, <1>5, <1>14 DEF StartUnit
<1>15. CASE Lower(c)
  <2>1. pc'[c] \in {"rewind", "halt"}
    BY <1>3, <1>15 DEF Lower
  <2> QED
    BY <1>5, <1>15, <2>1 DEF Lower
<1>16. CASE Rewind(c)
  BY <1>3, <1>10, <1>16 DEF Rewind
<1>17. CASE HaltUnit(c)
  BY <1>3, <1>5, <1>17 DEF HaltUnit
<1>18. CASE UnitHalted(c)
  BY <1>3, <1>5, <1>18 DEF UnitHalted
<1>19. CASE Seek(c)
  <2>1. pc[c] = "seek" /\ pc'[c] = "idle" /\ position' = call[c].to
        /\ UNCHANGED <<data, render>>
    BY <1>3, <1>19 DEF Seek
  <2>2. render.at # "reading" /\ call[c].to <= Total
    BY <1>1, <2>1 DEF PositionInv, UnitInv
  <2> QED
    BY <2>1, <2>2 DEF PositionInv, Total
<1>20. CASE RenderBegin
  <2> DEFINE f == render'.frames
  <2>1. /\ UNCHANGED <<playing, position, data, pc, call>>
        /\ render'.from = position /\ render'.at = "reading"
    BY <1>20 DEF RenderBegin
  <2>2. f \in Nat /\ f <= FramesAvailable(position)
    <3>1. FramesAvailable(position) \in Nat
      BY <1>1, FramesType
    <3> HIDE DEF FramesAvailable
    <3> QED
      BY <1>2, <1>20, <3>1 DEF RenderBegin
  <2>3. position <= Total =>
          /\ position + f * FrameBytes <= Total
          /\ position >= Header => DataPosition(position) = position - Header
    BY <1>1, <2>2, FramesFit
  <2>4. f * FrameBytes \in Nat
    BY <1>2, <2>2
  <2>5. Chunk' = f * FrameBytes /\ Total' = Total
    BY <2>1 DEF Chunk, Total
  <2>6. position <= Total => /\ position + Chunk' <= Total'
                             /\ position >= Header => ReadsInBounds'
    BY <1>1, <1>2, <2>1, <2>3, <2>4, <2>5
       DEF ReadsInBounds, Chunk, Total, DataPosition
  <2> QED
    BY <2>1, <2>5, <2>6 DEF PositionInv
<1>21. CASE RenderAdvance
  <2>1. /\ render.at = "reading" /\ render'.at # "reading"
        /\ UNCHANGED <<playing, data, pc, call>>
        /\ position' = (position + Chunk) % Word
    BY <1>21 DEF RenderAdvance, NotRendering, Chunk
  <2>2. ASSUME data >= Buffer * FrameBytes
        PROVE  position' <= Total
    <3>1. position + Chunk <= Total
      BY <2>1, <2>2 DEF PositionInv
    <3>2. position + Chunk \in Nat /\ position + Chunk < Word
      BY <1>1, <1>2, <1>4, <3>1 DEF Total
    <3> QED
      BY <1>2, <2>1, <3>1, <3>2, SmallMod
  <2> QED
    BY <2>1, <2>2 DEF PositionInv, Total
<1>22. CASE RenderEnd
  BY <1>1, <1>22 DEF RenderEnd, PositionInv, Total, TypeOK
<1>23. CASE RenderHalt
  BY <1>23 DEF RenderHalt, NotRendering, PositionInv, Total
<1>24. CASE UNCHANGED vars
  BY <1>24 DEF vars, PositionInv, Chunk, ReadsInBounds, Total, DataPosition
<1> QED
  BY <1>6, <1>7, <1>8, <1>9, <1>11, <1>12, <1>13, <1>14, <1>15, <1>16, <1>17,
     <1>18, <1>19, <1>20, <1>21, <1>22, <1>23, <1>24 DEF Next, Step, Render

\* Whatever the length of the song, the buffer and the integer width: a song
\* played from its beginning or from a position in it is played to its end
\* and never beyond, stop and the callback racing for the position included.
THEOREM SongIsPlayedWithinItsBounds ==
    ASSUME NEW CONSTANT c, Caller = {c}, InStep = TRUE
    PROVE  Spec => []PlaysWithinSong
<1>1. Init => TypeOK /\ CallOK /\ PositionInv(c)
  <2>1. Init => TypeOK
    BY TypeInit
  <2>2. Init => CallOK /\ PositionInv(c)
    BY PlayerAssumption DEF Init, CallOK, PositionInv, NotRendering, Total
  <2> QED
    BY <2>1, <2>2
<1>2. TypeOK /\ PositionInv(c) => PlaysWithinSong
  BY DEF PositionInv, PlaysWithinSong, ReadsInBounds
<1> QED
  BY <1>1, <1>2, UnitInvInit, UnitStep, TypeStep, PositionStep, PTL DEF Spec
=============================================================================
