------------------------- MODULE AudioStreamProofs -------------------------
(***************************************************************************)
(* For any clients, threads, songs and playlists: a song that can be       *)
(* played is whole and is the one that was asked for; a number means the   *)
(* same song to everybody between two starts of the server; and its list   *)
(* of clients has every connection that matters, once.                     *)
(*                                                                         *)
(* Inv is about the clients' loads, Counts, Listed and OneSong about the   *)
(* server's side and what was said by it.                                  *)
(***************************************************************************)
EXTENDS AudioStream, TLAPS

Bytes == (Song \X Nat) \cup {<<"garbled">>}

\* A call that the server has been asked for and that has not failed.
Live == [at : {"asked", "open", "ok"}, num : Numbers,
         song : {<< >>} \cup {<<s>> : s \in Song}, got : Nat,
         cut : BOOLEAN, alone : BOOLEAN, run : Int]
CallSet == {NoCall, FailedCall} \cup Live

Types ==
    /\ playlist \in Seq(Song) /\ run \in Int
    /\ call \in [Loader -> CallSet]
    /\ data \in [Client -> Seq(Bytes)]
    /\ player \in [Client -> [has : Seq(Bytes), ready : BOOLEAN, load : CallSet]]
    /\ number \in [Client -> Numbers \cup {-1}]

\* The first chunks of a song.
Chunks(song, got) == [i \in 1 .. got |-> <<song[1], i>>]

\* How far a call is, and that a call that runs alone has its chunks in the
\* buffer and nothing else.
Progress(t) ==
    call[t] \in Live =>
        /\ call[t].at = "asked" => call[t].got = 0
        /\ call[t].at # "asked" => /\ call[t].song # << >>
                                   /\ call[t].got <= Parts[call[t].song[1]]
        /\ call[t].at = "ok" /\ ~call[t].cut =>
              call[t].got = Parts[call[t].song[1]]
        /\ call[t].alone => /\ Others(t) = {}
                            /\ data[t[1]] = Chunks(call[t].song, call[t].got)

Loaded(c) ==
    LET p == player[c] IN
        Sound(p) => p.has = Whole(p.load.song[1]) /\ number[c] = p.load.num

Inv == Types /\ (\A t \in Loader : Progress(t)) /\ \A c \in Client : Loaded(c)

-----------------------------------------------------------------------------
LEMMA CallTypes ==
    /\ NoCall.at = "idle" /\ FailedCall.at = "failed"
    /\ NoCall \notin Live /\ FailedCall \notin Live
    /\ \A o \in CallSet : o.at \in {"asked", "open", "ok"} <=> o \in Live
<1>1. NoCall.at = "idle" /\ FailedCall.at = "failed"
  BY DEF NoCall, FailedCall
<1>2. \A o \in Live : o.at \in {"asked", "open", "ok"}
  BY DEF Live
<1> QED
  BY <1>1, <1>2 DEF CallSet

LEMMA ChunksEmpty == ASSUME NEW song PROVE Chunks(song, 0) = << >>
BY DEF Chunks

LEMMA ChunksType ==
    ASSUME NEW s \in Song, NEW got \in Nat
    PROVE  /\ Chunks(<<s>>, got) \in Seq(Bytes)
           /\ Chunks(<<s>>, got) # Garbled
           /\ Append(Chunks(<<s>>, got), <<s, got + 1>>) = Chunks(<<s>>, got + 1)
<1>1. Chunks(<<s>>, got) = [i \in 1 .. got |-> <<s, i>>]
  BY DEF Chunks
<1>2. \A i \in 1 .. got : <<s, i>> \in Bytes
  BY DEF Bytes
<1>3. Chunks(<<s>>, got) \in Seq(Bytes) /\ Len(Chunks(<<s>>, got)) = got
  BY <1>1, <1>2
<1>4. Chunks(<<s>>, got) # Garbled
  <2>1. Garbled[1] = <<"garbled">> /\ Len(Garbled) = 1
    BY DEF Garbled
  <2>2. <<s, 1>> # <<"garbled">>
    <3>1. Len(<<s, 1>>) = 2 /\ Len(<<"garbled">>) = 1
      OBVIOUS
    <3> QED
      BY <3>1
  <2>3. got = 1 => Chunks(<<s>>, got)[1] = <<s, 1>>
    BY <1>1
  <2> QED
    BY <2>1, <2>2, <2>3, <1>3
<1>5. Append(Chunks(<<s>>, got), <<s, got + 1>>) = Chunks(<<s>>, got + 1)
  BY <1>1 DEF Chunks
<1> QED
  BY <1>3, <1>4, <1>5

LEMMA InitInv == Init => Inv
<1> SUFFICES ASSUME Init PROVE Inv
  OBVIOUS
<1>1. Types
  BY StreamAssumption DEF Init, Types, CallSet
<1>2. \A t \in Loader : Progress(t)
  BY CallTypes DEF Init, Progress
<1>3. \A c \in Client : Loaded(c)
  BY DEF Init, Loaded, Sound
<1> QED
  BY <1>1, <1>2, <1>3 DEF Inv

\* A step of thread t inside its call does not concern the other calls: those
\* that run alone belong to other clients.
LEMMA OtherCalls ==
    ASSUME Inv, NEW t \in Loader, NEW u \in Loader, u # t,
           call[t].at # "idle",
           \A w \in Loader \ {t} : call'[w] = call[w],
           \A c \in Client \ {t[1]} : data'[c] = data[c]
    PROVE  Progress(u)'
<1>1. Progress(u) /\ u[1] \in Client /\ call'[u] = call[u]
  BY StreamAssumption DEF Inv
<1>2. ASSUME call[u] \in Live, call[u].alone
      PROVE  Others(u)' = {} /\ data'[u[1]] = data[u[1]]
  <2>1. Others(u) = {}
    BY <1>1, <1>2 DEF Progress
  <2>2. u[1] # t[1]
    BY <2>1 DEF Others
  <2> QED
    BY <1>1, <2>1, <2>2 DEF Others
<1> QED
  BY <1>1, <1>2 DEF Progress

\* Steps that leave the player alone leave what it can play.
LEMMA SamePlayer ==
    ASSUME Inv, UNCHANGED <<player, number>>
    PROVE  \A c \in Client : Loaded(c)'
BY DEF Inv, Loaded

\* The buffer after thread t has written b to it.
LEMMA WriteTypes ==
    ASSUME Inv, NEW t \in Loader, NEW b \in Seq(Bytes), Write(t, b)
    PROVE  /\ data' \in [Client -> Seq(Bytes)]
           /\ \A c \in Client \ {t[1]} : data'[c] = data[c]
           /\ Others(t) = {} => data'[t[1]] = b
<1>1. t[1] \in Client /\ data \in [Client -> Seq(Bytes)]
  BY StreamAssumption DEF Inv, Types
<1>2. Garbled \in Seq(Bytes)
  BY DEF Garbled, Bytes
<1>3. \E x \in {b, Garbled} : /\ data' = [data EXCEPT ![t[1]] = x]
                              /\ Others(t) = {} => x = b
  <2>1. CASE Others(t) = {}
    <3>1. data' \in {[data EXCEPT ![t[1]] = x] : x \in {b}}
      BY <2>1 DEF Write
    <3> QED
      BY <3>1
  <2>2. CASE Others(t) # {}
    <3>1. data' \in {[data EXCEPT ![t[1]] = x] : x \in {b, Garbled}}
      BY <2>2 DEF Write
    <3> QED
      BY <3>1, <2>2
  <2> QED
    BY <2>1, <2>2
<1> QED
  BY <1>1, <1>2, <1>3

LEMMA LoadStep ==
    ASSUME Inv, NEW t \in Loader, NEW k \in Numbers, Load(t, k)
    PROVE  Inv'
<1>1. /\ call[t].at = "idle" /\ Write(t, << >>) /\ call' = Called(t, k)
      /\ UNCHANGED <<playlist, run, player, number>>
  BY DEF Load, server
<1> DEFINE new == [at |-> "asked", num |-> k, song |-> << >>, got |-> 0,
                   cut |-> FALSE, alone |-> Others(t) = {}, run |-> run]
<1>2. new \in Live
  BY StreamAssumption DEF Live, Inv, Types
<1>3. \A u \in Loader : call'[u] = IF u = t THEN new
                                   ELSE IF u \in Others(t) /\ call[u] # FailedCall
                                   THEN [call[u] EXCEPT !.alone = FALSE]
                                   ELSE call[u]
  BY <1>1 DEF Called
<1>4. \A u \in Others(t) : call[u] # FailedCall => call[u] \in Live
  BY CallTypes DEF Others, Inv, Types, CallSet
<1>5. /\ data' \in [Client -> Seq(Bytes)]
      /\ \A c \in Client \ {t[1]} : data'[c] = data[c]
      /\ Others(t) = {} => data'[t[1]] = << >>
  <2>1. << >> \in Seq(Bytes)
    OBVIOUS
  <2> QED
    BY <1>1, <2>1, WriteTypes
<1>6. ASSUME NEW u \in Loader, u # t
      PROVE  /\ call'[u] \in CallSet
             /\ call'[u].at = call[u].at
             /\ call'[u] \in Live => call[u] \in Live
             /\ call'[u] \in Live /\ call'[u].alone
                   => call'[u] = call[u] /\ u \notin Others(t)
             /\ call'[u] \in Live =>
                   /\ call'[u].got = call[u].got /\ call'[u].song = call[u].song
                   /\ call'[u].cut = call[u].cut
  <2>1. CASE u \in Others(t) /\ call[u] # FailedCall
    <3>1. call[u] \in Live /\ call'[u] = [call[u] EXCEPT !.alone = FALSE]
      BY <2>1, <1>3, <1>4, <1>6
    <3> QED
      BY <3>1 DEF Live, CallSet
  <2>2. CASE u \in Others(t) /\ call[u] = FailedCall
    BY <2>2, <1>3, <1>6, CallTypes DEF CallSet
  <2>3. CASE u \notin Others(t)
    BY <2>3, <1>3, <1>6 DEF Inv, Types
  <2> QED
    BY <2>1, <2>2, <2>3
<1>7. Types'
  <2>1. call' \in [Loader -> CallSet]
    <3>1. call' = [u \in Loader |-> call'[u]]
      BY <1>1 DEF Called
    <3>2. call'[t] \in CallSet
      BY <1>2, <1>3 DEF CallSet
    <3>3. \A u \in Loader : call'[u] \in CallSet
      BY <3>2, <1>6
    <3> HIDE DEF new
    <3> QED
      BY <3>1, <3>3
  <2> QED
    BY <2>1, <1>1, <1>5 DEF Inv, Types
<1>8. Progress(t)'
  <2>1. Others(t)' = Others(t)
    BY <1>6 DEF Others
  <2>2. /\ call'[t].at = "asked" /\ call'[t].got = 0
        /\ call'[t].song = << >> /\ (call'[t].alone => Others(t) = {})
    <3>1. call'[t] = new
      BY <1>3
    <3>2. CASE Others(t) = {}
      BY <3>1, <3>2
    <3>3. CASE Others(t) # {}
      <4>1. ~(Others(t) = {})
        BY <3>3
      <4>2. (Others(t) = {}) = FALSE
        BY <4>1, Zenon
      <4>3. new.alone = FALSE
        BY <4>2
      <4> QED
        BY <3>1, <4>3
    <3> QED
      BY <3>2, <3>3
  <2>3. Chunks(call[t].song, call[t].got)' = << >>
    BY <2>2 DEF Chunks
  <2>4. Others(t) = {} => data'[t[1]] = << >>
    BY <1>5
  <2>5. call'[t].at = "asked" => /\ ~(call'[t].at # "asked")
                                 /\ ~(call'[t].at = "ok" /\ ~call'[t].cut)
    OBVIOUS
  <2>6. call'[t].alone => /\ Others(t)' = {}
                          /\ data'[t[1]] = Chunks(call[t].song, call[t].got)'
    BY <2>1, <2>2, <2>3, <2>4
  <2> QED
    BY <2>2, <2>5, <2>6 DEF Progress
<1>9. ASSUME NEW u \in Loader, u # t PROVE Progress(u)'
  <2>1. ASSUME call'[u] \in Live, call'[u].alone
        PROVE  Others(u)' = {} /\ data'[u[1]] = data[u[1]]
    <3>1. call'[u] = call[u] /\ u \notin Others(t) /\ call[u].at # "idle"
      BY <1>6, <1>9, <2>1, CallTypes
    <3>2. u[1] # t[1]
      BY <3>1, <1>9 DEF Others
    <3>3. Others(u) = {}
      BY <2>1, <3>1 DEF Inv, Progress
    <3>4. Others(u)' = {}
      BY <3>2, <3>3, <1>6 DEF Others
    <3> QED
      BY <3>2, <3>4, <1>5, StreamAssumption
  <2> QED
    BY <2>1, <1>6, <1>9 DEF Inv, Progress
<1> QED
  BY <1>1, <1>7, <1>8, <1>9, SamePlayer DEF Inv

\* A call that fails or is over keeps nothing.
LEMMA CallEnds ==
    ASSUME Inv, NEW t \in Loader, call[t].at # "idle",
           NEW end \in {NoCall, FailedCall}, call' = [call EXCEPT ![t] = end],
           UNCHANGED <<playlist, run, data, player, number>>
    PROVE  Inv'
<1>1. Types'
  BY DEF Inv, Types, CallSet
<1>2. Progress(t)'
  BY CallTypes DEF Progress, Inv, Types
<1>3. \A u \in Loader \ {t} : Progress(u)'
  BY OtherCalls DEF Inv, Types
<1> QED
  BY <1>1, <1>2, <1>3, SamePlayer DEF Inv

LEMMA AcceptStep ==
    ASSUME Inv, NEW t \in Loader, Accept(t) PROVE Inv'
<1>1. /\ call[t].at = "asked" /\ HasFile(call[t].num)
      /\ call' = [call EXCEPT ![t].at = "open", ![t].run = run,
                              ![t].song = <<playlist[call[t].num]>>]
      /\ UNCHANGED <<playlist, run, data, player, number>>
  BY DEF Accept, client
<1> DEFINE s == playlist[call[t].num]
           new == [call[t] EXCEPT !.at = "open", !.run = run, !.song = <<s>>]
<1>2. call[t] \in Live /\ s \in Song
  BY <1>1, CallTypes DEF Inv, Types, HasFile
<1>3. call'[t] = new /\ \A u \in Loader \ {t} : call'[u] = call[u]
  BY <1>1 DEF Inv, Types
<1> HIDE DEF s
<1>4. /\ new \in Live /\ new.at = "open" /\ new.song = <<s>>
      /\ new.got = call[t].got /\ new.alone = call[t].alone
  BY <1>2 DEF Live, Inv, Types
<1>5. Types'
  <2>1. DOMAIN call' = Loader /\ call' = [u \in DOMAIN call' |-> call'[u]]
    BY <1>1 DEF Inv, Types
  <2>2. \A u \in Loader : call'[u] \in CallSet
    BY <1>3, <1>4 DEF Inv, Types, CallSet
  <2>3. call' \in [Loader -> CallSet]
    BY <2>1, <2>2
  <2> QED
    BY <2>3, <1>1 DEF Inv, Types
<1>6. Progress(t)'
  <2>1. call[t].got = 0 /\ (call[t].alone => /\ Others(t) = {}
                                             /\ data[t[1]] = << >>)
    BY <1>1, <1>2, ChunksEmpty DEF Inv, Progress
  <2>2. Others(t)' = Others(t)
    BY <1>3 DEF Others
  <2>3. Parts[s] \in Nat
    BY <1>2, StreamAssumption
  <2> QED
    <3>1. /\ call'[t].at = "open" /\ call'[t].song = <<s>> /\ <<s>> # << >>
          /\ call'[t].got = 0 /\ call'[t].song[1] = s
          /\ call'[t].alone = call[t].alone /\ data' = data
      <4>1. data' = data
        BY <1>1, Zenon
      <4> HIDE DEF new
      <4>2. <<s>> # << >> /\ <<s>>[1] = s
        OBVIOUS
      <4> QED
        BY <4>1, <4>2, <2>1, <1>3, <1>4
    <3>2. Chunks(call[t].song, call[t].got)' = << >>
      <4>1. call'[t].got = 0
        BY <3>1
      <4> QED
        BY <4>1 DEF Chunks
    <3>3. 0 <= Parts[s] /\ StreamAssumption
      BY <2>3, StreamAssumption
    <3> QED
      BY <3>1, <3>2, <3>3, <2>1, <2>2 DEF Progress
<1>7. \A u \in Loader \ {t} : Progress(u)'
  BY <1>1, <1>3, OtherCalls
<1> QED
  BY <1>1, <1>5, <1>6, <1>7, SamePlayer DEF Inv

LEMMA ChunkStep ==
    ASSUME Inv, NEW t \in Loader, Chunk(t) PROVE Inv'
<1> DEFINE s == call[t].song[1]
           b == IF data[t[1]] = Garbled THEN Garbled
                ELSE Append(data[t[1]], <<s, call[t].got + 1>>)
           new == [call[t] EXCEPT !.got = call[t].got + 1]
<1>1. /\ call[t].at = "open" /\ call[t].got < Parts[s] /\ Write(t, b)
      /\ call' = [call EXCEPT ![t] = new]
      /\ UNCHANGED <<playlist, run, player, number>>
  BY DEF Chunk, AppendChunk, server, Inv, Types
<1>2. /\ call[t] \in Live /\ call[t].song # << >> /\ t[1] \in Client
      /\ call[t].got \in Nat
  BY <1>1, CallTypes, StreamAssumption DEF Inv, Types, Progress, Live
<1>3. s \in Song /\ call[t].song = <<s>> /\ Parts[s] \in Nat
  BY <1>2, StreamAssumption DEF Live
<1>4. call'[t] = new /\ \A u \in Loader \ {t} : call'[u] = call[u]
  BY <1>1 DEF Inv, Types
<1>5. b \in Seq(Bytes)
  <2>1. <<s, call[t].got + 1>> \in Bytes /\ Garbled \in Seq(Bytes)
    BY <1>2, <1>3 DEF Bytes, Garbled
  <2>2. data[t[1]] \in Seq(Bytes)
    BY <1>2 DEF Inv, Types
  <2> QED
    BY <2>1, <2>2
<1> HIDE DEF s
<1>6. /\ new \in Live /\ new.at = "open" /\ new.song = <<s>>
      /\ new.got = call[t].got + 1 /\ new.alone = call[t].alone
  BY <1>1, <1>2, <1>3 DEF Live
<1>7. /\ data' \in [Client -> Seq(Bytes)]
      /\ \A c \in Client \ {t[1]} : data'[c] = data[c]
      /\ Others(t) = {} => data'[t[1]] = b
  BY <1>1, <1>5, WriteTypes
<1>8. Types'
  BY <1>1, <1>6, <1>7 DEF Inv, Types, CallSet
<1>9. Progress(t)'
  <2>1. ASSUME call[t].alone
        PROVE  /\ Others(t) = {}
               /\ data'[t[1]] = Chunks(<<s>>, call[t].got + 1)
    <3>1. Others(t) = {} /\ data[t[1]] = Chunks(<<s>>, call[t].got)
      BY <2>1, <1>2, <1>3 DEF Inv, Progress
    <3>2. b = Chunks(<<s>>, call[t].got + 1)
      BY <3>1, <1>2, <1>3, ChunksType
    <3> QED
      BY <3>1, <3>2, <1>7
  <2>2. Others(t)' = Others(t)
    BY <1>4 DEF Others
  <2>3. <<s>>[1] = s /\ <<s>> # << >> /\ call[t].got + 1 <= Parts[s]
    BY <1>1, <1>2, <1>3 DEF s
  <2> HIDE DEF new
  <2> QED
    BY <2>1, <2>2, <2>3, <1>4, <1>6 DEF Progress
<1>10. \A u \in Loader \ {t} : Progress(u)'
  BY <1>1, <1>4, <1>7, OtherCalls
<1> QED
  BY <1>1, <1>8, <1>9, <1>10, SamePlayer DEF Inv

LEMMA EndStreamStep ==
    ASSUME Inv, NEW t \in Loader, EndStream(t) PROVE Inv'
<1> DEFINE isCut == call[t].got < Parts[call[t].song[1]]
           new == [call[t] EXCEPT !.at = "ok", !.cut = isCut]
<1>1. /\ call[t].at = "open"
      /\ call' = [call EXCEPT ![t] = new]
      /\ UNCHANGED <<playlist, run, data, player, number>>
  BY DEF EndStream, server, client, Inv, Types
<1>2. /\ call[t] \in Live /\ call[t].song # << >> /\ Progress(t)
      /\ call[t].got <= Parts[call[t].song[1]]
  BY <1>1, CallTypes DEF Inv, Types, Progress
<1>3. call[t].got \in Nat /\ Parts[call[t].song[1]] \in Nat
  BY <1>2, StreamAssumption DEF Live
<1>4. isCut \in BOOLEAN /\ (~isCut => call[t].got = Parts[call[t].song[1]])
  BY <1>2, <1>3
<1> HIDE DEF isCut
<1>5. /\ new \in Live /\ new.at = "ok" /\ new.song = call[t].song
      /\ new.got = call[t].got /\ new.alone = call[t].alone
      /\ new.cut = isCut
  BY <1>2, <1>4 DEF Live
<1>6. call'[t] = new /\ \A u \in Loader \ {t} : call'[u] = call[u]
  BY <1>1 DEF Inv, Types
<1> HIDE DEF new
<1>7. Types'
  BY <1>1, <1>5 DEF Inv, Types, CallSet
<1>8. Progress(t)'
  <2>1. Others(t)' = Others(t)
    BY <1>6 DEF Others
  <2> QED
    BY <2>1, <1>1, <1>2, <1>4, <1>5, <1>6 DEF Progress
<1>9. \A u \in Loader \ {t} : Progress(u)'
  BY <1>1, <1>6, OtherCalls
<1> QED
  BY <1>1, <1>7, <1>8, <1>9, SamePlayer DEF Inv

\* What the player takes over from a call that was alone and not cut short is
\* its whole song.
LEMMA FinishStep ==
    ASSUME Inv, NEW t \in Loader, Finish(t) PROVE Inv'
<1> DEFINE c == t[1]
<1>1. /\ call[t].at = "ok" /\ call' = [call EXCEPT ![t] = NoCall]
      /\ UNCHANGED <<playlist, run, data>>
  BY DEF Finish, server
<1>2. call[t] \in Live /\ c \in Client /\ Progress(t) /\ data[c] \in Seq(Bytes)
  BY <1>1, CallTypes, StreamAssumption DEF Inv, Types
<1>3. \/ \E ready \in BOOLEAN :
            /\ player' = [player EXCEPT ![c] =
                             [has |-> data[c], ready |-> ready, load |-> call[t]]]
            /\ number' = [number EXCEPT ![c] = IF ready THEN call[t].num ELSE @]
      \/ /\ player' = [player EXCEPT ![c].ready = FALSE]
         /\ number' = number
  BY DEF Finish
<1>4. Types'
  <2>1. call' \in [Loader -> CallSet]
    BY <1>1 DEF Inv, Types, CallSet
  <2>2. /\ player' \in [Client -> [has : Seq(Bytes), ready : BOOLEAN,
                                   load : CallSet]]
        /\ number' \in [Client -> Numbers \cup {-1}]
    <3>1. CASE \E ready \in BOOLEAN :
                 /\ player' = [player EXCEPT ![c] =
                       [has |-> data[c], ready |-> ready, load |-> call[t]]]
                 /\ number' = [number EXCEPT ![c] =
                                  IF ready THEN call[t].num ELSE @]
      <4>1. PICK ready \in BOOLEAN :
                 /\ player' = [player EXCEPT ![c] =
                       [has |-> data[c], ready |-> ready, load |-> call[t]]]
                 /\ number' = [number EXCEPT ![c] =
                                  IF ready THEN call[t].num ELSE @]
        BY <3>1
      <4>2. call[t].num \in Numbers /\ call[t] \in CallSet
        BY <1>2 DEF Live, CallSet
      <4> QED
        BY <4>1, <4>2, <1>2 DEF Inv, Types
    <3>2. CASE player' = [player EXCEPT ![c].ready = FALSE] /\ number' = number
      BY <3>2, <1>2 DEF Inv, Types
    <3> QED
      BY <1>3, <3>1, <3>2
  <2> QED
    BY <2>1, <2>2, <1>1 DEF Inv, Types
<1>5. Progress(t)'
  BY <1>1, CallTypes DEF Progress, Inv, Types
<1>6. \A u \in Loader \ {t} : Progress(u)'
  BY <1>1, OtherCalls DEF Inv, Types
<1>7. ASSUME NEW d \in Client, d # c PROVE Loaded(d)'
  <2>1. player'[d] = player[d] /\ number'[d] = number[d]
    BY <1>3, <1>7 DEF Inv, Types
  <2> QED
    BY <2>1 DEF Inv, Loaded
<1>8. Loaded(c)'
  <2>1. CASE player' = [player EXCEPT ![c].ready = FALSE] /\ number' = number
    <3>1. player'[c].ready = FALSE
      BY <2>1, <1>2 DEF Inv, Types
    <3> QED
      BY <3>1 DEF Loaded, Sound
  <2>2. CASE \E ready \in BOOLEAN :
               /\ player' = [player EXCEPT ![c] =
                     [has |-> data[c], ready |-> ready, load |-> call[t]]]
               /\ number' = [number EXCEPT ![c] =
                                IF ready THEN call[t].num ELSE @]
    <3>1. PICK ready \in BOOLEAN :
               /\ player' = [player EXCEPT ![c] =
                     [has |-> data[c], ready |-> ready, load |-> call[t]]]
               /\ number' = [number EXCEPT ![c] =
                                IF ready THEN call[t].num ELSE @]
      BY <2>2
    <3>2. player'[c] = [has |-> data[c], ready |-> ready, load |-> call[t]]
      BY <3>1, <1>2 DEF Inv, Types
    <3>3. ready => number'[c] = call[t].num
      BY <3>1, <1>2 DEF Inv, Types
    <3>4. call[t].alone /\ ~call[t].cut => data[c] = Whole(call[t].song[1])
      BY <1>1, <1>2 DEF Progress, Chunks, Whole
    <3> QED
      BY <3>2, <3>3, <3>4 DEF Loaded, Sound
  <2> QED
    BY <1>3, <2>1, <2>2
<1> QED
  BY <1>4, <1>5, <1>6, <1>7, <1>8 DEF Inv

\* Broken connections: calls that are under way fail, the others stay.
LEMMA FailStep ==
    ASSUME Inv, NEW C \in SUBSET Client, Fail(C),
           UNCHANGED <<playlist, run, data, player, number>>
    PROVE  Inv'
<1>1. call' = [t \in Loader |-> IF t[1] \in C /\ call[t].at # "idle"
                               THEN FailedCall ELSE call[t]]
  BY DEF Fail
<1>2. Types'
  BY <1>1 DEF Inv, Types, CallSet
<1>3. ASSUME NEW t \in Loader PROVE Progress(t)'
  <2>1. call'[t] \in Live => call'[t] = call[t]
    BY <1>1, CallTypes
  <2>2. Others(t)' = Others(t)
    BY <1>1, CallTypes DEF Others
  <2> QED
    BY <2>1, <2>2 DEF Inv, Progress
<1> QED
  BY <1>2, <1>3, SamePlayer DEF Inv

\* Steps that touch neither calls nor buffers.
LEMMA SameCalls ==
    ASSUME Inv, UNCHANGED <<call, data, player, number>>,
           playlist' \in Seq(Song), run' \in Int
    PROVE  Inv'
BY DEF Inv, Types, Progress, Others, Loaded

LEMMA NextInv ==
    ASSUME Inv, [Next]_vars PROVE Inv'
<1>1. ASSUME NEW t \in Loader,
             (\E k \in Numbers : Load(t, k)) \/ Stream(t) \/ Fetch(t)
      PROVE  Inv'
  <2>1. CASE Refuse(t) \/ Unavailable(t)
    BY <2>1, CallEnds DEF Refuse, Unavailable, server, client
  <2>2. CASE GiveUp(t)
    BY <2>2, CallEnds DEF GiveUp, server, client
  <2> QED
    BY <1>1, <2>1, <2>2, LoadStep, AcceptStep, ChunkStep, EndStreamStep,
       FinishStep DEF Stream, Fetch
<1>2. CASE \E c \in Client : Ask(c) \/ Answer(c)
  BY <1>2, SameCalls DEF Ask, Answer, server, client, Inv, Types
<1>3. CASE \E c \in Client : Disconnect(c)
  BY <1>3, FailStep DEF Disconnect, server, client
<1>4. CASE Stop
  BY <1>4, FailStep DEF Stop, client
<1>5. CASE Restart
  BY <1>5, SameCalls, StreamAssumption DEF Restart, client, Inv, Types
<1>6. CASE UNCHANGED vars
  BY <1>6, SameCalls DEF vars, server, client, Inv, Types
<1> QED
  BY <1>1, <1>2, <1>3, <1>4, <1>5, <1>6 DEF Next

\* Any number of clients and threads, any songs and lists of them, any failed,
\* refused, broken or overlapping loads: what a load that ran alone and could
\* read its file leaves in the player is that song from end to end, and the
\* client's number is its number.
THEOREM LoadedSongIsWhole == Spec => []PlaysWholeSong
<1>1. Inv => PlaysWholeSong
  BY DEF Inv, Loaded, PlaysWholeSong
<1> QED
  BY InitInv, NextInv, <1>1, PTL DEF Spec
-----------------------------------------------------------------------------
\* The server's side, and how often it and the connections have come and gone.
Counts ==
    /\ playlist \in Playlists /\ serving \in BOOLEAN
    /\ events \in 0 .. MaxEvents /\ run \in 0 .. events
    /\ ~serving => run < events
    /\ port \in [Client -> 0 .. events]
    /\ registry \in Seq(Client \X (0 .. MaxEvents))
    /\ ask \in [Client -> {"never", "registered", "answered"}]
    /\ heard \in [Client -> SUBSET (Client \X (0 .. MaxEvents))]

\* Who is in the list: every connection that has asked for the others or is
\* being sent a song, nobody twice.  What it was told outlives a connection
\* nowhere: no call does.
Listed ==
    /\ IsInjective(registry)
    /\ \A c \in Client : ask[c] # "never" =>
                            serving /\ Contains(registry, Address(c))
    /\ \A t \in Loader : call[t].at = "open" =>
                            serving /\ Contains(registry, Address(t[1]))

\* What the server has said of songs and somebody still relies on: in which
\* start of it, which number, which song.
Told(l) == <<l.run, l.num, l.song>>
Facts == {Told(call[t]) : t \in {t \in Loader : call[t].at \in {"open", "ok"}}}
         \cup {Told(player[c].load) : c \in {c \in Client : player[c].ready}}

\* In one start of the server a number stands for one song; in this start for
\* the one in its list.
OneSong ==
    /\ \A f \in Facts : /\ f[1] \in Int /\ f[1] <= run
                        /\ f[1] = run => f[3] = <<playlist[f[2]]>>
    /\ \A f, g \in Facts : f[1] = g[1] /\ f[2] = g[2] => f[3] = g[3]

FullInv == Inv /\ Counts /\ Listed /\ HearOfEachOther /\ OneSong

\* A registered client is in the list, once, with everybody who was in it.
LEMMA Registered ==
    ASSUME Counts, NEW c \in Client, registry' = RegisterClient(Address(c))
    PROVE  /\ registry' \in Seq(Client \X (0 .. MaxEvents))
           /\ IsInjective(registry) => IsInjective(registry')
           /\ Contains(registry', Address(c))
           /\ \A a : Contains(registry, a) => Contains(registry', a)
<1> DEFINE a == Address(c)
<1>1. a \in Client \X (0 .. MaxEvents)
  BY StreamAssumption DEF Counts, Address
<1>2. registry \in Seq(Client \X (0 .. MaxEvents))
  BY DEF Counts
<1> HIDE DEF a
<1>3. CASE Contains(registry, a)
  BY <1>2, <1>3 DEF RegisterClient, a
<1>4. CASE ~Contains(registry, a)
  <2>1. registry' = Append(registry, a)
    BY <1>4 DEF RegisterClient, a
  <2>2. /\ Len(registry') = Len(registry) + 1 /\ registry'[Len(registry')] = a
        /\ \A i \in 1 .. Len(registry) : registry'[i] = registry[i]
        /\ registry' \in Seq(Client \X (0 .. MaxEvents))
    BY <2>1, <1>1, <1>2
  <2>3. \A i \in 1 .. Len(registry) : registry[i] # a
    BY <1>4 DEF Contains
  <2>4. \A b : Contains(registry, b) => Contains(registry', b)
    BY <2>2, <1>2 DEF Contains
  <2>5. Contains(registry', a)
    BY <2>2, <1>2 DEF Contains
  <2>6. IsInjective(registry) => IsInjective(registry')
    <3>1. DOMAIN registry = 1 .. Len(registry) /\ Len(registry) \in Nat
      BY <1>2
    <3>2. DOMAIN registry' = 1 .. Len(registry) + 1
      BY <2>2
    <3> QED
      BY <2>2, <2>3, <3>1, <3>2 DEF IsInjective
  <2> QED
    BY <2>2, <2>4, <2>5, <2>6 DEF a
<1> QED
  BY <1>3, <1>4

LEMMA Initially == Init => FullInv
<1> SUFFICES ASSUME Init PROVE FullInv
  OBVIOUS
<1>1. Counts
  BY StreamAssumption DEF Init, Counts
<1>2. Listed /\ HearOfEachOther
  BY CallTypes DEF Init, Listed, HearOfEachOther, IsInjective
<1>3. Facts = {}
  BY CallTypes DEF Init, Facts
<1> QED
  BY InitInv, <1>1, <1>2, <1>3 DEF FullInv, OneSong

\* Broken connections are counted.
LEMMA FailCounts ==
    ASSUME Counts, NEW C \in SUBSET Client, Fail(C)
    PROVE  /\ events' = events + 1 /\ events' \in 0 .. MaxEvents
           /\ port' \in [Client -> 0 .. events']
           /\ ask' \in [Client -> {"never", "registered", "answered"}]
           /\ heard' \in [Client -> SUBSET (Client \X (0 .. MaxEvents))]
<1>1. events' = events + 1 /\ events' \in 0 .. MaxEvents
  BY StreamAssumption DEF Fail, Happens, Counts
<1> QED
  BY <1>1 DEF Fail, Counts

LEMMA CountsStep ==
    ASSUME Counts, Inv, [Next]_vars PROVE Counts'
<1>1. ASSUME NEW t \in Loader,
             (\E k \in Numbers : Load(t, k)) \/ Stream(t) \/ Fetch(t)
      PROVE  Counts'
  <2>1. CASE \E k \in Numbers : Load(t, k)
    <3>1. /\ UNCHANGED <<playlist, registry, serving, run, port, ask, heard>>
          /\ events' = events + 1 /\ events < MaxEvents
      BY <2>1 DEF Load, server, asks, Happens
    <3> QED
      BY <3>1, StreamAssumption DEF Counts
  <2>2. CASE Accept(t)
    <3>1. /\ UNCHANGED <<playlist, serving, run, port, ask, heard, events>>
          /\ registry' = RegisterClient(Address(t[1])) /\ t[1] \in Client
      BY <2>2, StreamAssumption DEF Accept, asks
    <3> QED
      BY <3>1, Registered DEF Counts
  <2>3. CASE \/ Refuse(t) \/ Chunk(t) \/ EndStream(t) \/ Unavailable(t)
             \/ Finish(t) \/ GiveUp(t)
    <3>1. UNCHANGED <<playlist, registry, serving, run, port, ask, heard, events>>
      BY <2>3 DEF Refuse, Chunk, AppendChunk, EndStream, Unavailable, Finish,
                  GiveUp, server, asks
    <3> QED
      BY <3>1 DEF Counts
  <2> QED
    BY <1>1, <2>1, <2>2, <2>3 DEF Stream, Fetch
<1>2. ASSUME NEW c \in Client, Ask(c) PROVE Counts'
  <2>1. /\ UNCHANGED <<playlist, serving, run, port, heard>>
        /\ registry' = RegisterClient(Address(c))
        /\ ask' \in {ask, [ask EXCEPT ![c] = "registered"]}
        /\ events' = events + 1 /\ events < MaxEvents
    BY <1>2 DEF Ask, Happens
  <2>2. registry' \in Seq(Client \X (0 .. MaxEvents))
    BY <2>1, Registered
  <2>3. ask' \in [Client -> {"never", "registered", "answered"}]
    BY <2>1 DEF Counts
  <2>4. /\ events' \in 0 .. MaxEvents /\ run' \in 0 .. events'
        /\ ~serving' => run' < events'
        /\ port' \in [Client -> 0 .. events']
    BY <2>1, StreamAssumption DEF Counts
  <2> QED
    BY <2>1, <2>2, <2>3, <2>4 DEF Counts
<1>3. ASSUME NEW c \in Client, Answer(c) PROVE Counts'
  <2>1. /\ UNCHANGED <<playlist, registry, serving, run, port, events>>
        /\ heard' = [heard EXCEPT ![c] = ConnectedClients(Address(c))]
        /\ ask' = [ask EXCEPT ![c] = "answered"]
    BY <1>3 DEF Answer, server
  <2>2. ConnectedClients(Address(c)) \subseteq Client \X (0 .. MaxEvents)
    BY DEF ConnectedClients, ToSet, Counts
  <2> QED
    BY <2>1, <2>2 DEF Counts
<1>4. ASSUME NEW c \in Client, Disconnect(c) PROVE Counts'
  BY <1>4, FailCounts DEF Disconnect, server, Counts
<1>5. CASE Stop
  <2>1. UNCHANGED <<playlist, registry, run>> /\ serving' = FALSE /\ Fail(Client)
    BY <1>5 DEF Stop
  <2>2. /\ events' = events + 1 /\ events' \in 0 .. MaxEvents
        /\ port' \in [Client -> 0 .. events']
        /\ ask' \in [Client -> {"never", "registered", "answered"}]
        /\ heard' \in [Client -> SUBSET (Client \X (0 .. MaxEvents))]
    BY <2>1, FailCounts
  <2>3. run' \in 0 .. events' /\ run' < events'
    BY <2>1, <2>2 DEF Counts
  <2> QED
    BY <2>1, <2>2, <2>3 DEF Counts
<1>6. CASE Restart
  BY <1>6 DEF Restart, asks, Counts
<1>7. CASE UNCHANGED vars
  BY <1>7 DEF vars, server, asks, Counts
<1> QED
  BY <1>1, <1>2, <1>3, <1>4, <1>5, <1>6, <1>7 DEF Next

\* What holds of the types says what the runs check.
LEMMA TypesAre == Inv /\ Counts => TypeOK
<1> SUFFICES ASSUME Inv, Counts PROVE TypeOK
  OBVIOUS
<1>1. ASSUME NEW t \in Loader
      PROVE  /\ call[t].at \in {"idle", "asked", "open", "ok", "failed"}
             /\ call[t].at \notin {"idle", "failed"} =>
                   /\ call[t].num \in Numbers /\ call[t].alone \in BOOLEAN
                   /\ call[t].song \in {<< >>} \cup {<<s>> : s \in Song}
                   /\ call[t].got <= (IF call[t].at = "asked" THEN 0
                                      ELSE Parts[call[t].song[1]])
  <2>1. CASE call[t] \in {NoCall, FailedCall}
    BY <2>1, CallTypes
  <2>2. CASE call[t] \in Live
    <3>1. call[t].at \in {"asked", "open", "ok"} /\ Progress(t)
      BY <2>2 DEF Live, Inv
    <3>2. /\ call[t].num \in Numbers /\ call[t].alone \in BOOLEAN
          /\ call[t].song \in {<< >>} \cup {<<s>> : s \in Song}
      BY <2>2 DEF Live
    <3>3. call[t].got <= (IF call[t].at = "asked" THEN 0
                          ELSE Parts[call[t].song[1]])
      BY <3>1, <2>2 DEF Progress
    <3> QED
      BY <3>1, <3>2, <3>3
  <2> QED
    BY <2>1, <2>2 DEF Inv, Types, CallSet
<1>2. run \in 0 .. MaxEvents /\ port \in [Client -> 0 .. MaxEvents]
  BY StreamAssumption DEF Counts
<1> QED
  BY <1>1, <1>2 DEF TypeOK, Inv, Types, Counts

\* Everything the model keeps has its type, for any number of clients,
\* threads, songs, playlists and bound: counters stay within it, a stream
\* never carries more chunks than its song has.
THEOREM TypeCorrect == Spec => []TypeOK
<1>1. Init => Inv /\ Counts
  BY Initially DEF FullInv
<1>2. Inv /\ Counts /\ [Next]_vars => (Inv /\ Counts)'
  BY NextInv, CountsStep
<1> QED
  BY <1>1, <1>2, TypesAre, PTL DEF Spec

\* An operation of a thread or a request leaves connections and what they were
\* told alone, and only adds to the list.
LEMMA ListedStays ==
    ASSUME Listed, UNCHANGED <<serving, port>>,
           IsInjective(registry'),
           \A a : Contains(registry, a) => Contains(registry', a),
           \A c \in Client : ask'[c] # "never" =>
              \/ ask[c] # "never"
              \/ serving /\ Contains(registry', Address(c)),
           \A t \in Loader : call'[t].at = "open" =>
              \/ call[t].at = "open"
              \/ serving /\ Contains(registry', Address(t[1])),
           \A t \in Loader : t[1] \in Client
    PROVE  Listed'
<1>1. \A c \in Client : Address(c)' = Address(c)
  BY DEF Address
<1>2. ASSUME NEW c \in Client, ask'[c] # "never"
      PROVE  serving' /\ Contains(registry', Address(c))
  BY <1>2 DEF Listed
<1>3. ASSUME NEW t \in Loader, call'[t].at = "open"
      PROVE  serving' /\ Contains(registry', Address(t[1]))
  BY <1>3 DEF Listed
<1> QED
  BY <1>1, <1>2, <1>3 DEF Listed

LEMMA HeardStays ==
    ASSUME HearOfEachOther, UNCHANGED <<port, heard>>,
           \A c \in Client : ask'[c] = "answered" => ask[c] = "answered"
    PROVE  HearOfEachOther'
BY DEF HearOfEachOther, Address

\* A broken connection takes what it asked and was told with it.
LEMMA FailListed ==
    ASSUME Counts, Inv, Listed, HearOfEachOther, NEW C \in SUBSET Client, Fail(C),
           registry' = registry, serving' = serving \/ C = Client
    PROVE  Listed' /\ HearOfEachOther'
<1>1. /\ \A t \in Loader : t[1] \in Client
      /\ \A c \in Client : ask'[c] = IF c \in C THEN "never" ELSE ask[c]
      /\ \A c \in Client : heard'[c] = IF c \in C THEN {} ELSE heard[c]
      /\ \A t \in Loader : call'[t] = IF t[1] \in C /\ call[t].at # "idle"
                                      THEN FailedCall ELSE call[t]
  BY StreamAssumption DEF Fail
<1>2. \A c \in Client \ C : Address(c)' = Address(c)
  BY DEF Fail, Address
<1>3. ASSUME NEW c \in Client, ask'[c] # "never"
      PROVE  serving' /\ Contains(registry', Address(c)')
  <2>1. c \notin C /\ ask[c] # "never"
    BY <1>1, <1>3
  <2> QED
    BY <2>1, <1>2 DEF Listed
<1>4. ASSUME NEW t \in Loader, call'[t].at = "open"
      PROVE  serving' /\ Contains(registry', Address(t[1])')
  <2>1. t[1] \in Client \ C /\ call[t].at = "open"
    BY <1>1, <1>4, CallTypes
  <2> QED
    BY <2>1, <1>2 DEF Listed
<1>5. HearOfEachOther'
  BY <1>1, <1>2 DEF HearOfEachOther
<1> QED
  BY <1>3, <1>4, <1>5 DEF Listed

LEMMA ListedStep ==
    ASSUME FullInv, [Next]_vars PROVE Listed' /\ HearOfEachOther'
<1> USE DEF FullInv
<1>0. /\ \A t \in Loader : t[1] \in Client
      /\ call \in [Loader -> CallSet]
      /\ ask \in [Client -> {"never", "registered", "answered"}]
      /\ IsInjective(registry)
  BY StreamAssumption DEF Listed, Inv, Types, Counts
<1>1. ASSUME NEW t \in Loader,
             (\E k \in Numbers : Load(t, k)) \/ Stream(t) \/ Fetch(t)
      PROVE  Listed' /\ HearOfEachOther'
  <2>1. /\ UNCHANGED <<serving, port, ask, heard>>
        /\ registry' = registry \/ registry' = RegisterClient(Address(t[1]))
    BY <1>1 DEF Load, Stream, Fetch, Refuse, Accept, Chunk, AppendChunk,
                EndStream, Unavailable, Finish, GiveUp, server, asks
  <2>2. /\ IsInjective(registry')
        /\ \A a : Contains(registry, a) => Contains(registry', a)
    BY <2>1, <1>0, Registered
  <2>3. ASSUME NEW u \in Loader, call'[u].at = "open"
        PROVE  \/ call[u].at = "open"
               \/ serving /\ Contains(registry', Address(u[1]))
    <3>1. CASE \E k \in Numbers : Load(t, k)
      <4>1. \A k : Called(t, k)[u].at = "open" => call[u].at = "open"
        BY CallTypes, <1>0 DEF Called, CallSet, Live
      <4> QED
        BY <3>1, <4>1, <2>3 DEF Load
    <3>2. CASE Accept(t)
      <4>1. serving /\ Contains(registry', Address(t[1]))
        BY <3>2, <1>0, Registered DEF Accept
      <4>2. u # t => call'[u] = call[u]
        BY <3>2, <1>0 DEF Accept
      <4> QED
        BY <4>1, <4>2, <2>3
    <3>3. CASE Chunk(t)
      <4>1. call[t].at = "open" /\ (u # t => call'[u] = call[u])
        BY <3>3, <1>0 DEF Chunk, AppendChunk
      <4> QED
        BY <4>1, <2>3
    <3>4. CASE \/ Refuse(t) \/ EndStream(t) \/ Unavailable(t)
               \/ Finish(t) \/ GiveUp(t)
      <4>1. \E end : /\ call' = [call EXCEPT ![t] = end]
                     /\ end.at \in {"ok", "failed", "idle"}
        <5>1. CASE EndStream(t)
          <6>1. /\ call[t].at = "open"
                /\ call' = [call EXCEPT ![t] = [call[t] EXCEPT !.at = "ok",
                              !.cut = call[t].got < Parts[call[t].song[1]]]]
            BY <5>1, <1>0 DEF EndStream
          <6>2. call[t] \in Live
            BY <6>1, <1>0, CallTypes
          <6>3. [call[t] EXCEPT !.at = "ok",
                    !.cut = call[t].got < Parts[call[t].song[1]]].at = "ok"
            BY <6>2 DEF Live
          <6> QED
            BY <6>1, <6>3
        <5>2. CASE Refuse(t) \/ Unavailable(t)
          BY <5>2, CallTypes DEF Refuse, Unavailable
        <5>3. CASE Finish(t) \/ GiveUp(t)
          BY <5>3, CallTypes DEF Finish, GiveUp
        <5> QED
          BY <3>4, <5>1, <5>2, <5>3
      <4> QED
        BY <4>1, <2>3, <1>0
    <3> QED
      BY <1>1, <3>1, <3>2, <3>3, <3>4 DEF Stream, Fetch
  <2> QED
    BY <2>1, <2>2, <2>3, <1>0, ListedStays, HeardStays
<1>2. ASSUME NEW c \in Client, Ask(c) PROVE Listed' /\ HearOfEachOther'
  <2>1. /\ serving /\ UNCHANGED <<serving, port, heard, call>>
        /\ registry' = RegisterClient(Address(c))
        /\ ask' = ask \/ ask' = [ask EXCEPT ![c] = "registered"]
    BY <1>2 DEF Ask
  <2>2. /\ IsInjective(registry') /\ Contains(registry', Address(c))
        /\ \A a : Contains(registry, a) => Contains(registry', a)
    BY <2>1, <1>0, Registered
  <2>3. \A d \in Client : \/ ask'[d] = ask[d]
                          \/ d = c /\ ask'[d] = "registered"
    BY <2>1, <1>0
  <2> QED
    BY <2>1, <2>2, <2>3, <1>0, ListedStays, HeardStays
<1>3. ASSUME NEW c \in Client, Answer(c) PROVE Listed' /\ HearOfEachOther'
  <2>1. /\ ask[c] = "registered"
        /\ UNCHANGED <<serving, registry, port, call>>
        /\ heard' = [heard EXCEPT ![c] = ConnectedClients(Address(c))]
        /\ ask' = [ask EXCEPT ![c] = "answered"]
    BY <1>3 DEF Answer, server
  <2>2. \A d \in Client : ask'[d] = ask[d] \/ ask[d] # "never"
    BY <2>1, <1>0
  <2>3. Listed'
    BY <2>1, <2>2, <1>0, ListedStays
  <2>4. \A d \in Client : Address(d)' = Address(d)
    BY <2>1 DEF Address
  <2>5. ASSUME NEW d \in Client, d # c, ask[d] = "answered"
        PROVE  Address(d) \in heard'[c]
    <3>1. Contains(registry, Address(d)) /\ Address(d) # Address(c)
      BY <2>5 DEF Listed, Address
    <3>2. Address(d) \in ToSet(registry)
      <4>1. registry \in Seq(Client \X (0 .. MaxEvents))
        BY DEF Counts
      <4> QED
        BY <3>1, <4>1 DEF Contains, ToSet
    <3>3. heard'[c] = ConnectedClients(Address(c))
      BY <2>1 DEF Counts
    <3> QED
      BY <3>1, <3>2, <3>3 DEF ConnectedClients
  <2>6. \A d \in Client : d # c => ask'[d] = ask[d] /\ heard'[d] = heard[d]
    BY <2>1 DEF Counts
  <2>7. HearOfEachOther'
    BY <2>4, <2>5, <2>6 DEF HearOfEachOther
  <2> QED
    BY <2>3, <2>7
<1>4. ASSUME NEW c \in Client, Disconnect(c) PROVE Listed' /\ HearOfEachOther'
  BY <1>4, FailListed DEF Disconnect, server
<1>5. CASE Stop
  BY <1>5, FailListed DEF Stop
<1>6. CASE Restart
  <2>1. /\ ~serving /\ registry' = << >> /\ UNCHANGED <<port, ask, heard, call>>
    BY <1>6 DEF Restart, asks
  <2> QED
    BY <2>1, HeardStays DEF Listed, IsInjective
<1>7. CASE UNCHANGED vars
  <2>1. UNCHANGED <<serving, registry, port, ask, heard, call>>
    BY <1>7 DEF vars, server, asks
  <2> QED
    BY <2>1, <1>0, ListedStays, HeardStays
<1> QED
  BY <1>1, <1>2, <1>3, <1>4, <1>5, <1>6, <1>7 DEF Next

\* Nothing new was said of any song.
LEMMA NothingTold ==
    ASSUME OneSong, run' = run, playlist' = playlist, Facts' \subseteq Facts
    PROVE  OneSong'
BY DEF OneSong

\* Calls and players know what they knew, or less.
LEMMA FactsStay ==
    ASSUME \A t \in Loader : call'[t].at \in {"open", "ok"} =>
              call[t].at \in {"open", "ok"} /\ Told(call'[t]) = Told(call[t]),
           \A c \in Client : player'[c].ready =>
              Told(player'[c].load) \in Facts
    PROVE  Facts' \subseteq Facts
<1>1. ASSUME NEW t \in Loader, call'[t].at \in {"open", "ok"}
      PROVE  Told(call'[t]) \in Facts
  BY <1>1 DEF Facts
<1> QED
  BY <1>1 DEF Facts, Told

LEMMA PlayerFacts ==
    ASSUME NEW c \in Client, player[c].ready PROVE Told(player[c].load) \in Facts
BY DEF Facts

LEMMA CallFacts ==
    ASSUME NEW t \in Loader, call[t].at \in {"open", "ok"}
    PROVE  Told(call[t]) \in Facts
BY DEF Facts

\* A call is changed in nothing it was told, or is over.
LEMMA CallStays ==
    ASSUME Inv, NEW t \in Loader,
           NEW end, call' = [call EXCEPT ![t] = end],
           end.at \in {"open", "ok"} =>
              call[t].at \in {"open", "ok"} /\ Told(end) = Told(call[t]),
           player' = player
    PROVE  Facts' \subseteq Facts
<1>1. \A u \in Loader : call'[u] = IF u = t THEN end ELSE call[u]
  BY DEF Inv, Types
<1> QED
  BY <1>1, FactsStay, PlayerFacts

LEMMA OneSongStep ==
    ASSUME FullInv, [Next]_vars PROVE OneSong'
<1>0. /\ call \in [Loader -> CallSet] /\ run \in Int
      /\ \A t \in Loader : t[1] \in Client
      /\ player \in [Client -> [has : Seq(Bytes), ready : BOOLEAN, load : CallSet]]
      /\ OneSong /\ Inv
  BY StreamAssumption DEF FullInv, Inv, Types
<1>1. ASSUME NEW t \in Loader, NEW k \in Numbers, Load(t, k) PROVE OneSong'
  <2>1. /\ call[t].at = "idle" /\ call' = Called(t, k)
        /\ UNCHANGED <<run, playlist, player>>
    BY <1>1 DEF Load, server
  <2>2. ASSUME NEW u \in Loader, call'[u].at \in {"open", "ok"}
        PROVE  call[u].at \in {"open", "ok"} /\ Told(call'[u]) = Told(call[u])
    <3>1. u # t
      BY <2>1, <2>2 DEF Called
    <3>2. \/ call'[u] = call[u]
          \/ call[u] \in Live /\ call'[u] = [call[u] EXCEPT !.alone = FALSE]
      BY <2>1, <3>1, <1>0, CallTypes DEF Called, Others, CallSet
    <3> QED
      BY <3>2, <2>2 DEF Live, Told
  <2> QED
    BY <2>1, <2>2, <1>0, FactsStay, PlayerFacts, NothingTold
<1>2. ASSUME NEW t \in Loader, Accept(t) PROVE OneSong'
  <2> DEFINE s == playlist[call[t].num]
             new == [call[t] EXCEPT !.at = "open", !.run = run, !.song = <<s>>]
  <2>1. /\ call[t].at = "asked" /\ UNCHANGED <<run, playlist, player>>
        /\ call' = [call EXCEPT ![t] = new]
    BY <1>2, <1>0 DEF Accept, client
  <2>2. call[t] \in Live
    BY <2>1, <1>0, CallTypes
  <2> HIDE DEF s
  <2>3. new.run = run /\ new.num = call[t].num /\ new.song = <<s>>
    BY <2>2 DEF Live
  <2>4. Told(new) = <<run, call[t].num, <<s>>>>
    BY <2>3 DEF Told
  <2> HIDE DEF new
  <2>5. \A u \in Loader : call'[u] = IF u = t THEN new ELSE call[u]
    BY <2>1, <1>0
  <2>6. \A f \in Facts' : f \in Facts \/ f = Told(new)
    <3>1. \A u \in Loader : call'[u].at \in {"open", "ok"} =>
             Told(call'[u]) \in Facts \/ Told(call'[u]) = Told(new)
      BY <2>5, CallFacts
    <3>2. \A c \in Client : player'[c].ready => Told(player'[c].load) \in Facts
      BY <2>1, PlayerFacts
    <3>3. Facts' =
            {Told(call'[u]) :
                u \in {u \in Loader : call'[u].at \in {"open", "ok"}}}
            \cup {Told(player'[c].load) : c \in {c \in Client : player'[c].ready}}
      BY DEF Facts, Told
    <3> QED
      BY <3>1, <3>2, <3>3
  <2>7. /\ Told(new)[1] = run
        /\ Told(new)[3] = <<playlist[Told(new)[2]]>>
    BY <2>4 DEF s
  <2> DEFINE new3 == Told(new)
  <2>8. new3[1] = run /\ new3[3] = <<playlist[new3[2]]>>
    BY <2>7
  <2>9. \A f \in Facts' : f \in Facts \/ f = new3
    BY <2>6
  <2> HIDE DEF new3
  <2>10. run' = run /\ playlist' = playlist
    BY <2>1
  <2>11. ASSUME NEW f \in Facts'
         PROVE  /\ f[1] \in Int /\ f[1] <= run
                /\ f[1] = run => f[3] = <<playlist[f[2]]>>
    BY <2>8, <2>9, <2>11, <1>0 DEF OneSong
  <2>12. ASSUME NEW f \in Facts', NEW g \in Facts', f[1] = g[1], f[2] = g[2]
         PROVE  f[3] = g[3]
    <3>1. CASE f \in Facts /\ g \in Facts
      BY <3>1, <2>12, <1>0 DEF OneSong
    <3>2. CASE f = new3 \/ g = new3
      BY <3>2, <2>8, <2>11, <2>12
    <3> QED
      BY <3>1, <3>2, <2>9
  <2> QED
    BY <2>10, <2>11, <2>12 DEF OneSong
<1>3. ASSUME NEW t \in Loader, Chunk(t) PROVE OneSong'
  <2> DEFINE new == [call[t] EXCEPT !.got = @ + 1]
  <2>1. /\ call[t].at = "open" /\ UNCHANGED <<run, playlist, player>>
        /\ call' = [call EXCEPT ![t] = new]
    BY <1>3, <1>0 DEF Chunk, AppendChunk, server
  <2>2. call[t] \in Live
    BY <2>1, <1>0, CallTypes
  <2>3. Told(new) = Told(call[t])
    BY <2>2 DEF Live, Told
  <2> HIDE DEF new
  <2> QED
    BY <2>1, <2>3, <1>0, CallStays, NothingTold
<1>4. ASSUME NEW t \in Loader, EndStream(t) PROVE OneSong'
  <2> DEFINE isCut == call[t].got < Parts[call[t].song[1]]
             new == [call[t] EXCEPT !.at = "ok", !.cut = isCut]
  <2>1. /\ call[t].at = "open" /\ UNCHANGED <<run, playlist, player>>
        /\ call' = [call EXCEPT ![t] = new]
    BY <1>4, <1>0 DEF EndStream, server, client
  <2>2. call[t] \in Live
    BY <2>1, <1>0, CallTypes
  <2> HIDE DEF isCut
  <2>3. Told(new) = Told(call[t])
    BY <2>2 DEF Live, Told
  <2> HIDE DEF new
  <2> QED
    BY <2>1, <2>3, <1>0, CallStays, NothingTold
<1>5. ASSUME NEW t \in Loader, Refuse(t) \/ Unavailable(t) \/ GiveUp(t)
      PROVE  OneSong'
  <2>1. /\ UNCHANGED <<run, playlist, player>>
        /\ \E end \in {NoCall, FailedCall} : call' = [call EXCEPT ![t] = end]
    BY <1>5 DEF Refuse, Unavailable, GiveUp, server, client
  <2> QED
    BY <2>1, <1>0, CallTypes, CallStays, NothingTold
<1>6. ASSUME NEW t \in Loader, Finish(t) PROVE OneSong'
  <2>1. /\ call[t].at = "ok" /\ UNCHANGED <<run, playlist>>
        /\ call' = [call EXCEPT ![t] = NoCall]
        /\ \/ \E ready \in BOOLEAN : player' = [player EXCEPT ![t[1]] =
                 [has |-> data[t[1]], ready |-> ready, load |-> call[t]]]
           \/ player' = [player EXCEPT ![t[1]].ready = FALSE]
    BY <1>6 DEF Finish, server
  <2>2. \A u \in Loader : call'[u].at \in {"open", "ok"} => call'[u] = call[u]
    BY <2>1, <1>0, CallTypes
  <2>3. ASSUME NEW c \in Client, player'[c].ready
        PROVE  Told(player'[c].load) \in Facts
    <3>1. CASE c # t[1]
      <4>1. player'[c] = player[c]
        BY <2>1, <3>1, <1>0
      <4> QED
        BY <4>1, <2>3, PlayerFacts
    <3>2. CASE c = t[1]
      <4>1. player' # [player EXCEPT ![t[1]].ready = FALSE]
        BY <2>3, <3>2, <1>0
      <4>2. PICK ready \in BOOLEAN : player' = [player EXCEPT ![t[1]] =
                 [has |-> data[t[1]], ready |-> ready, load |-> call[t]]]
        BY <2>1, <4>1
      <4>3. player'[c] = [has |-> data[t[1]], ready |-> ready, load |-> call[t]]
        BY <4>2, <3>2, <1>0
      <4>4. player'[c].load = call[t]
        BY <4>3
      <4> QED
        BY <4>4, <2>1, CallFacts
    <3> QED
      BY <3>1, <3>2
  <2> QED
    BY <2>1, <2>2, <2>3, <1>0, FactsStay, NothingTold
<1>7. ASSUME NEW C \in SUBSET Client, Fail(C), UNCHANGED <<run, playlist, player>>
      PROVE  OneSong'
  <2>1. \A t \in Loader : call'[t].at \in {"open", "ok"} => call'[t] = call[t]
    BY <1>7, CallTypes DEF Fail
  <2> QED
    BY <2>1, <1>0, <1>7, FactsStay, PlayerFacts, NothingTold
<1>8. CASE UNCHANGED <<call, player, run, playlist>>
  BY <1>8, <1>0, FactsStay, PlayerFacts, NothingTold
<1>9. CASE Restart
  <2>1. run' = run + 1 /\ UNCHANGED <<call, player>>
    BY <1>9 DEF Restart, client
  <2>2. Facts' \subseteq Facts
    BY <2>1, FactsStay, PlayerFacts
  <2> QED
    BY <2>1, <2>2, <1>0 DEF OneSong
<1> QED
  <2>1. CASE UNCHANGED vars
    BY <2>1, <1>8 DEF vars, server, client
  <2>2. CASE \E c \in Client : Ask(c) \/ Answer(c)
    BY <2>2, <1>8 DEF Ask, Answer, server, client
  <2>3. CASE \E c \in Client : Disconnect(c)
    BY <2>3, <1>7 DEF Disconnect, server, client
  <2>4. CASE Stop
    BY <2>4, <1>7 DEF Stop, client
  <2> QED
    BY <1>1, <1>2, <1>3, <1>4, <1>5, <1>6, <1>9, <2>1, <2>2, <2>3, <2>4
    DEF Next, Stream, Fetch

LEMMA AllHolds == Spec => []FullInv
<1>1. FullInv /\ [Next]_vars => FullInv'
  BY NextInv, CountsStep, ListedStep, OneSongStep DEF FullInv
<1> QED
  BY Initially, <1>1, PTL DEF Spec

\* The server's list never has a connection twice, and it only streams to a
\* connection that is in it, whichever clients ask and fail meanwhile, and
\* although RegisterClient is called from every handler.
THEOREM RegisteredOnce == Spec => []OneEntryEach
<1>1. FullInv => OneEntryEach
  BY DEF FullInv, Listed, OneEntryEach
<1> QED
  BY AllHolds, <1>1, PTL

\* Any number of clients in any order, although GetPeerClientIPs locks the
\* list twice: of two clients that were answered, one knows the other.
THEOREM NobodyIsMissed == Spec => []HearOfEachOther
<1>1. FullInv => HearOfEachOther
  BY DEF FullInv
<1> QED
  BY AllHolds, <1>1, PTL

\* A number that two clients agree on means the same whole song to both, from
\* any playlists, as long as no restart of the server lies between their
\* loads: what peers are sent is the number only.
THEOREM NumbersMeanSongs == Spec => []SameNumberSameSong
<1>1. FullInv => SameNumberSameSong
  <2> SUFFICES ASSUME FullInv, NEW c \in Client, NEW d \in Client,
                      Sound(player[c]), Sound(player[d]), number[c] = number[d],
                      player[c].load.run = player[d].load.run
               PROVE  player[c].has = player[d].has
    BY DEF SameNumberSameSong
  <2>1. /\ player[c].has = Whole(player[c].load.song[1])
        /\ player[d].has = Whole(player[d].load.song[1])
        /\ player[c].load.num = player[d].load.num
    BY DEF FullInv, Inv, Loaded
  <2>2. Told(player[c].load) \in Facts /\ Told(player[d].load) \in Facts
    BY PlayerFacts DEF Sound
  <2>3. player[c].load.song = player[d].load.song
    BY <2>1, <2>2 DEF FullInv, OneSong, Told
  <2> QED
    BY <2>1, <2>3
<1> QED
  BY AllHolds, <1>1, PTL
=============================================================================
