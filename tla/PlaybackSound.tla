---------------------------- MODULE PlaybackSound ----------------------------
(***************************************************************************)
(* The order of chunks and packets in a playback thread, without regard to *)
(* the backend: ChunkMoves says what a step of any of them does with the   *)
(* chunks, SoundMoves what it does with the packets, and the invariants    *)
(* ChunkOrder and SoundOrder follow from these alone.  PlaybackProofs      *)
(* shows that every backend moves in these ways.                           *)
(***************************************************************************)
EXTENDS PlaybackState, SequenceTheorems, WellFoundedInduction, TLAPS

\* The last packet of the chunks before this one, and of all of them.
First(k) == (k - 1) * ChunkPackets
Total    == MaxChunks * ChunkPackets

LEMMA ChunkNumbers ==
  /\ Total \in Nat /\ ChunkPackets \in Nat \ {0} /\ RingCapacity \in Nat /\ ChunkPackets < RingCapacity
  /\ MaxChunks \in Nat \ {0} /\ NoteCapacity \in Nat \ {0} /\ QueueLimit \in Nat \ {0}
  /\ \A k \in 1..(MaxChunks + 1) : First(k) \in 0..Total
  /\ \A j, k \in 1..(MaxChunks + 1) : j < k => First(j) + ChunkPackets <= First(k)
  /\ \A k \in 1..MaxChunks : First(k) + ChunkPackets = First(k + 1)
<1>1. /\ ChunkPackets \in Nat \ {0} /\ RingCapacity \in Nat /\ ChunkPackets < RingCapacity
      /\ MaxChunks \in Nat \ {0} /\ NoteCapacity \in Nat \ {0} /\ QueueLimit \in Nat \ {0}
  BY PlaybackAssumption
<1>2. \A a, b, c \in Nat : a <= b => a * c <= b * c /\ a * c \in Nat
  OBVIOUS
<1>3. \A a, c \in Nat : (a + 1) * c = a * c + c
  OBVIOUS
<1>4. ASSUME NEW k \in 1..(MaxChunks + 1) PROVE First(k) \in 0..Total
  BY <1>1, <1>2, <1>4, k - 1 \in Nat, k - 1 <= MaxChunks DEF First, Total
<1>5. ASSUME NEW j \in 1..(MaxChunks + 1), NEW k \in 1..(MaxChunks + 1), j < k
      PROVE  First(j) + ChunkPackets <= First(k)
  <2>1. j - 1 \in Nat /\ k - 1 \in Nat /\ (j - 1) + 1 <= k - 1 /\ (j - 1) + 1 \in Nat
    BY <1>1, <1>5
  <2> DEFINE a == j - 1
             b == k - 1
  <2>2. a \in Nat /\ b \in Nat /\ a + 1 <= b /\ a + 1 \in Nat
    BY <2>1
  <2>3. First(j) = a * ChunkPackets /\ First(k) = b * ChunkPackets
    BY DEF First
  <2> HIDE DEF a, b
  <2>4. (a + 1) * ChunkPackets <= b * ChunkPackets /\ (a + 1) * ChunkPackets = a * ChunkPackets + ChunkPackets
    BY <1>1, <1>2, <1>3, <2>2
  <2> QED
    BY <2>3, <2>4
<1>6. ASSUME NEW k \in 1..MaxChunks PROVE First(k) + ChunkPackets = First(k + 1)
  <2> DEFINE a == k - 1
  <2>1. a \in Nat /\ First(k) = a * ChunkPackets /\ First(k + 1) = (a + 1) * ChunkPackets
    BY <1>1, k + 1 - 1 = k - 1 + 1 DEF First
  <2> HIDE DEF a
  <2> QED
    BY <1>1, <1>3, <2>1
<1>7. Total \in Nat
  BY <1>1, <1>2 DEF Total
<1> QED
  BY <1>1, <1>4, <1>5, <1>6, <1>7

\* A set of numbers with a bound has a greatest one.
LEMMA MaxIsThere ==
  ASSUME NEW n \in Nat, NEW S \in SUBSET (0..n), S # {}
  PROVE  Max(S) \in S /\ \A x \in S : Max(S) >= x
<1> DEFINE R == OpToRel(<, Nat)
           T == {n - x : x \in S}
<1>1. T \subseteq Nat /\ T # {}
  <2>1. ASSUME NEW x \in S PROVE n - x \in Nat
    OBVIOUS
  <2>2. \E x \in S : n - x \in T
    OBVIOUS
  <2> QED
    BY <2>1, <2>2
<1>2. IsWellFoundedOn(R, Nat)
  BY NatLessThanWellFounded
<1> HIDE DEF R, T
<1>3. PICK m \in T : \A y \in T : ~(<<y, m>> \in R)
  BY <1>1, <1>2, WFMin
<1>4. PICK x \in S : m = n - x
  BY <1>3 DEF T
<1>5. ASSUME NEW y \in S PROVE x >= y
  <2>1. n - y \in T /\ n - y \in Nat /\ m \in Nat
    BY <1>1, <1>3 DEF T
  <2>2. ~(n - y < m)
    BY <1>3, <2>1 DEF R, OpToRel
  <2> QED
    BY <1>4, <2>1, <2>2
<1> QED
  BY <1>5 DEF Max

LEMMA MinOfTwo ==
  ASSUME NEW a \in Nat, NEW b \in Nat
  PROVE  Min({a, b}) \in {a, b} /\ Min({a, b}) <= a /\ Min({a, b}) <= b
<1>1. \E x \in {a, b} : \A y \in {a, b} : x <= y
  BY a <= b \/ b <= a
<1> QED
  BY <1>1 DEF Min

\* Messages are taken from the front of the inbox, one or all.
Taken == inbox' \in {inbox, <<>>} \/ (inbox # <<>> /\ inbox' = Tail(inbox))

\* What the channel of notes holds when a note is read from it or added.
LEMMA NoteQueues ==
  ASSUME NEW q \in Seq(Nat)
  PROVE  /\ q # <<>> => \A i \in 1..Len(Tail(q)) : i + 1 \in 1..Len(q) /\ Tail(q)[i] = q[i + 1]
         /\ q # <<>> => Tail(q) \in Seq(Nat) /\ Len(Tail(q)) = Len(q) - 1 /\ Len(q) \in Nat \ {0}
         /\ q # <<>> => 1 \in 1..Len(q) /\ Head(q) = q[1]
         /\ \A n \in Nat : /\ Append(q, n) \in Seq(Nat) /\ Len(Append(q, n)) = Len(q) + 1
                           /\ \A i \in 1..Len(Append(q, n)) :
                                 \/ i = Len(q) + 1 /\ Append(q, n)[i] = n
                                 \/ i \in 1..Len(q) /\ Append(q, n)[i] = q[i]
<1>1. ASSUME q # <<>>
      PROVE  /\ \A i \in 1..Len(Tail(q)) : i + 1 \in 1..Len(q) /\ Tail(q)[i] = q[i + 1]
             /\ Tail(q) \in Seq(Nat) /\ Len(Tail(q)) = Len(q) - 1 /\ Len(q) \in Nat \ {0}
             /\ 1 \in 1..Len(q) /\ Head(q) = q[1]
  <2>1. /\ Tail(q) \in Seq(Nat) /\ Len(Tail(q)) = Len(q) - 1
        /\ \A i \in 1..Len(Tail(q)) : Tail(q)[i] = q[i + 1]
    BY <1>1, HeadTailProperties
  <2>2. Len(q) \in Nat \ {0}
    BY <1>1, EmptySeq
  <2> QED
    BY <2>1, <2>2
<1>2. ASSUME NEW n \in Nat
      PROVE  /\ Append(q, n) \in Seq(Nat) /\ Len(Append(q, n)) = Len(q) + 1
             /\ \A i \in 1..Len(Append(q, n)) : \/ i = Len(q) + 1 /\ Append(q, n)[i] = n
                                                \/ i \in 1..Len(q) /\ Append(q, n)[i] = q[i]
  <2>1. /\ Append(q, n) \in Seq(Nat)
        /\ Len(Append(q, n)) = Len(q) + 1 /\ Append(q, n)[Len(q) + 1] = n
        /\ \A i \in 1..Len(q) : Append(q, n)[i] = q[i]
        /\ Len(q) \in Nat
    BY AppendProperties
  <2> QED
    BY <2>1
<1> QED
  BY <1>1, <1>2

\* Whether the end is among the notes.
HasEnd(q) == \E i \in 1..Len(q) : q[i] = EndNote

LEMMA EndNotes ==
  ASSUME NEW q \in Seq(Nat)
  PROVE  /\ ~HasEnd(<<>>)
         /\ q # <<>> /\ HasEnd(Tail(q)) => HasEnd(q)
         /\ q # <<>> /\ Head(q) = EndNote => HasEnd(q)
         /\ \A n \in Nat : HasEnd(Append(q, n)) => n = EndNote \/ HasEnd(q)
  BY NoteQueues DEF HasEnd

-----------------------------------------------------------------------------
\* ---------------------------- Chunks in their order -----------------------

AllLess(S, T) == \A s \in S, t \in T : s < t
ChunksOf(q)   == {q[i] : i \in 1..Len(q)} \cap (1..MaxChunks)
InTurn(q)     == \A i, j \in 1..Len(q) :
                   i < j /\ q[i] \in 1..MaxChunks /\ q[j] \in 1..MaxChunks => q[i] < q[j]

\* The chunks on their way to the device, the oldest first: handed to the callback of
\* CPAL, in the hands of the thread, and sent.
Handed == IF backend = "cpal" THEN {notes[i] : i \in 1..Len(notes)} ELSE {}
Busy   == {chunk} \ {0}
Coming == Handed \cup Busy \cup ChunksOf(inbox) \cup {made + 1}

ChunkOrder ==
  /\ backend = "cpal" => Len(notes) <= 1
  /\ AllLess(Handed, Busy) /\ AllLess(Handed, ChunksOf(inbox)) /\ AllLess(Handed, {made + 1})
  /\ AllLess(Busy, ChunksOf(inbox)) /\ AllLess(Busy, {made + 1})
  /\ AllLess(ChunksOf(inbox), {made + 1}) /\ InTurn(inbox)

ChunkTypes ==
  /\ inbox \in Seq(0..EndOfStream) /\ Len(inbox) <= QueueLimit
  /\ made \in 0..MaxChunks /\ chunk \in 0..MaxChunks
  /\ backend = "cpal" => notes \in Seq(1..MaxChunks)

\* What a step does with the chunks: it leaves them, takes one, hands it to the callback,
\* sends one, or takes it from the callback.
Unhanded   == backend = "cpal" => UNCHANGED notes
KeepChunk  == Taken /\ chunk' \in {chunk, 0} /\ UNCHANGED made /\ Unhanded
FetchChunk == /\ inbox # <<>> /\ Head(inbox) \in 1..MaxChunks
              /\ chunk' = Head(inbox) /\ inbox' = Tail(inbox) /\ UNCHANGED made /\ Unhanded
HandChunk  == /\ backend = "cpal" /\ notes = <<>> /\ notes' = <<chunk>> /\ chunk # 0
              /\ chunk' = 0 /\ UNCHANGED <<inbox, made>>
SendChunk  == /\ \/ \E m \in {Pause, EndOfStream} : inbox' = Append(inbox, m) /\ UNCHANGED made
                 \/ made < MaxChunks /\ inbox' = Append(inbox, made + 1) /\ made' = made + 1
              /\ Len(inbox) < QueueLimit /\ UNCHANGED chunk /\ Unhanded
LoadChunk  == /\ backend = "cpal" /\ notes # <<>> /\ notes' = <<>>
              /\ UNCHANGED <<inbox, made, chunk>>
ChunkMoves == /\ UNCHANGED backend
              /\ KeepChunk \/ FetchChunk \/ HandChunk \/ SendChunk \/ LoadChunk

\* The chunks of a channel when its head is taken or a message added.
LEMMA ChannelChunks ==
  ASSUME NEW q \in Seq(0..EndOfStream)
  PROVE  /\ ChunksOf(<<>>) = {} /\ InTurn(<<>>)
         /\ q # <<>> => ChunksOf(Tail(q)) \subseteq ChunksOf(q)
         /\ q # <<>> /\ InTurn(q) => InTurn(Tail(q))
         /\ q # <<>> /\ Head(q) \in 1..MaxChunks => Head(q) \in ChunksOf(q)
         /\ q # <<>> /\ Head(q) \in 1..MaxChunks /\ InTurn(q) => AllLess({Head(q)}, ChunksOf(Tail(q)))
<1>1. ChunksOf(<<>>) = {} /\ InTurn(<<>>)
  BY DEF ChunksOf, InTurn
<1>2. ASSUME q # <<>>
      PROVE  /\ \A i \in 1..Len(Tail(q)) : i + 1 \in 1..Len(q) /\ Tail(q)[i] = q[i + 1] /\ 1 < i + 1
             /\ 1 \in 1..Len(q) /\ Head(q) = q[1]
             /\ \A i, j \in 1..Len(Tail(q)) : i < j => i + 1 < j + 1
  <2>1. /\ Tail(q) \in Seq(0..EndOfStream) /\ Len(Tail(q)) = Len(q) - 1
        /\ \A i \in 1..Len(Tail(q)) : Tail(q)[i] = q[i + 1]
    BY <1>2, HeadTailProperties
  <2>2. Len(q) \in Nat \ {0}
    BY <1>2, EmptySeq
  <2> QED
    BY <2>1, <2>2
<1>3. q # <<>> => ChunksOf(Tail(q)) \subseteq ChunksOf(q)
  BY <1>2 DEF ChunksOf
<1>4. ASSUME q # <<>>, InTurn(q) PROVE InTurn(Tail(q))
  BY <1>2, <1>4 DEF InTurn
<1>5. q # <<>> /\ Head(q) \in 1..MaxChunks => Head(q) \in ChunksOf(q)
  BY <1>2 DEF ChunksOf
<1>6. ASSUME q # <<>>, Head(q) \in 1..MaxChunks, InTurn(q)
      PROVE  AllLess({Head(q)}, ChunksOf(Tail(q)))
  <2>1. ASSUME NEW i \in 1..Len(Tail(q)), Tail(q)[i] \in 1..MaxChunks PROVE Head(q) < Tail(q)[i]
    BY <1>2, <1>6, <2>1 DEF InTurn
  <2> QED
    BY <2>1 DEF AllLess, ChunksOf
<1> QED
  BY <1>1, <1>3, <1>4, <1>5, <1>6

LEMMA ChunkSent ==
  ASSUME NEW q \in Seq(0..EndOfStream), NEW m \in 0..EndOfStream
  PROVE  /\ Append(q, m) \in Seq(0..EndOfStream) /\ Len(Append(q, m)) = Len(q) + 1
         /\ ChunksOf(Append(q, m)) = ChunksOf(q) \cup ({m} \cap 1..MaxChunks)
         /\ InTurn(q) /\ (m \in 1..MaxChunks => AllLess(ChunksOf(q), {m})) => InTurn(Append(q, m))
<1> DEFINE r == Append(q, m)
<1>1. /\ r \in Seq(0..EndOfStream) /\ Len(r) = Len(q) + 1 /\ r[Len(q) + 1] = m
      /\ \A i \in 1..Len(q) : r[i] = q[i]
      /\ Len(q) \in Nat
  BY AppendProperties
<1> HIDE DEF r
<1>2. /\ \A i \in 1..Len(r) : i \in 1..Len(q) \/ i = Len(q) + 1
      /\ \A i \in 1..Len(q) : i \in 1..Len(r)
      /\ Len(q) + 1 \in 1..Len(r)
  BY <1>1
<1>3. ChunksOf(r) = ChunksOf(q) \cup ({m} \cap 1..MaxChunks)
  BY <1>1, <1>2 DEF ChunksOf
<1>4. ASSUME InTurn(q), m \in 1..MaxChunks => AllLess(ChunksOf(q), {m}) PROVE InTurn(r)
  <2>1. ASSUME NEW i \in 1..Len(r), NEW j \in 1..Len(r), i < j,
               r[i] \in 1..MaxChunks, r[j] \in 1..MaxChunks
        PROVE  r[i] < r[j]
    <3>1. i \in 1..Len(q)
      BY <1>1, <2>1
    <3>2. CASE j \in 1..Len(q)
      BY <1>1, <1>4, <2>1, <3>1, <3>2 DEF InTurn
    <3>3. CASE j = Len(q) + 1
      BY <1>1, <1>4, <2>1, <3>1, <3>3 DEF AllLess, ChunksOf
    <3> QED
      BY <1>2, <3>2, <3>3
  <2> QED
    BY <2>1 DEF InTurn
<1> QED
  BY <1>1, <1>3, <1>4 DEF r

\* No step turns two chunks around, and none brings an older one back.
LEMMA NextChunkOrder ==
  ASSUME ChunkTypes, ChunkOrder, ChunkMoves
  PROVE  /\ ChunkOrder'
         /\ Coming' \subseteq Coming \cup {made' + 1} /\ made' + 1 \in 1..(MaxChunks + 1)
         /\ made + 1 <= made' + 1
<1> USE ChunkNumbers DEF ChunkTypes
<1>1. /\ made \in Nat /\ Handed \subseteq Nat /\ Busy \subseteq 1..MaxChunks
      /\ ChunksOf(inbox) \subseteq 1..MaxChunks /\ MaxChunks \in Nat /\ UNCHANGED backend
  BY DEF Handed, Busy, ChunksOf, ChunkMoves
<1>2. /\ AllLess(Handed, Busy) /\ AllLess(Handed, ChunksOf(inbox)) /\ AllLess(Handed, {made + 1})
      /\ AllLess(Busy, ChunksOf(inbox)) /\ AllLess(Busy, {made + 1})
      /\ AllLess(ChunksOf(inbox), {made + 1}) /\ InTurn(inbox)
      /\ backend = "cpal" => Len(notes) <= 1
  BY DEF ChunkOrder
<1>3. Unhanded => UNCHANGED Handed
  BY <1>1 DEF Handed, Unhanded
<1> HIDE DEF ChunkTypes
<1>4. CASE KeepChunk
  <2>1. ChunksOf(inbox') \subseteq ChunksOf(inbox) /\ InTurn(inbox')
    <3>1. /\ ChunksOf(<<>>) = {} /\ InTurn(<<>>)
          /\ inbox # <<>> => ChunksOf(Tail(inbox)) \subseteq ChunksOf(inbox) /\ InTurn(Tail(inbox))
      BY <1>2, ChannelChunks DEF ChunkTypes
    <3>2. CASE inbox' = inbox
      BY <1>2, <3>2
    <3>3. CASE inbox' = <<>>
      BY <3>1, <3>3
    <3>4. CASE inbox # <<>> /\ inbox' = Tail(inbox)
      BY <3>1, <3>4
    <3> QED
      BY <1>4, <3>2, <3>3, <3>4 DEF KeepChunk, Taken
  <2>2. Busy' \subseteq Busy /\ Handed' = Handed /\ made' = made
        /\ (backend' = "cpal" => Len(notes') <= 1)
    BY <1>1, <1>2, <1>3, <1>4 DEF KeepChunk, Busy, Unhanded
  <2>3. Coming' \subseteq Coming
    BY <2>1, <2>2 DEF Coming, ChunksOf
  <2>4. ChunkOrder'
    BY <1>2, <2>1, <2>2 DEF ChunkOrder, AllLess, ChunksOf, InTurn
  <2> QED
    BY <1>1, <2>2, <2>3, <2>4 DEF ChunkTypes
<1>5. CASE FetchChunk
  <2>1. /\ ChunksOf(inbox') \subseteq ChunksOf(inbox) /\ InTurn(inbox')
        /\ Head(inbox) \in ChunksOf(inbox) /\ AllLess({Head(inbox)}, ChunksOf(inbox'))
    BY <1>2, <1>5, ChannelChunks DEF FetchChunk, ChunkTypes
  <2>2. Busy' = {Head(inbox)} /\ Handed' = Handed /\ made' = made
        /\ (backend' = "cpal" => Len(notes') <= 1)
    BY <1>1, <1>2, <1>3, <1>5 DEF FetchChunk, Busy, Unhanded
  <2>3. Coming' \subseteq Coming
    BY <2>1, <2>2 DEF Coming, ChunksOf
  <2>4. AllLess(Handed', Busy') /\ AllLess(Handed', ChunksOf(inbox')) /\ AllLess(Handed', {made' + 1})
    BY <1>2, <2>1, <2>2 DEF AllLess
  <2>5. AllLess(Busy', {made' + 1}) /\ AllLess(ChunksOf(inbox'), {made' + 1})
    BY <1>2, <2>1, <2>2 DEF AllLess
  <2>6. ChunksOf(inbox)' = ChunksOf(inbox') /\ InTurn(inbox)'
    BY <2>1 DEF ChunksOf, InTurn
  <2>7. ChunkOrder'
    BY <2>1, <2>2, <2>4, <2>5, <2>6 DEF ChunkOrder
  <2> QED
    BY <1>1, <2>2, <2>3, <2>7 DEF ChunkTypes
<1>6. CASE HandChunk
  <2>1. Handed' = Busy /\ Busy' = {} /\ UNCHANGED <<inbox, made>> /\ Len(notes') = 1
    BY <1>1, <1>6 DEF HandChunk, Handed, Busy
  <2>2. Coming' \subseteq Coming
    BY <2>1 DEF Coming, ChunksOf
  <2>3. ChunkOrder'
    BY <1>2, <2>1 DEF ChunkOrder, AllLess, ChunksOf, InTurn
  <2> QED
    BY <1>1, <2>1, <2>2, <2>3 DEF ChunkTypes
<1>7. CASE SendChunk
  <2>1. Busy' = Busy /\ Handed' = Handed /\ (backend' = "cpal" => Len(notes') <= 1)
    BY <1>1, <1>2, <1>3, <1>7 DEF SendChunk, Busy, Unhanded
  <2>2. CASE \E m \in {Pause, EndOfStream} : inbox' = Append(inbox, m) /\ UNCHANGED made
    <3>1. Pause \in 0..EndOfStream /\ EndOfStream \in 0..EndOfStream
          /\ Pause \notin 1..MaxChunks /\ EndOfStream \notin 1..MaxChunks
      BY DEF Pause, EndOfStream
    <3>2. ChunksOf(inbox') = ChunksOf(inbox) /\ InTurn(inbox') /\ made' = made
      <4>1. PICK m \in {Pause, EndOfStream} : inbox' = Append(inbox, m) /\ UNCHANGED made
        BY <2>2
      <4>2. m \in 0..EndOfStream /\ {m} \cap 1..MaxChunks = {} /\ m \notin 1..MaxChunks
        BY <3>1
      <4>3. /\ ChunksOf(Append(inbox, m)) = ChunksOf(inbox) \cup ({m} \cap 1..MaxChunks)
            /\ InTurn(Append(inbox, m))
        BY <1>2, <4>2, ChunkSent DEF ChunkTypes
      <4> QED
        BY <4>1, <4>2, <4>3
    <3>3. Coming' \subseteq Coming
      BY <2>1, <3>2 DEF Coming, ChunksOf
    <3>4. ChunkOrder'
      BY <1>2, <2>1, <3>2 DEF ChunkOrder, AllLess, ChunksOf, InTurn
    <3> QED
      BY <1>1, <3>2, <3>3, <3>4 DEF ChunkTypes
  <2>3. CASE made < MaxChunks /\ inbox' = Append(inbox, made + 1) /\ made' = made + 1
    <3>1. made + 1 \in 1..MaxChunks /\ made + 1 \in 0..EndOfStream
      BY <1>1, <2>3 DEF EndOfStream
    <3>2. ChunksOf(inbox') = ChunksOf(inbox) \cup {made + 1} /\ InTurn(inbox')
      <4>1. {made + 1} \cap 1..MaxChunks = {made + 1}
        BY <3>1
      <4>2. /\ ChunksOf(Append(inbox, made + 1)) = ChunksOf(inbox) \cup ({made + 1} \cap 1..MaxChunks)
            /\ InTurn(Append(inbox, made + 1))
        BY <1>2, <3>1, ChunkSent DEF ChunkTypes
      <4> QED
        BY <2>3, <4>1, <4>2
    <3>3. Coming' \subseteq Coming \cup {made' + 1}
      BY <2>1, <3>2 DEF Coming, ChunksOf
    <3> DEFINE S == ChunksOf(inbox)
    <3>4. \A s \in Handed \cup Busy \cup S : s \in Nat /\ s < made + 1
      BY <1>1, <1>2 DEF AllLess
    <3>5. \A s \in Handed \cup Busy \cup S \cup {made + 1} : s < made + 1 + 1
      BY <1>1, <3>4
    <3>6. ChunksOf(inbox)' = S \cup {made + 1} /\ made' = made + 1
      BY <2>3, <3>2 DEF ChunksOf
    <3> HIDE DEF S
    <3>7. AllLess(Handed, Busy) /\ AllLess(Handed, S) /\ AllLess(Busy, S)
      BY <1>2 DEF S
    <3>8. ChunkOrder'
      BY <2>1, <3>2, <3>4, <3>5, <3>6, <3>7 DEF ChunkOrder, AllLess, InTurn
    <3> QED
      BY <1>1, <2>3, <3>1, <3>3, <3>8
  <2> QED
    BY <1>7, <2>2, <2>3 DEF SendChunk
<1>8. CASE LoadChunk
  <2>1. Handed' = {} /\ Busy' = Busy /\ UNCHANGED <<inbox, made>> /\ Len(notes') <= 1
    BY <1>1, <1>8 DEF LoadChunk, Handed, Busy
  <2>2. Coming' \subseteq Coming
    BY <2>1 DEF Coming, ChunksOf
  <2>3. ChunkOrder'
    BY <1>2, <2>1 DEF ChunkOrder, AllLess, ChunksOf, InTurn
  <2> QED
    BY <1>1, <2>1, <2>2, <2>3 DEF ChunkTypes
<1> QED
  BY <1>4, <1>5, <1>6, <1>7, <1>8 DEF ChunkMoves

-----------------------------------------------------------------------------
\* ---------------------------- Sound in its order --------------------------

\* What has been taken from the chunks and not been played, the oldest first.
Queue == rest \o ring

Rising(q)   == \A i, j \in 1..Len(q) : i < j => q[i] < q[j]
Above(a, q) == \A i \in 1..Len(q) : a < q[i]
UpTo(q, b)  == \A i \in 1..Len(q) : q[i] <= b

SoundTypes ==
  /\ ring \in Seq(1..Total) /\ Len(ring) <= RingCapacity
  /\ rest \in Seq(1..Total) /\ Len(rest) <= RingCapacity
  /\ played \in 0..Total /\ disorder \in BOOLEAN

SoundOrder ==
  /\ ~disorder
  /\ Rising(Queue) /\ Above(played, Queue)
  /\ \A k \in Coming : played <= First(k) /\ UpTo(Queue, First(k))

\* Only the inner thread of ALSA keeps what a short write has left, and two backends have
\* no ring buffer.
BufferInv ==
  /\ backend # "alsaThreaded" => rest = <<>>
  /\ backend \in {"pulse", "alsa"} => ring = <<>>

\* What a step does with the sound: nothing, it adds packets of a chunk, the callback of
\* CPAL adds its chunk, packets leave at the front, some of them to the device, or the
\* device gets packets of a chunk at once.
Quiet  == UNCHANGED <<rest, ring, played, disorder>>
Grow   == /\ backend # "cpal" /\ chunk \in 1..MaxChunks /\ chunk' = 0 /\ UNCHANGED <<inbox, made>>
          /\ \E n \in 0..ChunkPackets : /\ ring' = ring \o SubSeq(Packets(chunk), 1, n)
                                        /\ Len(ring) + n <= RingCapacity
          /\ UNCHANGED <<rest, played, disorder>>
Load   == /\ LoadChunk /\ rest = <<>> /\ ring = <<>> /\ ring' = Packets(Head(notes))
          /\ UNCHANGED <<rest, played, disorder>>
Slide  == /\ UNCHANGED <<inbox, made, chunk>> /\ Unhanded
          /\ ring' \in Seq(1..Total) /\ Len(ring') <= RingCapacity
          /\ rest' \in Seq(1..Total) /\ Len(rest') <= RingCapacity
          /\ \E m \in 0..Len(Queue) :
               /\ Len(Queue') = Len(Queue) - m
               /\ \A i \in 1..Len(Queue') : Queue'[i] = Queue[i + m]
               /\ \/ UNCHANGED <<played, disorder>>
                  \/ \E s \in Seq(1..Total) :
                       Play(s) /\ Len(s) <= m /\ \A i \in 1..Len(s) : s[i] = Queue[i]
Direct == /\ backend # "cpal" /\ chunk \in 1..MaxChunks /\ chunk' = 0 /\ UNCHANGED <<inbox, made>>
          /\ rest = <<>> /\ ring = <<>> /\ UNCHANGED <<rest, ring>>
          /\ \E n \in 0..ChunkPackets : Play(SubSeq(Packets(chunk), 1, n))

SoundMoves ==
  /\ ChunkMoves
  /\ Quiet \/ Grow \/ Load \/ Slide \/ Direct
  /\ backend # "alsaThreaded" => UNCHANGED rest
  /\ backend \in {"pulse", "alsa"} => UNCHANGED ring

\* The first packets of a chunk.
LEMMA PacketsOfChunk ==
  ASSUME NEW k \in 1..MaxChunks, NEW n \in 0..ChunkPackets
  PROVE  LET p == SubSeq(Packets(k), 1, n)
         IN  /\ p \in Seq(1..Total) /\ Len(p) = n /\ n \in Nat
             /\ \A i \in 1..n : p[i] = First(k) + i
             /\ Packets(k) = SubSeq(Packets(k), 1, ChunkPackets)
<1> USE ChunkNumbers
<1>1. /\ First(k) \in Nat /\ First(k + 1) \in 0..Total
      /\ First(k) + ChunkPackets = First(k + 1)
  <2>1. k \in 1..(MaxChunks + 1) /\ k + 1 \in 1..(MaxChunks + 1)
    OBVIOUS
  <2> QED
    BY <2>1
<1>2. \A i \in 1..ChunkPackets : First(k) + i \in 1..Total
  BY <1>1
<1>3. Packets(k) = [i \in 1..ChunkPackets |-> First(k) + i]
  BY DEF Packets, First
<1>4. Packets(k) \in Seq(1..Total) /\ Len(Packets(k)) = ChunkPackets
  BY <1>2, <1>3
<1>5. \A i \in 1..ChunkPackets : Packets(k)[i] = First(k) + i
  BY <1>3
<1> DEFINE p == SubSeq(Packets(k), 1, n)
<1>6. p \in Seq(1..Total) /\ Len(p) = n /\ \A i \in 1..n : p[i] = Packets(k)[i]
  <2>1. n \in Int /\ 1 \in Int /\ \A i \in 1..n : i \in 1..ChunkPackets
    OBVIOUS
  <2>2. \A i \in 1..n : Packets(k)[i] \in 1..Total
    BY <1>2, <1>5, <2>1
  <2>3. /\ p \in Seq(1..Total) /\ Len(p) = IF 1 <= n THEN n - 1 + 1 ELSE 0
        /\ \A i \in 1..(n - 1 + 1) : p[i] = Packets(k)[1 + i - 1]
    BY <2>1, <2>2, SubSeqProperties
  <2> QED
    BY <2>3
<1>7. \A i \in 1..n : p[i] = First(k) + i
  BY <1>5, <1>6
<1>8. Packets(k) = SubSeq(Packets(k), 1, ChunkPackets)
  BY <1>4, SubSeqFull
<1>9. n \in Nat
  OBVIOUS
<1> HIDE ChunkNumbers
<1> QED
  BY <1>6, <1>7, <1>8, <1>9

\* What playing does to the history.
LEMMA Plays ==
  ASSUME NEW s \in Seq(1..Total), played \in 0..Total, disorder \in BOOLEAN, Play(s)
  PROVE  /\ played' \in 0..Total /\ disorder' \in BOOLEAN
         /\ played' = played \/ \E i \in 1..Len(s) : played' = s[i]
         /\ ~disorder /\ Rising(s) /\ Above(played, s) => ~disorder'
<1> DEFINE S == {played} \cup {s[i] : i \in DOMAIN s}
<1>1. DOMAIN s = 1..Len(s) /\ Len(s) \in Nat /\ \A i \in 1..Len(s) : s[i] \in 1..Total
  BY LenProperties
<1>2. S \in SUBSET (0..Total) /\ S # {} /\ Total \in Nat
  BY <1>1, ChunkNumbers
<1>3. played' = Max(S)
  BY DEF Play
<1>4. \A x \in S : x = played \/ \E i \in 1..Len(s) : x = s[i]
  BY <1>1
<1> HIDE DEF S
<1>5. Max(S) \in S
  BY <1>2, MaxIsThere
<1>6. played' \in 0..Total /\ (played' = played \/ \E i \in 1..Len(s) : played' = s[i])
  BY <1>2, <1>3, <1>4, <1>5
<1>7. disorder' \in BOOLEAN
  BY DEF Play
<1>8. ASSUME ~disorder, Rising(s), Above(played, s) PROVE ~disorder'
  <2>1. ASSUME NEW i \in 1..Len(s), s[i] <= IF i = 1 THEN played ELSE s[i - 1] PROVE FALSE
    <3>1. s[i] \in Nat /\ played \in Nat /\ played < s[i]
      BY <1>1, <1>8 DEF Above
    <3>2. i # 1 /\ s[i] <= s[i - 1]
      BY <2>1, <3>1
    <3>3. i - 1 \in 1..Len(s) /\ i - 1 < i
      BY <1>1, <3>2
    <3>4. s[i - 1] < s[i] /\ s[i - 1] \in Nat
      BY <1>1, <1>8, <3>3 DEF Rising
    <3> QED
      BY <3>1, <3>2, <3>4
  <2> QED
    BY <1>1, <1>8, <2>1 DEF Play
<1> QED
  BY <1>6, <1>7, <1>8

LEMMA QueueFacts ==
  ASSUME NEW a \in Seq(1..Total), NEW b \in Seq(1..Total)
  PROVE  /\ a \o b \in Seq(1..Total) /\ Len(a \o b) = Len(a) + Len(b)
         /\ Len(a) \in Nat /\ Len(b) \in Nat
         /\ \A i \in 1..Len(a) : (a \o b)[i] = a[i]
         /\ \A i \in 1..Len(b) : (a \o b)[Len(a) + i] = b[i]
         /\ \A i \in 1..Len(a \o b) : i \in 1..Len(a) \/ \E j \in 1..Len(b) : i = Len(a) + j
         /\ \A i \in 1..Len(a \o b) : (a \o b)[i] \in 1..Total
<1>1. /\ a \o b \in Seq(1..Total) /\ Len(a \o b) = Len(a) + Len(b)
      /\ \A i \in 1..Len(a) + Len(b) : (a \o b)[i] = IF i <= Len(a) THEN a[i] ELSE b[i - Len(a)]
  BY ConcatProperties
<1>2. Len(a) \in Nat /\ Len(b) \in Nat
  BY LenProperties
<1>3. \A i \in 1..Len(a) : (a \o b)[i] = a[i]
  BY <1>1, <1>2
<1>4. ASSUME NEW i \in 1..Len(b) PROVE (a \o b)[Len(a) + i] = b[i]
  <2>1. Len(a) + i \in 1..Len(a) + Len(b) /\ ~(Len(a) + i <= Len(a)) /\ Len(a) + i - Len(a) = i
    BY <1>2
  <2> QED
    BY <1>1, <2>1
<1>5. ASSUME NEW i \in 1..Len(a \o b), i \notin 1..Len(a)
      PROVE  \E j \in 1..Len(b) : i = Len(a) + j
  <2>1. i - Len(a) \in 1..Len(b) /\ i = Len(a) + (i - Len(a))
    BY <1>1, <1>2, <1>5
  <2> QED
    BY <2>1
<1>6. \A i \in 1..Len(a \o b) : (a \o b)[i] \in 1..Total
  BY <1>1, ElementOfSeq
<1> QED
  BY <1>1, <1>2, <1>3, <1>4, <1>5, <1>6

\* Packets of a chunk behind a queue.
LEMMA Extends ==
  ASSUME NEW q \in Seq(1..Total), NEW k \in 1..MaxChunks, NEW n \in 0..ChunkPackets,
         Rising(q), UpTo(q, First(k))
  PROVE  LET p == SubSeq(Packets(k), 1, n)
         IN  /\ Rising(q \o p)
             /\ \A a \in Nat : Above(a, q) /\ a <= First(k) => Above(a, q \o p)
             /\ \A b \in Nat : First(k) + ChunkPackets <= b => UpTo(q \o p, b)
<1> DEFINE p == SubSeq(Packets(k), 1, n)
           r == q \o p
<1>1. p \in Seq(1..Total) /\ Len(p) = n /\ n \in Nat /\ \A i \in 1..n : p[i] = First(k) + i
  BY PacketsOfChunk
<1>2. First(k) \in Nat /\ ChunkPackets \in Nat
  BY ChunkNumbers, k \in 1..(MaxChunks + 1)
<1> HIDE DEF p
<1>3. /\ Len(r) = Len(q) + n /\ Len(q) \in Nat
      /\ \A i \in 1..Len(q) : r[i] = q[i] /\ q[i] \in Nat
      /\ \A i \in 1..n : r[Len(q) + i] = First(k) + i
      /\ \A i \in 1..Len(r) : i \in 1..Len(q) \/ \E j \in 1..n : i = Len(q) + j
  <2>1. /\ Len(r) = Len(q) + Len(p) /\ Len(q) \in Nat
        /\ \A i \in 1..Len(q) : r[i] = q[i]
        /\ \A i \in 1..Len(p) : r[Len(q) + i] = p[i]
        /\ \A i \in 1..Len(r) : i \in 1..Len(q) \/ \E j \in 1..Len(p) : i = Len(q) + j
    BY <1>1, QueueFacts
  <2>2. \A i \in 1..Len(q) : q[i] \in 1..Total
    BY ElementOfSeq
  <2> HIDE DEF r
  <2> QED
    BY <1>1, <2>1, <2>2
<1> HIDE DEF r
<1>4. Rising(r)
  <2>1. ASSUME NEW i \in 1..Len(r), NEW j \in 1..Len(r), i < j PROVE r[i] < r[j]
    <3>1. CASE j \in 1..Len(q)
      <4>1. i \in 1..Len(q)
        BY <1>3, <2>1, <3>1
      <4> QED
        BY <1>3, <2>1, <3>1, <4>1 DEF Rising
    <3>2. CASE i \in 1..Len(q) /\ \E l \in 1..n : j = Len(q) + l
      <4>1. PICK l \in 1..n : j = Len(q) + l
        BY <3>2
      <4>2. r[i] <= First(k) /\ r[i] \in Nat /\ r[j] = First(k) + l
        BY <1>3, <3>2, <4>1 DEF UpTo
      <4> QED
        BY <1>2, <4>2
    <3>3. CASE (\E l \in 1..n : i = Len(q) + l) /\ (\E l \in 1..n : j = Len(q) + l)
      <4>1. PICK l \in 1..n, o \in 1..n : i = Len(q) + l /\ j = Len(q) + o
        BY <3>3
      <4>2. l < o /\ r[i] = First(k) + l /\ r[j] = First(k) + o
        BY <1>3, <2>1, <4>1
      <4> QED
        BY <1>2, <4>2
    <3> QED
      BY <1>3, <3>1, <3>2, <3>3
  <2> QED
    BY <2>1 DEF Rising
<1>5. ASSUME NEW a \in Nat, Above(a, q), a <= First(k) PROVE Above(a, r)
  <2>1. ASSUME NEW i \in 1..Len(r) PROVE a < r[i]
    <3>1. CASE i \in 1..Len(q)
      BY <1>3, <1>5, <3>1 DEF Above
    <3>2. CASE \E j \in 1..n : i = Len(q) + j
      <4>1. PICK j \in 1..n : i = Len(q) + j
        BY <3>2
      <4>2. r[i] = First(k) + j
        BY <1>3, <4>1
      <4> QED
        BY <1>1, <1>2, <1>5, <4>2
    <3> QED
      BY <1>3, <3>1, <3>2
  <2> QED
    BY <2>1 DEF Above
<1>6. ASSUME NEW b \in Nat, First(k) + ChunkPackets <= b PROVE UpTo(r, b)
  <2>1. ASSUME NEW i \in 1..Len(r) PROVE r[i] <= b
    <3>1. CASE i \in 1..Len(q)
      <4>1. r[i] \in Nat /\ r[i] <= First(k)
        BY <1>3, <3>1 DEF UpTo
      <4> QED
        BY <1>2, <1>6, <4>1
    <3>2. CASE \E j \in 1..n : i = Len(q) + j
      <4>1. PICK j \in 1..n : i = Len(q) + j
        BY <3>2
      <4>2. r[i] = First(k) + j
        BY <1>3, <4>1
      <4> QED
        BY <1>1, <1>2, <1>6, <4>2
    <3> QED
      BY <1>3, <3>1, <3>2
  <2> QED
    BY <2>1 DEF UpTo
<1> QED
  BY <1>4, <1>5, <1>6 DEF p, r

\* Every chunk on its way has a number, and those behind the oldest begin where it ends.
LEMMA ChunksToCome ==
  ASSUME ChunkTypes, ChunkOrder
  PROVE  /\ \A k \in Coming : k \in 1..(MaxChunks + 1) /\ First(k) \in 0..Total
         /\ made + 1 \in Coming
         /\ backend # "cpal" /\ chunk # 0 =>
              \A k \in ChunksOf(inbox) \cup {made + 1} : First(chunk) + ChunkPackets <= First(k)
         /\ backend = "cpal" /\ notes # <<>> =>
              /\ Head(notes) \in 1..MaxChunks /\ Head(notes) \in Handed
              /\ \A k \in Busy \cup ChunksOf(inbox) \cup {made + 1} :
                   First(Head(notes)) + ChunkPackets <= First(k)
<1> USE ChunkNumbers
<1>1. /\ Handed \subseteq 1..MaxChunks /\ Busy \subseteq 1..MaxChunks
      /\ ChunksOf(inbox) \subseteq 1..MaxChunks /\ made + 1 \in 1..(MaxChunks + 1)
  <2>1. backend = "cpal" => \A i \in 1..Len(notes) : notes[i] \in 1..MaxChunks
    BY ElementOfSeq DEF ChunkTypes
  <2>2. Handed \subseteq 1..MaxChunks
    BY <2>1 DEF Handed
  <2> QED
    BY <2>2 DEF Busy, ChunksOf, ChunkTypes
<1>2. \A k \in Coming : k \in 1..(MaxChunks + 1) /\ First(k) \in 0..Total
  <2>1. \A k \in Coming : k \in 1..(MaxChunks + 1)
    BY <1>1 DEF Coming
  <2> QED
    BY <2>1
<1>3. ASSUME NEW h \in 1..MaxChunks, NEW k \in 1..(MaxChunks + 1), h < k
      PROVE  First(h) + ChunkPackets <= First(k)
  BY <1>3, h \in 1..(MaxChunks + 1)
<1>4. ASSUME backend # "cpal" /\ chunk # 0, NEW k \in ChunksOf(inbox) \cup {made + 1}
      PROVE  First(chunk) + ChunkPackets <= First(k)
  <2>1. chunk \in Busy /\ chunk \in 1..MaxChunks
    BY <1>1, <1>4 DEF Busy, ChunkTypes
  <2>2. chunk < k /\ k \in 1..(MaxChunks + 1)
    BY <1>1, <1>4, <2>1 DEF ChunkOrder, AllLess
  <2> QED
    BY <1>3, <2>1, <2>2
<1>5. ASSUME backend = "cpal" /\ notes # <<>>
      PROVE  /\ Head(notes) \in 1..MaxChunks /\ Head(notes) \in Handed
             /\ \A k \in Busy \cup ChunksOf(inbox) \cup {made + 1} :
                  First(Head(notes)) + ChunkPackets <= First(k)
  <2>1. Len(notes) \in Nat \ {0} /\ Head(notes) \in 1..MaxChunks
    BY <1>5, EmptySeq, HeadTailProperties DEF ChunkTypes
  <2>2. 1 \in 1..Len(notes) /\ Head(notes) = notes[1]
    BY <2>1
  <2>3. Head(notes) \in Handed
    BY <1>5, <2>2 DEF Handed
  <2>4. ASSUME NEW k \in Busy \cup ChunksOf(inbox) \cup {made + 1}
        PROVE  First(Head(notes)) + ChunkPackets <= First(k)
    <3>1. AllLess(Handed, Busy \cup ChunksOf(inbox) \cup {made + 1})
      BY DEF ChunkOrder, AllLess
    <3>2. k \in 1..(MaxChunks + 1)
      BY <1>1, <2>4
    <3>3. Head(notes) < k
      BY <2>3, <2>4, <3>1 DEF AllLess
    <3> QED
      BY <1>3, <2>1, <3>2, <3>3
  <2> QED
    BY <2>1, <2>3, <2>4
<1> QED
  BY <1>2, <1>4, <1>5 DEF Coming

LEMMA NextSoundTypes ==
  ASSUME ChunkTypes, SoundTypes, ChunkOrder, SoundMoves
  PROVE  SoundTypes'
<1>1. /\ ring \in Seq(1..Total) /\ Len(ring) <= RingCapacity
      /\ rest \in Seq(1..Total) /\ Len(rest) <= RingCapacity
      /\ played \in 0..Total /\ disorder \in BOOLEAN
      /\ Quiet \/ Grow \/ Load \/ Slide \/ Direct
  BY DEF SoundTypes, SoundMoves
<1>2. CASE Quiet
  BY <1>1, <1>2 DEF Quiet, SoundTypes
<1>3. CASE Grow
  <2>1. PICK n \in 0..ChunkPackets : /\ ring' = ring \o SubSeq(Packets(chunk), 1, n)
                                     /\ Len(ring) + n <= RingCapacity
    BY <1>3 DEF Grow
  <2>2. LET p == SubSeq(Packets(chunk), 1, n) IN p \in Seq(1..Total) /\ Len(p) = n
    BY <1>3, PacketsOfChunk DEF Grow
  <2>3. ring' \in Seq(1..Total) /\ Len(ring') = Len(ring) + n
    BY <1>1, <2>1, <2>2, ConcatProperties
  <2> QED
    BY <1>1, <1>3, <2>1, <2>3 DEF Grow, SoundTypes
<1>4. CASE Load
  <2>1. Head(notes) \in 1..MaxChunks
    BY <1>4, ChunksToCome DEF Load, LoadChunk
  <2>2. ChunkPackets \in 0..ChunkPackets /\ ChunkPackets < RingCapacity /\ RingCapacity \in Nat
        /\ ChunkPackets \in Nat
    BY ChunkNumbers
  <2>3. Packets(Head(notes)) \in Seq(1..Total) /\ Len(Packets(Head(notes))) = ChunkPackets
    BY <2>1, <2>2, PacketsOfChunk
  <2> QED
    BY <1>1, <1>4, <2>2, <2>3 DEF Load, SoundTypes
<1>5. CASE Slide
  <2>1. played' \in 0..Total /\ disorder' \in BOOLEAN
    BY <1>1, <1>5, Plays DEF Slide
  <2> QED
    BY <1>5, <2>1 DEF Slide, SoundTypes
<1>6. CASE Direct
  <2>1. played' \in 0..Total /\ disorder' \in BOOLEAN
    <3>1. PICK n \in 0..ChunkPackets : Play(SubSeq(Packets(chunk), 1, n))
      BY <1>6 DEF Direct
    <3>2. SubSeq(Packets(chunk), 1, n) \in Seq(1..Total)
      BY <1>6, PacketsOfChunk DEF Direct
    <3> QED
      BY <1>1, <3>1, <3>2, Plays
  <2> QED
    BY <1>1, <1>6, <2>1 DEF Direct, SoundTypes
<1> QED
  BY <1>1, <1>2, <1>3, <1>4, <1>5, <1>6

\* The history and the queue keep their order.
LEMMA NextSoundOrder ==
  ASSUME ChunkTypes, SoundTypes, ChunkOrder, SoundOrder, SoundMoves
  PROVE  SoundOrder'
<1>1. /\ ring \in Seq(1..Total) /\ rest \in Seq(1..Total)
      /\ played \in 0..Total /\ played \in Nat /\ disorder \in BOOLEAN
      /\ Quiet \/ Grow \/ Load \/ Slide \/ Direct
      /\ ChunkMoves
  BY ChunkNumbers DEF SoundTypes, SoundMoves
<1>2. /\ ~disorder /\ Rising(Queue) /\ Above(played, Queue)
      /\ \A k \in Coming : played <= First(k) /\ UpTo(Queue, First(k))
  BY DEF SoundOrder
<1>3. /\ Queue \in Seq(1..Total) /\ Len(Queue) \in Nat
      /\ \A i \in 1..Len(Queue) : Queue[i] \in 1..Total /\ Queue[i] \in Nat
  <2>1. /\ Queue \in Seq(1..Total) /\ \A i \in 1..Len(Queue) : Queue[i] \in 1..Total
    BY <1>1, QueueFacts DEF Queue
  <2> QED
    BY <2>1, ChunkNumbers, LenProperties
<1>4. /\ \A k \in Coming : k \in 1..(MaxChunks + 1) /\ First(k) \in 0..Total /\ First(k) \in Nat
      /\ made + 1 \in Coming
  BY ChunksToCome, ChunkNumbers
<1>5. CASE Quiet
  <2>1. Queue' = Queue /\ played' = played /\ ~disorder'
    BY <1>2, <1>5 DEF Quiet, Queue
  <2>2. ASSUME NEW k \in Coming' PROVE played <= First(k) /\ UpTo(Queue, First(k))
    <3>1. CASE k \in Coming
      BY <1>2, <3>1
    <3>2. CASE k = made' + 1
      <4>1. played <= First(made + 1) /\ UpTo(Queue, First(made + 1))
        BY <1>2, <1>4
      <4>2. /\ made + 1 \in 1..(MaxChunks + 1) /\ k \in 1..(MaxChunks + 1) /\ made + 1 <= k
        BY <1>1, <1>4, <3>2, NextChunkOrder
      <4>3. First(made + 1) <= First(k) /\ First(made + 1) \in Nat /\ First(k) \in Nat
        <5>1. CASE made + 1 = k
          BY <1>4, <5>1
        <5>2. CASE made + 1 < k
          <6>1. First(made + 1) + ChunkPackets <= First(k) /\ First(k) \in Nat /\ ChunkPackets \in Nat
            BY <4>2, <5>2, ChunkNumbers
          <6> QED
            BY <1>4, <6>1
        <5> QED
          BY <4>2, <5>1, <5>2
      <4>4. played <= First(k)
        BY <1>1, <4>1, <4>3
      <4>5. UpTo(Queue, First(k))
        BY <1>3, <4>1, <4>3 DEF UpTo
      <4> QED
        BY <4>4, <4>5
    <3> QED
      BY <1>1, <3>1, <3>2, NextChunkOrder
  <2> QED
    BY <1>2, <2>1, <2>2 DEF SoundOrder, Rising, Above, UpTo
<1>6. CASE Grow
  <2>1. chunk \in 1..MaxChunks /\ chunk \in Coming /\ First(chunk) \in Nat
    BY <1>4, <1>6 DEF Grow, Coming, Busy
  <2>2. PICK n \in 0..ChunkPackets : ring' = ring \o SubSeq(Packets(chunk), 1, n)
    BY <1>6 DEF Grow
  <2> DEFINE p == SubSeq(Packets(chunk), 1, n)
  <2>3. p \in Seq(1..Total)
    BY <2>1, PacketsOfChunk
  <2>4. Queue' = Queue \o p
    <3>1. Queue' = rest \o (ring \o p)
      BY <1>6, <2>2 DEF Grow, Queue
    <3> HIDE DEF p
    <3>2. (rest \o ring) \o p = rest \o (ring \o p)
      BY <1>1, <2>3, ConcatAssociative
    <3> QED
      BY <3>1, <3>2 DEF Queue
  <2>5. /\ Rising(Queue \o p)
        /\ Above(played, Queue) /\ played <= First(chunk) => Above(played, Queue \o p)
        /\ \A b \in Nat : First(chunk) + ChunkPackets <= b => UpTo(Queue \o p, b)
    BY <1>1, <1>2, <1>3, <2>1, Extends
  <2>6. ASSUME NEW k \in Coming' PROVE k \in Coming /\ First(chunk) + ChunkPackets <= First(k)
    <3>1. Coming' = ChunksOf(inbox) \cup {made + 1}
      BY <1>1, <1>6 DEF Grow, Coming, Handed, Busy, ChunksOf, ChunkMoves
    <3>2. k \in Coming
      BY <3>1 DEF Coming
    <3> QED
      BY <1>6, <2>1, <3>1, <3>2, ChunksToCome DEF Grow
  <2> HIDE DEF p
  <2>7. UNCHANGED <<played, disorder>>
    BY <1>6 DEF Grow
  <2>8. Rising(Queue)' /\ Above(played, Queue)' /\ ~disorder'
    BY <1>2, <2>1, <2>4, <2>5, <2>7 DEF Rising, Above
  <2>9. ASSUME NEW k \in Coming' PROVE played <= First(k) /\ UpTo(Queue', First(k))
    BY <1>2, <1>4, <2>4, <2>5, <2>6
  <2> QED
    BY <2>7, <2>8, <2>9 DEF SoundOrder, UpTo
<1>7. CASE Load
  <2> DEFINE h == Head(notes)
             p == SubSeq(Packets(h), 1, ChunkPackets)
  <2>1. /\ h \in 1..MaxChunks /\ h \in Handed
        /\ \A k \in Busy \cup ChunksOf(inbox) \cup {made + 1} : First(h) + ChunkPackets <= First(k)
    BY <1>7, ChunksToCome DEF Load, LoadChunk
  <2>2. h \in Coming /\ ChunkPackets \in 0..ChunkPackets
    BY <2>1, ChunkNumbers DEF Coming
  <2>3. p \in Seq(1..Total) /\ Packets(h) = p
    BY <2>1, <2>2, PacketsOfChunk
  <2>4. Queue = <<>> /\ <<>> \in Seq(1..Total) /\ Queue' = <<>> \o p
    BY <1>7, <2>3, ConcatEmptySeq, EmptySeq DEF Load, Queue
  <2>5. Rising(<<>>) /\ UpTo(<<>>, First(h)) /\ Above(played, <<>>)
    BY DEF Rising, UpTo, Above
  <2>6. /\ Rising(<<>> \o p)
        /\ Above(played, <<>>) /\ played <= First(h) => Above(played, <<>> \o p)
        /\ \A b \in Nat : First(h) + ChunkPackets <= b => UpTo(<<>> \o p, b)
    BY <1>1, <2>1, <2>2, <2>4, <2>5, Extends
  <2>7. ASSUME NEW k \in Coming' PROVE k \in Coming /\ First(h) + ChunkPackets <= First(k)
    <3>1. Coming' = Busy \cup ChunksOf(inbox) \cup {made + 1}
      BY <1>1, <1>7 DEF Load, LoadChunk, Coming, Handed, Busy, ChunksOf, ChunkMoves
    <3>2. k \in Coming
      BY <3>1 DEF Coming
    <3> QED
      BY <2>1, <3>1, <3>2
  <2>8. UNCHANGED <<played, disorder>>
    BY <1>7 DEF Load
  <2> HIDE DEF p, h
  <2>9. Rising(Queue)' /\ Above(played, Queue)' /\ ~disorder'
    BY <1>2, <2>2, <2>4, <2>5, <2>6, <2>8 DEF Rising, Above
  <2>10. ASSUME NEW k \in Coming' PROVE played <= First(k) /\ UpTo(Queue', First(k))
    BY <1>2, <1>4, <2>4, <2>6, <2>7
  <2> QED
    BY <2>8, <2>9, <2>10 DEF SoundOrder, UpTo
<1>8. CASE Slide
  <2>1. PICK m \in 0..Len(Queue) :
          /\ Len(Queue') = Len(Queue) - m
          /\ \A i \in 1..Len(Queue') : Queue'[i] = Queue[i + m]
          /\ \/ UNCHANGED <<played, disorder>>
             \/ \E s \in Seq(1..Total) : Play(s) /\ Len(s) <= m /\ \A i \in 1..Len(s) : s[i] = Queue[i]
    BY <1>8 DEF Slide
  <2>2. Coming' = Coming
    BY <1>1, <1>8 DEF Slide, Coming, Handed, Busy, ChunksOf, ChunkMoves, Unhanded
  <2>3. /\ ~disorder' /\ played' \in Nat
        /\ played' = played \/ \E i \in 1..m : played' = Queue[i]
    <3>1. CASE UNCHANGED <<played, disorder>>
      BY <1>1, <1>2, <3>1
    <3>2. CASE \E s \in Seq(1..Total) : Play(s) /\ Len(s) <= m /\ \A i \in 1..Len(s) : s[i] = Queue[i]
      <4>1. PICK s \in Seq(1..Total) : Play(s) /\ Len(s) <= m /\ \A i \in 1..Len(s) : s[i] = Queue[i]
        BY <3>2
      <4>2. Len(s) \in Nat /\ \A i \in 1..Len(s) : i \in 1..m /\ i \in 1..Len(Queue)
        BY <1>3, <4>1, LenProperties
      <4>3. Rising(s) /\ Above(played, s)
        BY <1>2, <4>1, <4>2 DEF Rising, Above
      <4>4. /\ played' \in 0..Total /\ ~disorder'
            /\ played' = played \/ \E i \in 1..Len(s) : played' = s[i]
        BY <1>1, <1>2, <4>1, <4>3, Plays
      <4>5. played' = played \/ \E i \in 1..m : played' = Queue[i]
        BY <4>1, <4>2, <4>4
      <4> QED
        BY <4>4, <4>5, ChunkNumbers
    <3> QED
      BY <2>1, <3>1, <3>2
  <2>4. \A i \in 1..Len(Queue') : i + m \in 1..Len(Queue) /\ m < i + m
    BY <1>3, <2>1
  <2>5. Rising(Queue)'
    <3>1. ASSUME NEW i \in 1..Len(Queue'), NEW j \in 1..Len(Queue'), i < j PROVE Queue'[i] < Queue'[j]
      <4>1. i + m < j + m
        BY <3>1
      <4> QED
        BY <1>2, <2>1, <2>4, <4>1 DEF Rising
    <3> QED
      BY <3>1 DEF Rising
  <2>6. Above(played, Queue)'
    <3>1. ASSUME NEW i \in 1..Len(Queue') PROVE played' < Queue'[i]
      <4>1. Queue'[i] = Queue[i + m] /\ i + m \in 1..Len(Queue)
        BY <2>1, <2>4
      <4>2. CASE played' = played
        BY <1>2, <4>1, <4>2 DEF Above
      <4>3. CASE \E j \in 1..m : played' = Queue[j]
        <5>1. PICK j \in 1..m : played' = Queue[j]
          BY <4>3
        <5>2. j \in 1..Len(Queue) /\ j < i + m
          BY <1>3
        <5> QED
          BY <1>2, <4>1, <5>1, <5>2 DEF Rising
      <4> QED
        BY <2>3, <4>2, <4>3
    <3> QED
      BY <3>1 DEF Above
  <2>7. ASSUME NEW k \in Coming PROVE played' <= First(k) /\ UpTo(Queue', First(k))
    <3>1. UpTo(Queue, First(k)) /\ played <= First(k)
      BY <1>2
    <3>2. played' <= First(k)
      BY <1>3, <2>3, <3>1 DEF UpTo
    <3>3. UpTo(Queue', First(k))
      BY <2>1, <2>4, <3>1 DEF UpTo
    <3> QED
      BY <3>2, <3>3
  <2> QED
    BY <2>2, <2>3, <2>5, <2>6, <2>7 DEF SoundOrder, UpTo
<1>9. CASE Direct
  <2>1. chunk \in 1..MaxChunks /\ chunk \in Coming /\ First(chunk) \in Nat
    BY <1>4, <1>9 DEF Direct, Coming, Busy
  <2>2. PICK n \in 0..ChunkPackets : Play(SubSeq(Packets(chunk), 1, n))
    BY <1>9 DEF Direct
  <2> DEFINE p == SubSeq(Packets(chunk), 1, n)
  <2>3. p \in Seq(1..Total) /\ Len(p) = n /\ n \in Nat /\ \A i \in 1..n : p[i] = First(chunk) + i
    BY <2>1, PacketsOfChunk
  <2>4. Play(p)
    BY <2>2
  <2>5. played <= First(chunk)
    BY <1>2, <2>1
  <2> HIDE DEF p
  <2>6. Rising(p) /\ Above(played, p)
    BY <1>1, <2>1, <2>3, <2>5 DEF Rising, Above
  <2>7. /\ played' \in 0..Total /\ ~disorder'
        /\ played' = played \/ \E i \in 1..Len(p) : played' = p[i]
    BY <1>1, <1>2, <2>3, <2>4, <2>6, Plays
  <2>8. played' <= First(chunk) + ChunkPackets /\ played' \in Nat
    <3>1. ChunkPackets \in Nat /\ n <= ChunkPackets
      BY ChunkNumbers
    <3>2. CASE played' = played
      BY <1>1, <2>1, <2>5, <3>1, <3>2
    <3>3. CASE \E i \in 1..Len(p) : played' = p[i]
      <4>1. PICK i \in 1..n : played' = First(chunk) + i
        BY <2>3, <3>3
      <4> QED
        BY <2>1, <2>3, <3>1, <4>1
    <3> QED
      BY <2>7, <3>2, <3>3
  <2>9. ASSUME NEW k \in Coming' PROVE k \in Coming /\ First(chunk) + ChunkPackets <= First(k)
    <3>1. Coming' = ChunksOf(inbox) \cup {made + 1}
      BY <1>1, <1>9 DEF Direct, Coming, Handed, Busy, ChunksOf, ChunkMoves
    <3>2. k \in Coming
      BY <3>1 DEF Coming
    <3> QED
      BY <1>9, <2>1, <3>1, <3>2, ChunksToCome DEF Direct
  <2>10. \A k \in Coming' : played' <= First(k)
    <3>1. ASSUME NEW k \in Coming' PROVE played' <= First(k)
      <4>1. First(chunk) + ChunkPackets <= First(k) /\ First(k) \in Nat
        BY <1>4, <2>9
      <4>2. First(chunk) + ChunkPackets \in Nat
        BY <2>1, ChunkNumbers
      <4> QED
        BY <2>8, <4>1, <4>2
    <3> QED
      BY <3>1
  <2>11. Queue' = <<>>
    BY <1>9, ConcatEmptySeq, EmptySeq DEF Direct, Queue
  <2> QED
    BY <2>7, <2>10, <2>11 DEF SoundOrder, Rising, Above, UpTo
<1> QED
  BY <1>1, <1>5, <1>6, <1>7, <1>8, <1>9

-----------------------------------------------------------------------------
\* ---------------------- What the backends do with the sound ---------------

\* What TypeOK says of the threads and of the channel to the callback or inner thread,
\* the reports aside.  A thread that writes has a chunk.
ThreadTypes ==
  /\ backend \in Backends
  /\ pc \in {"open"} \cup Waiting \cup Working \cup Ended
  /\ inner \in {"none", "waiting", "running", "ending", "blocked", "over", "panicked"}
  /\ event \in {"none", "rate", "gone"}
  /\ processing \in BOOLEAN /\ supervisor \in BOOLEAN
  /\ paused \in BOOLEAN /\ stalled \in BOOLEAN
  /\ backend # "cpal" => notes \in Seq(0..EndNote)
  /\ Len(notes) <= NoteCapacity
  /\ credit \in Nat /\ (backend # "alsaThreaded" => credit <= RingCapacity)
  /\ pc = "push" => chunk # 0

StepTypes == ThreadTypes /\ ChunkTypes /\ SoundTypes /\ BufferInv

LEMMA NextChunkTypes ==
  ASSUME ChunkTypes, ChunkMoves
  PROVE  ChunkTypes'
<1> USE ChunkNumbers
<1>1. /\ inbox \in Seq(0..EndOfStream) /\ Len(inbox) <= QueueLimit
      /\ made \in 0..MaxChunks /\ chunk \in 0..MaxChunks
      /\ backend = "cpal" => notes \in Seq(1..MaxChunks)
      /\ Len(inbox) \in Nat /\ UNCHANGED backend
  BY LenProperties DEF ChunkTypes, ChunkMoves
<1>2. ASSUME inbox # <<>> PROVE Tail(inbox) \in Seq(0..EndOfStream) /\ Len(Tail(inbox)) = Len(inbox) - 1
  BY <1>1, <1>2, HeadTailProperties
<1>3. <<>> \in Seq(0..EndOfStream) /\ Len(<<>>) = 0
  BY EmptySeq
<1>4. CASE KeepChunk
  <2>1. inbox' \in Seq(0..EndOfStream) /\ Len(inbox') <= QueueLimit
    <3>1. CASE inbox' = inbox
      BY <1>1, <3>1
    <3>2. CASE inbox' = <<>>
      BY <1>3, <3>2
    <3>3. CASE inbox # <<>> /\ inbox' = Tail(inbox)
      BY <1>1, <1>2, <3>3
    <3> QED
      BY <1>4, <3>1, <3>2, <3>3 DEF KeepChunk, Taken
  <2> QED
    BY <1>1, <1>4, <2>1 DEF KeepChunk, Unhanded, ChunkTypes
<1>5. CASE FetchChunk
  <2>1. inbox' \in Seq(0..EndOfStream) /\ Len(inbox') <= QueueLimit
    BY <1>1, <1>2, <1>5 DEF FetchChunk
  <2>2. chunk' \in 0..MaxChunks /\ UNCHANGED made /\ Unhanded
    BY <1>5 DEF FetchChunk
  <2> QED
    BY <1>1, <2>1, <2>2 DEF Unhanded, ChunkTypes
<1>6. CASE HandChunk
  BY <1>1, <1>6 DEF HandChunk, ChunkTypes
<1>7. CASE SendChunk
  <2>1. \A m \in 0..EndOfStream : /\ Append(inbox, m) \in Seq(0..EndOfStream)
                                  /\ Len(Append(inbox, m)) = Len(inbox) + 1
    BY <1>1, ChunkSent
  <2>2. Pause \in 0..EndOfStream /\ EndOfStream \in 0..EndOfStream
        /\ (made < MaxChunks => made + 1 \in 0..EndOfStream /\ made + 1 \in 0..MaxChunks)
    BY <1>1 DEF Pause, EndOfStream
  <2>3. /\ inbox' \in Seq(0..EndOfStream) /\ Len(inbox') = Len(inbox) + 1 /\ made' \in 0..MaxChunks
        /\ Len(inbox) < QueueLimit /\ UNCHANGED chunk /\ Unhanded
    BY <1>1, <1>7, <2>1, <2>2 DEF SendChunk
  <2> QED
    BY <1>1, <2>3 DEF Unhanded, ChunkTypes
<1>8. CASE LoadChunk
  BY <1>1, <1>8, EmptySeq DEF LoadChunk, ChunkTypes
<1> QED
  BY <1>4, <1>5, <1>6, <1>7, <1>8 DEF ChunkMoves

LEMMA BusyChunk == StepTypes /\ pc = "push" => chunk \in 1..MaxChunks
  BY ChunkNumbers DEF StepTypes, ThreadTypes, ChunkTypes

\* Reading and adding notes keeps the type of their channel.
LEMMA NoteTypes ==
  ASSUME ThreadTypes, backend # "cpal"
  PROVE  /\ notes # <<>> => Tail(notes) \in Seq(0..EndNote) /\ Len(Tail(notes)) <= NoteCapacity
         /\ notes # <<>> => Head(notes) \in 0..EndNote
         /\ \A n \in 0..EndNote : Len(notes) < NoteCapacity =>
              Append(notes, n) \in Seq(0..EndNote) /\ Len(Append(notes, n)) <= NoteCapacity
         /\ PauseNote \in 0..EndNote /\ EndNote \in 0..EndNote /\ ChunkPackets \in 0..EndNote
         /\ backend # "alsaThreaded" => credit \in 0..EndNote
<1> USE ChunkNumbers
<1>1. notes \in Seq(0..EndNote) /\ Len(notes) <= NoteCapacity /\ Len(notes) \in Nat
  BY LenProperties DEF ThreadTypes
<1>2. ASSUME notes # <<>>
      PROVE  /\ Tail(notes) \in Seq(0..EndNote) /\ Len(Tail(notes)) <= NoteCapacity
             /\ Head(notes) \in 0..EndNote
  <2>1. Tail(notes) \in Seq(0..EndNote) /\ Len(Tail(notes)) = Len(notes) - 1 /\ Head(notes) \in 0..EndNote
    BY <1>1, <1>2, HeadTailProperties
  <2> QED
    BY <1>1, <2>1
<1>3. ASSUME NEW n \in 0..EndNote, Len(notes) < NoteCapacity
      PROVE  Append(notes, n) \in Seq(0..EndNote) /\ Len(Append(notes, n)) <= NoteCapacity
  <2>1. Append(notes, n) \in Seq(0..EndNote) /\ Len(Append(notes, n)) = Len(notes) + 1
    BY <1>1, AppendProperties
  <2> QED
    BY <1>1, <1>3, <2>1
<1>4. PauseNote \in 0..EndNote /\ EndNote \in 0..EndNote /\ ChunkPackets \in 0..EndNote
  BY DEF PauseNote, EndNote
<1>5. backend # "alsaThreaded" => credit \in 0..EndNote
  BY DEF ThreadTypes, EndNote
<1> QED
  BY <1>2, <1>3, <1>4, <1>5

\* Packets leave a queue of two parts at the front.
LEMMA Parted ==
  ASSUME NEW a \in Seq(1..Total), NEW b \in Seq(1..Total), NEW n \in 0..Len(a)
  PROVE  LET r == SubSeq(a, n + 1, Len(a))
             s == SubSeq(a, 1, n)
             q == a \o b
         IN  /\ n \in 0..Len(q) /\ n \in Nat
             /\ r \in Seq(1..Total) /\ Len(r) = Len(a) - n
             /\ s \in Seq(1..Total) /\ Len(s) = n /\ \A i \in 1..Len(s) : s[i] = q[i]
             /\ Len(r \o b) = Len(q) - n
             /\ \A i \in 1..Len(r \o b) : (r \o b)[i] = q[i + n]
<1> DEFINE r == SubSeq(a, n + 1, Len(a))
           s == SubSeq(a, 1, n)
           q == a \o b
<1>1. /\ Len(a) \in Nat /\ Len(b) \in Nat /\ n \in Nat /\ n <= Len(a) /\ n + 1 \in Int /\ n \in Int
      /\ Len(a) \in Int
  BY LenProperties
<1>2. \A i \in 1..Len(a) : a[i] \in 1..Total
  BY ElementOfSeq
<1>3. /\ s \in Seq(1..Total) /\ Len(s) = n /\ \A i \in 1..n : s[i] = a[i]
  <2>1. \A i \in 1..n : a[i] \in 1..Total
    BY <1>1, <1>2
  <2>2. /\ s \in Seq(1..Total) /\ Len(s) = IF 1 <= n THEN n - 1 + 1 ELSE 0
        /\ \A i \in 1..(n - 1 + 1) : s[i] = a[1 + i - 1]
    BY <1>1, <2>1, SubSeqProperties
  <2> QED
    BY <1>1, <2>2
<1>4. /\ r \in Seq(1..Total) /\ Len(r) = Len(a) - n /\ \A i \in 1..Len(r) : r[i] = a[i + n]
  <2>1. \A i \in (n + 1)..Len(a) : a[i] \in 1..Total
    BY <1>1, <1>2
  <2>2. /\ r \in Seq(1..Total) /\ Len(r) = IF n + 1 <= Len(a) THEN Len(a) - (n + 1) + 1 ELSE 0
        /\ \A i \in 1..(Len(a) - (n + 1) + 1) : r[i] = a[n + 1 + i - 1]
    BY <1>1, <2>1, SubSeqProperties
  <2> QED
    BY <1>1, <2>2
<1> HIDE DEF r, s
<1>5. /\ Len(q) = Len(a) + Len(b)
      /\ \A i \in 1..Len(a) + Len(b) : q[i] = IF i <= Len(a) THEN a[i] ELSE b[i - Len(a)]
  BY ConcatProperties
<1>6. /\ Len(r \o b) = Len(r) + Len(b)
      /\ \A i \in 1..Len(r) + Len(b) : (r \o b)[i] = IF i <= Len(r) THEN r[i] ELSE b[i - Len(r)]
  BY <1>4, ConcatProperties
<1> HIDE DEF q
<1>7. ASSUME NEW i \in 1..Len(r \o b) PROVE (r \o b)[i] = q[i + n]
  <2>1. i + n \in 1..Len(a) + Len(b) /\ i \in 1..Len(r) + Len(b)
    BY <1>1, <1>4, <1>6
  <2>2. CASE i <= Len(r)
    <3>1. i \in 1..Len(r) /\ i + n <= Len(a)
      BY <1>1, <1>4, <2>2
    <3> QED
      BY <1>4, <1>5, <1>6, <2>1, <3>1
  <2>3. CASE ~(i <= Len(r))
    <3>1. ~(i + n <= Len(a)) /\ i - Len(r) = i + n - Len(a)
      BY <1>1, <1>4, <2>3
    <3> QED
      BY <1>5, <1>6, <2>1, <2>3, <3>1
  <2> QED
    BY <2>2, <2>3
<1>8. \A i \in 1..Len(s) : s[i] = q[i]
  BY <1>1, <1>3, <1>5
<1>9. Len(r \o b) = Len(q) - n /\ n \in 0..Len(q)
  BY <1>1, <1>4, <1>5, <1>6
<1> QED
  BY <1>1, <1>3, <1>4, <1>7, <1>8, <1>9 DEF r, s, q

\* A callback takes the first packets of the ring buffer.
LEMMA RingSlides ==
  ASSUME SoundTypes, rest = <<>>, UNCHANGED <<rest, inbox, made, chunk>>, Unhanded,
         NEW n \in 0..Len(ring), ring' = SubSeq(ring, n + 1, Len(ring)), Play(SubSeq(ring, 1, n))
  PROVE  Slide /\ Len(ring') = Len(ring) - n
<1>1. ring \in Seq(1..Total) /\ Len(ring) <= RingCapacity /\ Len(ring) \in Nat /\ RingCapacity \in Nat
      /\ rest \in Seq(1..Total) /\ Len(rest) <= RingCapacity /\ <<>> \in Seq(1..Total)
  BY ChunkNumbers, LenProperties, EmptySeq DEF SoundTypes
<1> DEFINE s == SubSeq(ring, 1, n)
<1>2. /\ n \in Nat /\ n \in 0..Len(ring \o <<>>)
      /\ ring' \in Seq(1..Total) /\ Len(ring') = Len(ring) - n
      /\ s \in Seq(1..Total) /\ Len(s) = n /\ \A i \in 1..Len(s) : s[i] = (ring \o <<>>)[i]
      /\ Len(ring' \o <<>>) = Len(ring \o <<>>) - n
      /\ \A i \in 1..Len(ring' \o <<>>) : (ring' \o <<>>)[i] = (ring \o <<>>)[i + n]
  BY <1>1, Parted
<1> HIDE DEF s
<1>3. ring \o <<>> = ring /\ ring' \o <<>> = ring' /\ <<>> \o ring = ring /\ <<>> \o ring' = ring'
  BY <1>1, <1>2, ConcatEmptySeq
<1>4. Queue = ring /\ Queue' = ring'
  BY <1>3 DEF Queue
<1>5. Play(s)
  BY DEF s
<1>6. Len(ring') <= RingCapacity
  BY <1>1, <1>2
<1>7. Slide
  <2>1. /\ Len(Queue') = Len(Queue) - n /\ n \in 0..Len(Queue)
        /\ \A i \in 1..Len(Queue') : Queue'[i] = Queue[i + n]
    BY <1>2, <1>3, <1>4
  <2>2. Play(s) /\ Len(s) <= n /\ (\A i \in 1..Len(s) : s[i] = Queue[i]) /\ s \in Seq(1..Total)
    BY <1>2, <1>3, <1>4, <1>5
  <2> QED
    BY <1>1, <1>2, <1>6, <2>1, <2>2 DEF Slide
<1> QED
  BY <1>2, <1>7

LEMMA RingPlays ==
  ASSUME SoundTypes, rest = <<>>, UNCHANGED <<rest, inbox, made, chunk>>, Unhanded,
         ring # <<>>, ring' = Tail(ring), Play(<<Head(ring)>>)
  PROVE  Slide
<1>1. ring \in Seq(1..Total) /\ Len(ring) \in Nat \ {0}
  BY EmptySeq DEF SoundTypes
<1>2. 1 \in 0..Len(ring) /\ 1 \in 1..Len(ring) /\ Head(ring) = ring[1]
  BY <1>1
<1>3. ring' = SubSeq(ring, 1 + 1, Len(ring))
  BY <1>1, TailIsSubSeq
<1>4. SubSeq(ring, 1, 1) = <<Head(ring)>>
  <2>1. ring[1] \in 1..Total
    BY <1>1, <1>2, ElementOfSeq
  <2>2. /\ SubSeq(ring, 1, 1) \in Seq(1..Total) /\ Len(SubSeq(ring, 1, 1)) = 1
        /\ SubSeq(ring, 1, 1)[1] = ring[1]
    <3>1. \A i \in 1..1 : ring[i] \in 1..Total
      BY <2>1
    <3> QED
      BY <3>1, SubSeqProperties
  <2>3. <<ring[1]>> \in Seq(1..Total) /\ Len(<<ring[1]>>) = 1 /\ <<ring[1]>>[1] = ring[1]
    BY <2>1
  <2>4. \A i \in 1..1 : SubSeq(ring, 1, 1)[i] = <<ring[1]>>[i]
    BY <2>2, <2>3
  <2> QED
    BY <1>2, <2>2, <2>3, <2>4, SeqEqual
<1> QED
  BY <1>2, <1>3, <1>4, RingSlides

\* What fits into the ring buffer.
LEMMA Fits ==
  ASSUME StepTypes, pc = "push"
  PROVE  /\ \E n \in 0..ChunkPackets : /\ Fitting = SubSeq(Packets(chunk), 1, n)
                                       /\ Len(ring) + n <= RingCapacity /\ Len(Fitting) = n
         /\ Room => Len(ring) + ChunkPackets <= RingCapacity
         /\ Packets(chunk) = SubSeq(Packets(chunk), 1, ChunkPackets)
         /\ ChunkPackets \in 0..ChunkPackets
<1> USE ChunkNumbers
<1>1. /\ chunk \in 1..MaxChunks /\ ChunkPackets \in 0..ChunkPackets
      /\ Len(ring) \in Nat /\ Len(ring) <= RingCapacity
  BY BusyChunk, LenProperties DEF StepTypes, SoundTypes
<1> DEFINE free == RingCapacity - Len(ring)
           n    == Min({ChunkPackets, free})
<1>2. free \in Nat /\ Len(ring) + free = RingCapacity
  BY <1>1
<1>3. Fitting = SubSeq(Packets(chunk), 1, n)
  BY DEF Fitting
<1> HIDE DEF free
<1>4. n \in {ChunkPackets, free} /\ n <= ChunkPackets /\ n <= free
  BY <1>2, MinOfTwo
<1> HIDE DEF n
<1>5. n \in 0..ChunkPackets /\ Len(ring) + n <= RingCapacity
  BY <1>1, <1>2, <1>4
<1>6. Len(Fitting) = n
  BY <1>1, <1>3, <1>5, PacketsOfChunk
<1> QED
  BY <1>1, <1>3, <1>5, <1>6, PacketsOfChunk DEF Room
==============================================================================
