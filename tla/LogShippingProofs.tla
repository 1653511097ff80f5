------------------------- MODULE LogShippingProofs -------------------------
(***************************************************************************)
(* On a calm day shipping a log is a store-and-forward relay, whatever the  *)
(* sizes of the spool, of a batch and of the server's memory, the minute's  *)
(* budget, and the number of lines and drops. On any day, with crashes and  *)
(* failing disks, no line vanishes unaccounted for, and one is stored twice *)
(* only if the server forgot its seq in between.                            *)
(***************************************************************************)
EXTENDS MCLogShipping, FiniteSetTheorems, SequenceTheorems, WellFoundedInduction, TLAPS

-----------------------------------------------------------------------------
(* Queues, by what is in them *)

LEMMA ElemsEmpty == Elems(<<>>) = {}
  BY DEF Elems

LEMMA ElemsAppend ==
    ASSUME NEW S, NEW q \in Seq(S), NEW x \in S
    PROVE  Append(q, x) \in Seq(S) /\ Elems(Append(q, x)) = Elems(q) \cup {x}
  <1>1. /\ Append(q, x) \in Seq(S) /\ DOMAIN Append(q, x) = 1 .. Len(q) + 1
        /\ \A i \in 1 .. Len(q) : Append(q, x)[i] = q[i]
        /\ Append(q, x)[Len(q) + 1] = x
    OBVIOUS
  <1>2. DOMAIN q = 1 .. Len(q) /\ Len(q) \in Nat
    OBVIOUS
  <1>3. 1 .. Len(q) + 1 = (1 .. Len(q)) \cup {Len(q) + 1}
    BY <1>2
  <1> QED BY <1>1, <1>2, <1>3 DEF Elems

LEMMA ElemsTail ==
    ASSUME NEW S, NEW q \in Seq(S), q # <<>>
    PROVE  /\ Tail(q) \in Seq(S) /\ Head(q) \in S /\ Head(q) \in Elems(q)
           /\ Elems(q) = {Head(q)} \cup Elems(Tail(q))
  <1>1. Len(q) \in Nat /\ Len(q) # 0 /\ Head(q) = q[1] /\ DOMAIN q = 1 .. Len(q)
    OBVIOUS
  <1>2. /\ Tail(q) \in Seq(S) /\ DOMAIN Tail(q) = 1 .. Len(q) - 1
        /\ \A i \in 1 .. Len(q) - 1 : Tail(q)[i] = q[i + 1]
    OBVIOUS
  <1>3. \A x : x \in Elems(q) => x = Head(q) \/ x \in Elems(Tail(q))
    <2> SUFFICES ASSUME NEW i \in 1 .. Len(q), i # 1 PROVE q[i] \in Elems(Tail(q))
      BY <1>1 DEF Elems
    <2>1. i - 1 \in 1 .. Len(q) - 1 /\ Tail(q)[i - 1] = q[i]
      BY <1>1, <1>2
    <2> QED BY <1>2, <2>1 DEF Elems
  <1>4. \A x : x \in Elems(Tail(q)) => x \in Elems(q)
    <2> SUFFICES ASSUME NEW i \in 1 .. Len(q) - 1 PROVE Tail(q)[i] \in Elems(q)
      BY <1>2 DEF Elems
    <2>1. i + 1 \in 1 .. Len(q)
      BY <1>1
    <2> QED BY <1>1, <1>2, <2>1 DEF Elems
  <1>5. Head(q) \in Elems(q) /\ Head(q) \in S
    BY <1>1 DEF Elems
  <1> QED BY <1>2, <1>3, <1>4, <1>5

LEMMA ElemsConcat ==
    ASSUME NEW S, NEW q \in Seq(S), NEW r \in Seq(S)
    PROVE  q \o r \in Seq(S) /\ Elems(q \o r) = Elems(q) \cup Elems(r)
  <1>1. Len(q) \in Nat /\ Len(r) \in Nat /\ DOMAIN q = 1 .. Len(q) /\ DOMAIN r = 1 .. Len(r)
    OBVIOUS
  <1>2. /\ q \o r \in Seq(S) /\ DOMAIN (q \o r) = 1 .. Len(q) + Len(r)
        /\ \A i \in 1 .. Len(q) : (q \o r)[i] = q[i]
        /\ \A i \in 1 .. Len(r) : (q \o r)[Len(q) + i] = r[i]
    OBVIOUS
  <1>3. \A x : x \in Elems(q \o r) => x \in Elems(q) \/ x \in Elems(r)
    <2> SUFFICES ASSUME NEW i \in 1 .. Len(q) + Len(r)
                 PROVE  (q \o r)[i] \in Elems(q) \/ (q \o r)[i] \in Elems(r)
      BY <1>2 DEF Elems
    <2>1. CASE i <= Len(q)
      BY <1>1, <1>2, <2>1 DEF Elems
    <2>2. CASE i > Len(q)
      <3>1. i - Len(q) \in 1 .. Len(r) /\ Len(q) + (i - Len(q)) = i
        BY <1>1, <2>2
      <3> QED BY <1>1, <1>2, <3>1 DEF Elems
    <2> QED BY <1>1, <2>1, <2>2
  <1>4. \A x : x \in Elems(q) \/ x \in Elems(r) => x \in Elems(q \o r)
    <2>1. ASSUME NEW i \in 1 .. Len(q) PROVE q[i] \in Elems(q \o r)
      BY <1>1, <1>2 DEF Elems
    <2>2. ASSUME NEW i \in 1 .. Len(r) PROVE r[i] \in Elems(q \o r)
      <3>1. Len(q) + i \in 1 .. Len(q) + Len(r)
        BY <1>1
      <3> QED BY <1>2, <3>1 DEF Elems
    <2> QED BY <1>1, <2>1, <2>2 DEF Elems
  <1> QED BY <1>2, <1>3, <1>4

-----------------------------------------------------------------------------
(* What is on its way to the disk *)

Due(l, c) == l.fresh \cup UNION {b.lines : b \in Elems(c)}

LEMMA PendingIsDue == Pending = Due(loop, chain) /\ Pending' = Due(loop', chain')
  BY DEF Pending, Due, Elems

Carried == [id : BatchId, lines : SUBSET Nat]
Flight  == [id : BatchId, seqs : SUBSET Nat]
Ack     == [id : BatchId, accepted : BOOLEAN]
Loop    == [id : SUBSET BatchId, left : SUBSET Nat, fresh : SUBSET Nat]

LEMMA DueNothing == Due(NoLoop, <<>>) = {}
  BY ElemsEmpty DEF Due, NoLoop

LEMMA DueAppend ==
    ASSUME NEW l \in Loop, NEW c \in Seq(Carried), NEW b \in Carried, b.lines = l.fresh
    PROVE  Due(NoLoop, Append(c, b)) = Due(l, c)
  <1>1. Elems(Append(c, b)) = Elems(c) \cup {b}
    BY ElemsAppend
  <1> QED BY <1>1 DEF Due, NoLoop

LEMMA DueTail ==
    ASSUME NEW l, NEW c \in Seq(Carried), c # <<>>
    PROVE  Due(l, c) = Head(c).lines \cup Due(l, Tail(c))
  <1>1. Elems(c) = {Head(c)} \cup Elems(Tail(c))
    BY ElemsTail
  <1> QED BY <1>1 DEF Due

-----------------------------------------------------------------------------
(* The invariant of a calm day: lines keep their seqs, and whatever an      *)
(* accepted batch was said to have stored is stored or will be.            *)

Typed ==
    /\ seqs \in Seq(Nat) /\ seq = Len(seqs) /\ \A l \in Written : seqs[l] = l
    /\ inFlight \subseteq Flight /\ sent \in Int
    /\ up \in BOOLEAN /\ announced \in BOOLEAN /\ writable \in BOOLEAN
    /\ wire \in Seq(Carried) /\ chain \in Seq(Carried) /\ acks \in Seq(Ack)
    /\ loop \in Loop
    /\ troubles \in 0 .. MaxTroubles

Known ==
    /\ spool \subseteq Written /\ stored \subseteq Written /\ evicted \subseteq Written
    /\ Pending \subseteq Written
    /\ spool \cap evicted = {}

Bounded ==
    /\ Len(seqs) <= MaxLines + troubles + (IF writable \/ (up /\ announced) THEN 1 ELSE 0)
    /\ ~up => wire = <<>> /\ acks = <<>> /\ asked = {}
    /\ writable => \A a \in Elems(acks) : a.accepted
    /\ ~writable => loop = NoLoop /\ chain = <<>>

Traced ==
    /\ \A w \in Elems(wire) : w.lines \subseteq spool \cup stored \cup evicted \cup Pending
    /\ loop.left \subseteq spool \cup stored \cup evicted \cup Pending
    /\ seen \subseteq stored \cup Pending

Matched ==
    \A b \in inFlight :
        /\ \A w \in Elems(wire) : w.id = b.id => b.seqs \subseteq w.lines
        /\ b.id \in loop.id => b.seqs \ loop.left \subseteq stored \cup Pending
        /\ \A c \in Elems(chain) : c.id = b.id => b.seqs \subseteq stored \cup Pending
        /\ \A a \in Elems(acks) : a.id = b.id /\ a.accepted => b.seqs \subseteq stored \cup Pending

CalmInv == Typed /\ Known /\ Bounded /\ Traced /\ Matched

LEMMA CalmStart ==
    ASSUME SizesAssumption, BoundsAssumption, Init
    PROVE  CalmInv
  <1>1. Elems(<<>>) = {}
    BY ElemsEmpty
  <1>2. NoLoop \in Loop /\ NoLoop.left = {} /\ NoLoop.id = {}
    BY DEF NoLoop, Loop
  <1>3. Written = {}
    BY DEF Written, Init
  <1>4. Pending = {}
    BY PendingIsDue, DueNothing DEF Init
  <1>5. Typed
    <2>1. <<>> \in Seq(Nat) /\ Len(<<>>) = 0 /\ <<>> \in Seq(Carried) /\ <<>> \in Seq(Ack)
      OBVIOUS
    <2>2. 0 \in 0 .. MaxTroubles
      BY DEF BoundsAssumption
    <2>3. seqs \in Seq(Nat) /\ seq = Len(seqs) /\ \A l \in Written : seqs[l] = l
      BY <1>3, <2>1 DEF Init
    <2>4. wire \in Seq(Carried) /\ chain \in Seq(Carried) /\ acks \in Seq(Ack)
      BY <2>1 DEF Init
    <2>5. inFlight \subseteq Flight /\ sent \in Int /\ loop \in Loop
      BY <1>2 DEF Init
    <2>6. up \in BOOLEAN /\ announced \in BOOLEAN /\ writable \in BOOLEAN
      BY DEF Init
    <2> QED BY <2>2, <2>3, <2>4, <2>5, <2>6 DEF Init, Typed
  <1>6. Known
    BY <1>4 DEF Init, Known
  <1>7. Bounded
    BY <1>1 DEF Init, Bounded, BoundsAssumption
  <1>8. Traced /\ Matched
    BY <1>1, <1>2 DEF Init, Traced, Matched
  <1> QED BY <1>5, <1>6, <1>7, <1>8 DEF CalmInv

-----------------------------------------------------------------------------
(* Sending *)

LEMMA FunctionIsSequence ==
    ASSUME NEW S, NEW m \in Nat, NEW g \in [1 .. m -> S]
    PROVE  g \in Seq(S)
  OBVIOUS

Names(sq, L) == {sq[l] : l \in L}

(* New batches: each in flight under an id nothing else uses, remembered by  *)
(* seqs of the lines it carries.                                            *)
Carries(flying, lines, sq) ==
    \E N \in SUBSET Flight, R \in SUBSET Carried :
        /\ inFlight' = flying \cup N
        /\ wire' \in Seq(Carried) /\ Elems(wire') = Elems(wire) \cup R
        /\ sent' \in Int
        /\ \A b \in N : b.id \notin UsedIds
        /\ \A w \in R : w.id \notin UsedIds /\ w.lines \subseteq lines
        /\ \A b \in N, w \in R : b.id = w.id => b.seqs \subseteq Names(sq, w.lines)

LEMMA ShipCarries ==
    ASSUME SizesAssumption, NEW lines \in SUBSET Nat, IsFiniteSet(lines), NEW sq,
           \A l \in lines : sq[l] \in Nat, NEW flying, sent \in Int, wire \in Seq(Carried),
           Ship(lines, sq, flying)
    PROVE  Carries(flying, lines, sq)
  <1> DEFINE waiting == Waiting(lines, sq, flying)
             total   == Cardinality(waiting)
             n       == IF total <= Room THEN (total + BatchMax - 1) \div BatchMax
                                         ELSE Room \div BatchMax
             id      == CHOOSE f \in FreshIds(n) : TRUE
             box(j)  == [id |-> id[j], seqs |-> {sq[l] : l \in Chunk(waiting, j)}]
             frame   == [j \in 1 .. n |-> [id |-> id[j], lines |-> Chunk(waiting, j)]]
  <1>1. waiting \subseteq lines /\ IsFiniteSet(waiting)
    BY FS_Subset DEF Waiting
  <1>2. total \in Nat
    BY <1>1, FS_CardinalityType
  <1>3. n \in Int /\ Room \in Int
    BY <1>2 DEF SizesAssumption, Room
  <1>4. /\ FreshIds(n) # {}
        /\ inFlight' = flying \cup {box(j) : j \in 1 .. n}
        /\ wire' = wire \o frame
        /\ sent' = sent + (IF total <= Room THEN total ELSE n * BatchMax)
    BY DEF Ship
  <1> HIDE DEF total, n
  <1>5. id \in FreshIds(n)
    BY <1>4
  <1>6. /\ \A j \in 1 .. n : id[j] \in BatchId /\ id[j] \notin UsedIds
        /\ \A i, j \in 1 .. n : id[i] = id[j] => i = j
    BY <1>5 DEF FreshIds
  <1> HIDE DEF id
  <1>7. ASSUME NEW j \in 1 .. n
        PROVE  Chunk(waiting, j) \subseteq lines /\ {sq[l] : l \in Chunk(waiting, j)} \in SUBSET Nat
    BY <1>1 DEF Chunk
  <1> HIDE DEF waiting
  <1> DEFINE N == {box(j) : j \in 1 .. n}
             R == {[id |-> id[j], lines |-> Chunk(waiting, j)] : j \in 1 .. n}
  <1>8. N \in SUBSET Flight /\ R \in SUBSET Carried
    <2>1. ASSUME NEW j \in 1 .. n
          PROVE  box(j) \in Flight /\ [id |-> id[j], lines |-> Chunk(waiting, j)] \in Carried
      <3>1. Chunk(waiting, j) \in SUBSET Nat /\ {sq[l] : l \in Chunk(waiting, j)} \in SUBSET Nat
        BY <1>7
      <3> QED BY <1>6, <3>1 DEF Flight, Carried
    <2> QED BY <2>1
  <1>9. frame \in Seq(Carried) /\ Elems(frame) = R
    <2>1. PICK m \in Nat : 1 .. n = 1 .. m
      <3>1. CASE n >= 0
        BY <1>3, <3>1
      <3>2. CASE n < 0
        <4>1. 1 .. n = {} /\ 1 .. 0 = {}
          BY <1>3, <3>2
        <4> QED BY <4>1
      <3> QED BY <1>3, <3>1, <3>2
    <2>2. frame \in [1 .. n -> Carried]
      BY <1>8
    <2>3. frame \in Seq(Carried)
      <3>1. frame \in [1 .. m -> Carried]
        BY <2>1, <2>2
      <3> HIDE DEF frame
      <3> QED BY <3>1, FunctionIsSequence
    <2>4. DOMAIN frame = 1 .. n
      OBVIOUS
    <2> QED BY <2>3, <2>4 DEF Elems
  <1>10. wire' \in Seq(Carried) /\ Elems(wire') = Elems(wire) \cup R
    <2> HIDE DEF frame, R
    <2> QED BY <1>4, <1>9, ElemsConcat
  <1>11. sent' \in Int
    BY <1>2, <1>3, <1>4 DEF SizesAssumption
  <1>12. /\ \A b \in N : b.id \notin UsedIds
         /\ \A w \in R : w.id \notin UsedIds /\ w.lines \subseteq lines
    BY <1>6, <1>7
  <1>13. \A b \in N, w \in R : b.id = w.id => b.seqs \subseteq Names(sq, w.lines)
    BY <1>6 DEF Names
  <1> QED BY <1>4, <1>8, <1>10, <1>11, <1>12, <1>13 DEF Carries

LEMMA Division ==
    ASSUME NEW a \in Nat, NEW b \in Nat \ {0}
    PROVE  a \div b \in Nat /\ (a \div b) * b \in 0 .. a
  OBVIOUS

LEMMA ShipBudget ==
    ASSUME SizesAssumption, NEW lines, IsFiniteSet(lines), NEW sq, NEW flying,
           sent \in 0 .. SendCap, Ship(lines, sq, flying)
    PROVE  sent' \in 0 .. SendCap
  <1> DEFINE total == Cardinality(Waiting(lines, sq, flying))
  <1>1. total \in Nat
    BY FS_Subset, FS_CardinalityType DEF Waiting
  <1>2. Room \in Nat /\ sent + Room = SendCap
    BY DEF Room, SizesAssumption
  <1>3. CASE total <= Room
    <2>1. sent' = sent + total
      BY <1>3 DEF Ship
    <2> QED BY <1>1, <1>2, <1>3, <2>1 DEF SizesAssumption
  <1>4. CASE ~(total <= Room)
    <2>1. sent' = sent + (Room \div BatchMax) * BatchMax
      BY <1>4 DEF Ship
    <2>2. (Room \div BatchMax) * BatchMax \in 0 .. Room
      BY <1>2, Division DEF SizesAssumption
    <2> QED BY <1>2, <2>1, <2>2 DEF SizesAssumption
  <1> QED BY <1>3, <1>4

(* When every line has its place as its seq, a batch is remembered by lines *)
(* it carries.                                                              *)
Sends(flying, lines) ==
    \E N \in SUBSET Flight, R \in SUBSET Carried :
        /\ inFlight' = flying \cup N
        /\ wire' \in Seq(Carried) /\ Elems(wire') = Elems(wire) \cup R
        /\ sent' \in Int
        /\ \A b \in N : b.id \notin UsedIds
        /\ \A w \in R : w.id \notin UsedIds /\ w.lines \subseteq lines
        /\ \A b \in N, w \in R : b.id = w.id => b.seqs \subseteq w.lines

LEMMA ShipSends ==
    ASSUME SizesAssumption, NEW lines \in SUBSET Nat, IsFiniteSet(lines), NEW sq,
           \A l \in lines : sq[l] = l, NEW flying, sent \in Int, wire \in Seq(Carried),
           Ship(lines, sq, flying)
    PROVE  Sends(flying, lines)
  <1>1. \A l \in lines : sq[l] \in Nat
    OBVIOUS
  <1>2. Carries(flying, lines, sq)
    BY <1>1, ShipCarries
  <1>3. PICK N \in SUBSET Flight, R \in SUBSET Carried :
            /\ inFlight' = flying \cup N
            /\ wire' \in Seq(Carried) /\ Elems(wire') = Elems(wire) \cup R
            /\ sent' \in Int
            /\ \A b \in N : b.id \notin UsedIds
            /\ \A w \in R : w.id \notin UsedIds /\ w.lines \subseteq lines
            /\ \A b \in N, w \in R : b.id = w.id => b.seqs \subseteq Names(sq, w.lines)
    BY <1>2, Zenon DEF Carries
  <1>4. \A L \in SUBSET lines : Names(sq, L) = L
    BY DEF Names
  <1>5. \A w \in R : Names(sq, w.lines) = w.lines
    BY <1>3, <1>4
  <1>6. \A b \in N, w \in R : b.id = w.id => b.seqs \subseteq w.lines
    BY <1>3, <1>5
  <1> QED BY <1>3, <1>6, Zenon DEF Sends

LEMMA SendsMatched ==
    ASSUME Matched, NEW flying \in SUBSET inFlight, NEW lines, Sends(flying, lines),
           loop' = loop, chain' = chain, stored' = stored,
           \A a \in Elems(acks') : a \in Elems(acks)
    PROVE  Matched'
  <1>1. PICK N, R :
            /\ inFlight' = flying \cup N /\ Elems(wire') = Elems(wire) \cup R
            /\ \A b \in N : b.id \notin UsedIds
            /\ \A w \in R : w.id \notin UsedIds
            /\ \A b \in N, w \in R : b.id = w.id => b.seqs \subseteq w.lines
    BY Zenon DEF Sends
  <1>2. /\ \A b \in inFlight : b.id \in UsedIds
        /\ \A b \in Elems(wire) : b.id \in UsedIds
        /\ \A b \in Elems(acks) : b.id \in UsedIds
        /\ \A b \in Elems(chain) : b.id \in UsedIds
        /\ \A i \in loop.id : i \in UsedIds
    BY DEF UsedIds
  <1>3. Pending' = Pending
    BY PendingIsDue
  <1>4. ASSUME NEW b \in inFlight'
        PROVE  /\ \A w \in Elems(wire') : w.id = b.id => b.seqs \subseteq w.lines
               /\ b.id \in loop.id => b.seqs \ loop.left \subseteq stored \cup Pending
               /\ \A c \in Elems(chain) : c.id = b.id => b.seqs \subseteq stored \cup Pending
               /\ \A a \in Elems(acks') : a.id = b.id /\ a.accepted => b.seqs \subseteq stored \cup Pending
    <2>1. CASE b \in flying
      BY <1>1, <1>2, <2>1 DEF Matched
    <2>2. CASE b \in N
      BY <1>1, <1>2, <2>2
    <2> QED BY <1>1, <2>1, <2>2
  <1> QED BY <1>3, <1>4 DEF Matched, Elems

-----------------------------------------------------------------------------
(* The relay's steps *)

LEMMA RelayStutters ==
    ASSUME calm, calm', Held' = Held, stored' = stored, evicted' = evicted
    PROVE  UNCHANGED Relay!vars
  BY DEF Relay!vars

LEMMA RelayWrites ==
    ASSUME calm, calm', NEW l \in 1 .. MaxLines + MaxTroubles + 2,
           l \notin Held \cup stored \cup evicted, NEW D \in SUBSET (Held \cup {l}),
           Held' = (Held \cup {l}) \ D, stored' = stored,
           evicted' \ stored = (evicted \ stored) \cup D
    PROVE  Relay!Next
  BY Zenon DEF Relay!Next, Relay!Write

LEMMA RelayStores ==
    ASSUME calm, calm', NEW L \in SUBSET (Held \cup (evicted \ stored)),
           Held' = Held \ L, stored' = stored \cup L, evicted' = evicted
    PROVE  Relay!Next
  <1>1. evicted' \ stored' = (evicted \ stored) \ L
    OBVIOUS
  <1> QED BY <1>1, Zenon DEF Relay!Next, Relay!Store

-----------------------------------------------------------------------------
(* A line is written *)

LEMMA LineWritten ==
    ASSUME SizesAssumption, BoundsAssumption, CalmInv, calm, calm',
           Len(seqs) <= MaxLines + MaxTroubles + 1,
           NEW flying \in SUBSET inFlight, WriteLine(flying),
           up' = up, announced' \in BOOLEAN, acks' \in Seq(Ack),
           \A a \in Elems(acks') : a \in Elems(acks),
           UNCHANGED <<stored, loop, chain, seen, writable, troubles>>
    PROVE  /\ Typed' /\ Known' /\ Traced' /\ Matched' /\ Relay!Next
           /\ Len(seqs') = Len(seqs) + 1
           /\ ~up => wire' = wire
  <1> DEFINE l   == Len(seqs) + 1
             sq  == Append(seqs, seq + 1)
             all == spool \cup {Len(sq)}
             new == Newest(all)
  <1>1. Typed /\ Known /\ Bounded /\ Traced /\ Matched
    BY DEF CalmInv
  <1>2. seqs \in Seq(Nat) /\ Len(seqs) \in Nat /\ seq = Len(seqs) /\ \A k \in Written : seqs[k] = k
    BY <1>1 DEF Typed
  <1>3. seqs' = sq /\ seq' = seq + 1 /\ spool' = new /\ evicted' = evicted \cup (all \ new)
    BY DEF WriteLine
  <1>4. sq \in Seq(Nat) /\ Len(sq) = l /\ l \in Nat /\ \A k \in 1 .. l : sq[k] = k
    BY <1>2 DEF Written
  <1>5. Written' = Written \cup {l} /\ Written \subseteq Nat /\ l \notin Written
    BY <1>2, <1>3, <1>4 DEF Written
  <1>6. new \subseteq all /\ all = spool \cup {l} /\ all \subseteq Written'
    BY <1>1, <1>4, <1>5 DEF Newest, Known
  <1>7. new \in SUBSET Nat /\ IsFiniteSet(new)
    <2>1. IsFiniteSet(1 .. l) /\ Written' = 1 .. l
      BY <1>3, <1>4, FS_Interval DEF Written
    <2> QED BY <1>4, <1>5, <1>6, <2>1, FS_Subset
  <1> HIDE DEF sq
  <1>8. Sends(flying, new) /\ (~up => wire' = wire)
    <2>1. CASE up
      <3>1. Ship(new, sq, flying)
        BY <2>1 DEF WriteLine, sq
      <3>2. \A k \in new : sq[k] = k
        <4>1. all \subseteq 1 .. l
          BY <1>3, <1>4, <1>6 DEF Written
        <4> QED BY <1>4, <1>6, <4>1
      <3>3. sent \in Int /\ wire \in Seq(Carried)
        BY <1>1 DEF Typed
      <3> HIDE DEF new, all
      <3>4. Sends(flying, new)
        BY <1>7, <3>1, <3>2, <3>3, ShipSends
      <3> QED BY <2>1, <3>4
    <2>2. CASE ~up
      <3>1. inFlight' = flying /\ wire' = wire /\ sent' = sent
        BY <2>2 DEF WriteLine
      <3>2. sent \in Int /\ wire \in Seq(Carried)
        BY <1>1 DEF Typed
      <3>3. Sends(flying, new)
        <4> SUFFICES \E N \in SUBSET Flight, R \in SUBSET Carried :
                /\ inFlight' = flying \cup N
                /\ wire' \in Seq(Carried) /\ Elems(wire') = Elems(wire) \cup R
                /\ sent' \in Int
                /\ \A b \in N : b.id \notin UsedIds
                /\ \A w \in R : w.id \notin UsedIds /\ w.lines \subseteq new
                /\ \A b \in N, w \in R : b.id = w.id => b.seqs \subseteq w.lines
          BY DEF Sends
        <4> WITNESS {} \in SUBSET Flight, {} \in SUBSET Carried
        <4> QED BY <3>1, <3>2
      <3> QED BY <3>1, <3>3
    <2> QED BY <2>1, <2>2
  <1> HIDE DEF new, all, l
  <1>9. PICK N \in SUBSET Flight, R \in SUBSET Carried :
            /\ inFlight' = flying \cup N
            /\ wire' \in Seq(Carried) /\ Elems(wire') = Elems(wire) \cup R
            /\ sent' \in Int
            /\ \A w \in R : w.lines \subseteq new
    BY <1>8, Zenon DEF Sends
  <1>10. Pending' = Pending
    BY PendingIsDue
  <1>11. Typed'
    <2>1. seqs' \in Seq(Nat) /\ seq' = Len(seqs') /\ \A k \in 1 .. Len(seqs') : seqs'[k] = k
      BY <1>2, <1>3, <1>4 DEF l
    <2>2. inFlight' \subseteq Flight
      BY <1>1, <1>9 DEF Typed
    <2> QED BY <1>1, <1>9, <2>1, <2>2 DEF Typed, Written
  <1>12. Known'
    BY <1>1, <1>3, <1>5, <1>6, <1>10 DEF Known
  <1>13. Traced'
    <2>1. spool \cup stored \cup evicted \cup Pending \subseteq (spool \cup stored \cup evicted \cup Pending)'
      BY <1>3, <1>6, <1>10
    <2>2. \A w \in Elems(wire') : w.lines \subseteq (spool \cup stored \cup evicted \cup Pending)'
      BY <1>1, <1>3, <1>9, <2>1 DEF Traced
    <2>3. loop'.left \subseteq (spool \cup stored \cup evicted \cup Pending)'
      BY <1>1, <2>1 DEF Traced
    <2>4. seen' \subseteq stored' \cup Pending'
      BY <1>1, <1>10 DEF Traced
    <2> QED BY <2>2, <2>3, <2>4 DEF Traced, Elems
  <1>14. Matched'
    BY <1>1, <1>8, SendsMatched
  <1>15. Relay!Next
    <2> DEFINE D == (all \ new) \ stored
    <2>1. l \in 1 .. MaxLines + MaxTroubles + 2
      BY <1>2 DEF l, BoundsAssumption
    <2>2. l \notin Held \cup stored \cup evicted
      BY <1>1, <1>5 DEF Held, Known
    <2>3. D \in SUBSET (Held \cup {l})
      BY <1>1, <1>6 DEF Held, Known
    <2>4. Held' = (Held \cup {l}) \ D
      BY <1>1, <1>3, <1>5, <1>6, <1>10 DEF Held, Known
    <2>5. evicted' \ stored = (evicted \ stored) \cup D
      BY <1>3
    <2> HIDE DEF D
    <2> QED BY <2>1, <2>2, <2>3, <2>4, <2>5, RelayWrites
  <1> QED BY <1>3, <1>4, <1>8, <1>11, <1>12, <1>13, <1>14, <1>15 DEF l

-----------------------------------------------------------------------------
(* The steps of a calm day *)

LEMMA BoxRests ==
    ASSUME CalmInv, calm, calm', Minute \/ Flush
    PROVE  CalmInv' /\ UNCHANGED Relay!vars
  <1>1. /\ UNCHANGED <<seqs, spool, seq, inFlight, up, announced, wire, acks, serverVars>>
        /\ UNCHANGED <<stored, evicted, troubles>> /\ (sent' = 0 \/ sent' = sent)
    BY DEF Minute, Flush, historyVars
  <1>2. Pending' = Pending
    BY <1>1, PendingIsDue DEF serverVars
  <1>3. Typed' /\ Known' /\ Bounded' /\ Traced' /\ Matched'
    <2>1. sent' \in Int /\ Typed /\ Known /\ Bounded /\ Traced /\ Matched
      BY <1>1 DEF CalmInv, Typed
    <2>2. Typed'
      BY <1>1, <2>1 DEF Typed, Written, serverVars
    <2>3. Known'
      BY <1>1, <1>2, <2>1 DEF Known, Written, serverVars
    <2>4. Bounded'
      BY <1>1, <2>1 DEF Bounded, serverVars
    <2>5. Traced' /\ Matched'
      BY <1>1, <1>2, <2>1 DEF Traced, Matched, serverVars
    <2> QED BY <2>2, <2>3, <2>4, <2>5
  <1>4. Held' = Held
    BY <1>1, <1>2 DEF Held
  <1> QED BY <1>1, <1>3, <1>4, RelayStutters DEF CalmInv

LEMMA BoxSends ==
    ASSUME SizesAssumption, BoundsAssumption, CalmInv, calm, calm', Drain \/ Connect
    PROVE  CalmInv' /\ UNCHANGED Relay!vars
  <1>1. Typed /\ Known /\ Bounded /\ Traced /\ Matched
    BY DEF CalmInv
  <1>2. /\ Ship(spool, seqs, inFlight)
        /\ UNCHANGED <<seqs, spool, seq, acks, writable, seen, loop, chain, asked, stored, evicted, troubles>>
        /\ up' = TRUE
        /\ announced' \in BOOLEAN
        /\ up /\ announced => announced'
    <2>1. announced \in BOOLEAN /\ up \in BOOLEAN
      BY <1>1 DEF Typed
    <2>2. CASE Drain
      BY <2>1, <2>2 DEF Drain, serverVars, historyVars
    <2>3. CASE Connect
      BY <2>1, <2>3 DEF Connect, serverVars, historyVars
    <2> QED BY <2>2, <2>3
  <1>3. spool \in SUBSET Nat /\ IsFiniteSet(spool) /\ \A l \in spool : seqs[l] = l
    <2>1. Len(seqs) \in Nat /\ spool \subseteq 1 .. Len(seqs)
      BY <1>1 DEF Typed, Known, Written
    <2>2. IsFiniteSet(1 .. Len(seqs))
      BY <2>1, FS_Interval
    <2>3. IsFiniteSet(spool)
      BY <2>1, <2>2, FS_Subset
    <2> QED BY <1>1, <2>1, <2>3 DEF Typed, Written
  <1>4. sent \in Int /\ wire \in Seq(Carried)
    BY <1>1 DEF Typed
  <1>5. Sends(inFlight, spool)
    BY <1>2, <1>3, <1>4, ShipSends
  <1>6. PICK N \in SUBSET Flight, R \in SUBSET Carried :
            /\ inFlight' = inFlight \cup N
            /\ wire' \in Seq(Carried) /\ Elems(wire') = Elems(wire) \cup R
            /\ sent' \in Int
            /\ \A w \in R : w.lines \subseteq spool
    BY <1>5, Zenon DEF Sends
  <1>7. Pending' = Pending
    BY <1>2, PendingIsDue
  <1>8. Typed'
    <2>1. announced' \in BOOLEAN /\ up' \in BOOLEAN
      BY <1>1, <1>2 DEF Typed
    <2>2. inFlight' \subseteq Flight
      BY <1>1, <1>6 DEF Typed
    <2> QED BY <1>1, <1>2, <1>6, <2>1, <2>2 DEF Typed, Written
  <1>9. Known'
    BY <1>1, <1>2, <1>7 DEF Known, Written
  <1>10. Bounded'
    <2>1. Len(seqs) \in Nat /\ up \in BOOLEAN /\ announced \in BOOLEAN /\ writable \in BOOLEAN
      BY <1>1 DEF Typed
    <2>2. (writable \/ (up /\ announced)) => (writable \/ (up /\ announced))'
      BY <1>2
    <2>3. /\ ~up' => wire' = <<>> /\ acks' = <<>> /\ asked' = {}
          /\ writable' => \A a \in Elems(acks') : a.accepted
          /\ ~writable' => loop' = NoLoop /\ chain' = <<>>
      BY <1>1, <1>2 DEF Bounded
    <2>4. Len(seqs') <= MaxLines + troubles' + (IF (writable \/ (up /\ announced))' THEN 1 ELSE 0)
      <3>1. seqs' = seqs /\ troubles' = troubles /\ troubles \in Nat /\ MaxLines \in Nat
        BY <1>1, <1>2 DEF Typed, BoundsAssumption
      <3>2. CASE writable \/ (up /\ announced)
        BY <1>1, <2>1, <2>2, <3>1, <3>2 DEF Bounded
      <3>3. CASE ~(writable \/ (up /\ announced))
        BY <1>1, <2>1, <3>1, <3>3 DEF Bounded
      <3> QED BY <3>2, <3>3
    <2> QED BY <2>3, <2>4 DEF Bounded, Elems
  <1>11. Traced'
    <2>1. \A w \in Elems(wire') : w.lines \subseteq spool \cup stored \cup evicted \cup Pending
      BY <1>1, <1>6 DEF Traced
    <2> QED BY <1>1, <1>2, <1>7, <2>1 DEF Traced, Elems
  <1>12. Matched'
    BY <1>1, <1>2, <1>5, SendsMatched
  <1>13. Held' = Held
    BY <1>2, <1>7 DEF Held
  <1> QED BY <1>2, <1>8, <1>9, <1>10, <1>11, <1>12, <1>13, RelayStutters DEF CalmInv

LEMMA BoxWrites ==
    ASSUME SizesAssumption, BoundsAssumption, CalmInv, calm, calm', Write
    PROVE  CalmInv' /\ Relay!Next
  <1>1. Typed /\ Known /\ Bounded /\ Traced /\ Matched
    BY DEF CalmInv
  <1>2. /\ Len(seqs) < MaxLines /\ WriteLine(inFlight)
        /\ UNCHANGED <<up, announced, acks, writable, seen, loop, chain, asked, stored, troubles>>
    BY DEF Write, serverVars
  <1>3. Len(seqs) \in Nat /\ troubles \in Nat /\ announced \in BOOLEAN /\ acks \in Seq(Ack)
    BY <1>1 DEF Typed, BoundsAssumption
  <1>4. Len(seqs) <= MaxLines + MaxTroubles + 1
    BY <1>2, <1>3 DEF BoundsAssumption
  <1>5. /\ Typed' /\ Known' /\ Traced' /\ Matched' /\ Relay!Next
        /\ Len(seqs') = Len(seqs) + 1
        /\ ~up => wire' = wire
    BY <1>2, <1>3, <1>4, LineWritten
  <1>6. Bounded'
    <2>1. Len(seqs') <= MaxLines + troubles'
      BY <1>2, <1>3, <1>5 DEF BoundsAssumption
    <2>2. Len(seqs') <= MaxLines + troubles' + (IF (writable \/ (up /\ announced))' THEN 1 ELSE 0)
      BY <1>2, <1>3, <1>5, <2>1 DEF BoundsAssumption
    <2> QED BY <1>1, <1>2, <1>5, <2>2 DEF Bounded, Elems
  <1> QED BY <1>5, <1>6 DEF CalmInv

LEMMA BoxHears ==
    ASSUME SizesAssumption, BoundsAssumption, CalmInv, calm, calm', AckArrives
    PROVE  CalmInv' /\ [Relay!Next]_(Relay!vars)
  <1>1. Typed /\ Known /\ Bounded /\ Traced /\ Matched
    BY DEF CalmInv
  <1>2. PICK b \in inFlight :
            /\ b.id = Head(acks).id
            /\ IF Head(acks).accepted THEN Accepted(b) ELSE Refused(b)
    BY Zenon DEF AckArrives
  <1>3. /\ acks # <<>> /\ acks' = Tail(acks)
        /\ UNCHANGED <<up, writable, seen, loop, chain, asked, stored, troubles>>
    BY DEF AckArrives, serverVars
  <1>4. acks \in Seq(Ack)
    BY <1>1 DEF Typed
  <1>5. /\ acks' \in Seq(Ack) /\ Head(acks) \in Ack /\ Head(acks) \in Elems(acks)
        /\ \A a \in Elems(acks') : a \in Elems(acks)
    BY <1>3, <1>4, ElemsTail
  <1>6. up
    BY <1>1, <1>3 DEF Bounded
  <1>7. Pending' = Pending
    BY <1>3, PendingIsDue
  <1>8. Len(seqs) \in Nat /\ troubles \in Nat /\ troubles <= MaxTroubles /\ MaxLines \in Nat /\ MaxTroubles \in Nat
    BY <1>1 DEF Typed, BoundsAssumption
  <1>9. ASSUME UNCHANGED <<seqs, seq, evicted, announced, wire, sent>>, inFlight' = inFlight \ {b},
               spool' \subseteq spool, spool \ spool' \subseteq stored \cup Pending
        PROVE  CalmInv' /\ UNCHANGED Relay!vars
    <2>1. Typed'
      BY <1>1, <1>3, <1>5, <1>9 DEF Typed, Written
    <2>2. Known'
      BY <1>1, <1>3, <1>7, <1>9 DEF Known, Written
    <2>3. Bounded'
      BY <1>1, <1>3, <1>5, <1>6, <1>9 DEF Bounded, Elems
    <2>4. Traced'
      <3>1. spool \cup stored \cup evicted \cup Pending = (spool \cup stored \cup evicted \cup Pending)'
        BY <1>3, <1>7, <1>9
      <3> QED BY <1>1, <1>3, <1>7, <1>9, <3>1 DEF Traced, Elems
    <2>5. Matched'
      BY <1>1, <1>3, <1>5, <1>7, <1>9 DEF Matched, Elems
    <2>6. Held' = Held
      BY <1>3, <1>7, <1>9 DEF Held
    <2> QED BY <1>3, <1>9, <2>1, <2>2, <2>3, <2>4, <2>5, <2>6, RelayStutters DEF CalmInv
  <1>10. CASE Head(acks).accepted
    <2>1. Accepted(b)
      BY <1>2, <1>10
    <2>2. b.seqs \subseteq stored \cup Pending
      BY <1>1, <1>2, <1>5, <1>10 DEF Matched
    <2>3. \A l \in spool : seqs[l] = l
      BY <1>1 DEF Typed, Known
    <2>4. spool' \subseteq spool /\ spool \ spool' \subseteq stored \cup Pending
      BY <2>1, <2>2, <2>3 DEF Accepted
    <2> QED BY <1>9, <2>1, <2>4 DEF Accepted
  <1>11. CASE ~Head(acks).accepted /\ announced
    BY <1>2, <1>9, <1>11 DEF Refused
  <1>12. CASE ~Head(acks).accepted /\ ~announced
    <2>1. announced' = TRUE /\ WriteLine(inFlight \ {b})
      BY <1>2, <1>12 DEF Refused
    <2>2. ~writable
      BY <1>1, <1>5, <1>12 DEF Bounded
    <2>3. Len(seqs) <= MaxLines + troubles
      BY <1>1, <1>8, <1>12, <2>2 DEF Bounded
    <2>4. Len(seqs) <= MaxLines + MaxTroubles + 1
      BY <1>8, <2>3
    <2>5. /\ Typed' /\ Known' /\ Traced' /\ Matched' /\ Relay!Next
          /\ Len(seqs') = Len(seqs) + 1
      BY <1>3, <1>5, <2>1, <2>4, LineWritten
    <2>6. Bounded'
      <3>1. Len(seqs') <= MaxLines + troubles' + (IF (writable \/ (up /\ announced))' THEN 1 ELSE 0)
        BY <1>3, <1>6, <1>8, <2>1, <2>3, <2>5
      <3> QED BY <1>1, <1>3, <1>5, <1>6, <2>2, <3>1 DEF Bounded, Elems
    <2> QED BY <2>5, <2>6 DEF CalmInv
  <1> QED BY <1>10, <1>11, <1>12

(* A socket that dies, and a server started again on a mended volume. *)
LEMMA LineHangsUp ==
    ASSUME BoundsAssumption, CalmInv, calm, calm', Drop \/ Mend
    PROVE  CalmInv' /\ UNCHANGED Relay!vars
  <1>1. Typed /\ Known /\ Bounded /\ Traced /\ Matched
    BY DEF CalmInv
  <1>2. /\ up' = FALSE /\ inFlight' = {} /\ wire' = <<>> /\ acks' = <<>> /\ asked' = {}
        /\ UNCHANGED <<seqs, spool, seq, announced, sent, stored, evicted>>
    BY DEF Drop, Mend, NewServer, Hangup, historyVars
  <1>3. \/ UNCHANGED <<writable, seen, loop, chain>> /\ troubles < MaxTroubles /\ troubles' = troubles + 1
        \/ /\ ~writable /\ writable' = TRUE /\ seen' = {} /\ loop' = NoLoop /\ chain' = <<>>
           /\ troubles' = troubles
    BY DEF Drop, Mend, NewServer, historyVars
  <1>4. loop' = loop /\ chain' = chain /\ (seen' = seen \/ seen' = {}) /\ writable' \in BOOLEAN
    BY <1>1, <1>3 DEF Bounded, Typed
  <1>5. Pending' = Pending
    BY <1>4, PendingIsDue
  <1>6. Elems(<<>>) = {} /\ <<>> \in Seq(Carried) /\ <<>> \in Seq(Ack)
    BY ElemsEmpty
  <1>7. troubles \in Nat /\ troubles' \in 0 .. MaxTroubles /\ Len(seqs) \in Nat /\ MaxLines \in Nat
    BY <1>1, <1>3 DEF Typed, BoundsAssumption
  <1>8. Typed'
    <2>1. seqs' \in Seq(Nat) /\ seq' = Len(seqs') /\ \A l \in Written' : seqs'[l] = l
      BY <1>1, <1>2 DEF Typed, Written
    <2>2. wire' \in Seq(Carried) /\ acks' \in Seq(Ack) /\ chain' \in Seq(Carried) /\ loop' \in Loop
      BY <1>1, <1>2, <1>4, <1>6 DEF Typed
    <2>3. inFlight' \subseteq Flight /\ sent' \in Int /\ up' \in BOOLEAN /\ announced' \in BOOLEAN
      BY <1>1, <1>2 DEF Typed
    <2> QED BY <1>4, <1>7, <2>1, <2>2, <2>3 DEF Typed
  <1>9. Known'
    BY <1>1, <1>2, <1>5 DEF Known, Written
  <1>10. Bounded'
    <2>1. Len(seqs') <= MaxLines + troubles' + (IF (writable \/ (up /\ announced))' THEN 1 ELSE 0)
      <3>1. CASE writable' = writable /\ troubles' = troubles + 1
        <4>1. Len(seqs) <= MaxLines + troubles + 1
          BY <1>1, <1>7 DEF Bounded
        <4> QED BY <1>2, <1>7, <3>1, <4>1
      <3>2. CASE writable' = TRUE /\ troubles' = troubles
        <4>1. Len(seqs) <= MaxLines + troubles + 1
          BY <1>1, <1>7 DEF Bounded
        <4> QED BY <1>2, <1>7, <3>2, <4>1
      <3> QED BY <1>3, <3>1, <3>2
    <2>2. ~writable' => loop' = NoLoop /\ chain' = <<>>
      BY <1>1, <1>3 DEF Bounded
    <2> QED BY <1>2, <1>6, <2>1, <2>2 DEF Bounded, Elems
  <1>11. Traced'
    <2>1. seen' \subseteq stored \cup Pending
      BY <1>1, <1>4 DEF Traced
    <2> QED BY <1>1, <1>2, <1>4, <1>5, <1>6, <2>1 DEF Traced, Elems
  <1>12. Matched'
    BY <1>2 DEF Matched
  <1>13. Held' = Held
    BY <1>2, <1>5 DEF Held
  <1> QED BY <1>2, <1>8, <1>9, <1>10, <1>11, <1>12, <1>13, RelayStutters DEF CalmInv

LEMMA ServerReceives ==
    ASSUME CalmInv, calm, calm', Receive
    PROVE  CalmInv' /\ UNCHANGED Relay!vars
  <1>1. Typed /\ Known /\ Bounded /\ Traced /\ Matched
    BY DEF CalmInv
  <1> DEFINE b == Head(wire)
  <1>2. /\ loop = NoLoop /\ wire # <<>> /\ wire' = Tail(wire)
        /\ UNCHANGED <<seqs, spool, seq, inFlight, up, announced, sent>>
        /\ UNCHANGED <<writable, seen, chain, stored, evicted, troubles>>
    BY DEF Receive, boxVars, historyVars
  <1>3. wire \in Seq(Carried) /\ acks \in Seq(Ack) /\ chain \in Seq(Carried)
    BY <1>1 DEF Typed
  <1>4. /\ wire' \in Seq(Carried) /\ b \in Carried /\ b \in Elems(wire)
        /\ Elems(wire) = {b} \cup Elems(wire')
    BY <1>2, <1>3, ElemsTail
  <1> HIDE DEF b
  <1>5. up
    BY <1>1, <1>2 DEF Bounded
  <1>6. \/ /\ writable /\ acks' = acks
           /\ loop' = [id |-> {b.id}, left |-> b.lines, fresh |-> {}]
        \/ /\ ~writable /\ loop' = loop
           /\ acks' = Append(acks, [id |-> b.id, accepted |-> FALSE])
    BY DEF Receive, b
  <1>7. loop' \in Loop /\ loop'.fresh = {} /\ loop'.left \subseteq b.lines /\ loop.fresh = {}
    BY <1>1, <1>2, <1>4, <1>6 DEF Typed, NoLoop, Loop, Carried
  <1>8. Pending' = Pending
    BY <1>2, <1>7, PendingIsDue DEF Due
  <1>9. acks' \in Seq(Ack) /\ \A a \in Elems(acks') : a.accepted => a \in Elems(acks)
    <2> DEFINE r == [id |-> b.id, accepted |-> FALSE]
    <2>1. r \in Ack /\ r.accepted = FALSE
      BY <1>4 DEF Ack, Carried
    <2>2. acks' = acks \/ acks' = Append(acks, r)
      BY <1>6
    <2> HIDE DEF r
    <2>3. Append(acks, r) \in Seq(Ack) /\ Elems(Append(acks, r)) = Elems(acks) \cup {r}
      BY <1>3, <2>1, ElemsAppend
    <2> QED BY <1>3, <2>1, <2>2, <2>3
  <1>10. Typed'
    <2>1. seqs' \in Seq(Nat) /\ seq' = Len(seqs') /\ \A l \in Written' : seqs'[l] = l
      BY <1>1, <1>2 DEF Typed, Written
    <2> QED BY <1>1, <1>2, <1>4, <1>7, <1>9, <2>1 DEF Typed
  <1>11. Known'
    BY <1>1, <1>2, <1>8 DEF Known, Written
  <1>12. Bounded'
    <2>1. up' /\ (~writable' => loop' = NoLoop /\ chain' = <<>>)
      BY <1>1, <1>2, <1>5, <1>6 DEF Bounded
    <2>2. writable' => \A a \in Elems(acks') : a.accepted
      BY <1>1, <1>2, <1>6 DEF Bounded
    <2>3. Len(seqs') <= MaxLines + troubles' + (IF (writable \/ (up /\ announced))' THEN 1 ELSE 0)
      BY <1>1, <1>2 DEF Bounded
    <2> QED BY <2>1, <2>2, <2>3 DEF Bounded, Elems
  <1>13. Traced'
    <2>1. b.lines \subseteq spool \cup stored \cup evicted \cup Pending
      BY <1>1, <1>4 DEF Traced
    <2>2. \A w \in Elems(wire') : w \in Elems(wire)
      BY <1>4
    <2> QED BY <1>1, <1>2, <1>7, <1>8, <2>1, <2>2 DEF Traced, Elems
  <1>14. Matched'
    <2>1. ASSUME NEW f \in inFlight
          PROVE  /\ \A w \in Elems(wire') : w.id = f.id => f.seqs \subseteq w.lines
                 /\ f.id \in loop'.id => f.seqs \ loop'.left \subseteq stored \cup Pending
                 /\ \A c \in Elems(chain') : c.id = f.id => f.seqs \subseteq stored \cup Pending
                 /\ \A a \in Elems(acks') : a.id = f.id /\ a.accepted => f.seqs \subseteq stored \cup Pending
      <3>1. \A w \in Elems(wire) : w.id = f.id => f.seqs \subseteq w.lines
        BY <1>1 DEF Matched
      <3>2. \A w \in Elems(wire') : w.id = f.id => f.seqs \subseteq w.lines
        BY <1>4, <3>1
      <3>3. f.id \in loop'.id => f.seqs \ loop'.left \subseteq stored \cup Pending
        BY <1>1, <1>4, <1>6, <3>1 DEF Matched
      <3>4. \A c \in Elems(chain') : c.id = f.id => f.seqs \subseteq stored \cup Pending
        BY <1>1, <1>2 DEF Matched
      <3>5. \A a \in Elems(acks') : a.id = f.id /\ a.accepted => f.seqs \subseteq stored \cup Pending
        BY <1>1, <1>9 DEF Matched
      <3> QED BY <3>2, <3>3, <3>4, <3>5
    <2> QED BY <1>2, <1>8, <2>1 DEF Matched, Elems
  <1>15. Held' = Held
    BY <1>2, <1>8 DEF Held
  <1> QED BY <1>2, <1>10, <1>11, <1>12, <1>13, <1>14, <1>15, RelayStutters DEF CalmInv

LEMMA ServerSifts ==
    ASSUME CalmInv, calm, calm', Sift
    PROVE  CalmInv' /\ UNCHANGED Relay!vars
  <1>1. Typed /\ Known /\ Bounded /\ Traced /\ Matched
    BY DEF CalmInv
  <1>2. /\ UNCHANGED <<seqs, spool, seq, inFlight, up, announced, sent, wire, acks>>
        /\ UNCHANGED <<writable, chain, asked, stored, evicted, troubles>>
    BY DEF Sift, boxVars, historyVars
  <1>3. PICK l \in loop.left :
            IF seqs[l] \in seen
            THEN loop' = [loop EXCEPT !.left = @ \ {l}] /\ seen' = seen
            ELSE /\ loop' = [loop EXCEPT !.left = @ \ {l}, !.fresh = @ \cup {l}]
                 /\ seen' = Remember(seqs[l])
    BY Zenon DEF Sift
  <1>4. l \in spool \cup stored \cup evicted \cup Pending /\ seqs[l] = l /\ loop \in Loop
    BY <1>1, <1>3 DEF Typed, Known, Traced
  <1>5. loop'.id = loop.id /\ loop'.left = loop.left \ {l} /\ loop' \in Loop
    <2>1. l \in Nat
      BY <1>3, <1>4 DEF Loop
    <2>2. CASE seqs[l] \in seen
      BY <1>3, <1>4, <2>2 DEF Loop
    <2>3. CASE seqs[l] \notin seen
      <3>1. loop' = [id |-> loop.id, left |-> loop.left \ {l}, fresh |-> loop.fresh \cup {l}]
        BY <1>3, <1>4, <2>3 DEF Loop
      <3>2. loop.id \in SUBSET BatchId /\ loop.left \ {l} \in SUBSET Nat /\ loop.fresh \cup {l} \in SUBSET Nat
        BY <1>4, <2>1 DEF Loop
      <3> QED BY <3>1, <3>2 DEF Loop
    <2> QED BY <2>2, <2>3
  <1>6. \/ l \in stored \cup Pending /\ Pending' = Pending /\ seen' = seen
        \/ Pending' = Pending \cup {l} /\ seen' \subseteq seen \cup {l}
    <2>1. CASE seqs[l] \in seen
      <3>1. loop'.fresh = loop.fresh /\ seen' = seen
        BY <1>3, <1>4, <2>1 DEF Loop
      <3>2. l \in stored \cup Pending
        BY <1>1, <1>4, <2>1 DEF Traced
      <3> QED BY <1>2, <3>1, <3>2, PendingIsDue DEF Due
    <2>2. CASE seqs[l] \notin seen
      <3>1. loop'.fresh = loop.fresh \cup {l} /\ seen' = Remember(l)
        BY <1>3, <1>4, <2>2 DEF Loop
      <3>2. Remember(l) \subseteq seen \cup {l}
        BY DEF Remember
      <3>3. Pending' = Pending \cup {l}
        BY <1>2, <3>1, PendingIsDue DEF Due
      <3> QED BY <3>1, <3>2, <3>3
    <2> QED BY <2>1, <2>2
  <1>7. stored \cup Pending \cup {l} = stored' \cup Pending' \cup {l} /\ l \in stored' \cup Pending'
    BY <1>2, <1>6
  <1>8. Typed'
    <2>1. seqs' \in Seq(Nat) /\ seq' = Len(seqs') /\ \A k \in Written' : seqs'[k] = k
      BY <1>1, <1>2 DEF Typed, Written
    <2> QED BY <1>1, <1>2, <1>5, <2>1 DEF Typed
  <1>9. Known'
    BY <1>1, <1>2, <1>4, <1>6 DEF Known, Written
  <1>10. Bounded'
    <2>1. writable
      BY <1>1, <1>3 DEF Bounded, NoLoop
    <2> QED BY <1>1, <1>2, <2>1 DEF Bounded, Elems
  <1>11. Traced'
    <2>1. spool \cup stored \cup evicted \cup Pending = (spool \cup stored \cup evicted \cup Pending)'
      BY <1>2, <1>4, <1>6
    <2>2. \A w \in Elems(wire') : w.lines \subseteq (spool \cup stored \cup evicted \cup Pending)'
      BY <1>1, <1>2, <2>1 DEF Traced
    <2>3. loop'.left \subseteq (spool \cup stored \cup evicted \cup Pending)'
      BY <1>1, <1>5, <2>1 DEF Traced
    <2>4. seen' \subseteq stored' \cup Pending'
      BY <1>1, <1>2, <1>6 DEF Traced
    <2> QED BY <2>2, <2>3, <2>4 DEF Traced, Elems
  <1>12. Matched'
    <2>1. stored \cup Pending \subseteq stored' \cup Pending'
      BY <1>2, <1>6
    <2>2. ASSUME NEW f \in inFlight
          PROVE  /\ \A w \in Elems(wire) : w.id = f.id => f.seqs \subseteq w.lines
                 /\ f.id \in loop'.id => f.seqs \ loop'.left \subseteq stored' \cup Pending'
                 /\ \A c \in Elems(chain) : c.id = f.id => f.seqs \subseteq stored' \cup Pending'
                 /\ \A a \in Elems(acks) : a.id = f.id /\ a.accepted => f.seqs \subseteq stored' \cup Pending'
      <3>1. /\ \A w \in Elems(wire) : w.id = f.id => f.seqs \subseteq w.lines
            /\ f.id \in loop.id => f.seqs \ loop.left \subseteq stored \cup Pending
            /\ \A c \in Elems(chain) : c.id = f.id => f.seqs \subseteq stored \cup Pending
            /\ \A a \in Elems(acks) : a.id = f.id /\ a.accepted => f.seqs \subseteq stored \cup Pending
        BY <1>1 DEF Matched
      <3>2. f.id \in loop'.id => f.seqs \ loop'.left \subseteq stored' \cup Pending'
        BY <1>5, <1>7, <2>1, <3>1
      <3> QED BY <2>1, <3>1, <3>2
    <2> QED BY <1>2, <2>2 DEF Matched, Elems
  <1>13. Held' = Held
    BY <1>2, <1>4, <1>6 DEF Held
  <1> QED BY <1>2, <1>8, <1>9, <1>10, <1>11, <1>12, <1>13, RelayStutters DEF CalmInv

LEMMA AnswerAccepts ==
    ASSUME acks \in Seq(Ack), NEW id \in BatchId, Answer(id, TRUE),
           ~up => acks = <<>> /\ asked = {}
    PROVE  /\ acks' \in Seq(Ack)
           /\ \A a \in Elems(acks') : a \in Elems(acks) \/ (a.id = id /\ a.accepted)
           /\ ~up => acks' = <<>> /\ asked' = {}
  <1> DEFINE r == [id |-> id, accepted |-> TRUE]
  <1>1. r \in Ack /\ r.id = id /\ r.accepted = TRUE
    BY DEF Ack
  <1>2. /\ acks' = IF id \in asked THEN Append(acks, r) ELSE acks
        /\ asked' = asked \ {id}
    BY DEF Answer
  <1> HIDE DEF r
  <1>3. Append(acks, r) \in Seq(Ack) /\ Elems(Append(acks, r)) = Elems(acks) \cup {r}
    BY <1>1, ElemsAppend
  <1>4. CASE id \in asked
    BY <1>1, <1>2, <1>3, <1>4
  <1>5. CASE id \notin asked
    BY <1>2, <1>5
  <1> QED BY <1>4, <1>5

LEMMA ServerEnqueues ==
    ASSUME CalmInv, calm, calm', Enqueue
    PROVE  CalmInv' /\ UNCHANGED Relay!vars
  <1>1. Typed /\ Known /\ Bounded /\ Traced /\ Matched
    BY DEF CalmInv
  <1>2. /\ UNCHANGED <<seqs, spool, seq, inFlight, up, announced, sent, wire>>
        /\ UNCHANGED <<writable, seen, stored, evicted, troubles>>
        /\ loop.left = {} /\ loop' = NoLoop
    BY DEF Enqueue, boxVars, historyVars
  <1>3. PICK id \in loop.id :
            IF loop.fresh = {}
            THEN Answer(id, TRUE) /\ chain' = chain
            ELSE /\ chain' = Append(chain, [id |-> id, lines |-> loop.fresh])
                 /\ acks' = acks /\ asked' = asked
    BY Zenon DEF Enqueue
  <1>4. /\ loop \in Loop /\ chain \in Seq(Carried) /\ acks \in Seq(Ack) /\ id \in BatchId
        /\ NoLoop \in Loop /\ NoLoop.left = {} /\ NoLoop.id = {} /\ NoLoop.fresh = {}
    BY <1>1, <1>3 DEF Typed, Loop, NoLoop
  <1>5. /\ chain' \in Seq(Carried) /\ Pending' = Pending
        /\ \A c \in Elems(chain') : c \in Elems(chain) \/ c.id = id
    <2>1. CASE loop.fresh = {}
      <3>1. chain' = chain
        BY <1>3, <2>1
      <3>2. Due(NoLoop, chain) = Due(loop, chain)
        BY <1>4, <2>1 DEF Due
      <3> QED BY <1>2, <1>4, <3>1, <3>2, PendingIsDue
    <2>2. CASE loop.fresh # {}
      <3> DEFINE c == [id |-> id, lines |-> loop.fresh]
      <3>1. c \in Carried /\ c.lines = loop.fresh /\ c.id = id
        BY <1>4 DEF Carried, Loop
      <3>2. chain' = Append(chain, c)
        BY <1>3, <2>2
      <3> HIDE DEF c
      <3>3. Append(chain, c) \in Seq(Carried) /\ Elems(Append(chain, c)) = Elems(chain) \cup {c}
        BY <1>4, <3>1, ElemsAppend
      <3>4. Due(NoLoop, Append(chain, c)) = Due(loop, chain)
        BY <1>4, <3>1, DueAppend
      <3> QED BY <1>2, <3>1, <3>2, <3>3, <3>4, PendingIsDue
    <2> QED BY <2>1, <2>2
  <1>6. /\ acks' \in Seq(Ack)
        /\ \A a \in Elems(acks') : a \in Elems(acks) \/ (a.id = id /\ a.accepted)
        /\ ~up => acks' = <<>> /\ asked' = {}
    <2>1. ~up => acks = <<>> /\ asked = {}
      BY <1>1 DEF Bounded
    <2>2. CASE loop.fresh = {}
      BY <1>3, <1>4, <2>1, <2>2, AnswerAccepts
    <2>3. CASE loop.fresh # {}
      BY <1>3, <1>4, <2>1, <2>3
    <2> QED BY <2>2, <2>3
  <1>7. writable
    BY <1>1, <1>3, <1>4 DEF Bounded
  <1>8. Typed'
    <2>1. seqs' \in Seq(Nat) /\ seq' = Len(seqs') /\ \A l \in Written' : seqs'[l] = l
      BY <1>1, <1>2 DEF Typed, Written
    <2> QED BY <1>1, <1>2, <1>4, <1>5, <1>6, <2>1 DEF Typed
  <1>9. Known'
    BY <1>1, <1>2, <1>5 DEF Known, Written
  <1>10. Bounded'
    <2>1. \A a \in Elems(acks') : a.accepted
      BY <1>1, <1>6, <1>7 DEF Bounded
    <2>2. ~up' => wire' = <<>> /\ acks' = <<>> /\ asked' = {}
      BY <1>1, <1>2, <1>6 DEF Bounded
    <2>3. Len(seqs') <= MaxLines + troubles' + (IF (writable \/ (up /\ announced))' THEN 1 ELSE 0)
      BY <1>1, <1>2 DEF Bounded
    <2> QED BY <1>2, <1>7, <2>1, <2>2, <2>3 DEF Bounded, Elems
  <1>11. Traced'
    BY <1>1, <1>2, <1>4, <1>5 DEF Traced
  <1>12. Matched'
    <2>1. ASSUME NEW f \in inFlight
          PROVE  /\ \A w \in Elems(wire) : w.id = f.id => f.seqs \subseteq w.lines
                 /\ \A c \in Elems(chain') : c.id = f.id => f.seqs \subseteq stored \cup Pending
                 /\ \A a \in Elems(acks') : a.id = f.id /\ a.accepted => f.seqs \subseteq stored \cup Pending
      <3>1. id = f.id => f.seqs \subseteq stored \cup Pending
        BY <1>1, <1>2, <1>3 DEF Matched
      <3>2. /\ \A w \in Elems(wire) : w.id = f.id => f.seqs \subseteq w.lines
            /\ \A c \in Elems(chain) : c.id = f.id => f.seqs \subseteq stored \cup Pending
            /\ \A a \in Elems(acks) : a.id = f.id /\ a.accepted => f.seqs \subseteq stored \cup Pending
        BY <1>1 DEF Matched
      <3> QED BY <1>5, <1>6, <3>1, <3>2
    <2>2. stored' \cup Pending' = stored \cup Pending /\ inFlight' = inFlight
          /\ Elems(wire') = Elems(wire) /\ \A f : f.id \notin loop'.id
      BY <1>2, <1>4, <1>5
    <2> QED BY <2>1, <2>2 DEF Matched, Elems
  <1>13. Held' = Held
    BY <1>2, <1>5 DEF Held
  <1> QED BY <1>2, <1>8, <1>9, <1>10, <1>11, <1>12, <1>13, RelayStutters DEF CalmInv

LEMMA ServerLands ==
    ASSUME CalmInv, calm, calm', Land
    PROVE  CalmInv' /\ Relay!Next
  <1>1. Typed /\ Known /\ Bounded /\ Traced /\ Matched
    BY DEF CalmInv
  <1> DEFINE b == Head(chain)
  <1>2. /\ chain # <<>> /\ chain' = Tail(chain) /\ Answer(b.id, TRUE)
        /\ stored' = stored \cup b.lines
        /\ UNCHANGED <<seqs, spool, seq, inFlight, up, announced, sent, wire>>
        /\ UNCHANGED <<writable, seen, loop, evicted, troubles>>
    BY DEF Land, boxVars
  <1>3. chain \in Seq(Carried) /\ acks \in Seq(Ack)
    BY <1>1 DEF Typed
  <1>4. /\ chain' \in Seq(Carried) /\ b \in Carried /\ b \in Elems(chain)
        /\ Elems(chain) = {b} \cup Elems(chain')
    BY <1>2, <1>3, ElemsTail
  <1>5. Due(loop, chain) = b.lines \cup Due(loop, chain')
    BY <1>2, <1>3, DueTail
  <1> HIDE DEF b
  <1>6. Pending = b.lines \cup Pending'
    BY <1>2, <1>5, PendingIsDue
  <1>7. stored' \cup Pending' = stored \cup Pending
    BY <1>2, <1>6
  <1>8. /\ acks' \in Seq(Ack)
        /\ \A a \in Elems(acks') : a \in Elems(acks) \/ (a.id = b.id /\ a.accepted)
        /\ ~up => acks' = <<>> /\ asked' = {}
    <2>1. ~up => acks = <<>> /\ asked = {}
      BY <1>1 DEF Bounded
    <2>2. b.id \in BatchId
      BY <1>4 DEF Carried
    <2> QED BY <1>2, <1>3, <2>1, <2>2, AnswerAccepts
  <1>9. writable
    BY <1>1, <1>2 DEF Bounded
  <1>10. Typed'
    <2>1. seqs' \in Seq(Nat) /\ seq' = Len(seqs') /\ \A l \in Written' : seqs'[l] = l
      BY <1>1, <1>2 DEF Typed, Written
    <2> QED BY <1>1, <1>2, <1>4, <1>8, <2>1 DEF Typed
  <1>11. Known'
    BY <1>1, <1>2, <1>6 DEF Known, Written
  <1>12. Bounded'
    <2>1. \A a \in Elems(acks') : a.accepted
      BY <1>1, <1>8, <1>9 DEF Bounded
    <2>2. ~up' => wire' = <<>> /\ acks' = <<>> /\ asked' = {}
      BY <1>1, <1>2, <1>8 DEF Bounded
    <2>3. Len(seqs') <= MaxLines + troubles' + (IF (writable \/ (up /\ announced))' THEN 1 ELSE 0)
      BY <1>1, <1>2 DEF Bounded
    <2> QED BY <1>2, <1>9, <2>1, <2>2, <2>3 DEF Bounded, Elems
  <1>13. Traced'
    <2>1. spool \cup stored \cup evicted \cup Pending = (spool \cup stored \cup evicted \cup Pending)'
      BY <1>2, <1>7
    <2> QED BY <1>1, <1>2, <1>7, <2>1 DEF Traced, Elems
  <1>14. Matched'
    <2>1. ASSUME NEW f \in inFlight
          PROVE  /\ \A w \in Elems(wire) : w.id = f.id => f.seqs \subseteq w.lines
                 /\ f.id \in loop.id => f.seqs \ loop.left \subseteq stored \cup Pending
                 /\ \A c \in Elems(chain') : c.id = f.id => f.seqs \subseteq stored \cup Pending
                 /\ \A a \in Elems(acks') : a.id = f.id /\ a.accepted => f.seqs \subseteq stored \cup Pending
      <3>1. /\ \A w \in Elems(wire) : w.id = f.id => f.seqs \subseteq w.lines
            /\ f.id \in loop.id => f.seqs \ loop.left \subseteq stored \cup Pending
            /\ \A c \in Elems(chain) : c.id = f.id => f.seqs \subseteq stored \cup Pending
            /\ \A a \in Elems(acks) : a.id = f.id /\ a.accepted => f.seqs \subseteq stored \cup Pending
        BY <1>1 DEF Matched
      <3> QED BY <1>4, <1>8, <3>1
    <2> QED BY <1>2, <1>7, <2>1 DEF Matched, Elems
  <1>15. Relay!Next
    <2> DEFINE L == b.lines \ stored
    <2>1. L \in SUBSET (Held \cup (evicted \ stored))
      BY <1>6 DEF Held
    <2>2. Held' = Held \ L
      BY <1>2, <1>6 DEF Held
    <2>3. stored' = stored \cup L
      BY <1>2
    <2> HIDE DEF L
    <2> QED BY <1>2, <2>1, <2>2, <2>3, RelayStores
  <1> QED BY <1>10, <1>11, <1>12, <1>13, <1>14, <1>15 DEF CalmInv

-----------------------------------------------------------------------------
(* Whatever the sizes and however many lines and drops there are, shipping  *)
(* on a calm day is the store-and-forward relay: a line leaves the spool    *)
(* only because it is stored, is on its way to the disk, or newer ones push *)
(* it out of a full spool; nothing stored goes (logger.ts, logs.ts).        *)
THEOREM ShippingIsARelay == MCSpec => ImplementsRelay
  <1> DEFINE Inv == calm \in BOOLEAN /\ (calm => CalmInv)
  <1> USE SizesAssumption, BoundsAssumption
  <1>1. MCInit => Inv /\ Relay!Init
    <2> SUFFICES ASSUME MCInit PROVE Inv /\ Relay!Init
      OBVIOUS
    <2>1. Init /\ calm \in BOOLEAN
      BY DEF MCInit
    <2>2. CalmInv
      BY <2>1, CalmStart
    <2>3. Pending = {}
      BY <2>1, PendingIsDue, DueNothing DEF Init
    <2>4. Held = {} /\ stored = {} /\ evicted \ stored = {}
      BY <2>1, <2>3 DEF Held, Init
    <2>5. Relay!Init
      BY <2>4 DEF Relay!Init
    <2> QED BY <2>1, <2>2, <2>5
  <1>2. Inv /\ [MCNext]_MCVars => Inv' /\ [Relay!Next]_(Relay!vars)
    <2> SUFFICES ASSUME Inv, [MCNext]_MCVars PROVE Inv' /\ [Relay!Next]_(Relay!vars)
      OBVIOUS
    <2>1. calm' = calm
      BY DEF MCNext, MCVars
    <2>2. CASE ~calm
      <3>1. UNCHANGED Relay!vars
        BY <2>1, <2>2 DEF Relay!vars
      <3> QED BY <2>1, <2>2, <3>1
    <2>3. CASE calm /\ UNCHANGED vars
      <3>1. /\ UNCHANGED <<seqs, spool, seq, inFlight, up, announced, sent, wire, acks, serverVars>>
            /\ UNCHANGED <<stored, evicted, troubles>>
        BY <2>3 DEF vars, boxVars, historyVars
      <3>2. Pending' = Pending
        BY <3>1, PendingIsDue DEF serverVars
      <3>3. CalmInv' = CalmInv
        BY <3>1, <3>2 DEF CalmInv, Typed, Known, Bounded, Traced, Matched, Written, serverVars
      <3>4. Held' = Held
        BY <3>1, <3>2 DEF Held
      <3>5. UNCHANGED Relay!vars
        BY <2>1, <2>3, <3>1, <3>4, RelayStutters
      <3> QED BY <2>1, <2>3, <3>3, <3>5
    <2>4. CASE calm /\ CalmNext
      <3>1. CalmInv /\ calm /\ calm'
        BY <2>1, <2>4
      <3>2. CASE Minute \/ Flush
        BY <3>1, <3>2, BoxRests
      <3>3. CASE Drain \/ Connect
        BY <3>1, <3>3, BoxSends
      <3>4. CASE Write
        BY <3>1, <3>4, BoxWrites
      <3>5. CASE AckArrives
        BY <3>1, <3>5, BoxHears
      <3>6. CASE Drop \/ Mend
        BY <3>1, <3>6, LineHangsUp
      <3>7. CASE Receive
        BY <3>1, <3>7, ServerReceives
      <3>8. CASE Sift
        BY <3>1, <3>8, ServerSifts
      <3>9. CASE Enqueue
        BY <3>1, <3>9, ServerEnqueues
      <3>10. CASE Land
        BY <3>1, <3>10, ServerLands
      <3> QED BY <2>4, <3>2, <3>3, <3>4, <3>5, <3>6, <3>7, <3>8, <3>9, <3>10 DEF CalmNext
    <2> QED BY <2>1, <2>2, <2>3, <2>4 DEF MCNext, MCVars
  <1> QED BY <1>1, <1>2, PTL DEF MCSpec, ImplementsRelay, Relay!Spec

-----------------------------------------------------------------------------
(* Whatever the day: lines may share a seq, so what an answer vouches for is *)
(* that some line of each seq has landed, and a line of another content     *)
(* leaves the spool with it only if it shares its seq.                      *)

Landed == stored \cup Pending \cup unlanded

Shape ==
    /\ seqs \in Seq(Nat) /\ seq \in 0 .. Len(seqs) /\ \A l \in Written : seqs[l] \in 0 .. Len(seqs)
    /\ queued \in BOOLEAN /\ up \in BOOLEAN /\ announced \in BOOLEAN /\ writable \in BOOLEAN
    /\ inFlight \subseteq Flight /\ sent \in 0 .. SendCap
    /\ wire \in Seq(Carried) /\ chain \in Seq(Carried) /\ acks \in Seq(Ack)
    /\ loop \in Loop /\ asked \subseteq BatchId
    /\ seen \subseteq Nat /\ forgotten \subseteq Nat
    /\ troubles \in 0 .. MaxTroubles

Place ==
    /\ spool \cup disk \cup loop.left \cup loop.fresh \subseteq Written
    /\ stored \cup twice \cup evicted \cup unsaved \cup unlanded \subseteq Written
    /\ \A w \in Elems(wire) : w.lines \subseteq Written
    /\ \A c \in Elems(chain) : c.lines \subseteq Written

Heard == seen \subseteq Names(seqs, Landed)

Answered ==
    \A b \in inFlight :
        /\ \A w \in Elems(wire) : w.id = b.id => b.seqs \subseteq Names(seqs, w.lines)
        /\ b.id \in loop.id => b.seqs \subseteq Names(seqs, Landed \cup loop.left)
        /\ \A c \in Elems(chain) : c.id = b.id => b.seqs \subseteq Names(seqs, Landed)
        /\ \A a \in Elems(acks) : a.id = b.id /\ a.accepted => b.seqs \subseteq Names(seqs, Landed)

(* What reached the server is remembered by its seq or was forgotten, so two *)
(* appends hold the same line only if its seq was forgotten between them.   *)
Lapsed(L) == \A l \in L : seqs[l] \in forgotten

Remembered ==
    /\ \A l \in stored \cup Pending : seqs[l] \in seen \cup forgotten
    /\ Lapsed(twice) /\ Lapsed(loop.fresh \cap stored)
    /\ \A i \in 1 .. Len(chain) :
        /\ Lapsed(chain[i].lines \cap stored)
        /\ Lapsed(chain[i].lines \cap loop.fresh)
        /\ \A j \in 1 .. i - 1 : Lapsed(chain[i].lines \cap chain[j].lines)

KeepInv == Shape /\ Place /\ Heard /\ Answered /\ Accounted /\ Remembered

LEMMA LandedInPlace == ASSUME Place PROVE Landed \subseteq Written /\ Pending \subseteq Written
  BY DEF Place, Landed, Pending

LEMMA InPlace ==
    ASSUME NEW q \in Seq(Carried), \A b \in Elems(q) : b.lines \subseteq Written
    PROVE  q \in Seq(Batch)
  <1>1. Len(q) \in Nat /\ q \in [1 .. Len(q) -> Carried]
    OBVIOUS
  <1>2. ASSUME NEW i \in 1 .. Len(q) PROVE q[i] \in Batch
    <2>1. q[i] \in Carried /\ q[i].lines \subseteq Written
      BY <1>1 DEF Elems
    <2> QED BY <2>1 DEF Carried, Batch
  <1>3. q \in [1 .. Len(q) -> Batch]
    BY <1>1, <1>2
  <1> QED BY <1>1, <1>3, FunctionIsSequence

LEMMA KeptIsTyped == ASSUME Shape, Place PROVE TypeOK
  <1>1. wire \in Seq(Batch) /\ chain \in Seq(Batch)
    BY InPlace DEF Shape, Place
  <1>2. loop \in [id : SUBSET BatchId, left : SUBSET Written, fresh : SUBSET Written]
    BY DEF Shape, Place, Loop
  <1>3. seq \in Nat /\ seqs \in Seq(Nat)
    BY DEF Shape
  <1> QED BY <1>1, <1>2, <1>3 DEF TypeOK, Shape, Place, Flight, Ack

-----------------------------------------------------------------------------
(* The least of a set of naturals, and the last seq a spool file shows *)

LEMMA Least ==
    ASSUME NEW T \in SUBSET Nat, T # {}
    PROVE  \E m \in T : \A n \in T : m <= n
  <1> DEFINE U == {1 .. n : n \in T}
             R == StrictSubsetOrdering(Nat)
             F == FiniteSubsetsOf(Nat)
  <1>1. U \subseteq F /\ U # {}
    <2>1. ASSUME NEW n \in T PROVE 1 .. n \in F
      <3>1. n \in Nat /\ 1 .. n \in SUBSET Nat
        OBVIOUS
      <3>2. IsFiniteSet(1 .. n)
        BY <3>1, FS_Interval
      <3> QED BY <3>1, <3>2 DEF FiniteSubsetsOf
    <2> QED BY <2>1
  <1>2. IsWellFoundedOn(R, F)
    BY FS_StrictSubsetOrderingWellFounded
  <1>3. PICK u \in U : \A v \in U : <<v, u>> \notin R
    <2> HIDE DEF U, R, F
    <2> QED BY <1>1, <1>2, WFMin
  <1>4. PICK m \in T : u = 1 .. m
    OBVIOUS
  <1>5. ASSUME NEW n \in T, n < m PROVE FALSE
    <2>1. 1 .. n \subseteq 1 .. m /\ m \in 1 .. m /\ m \notin 1 .. n
      BY <1>5
    <2>2. <<1 .. n, 1 .. m>> \in R
      BY <1>1, <1>4, <2>1 DEF StrictSubsetOrdering
    <2> QED BY <1>3, <1>4, <2>2
  <1> QED BY <1>5

LEMMA StartedBound ==
    ASSUME Shape, NEW S \in SUBSET Written
    PROVE  Started(S) \in 0 .. Len(seqs)
  <1> DEFINE U == {n \in Nat : \A l \in S : seqs[l] <= n}
  <1>1. Len(seqs) \in Nat /\ \A l \in S : seqs[l] \in 0 .. Len(seqs)
    BY DEF Shape
  <1>2. Len(seqs) \in U
    BY <1>1
  <1>3. PICK m \in U : \A n \in U : m <= n
    BY <1>2, Least
  <1>4. m \in {seqs[l] : l \in S} \cup {0}
    <2> SUFFICES ASSUME m # 0 PROVE \E l \in S : seqs[l] = m
      OBVIOUS
    <2>1. m \in Nat /\ m - 1 \in Nat /\ m - 1 \notin U
      BY <1>3
    <2>2. PICK l \in S : ~(seqs[l] <= m - 1)
      BY <2>1
    <2> QED BY <1>1, <1>3, <2>1, <2>2
  <1>5. \E n \in {seqs[l] : l \in S} \cup {0} : \A l \in S : seqs[l] <= n
    BY <1>3, <1>4
  <1>6. Started(S) \in {seqs[l] : l \in S} \cup {0}
    BY <1>5 DEF Started
  <1> QED BY <1>1, <1>6

-----------------------------------------------------------------------------
(* What a step that leaves the server alone keeps *)

(* Lines keep the seqs they were given. *)
Lasting == Len(seqs) <= Len(seqs') /\ \A l \in Written : seqs'[l] = seqs[l]

LEMMA NamesLast ==
    ASSUME Lasting, NEW L \in SUBSET Written, NEW M, L \subseteq M
    PROVE  Names(seqs, L) \subseteq Names(seqs', M)
  BY DEF Lasting, Names

LEMMA WrittenGrows == ASSUME Shape, Shape', Lasting PROVE Written \subseteq Written'
  BY DEF Shape, Lasting, Written

LEMMA ServerRests ==
    ASSUME Place, Heard, Remembered, Lasting,
           UNCHANGED <<stored, twice, loop, chain, seen, forgotten, unlanded>>
    PROVE  Heard' /\ Remembered' /\ Landed' = Landed
  <1>1. Pending' = Pending /\ Landed' = Landed
    BY PendingIsDue DEF Landed
  <1>2. Landed \subseteq Written /\ Pending \subseteq Written
    BY LandedInPlace
  <1>3. Heard'
    BY <1>1, <1>2, NamesLast DEF Heard
  <1>4. ASSUME NEW L \in SUBSET Written, Lapsed(L) PROVE \A l \in L : seqs'[l] \in forgotten
    BY <1>4 DEF Lapsed, Lasting
  <1>5. Lapsed(twice)' /\ Lapsed(loop.fresh \cap stored)'
    BY <1>4 DEF Place, Remembered, Lapsed
  <1>6. \A l \in stored' \cup Pending' : seqs'[l] \in seen' \cup forgotten'
    BY <1>1, <1>2 DEF Place, Remembered, Lasting
  <1>7. ASSUME NEW i \in 1 .. Len(chain)
        PROVE  /\ Lapsed(chain[i].lines \cap stored)'
               /\ Lapsed(chain[i].lines \cap loop.fresh)'
               /\ \A j \in 1 .. i - 1 : Lapsed(chain[i].lines \cap chain[j].lines)'
    <2>1. /\ Lapsed(chain[i].lines \cap stored)
          /\ Lapsed(chain[i].lines \cap loop.fresh)
          /\ \A j \in 1 .. i - 1 : Lapsed(chain[i].lines \cap chain[j].lines)
      BY DEF Remembered
    <2>2. chain[i].lines \subseteq Written
      <3>1. chain[i] \in Elems(chain)
        BY DEF Elems
      <3> QED BY <3>1 DEF Place
    <2>3. \A M : Lapsed(chain[i].lines \cap M) =>
               \A l \in chain[i].lines \cap M : seqs'[l] \in forgotten
      BY <1>4, <2>2
    <2>4. /\ \A l \in chain[i].lines \cap stored : seqs'[l] \in forgotten
          /\ \A l \in chain[i].lines \cap loop.fresh : seqs'[l] \in forgotten
          /\ \A j \in 1 .. i - 1 : \A l \in chain[i].lines \cap chain[j].lines : seqs'[l] \in forgotten
      BY <2>1, <2>3
    <2> QED BY <2>4 DEF Lapsed
  <1> QED BY <1>1, <1>3, <1>5, <1>6, <1>7 DEF Remembered

LEMMA AccountKept ==
    ASSUME Shape, Shape', Place, Accounted, Lasting,
           Landed \subseteq Landed', evicted \subseteq evicted', unsaved \subseteq unsaved',
           \A l \in spool : l \in (spool \cup Landed \cup evicted \cup unsaved)' \/ SameSeq(l),
           \A l \in Written' \ Written : l \in (spool \cup evicted)'
    PROVE  Accounted'
  <1>1. Written \subseteq Written'
    BY WrittenGrows
  <1>2. ASSUME NEW l \in Written, SameSeq(l) PROVE SameSeq(l)'
    <2>1. PICK k \in Written : k # l /\ seqs[k] = seqs[l]
      BY <1>2 DEF SameSeq
    <2>2. seqs'[k] = seqs'[l] /\ k \in Written'
      BY <1>1, <2>1 DEF Lasting
    <2> QED BY <2>1, <2>2 DEF SameSeq
  <1>3. ASSUME NEW l \in Written'
        PROVE  l \in (spool \cup Landed \cup evicted \cup unsaved)' \/ SameSeq(l)'
    <2>1. CASE l \notin Written
      BY <2>1
    <2>2. CASE l \in Written
      <3>1. l \in spool \cup Landed \cup evicted \cup unsaved \/ SameSeq(l)
        BY <2>2 DEF Accounted, Landed
      <3>2. CASE SameSeq(l)
        BY <1>2, <2>2, <3>2
      <3>3. CASE l \in spool
        <4>1. l \in (spool \cup Landed \cup evicted \cup unsaved)' \/ SameSeq(l)
          BY <3>3
        <4> QED BY <1>2, <2>2, <4>1
      <3> QED BY <3>1, <3>2, <3>3
    <2> QED BY <2>1, <2>2
  <1> QED BY <1>3 DEF Accounted, Landed

LEMMA CarriesAnswered ==
    ASSUME Shape, Place, Answered, Lasting, NEW flying \in SUBSET inFlight, NEW lines,
           Carries(flying, lines, seqs'),
           UNCHANGED <<loop, chain, stored, unlanded>>,
           \A a \in Elems(acks') : a \in Elems(acks)
    PROVE  Answered'
  <1>1. PICK N, R :
            /\ inFlight' = flying \cup N /\ Elems(wire') = Elems(wire) \cup R
            /\ \A b \in N : b.id \notin UsedIds
            /\ \A w \in R : w.id \notin UsedIds
            /\ \A b \in N, w \in R : b.id = w.id => b.seqs \subseteq Names(seqs', w.lines)
    BY Zenon DEF Carries
  <1>2. /\ \A b \in inFlight : b.id \in UsedIds
        /\ \A b \in Elems(wire) : b.id \in UsedIds
        /\ \A b \in Elems(acks) : b.id \in UsedIds
        /\ \A b \in Elems(chain) : b.id \in UsedIds
        /\ \A i \in loop.id : i \in UsedIds
    BY DEF UsedIds
  <1>3. Landed' = Landed /\ Landed \subseteq Written /\ loop.left \subseteq Written
    BY PendingIsDue, LandedInPlace DEF Landed, Place
  <1>4. ASSUME NEW L \in SUBSET Written PROVE Names(seqs, L) \subseteq Names(seqs', L)
    BY NamesLast
  <1>5. ASSUME NEW b \in inFlight'
        PROVE  /\ \A w \in Elems(wire') : w.id = b.id => b.seqs \subseteq Names(seqs', w.lines)
               /\ b.id \in loop.id => b.seqs \subseteq Names(seqs', Landed \cup loop.left)
               /\ \A c \in Elems(chain) : c.id = b.id => b.seqs \subseteq Names(seqs', Landed)
               /\ \A a \in Elems(acks') : a.id = b.id /\ a.accepted => b.seqs \subseteq Names(seqs', Landed)
    <2>1. CASE b \in flying
      <3>1. /\ \A w \in Elems(wire) : w.id = b.id => b.seqs \subseteq Names(seqs, w.lines)
            /\ b.id \in loop.id => b.seqs \subseteq Names(seqs, Landed \cup loop.left)
            /\ \A c \in Elems(chain) : c.id = b.id => b.seqs \subseteq Names(seqs, Landed)
            /\ \A a \in Elems(acks) : a.id = b.id /\ a.accepted => b.seqs \subseteq Names(seqs, Landed)
        BY <2>1 DEF Answered
      <3>2. \A w \in Elems(wire) : w.lines \subseteq Written
        BY DEF Place
      <3>3. \A w \in Elems(wire') : w.id = b.id => b.seqs \subseteq Names(seqs', w.lines)
        <4> SUFFICES ASSUME NEW w \in Elems(wire'), w.id = b.id
                     PROVE  b.seqs \subseteq Names(seqs', w.lines)
          OBVIOUS
        <4>1. w \in Elems(wire)
          BY <1>1, <1>2, <2>1
        <4> QED BY <1>4, <3>1, <3>2, <4>1
      <3>4. b.id \in loop.id => b.seqs \subseteq Names(seqs', Landed \cup loop.left)
        <4>1. Landed \cup loop.left \in SUBSET Written
          BY <1>3
        <4> QED BY <1>4, <3>1, <4>1
      <3>5. Names(seqs, Landed) \subseteq Names(seqs', Landed)
        BY <1>3, <1>4
      <3> QED BY <3>1, <3>3, <3>4, <3>5
    <2>2. CASE b \in N
      BY <1>1, <1>2, <2>2
    <2> QED BY <1>1, <2>1, <2>2
  <1>6. loop' = loop /\ chain' = chain
    OBVIOUS
  <1> QED BY <1>3, <1>5, <1>6 DEF Answered, Elems

LEMMA SpoolIsFinite ==
    ASSUME Shape, NEW S \in SUBSET Written
    PROVE  S \in SUBSET Nat /\ IsFiniteSet(S) /\ \A l \in S : seqs[l] \in Nat
  <1>1. Len(seqs) \in Nat /\ Written = 1 .. Len(seqs)
    BY DEF Shape, Written
  <1>2. IsFiniteSet(Written)
    BY <1>1, FS_Interval
  <1>3. IsFiniteSet(S)
    BY <1>2, FS_Subset
  <1>4. \A l \in S : seqs[l] \in Nat
    BY DEF Shape
  <1> QED BY <1>1, <1>3, <1>4

LEMMA FlightAnswered ==
    ASSUME Answered, inFlight' \subseteq inFlight, UNCHANGED <<seqs, wire, loop, chain>>,
           Landed' = Landed, \A a \in Elems(acks') : a \in Elems(acks)
    PROVE  Answered'
  <1>1. /\ Elems(wire)' = Elems(wire) /\ Elems(chain)' = Elems(chain) /\ Elems(acks)' \subseteq Elems(acks)
        /\ Landed' = Landed /\ seqs' = seqs /\ loop' = loop
    BY DEF Elems
  <1>2. ASSUME NEW b \in inFlight'
        PROVE  /\ \A w \in Elems(wire)' : w.id = b.id => b.seqs \subseteq Names(seqs', w.lines)
               /\ b.id \in loop'.id => b.seqs \subseteq Names(seqs', Landed' \cup loop'.left)
               /\ \A c \in Elems(chain)' : c.id = b.id => b.seqs \subseteq Names(seqs', Landed')
               /\ \A a \in Elems(acks)' : a.id = b.id /\ a.accepted => b.seqs \subseteq Names(seqs', Landed')
    <2>1. /\ \A w \in Elems(wire) : w.id = b.id => b.seqs \subseteq Names(seqs, w.lines)
          /\ b.id \in loop.id => b.seqs \subseteq Names(seqs, Landed \cup loop.left)
          /\ \A c \in Elems(chain) : c.id = b.id => b.seqs \subseteq Names(seqs, Landed)
          /\ \A a \in Elems(acks) : a.id = b.id /\ a.accepted => b.seqs \subseteq Names(seqs, Landed)
      BY DEF Answered
    <2> QED BY <1>1, <2>1
  <1> QED BY <1>2 DEF Answered

LEMMA LineKept ==
    ASSUME SizesAssumption, KeepInv, NEW flying \in SUBSET inFlight, WriteLine(flying),
           up' = up, announced' \in BOOLEAN, acks' \in Seq(Ack),
           \A a \in Elems(acks') : a \in Elems(acks),
           UNCHANGED <<disk, writable, seen, loop, chain, asked>>,
           UNCHANGED <<stored, twice, unsaved, unlanded, forgotten, troubles>>
    PROVE  KeepInv'
  <1> DEFINE l   == Len(seqs) + 1
             sq  == Append(seqs, seq + 1)
             all == spool \cup {Len(sq)}
             new == Newest(all)
  <1>1. Shape /\ Place /\ Heard /\ Answered /\ Accounted /\ Remembered
    BY DEF KeepInv
  <1>2. /\ seqs \in Seq(Nat) /\ Len(seqs) \in Nat /\ seq \in 0 .. Len(seqs)
        /\ \A k \in 1 .. Len(seqs) : seqs[k] \in 0 .. Len(seqs)
    BY <1>1 DEF Shape, Written
  <1>3. seqs' = sq /\ seq' = seq + 1 /\ spool' = new /\ evicted' = evicted \cup (all \ new) /\ queued' = TRUE
    BY DEF WriteLine
  <1>4. /\ sq \in Seq(Nat) /\ Len(sq) = l /\ l \in Nat
        /\ sq[l] = seq + 1 /\ \A k \in 1 .. Len(seqs) : sq[k] = seqs[k]
    BY <1>2
  <1> HIDE DEF sq
  <1>5. \A k \in 1 .. l : sq[k] \in 0 .. l
    <2>1. sq[l] \in 0 .. l
      BY <1>2, <1>4
    <2>2. ASSUME NEW k \in 1 .. Len(seqs) PROVE sq[k] \in 0 .. l
      <3>1. sq[k] = seqs[k] /\ seqs[k] \in 0 .. Len(seqs)
        BY <1>2, <1>4
      <3> QED BY <1>2, <3>1
    <2>3. 1 .. l = (1 .. Len(seqs)) \cup {l}
      BY <1>2
    <2> QED BY <2>1, <2>2, <2>3
  <1>6. Lasting
    BY <1>2, <1>3, <1>4 DEF Lasting, Written
  <1>7. Written' = Written \cup {l} /\ Written' = 1 .. l /\ Written \subseteq Written'
    BY <1>2, <1>3, <1>4 DEF Written
  <1>8. new \subseteq all /\ all = spool \cup {l} /\ all \subseteq Written'
    BY <1>1, <1>4, <1>7 DEF Newest, Place
  <1>9. new \in SUBSET Nat /\ IsFiniteSet(new) /\ \A k \in new : sq[k] \in Nat
    <2> HIDE DEF l, all, new
    <2>1. l \in Nat /\ new \subseteq 1 .. l /\ \A k \in 1 .. l : sq[k] \in Nat
      BY <1>4, <1>5, <1>7, <1>8
    <2>2. IsFiniteSet(1 .. l)
      BY <2>1, FS_Interval
    <2>3. IsFiniteSet(new)
      BY <2>1, <2>2, FS_Subset
    <2> QED BY <2>1, <2>3
  <1>10. Carries(flying, new, sq) /\ sent' \in 0 .. SendCap
    <2>1. sent \in 0 .. SendCap /\ sent \in Int /\ wire \in Seq(Carried)
      BY <1>1 DEF Shape
    <2>2. CASE up
      <3>1. Ship(new, sq, flying)
        BY <2>2 DEF WriteLine, sq
      <3> HIDE DEF new, all
      <3> QED BY <1>9, <2>1, <3>1, ShipCarries, ShipBudget
    <2>3. CASE ~up
      <3>1. inFlight' = flying /\ wire' = wire /\ sent' = sent
        BY <2>3 DEF WriteLine
      <3>2. Carries(flying, new, sq)
        <4> SUFFICES \E N \in SUBSET Flight, R \in SUBSET Carried :
                /\ inFlight' = flying \cup N
                /\ wire' \in Seq(Carried) /\ Elems(wire') = Elems(wire) \cup R
                /\ sent' \in Int
                /\ \A b \in N : b.id \notin UsedIds
                /\ \A w \in R : w.id \notin UsedIds /\ w.lines \subseteq new
                /\ \A b \in N, w \in R : b.id = w.id => b.seqs \subseteq Names(sq, w.lines)
          BY DEF Carries
        <4> WITNESS {} \in SUBSET Flight, {} \in SUBSET Carried
        <4> QED BY <2>1, <3>1
      <3> QED BY <2>1, <3>1, <3>2
    <2> QED BY <2>2, <2>3
  <1> HIDE DEF new, all, l
  <1>11. PICK N \in SUBSET Flight, R \in SUBSET Carried :
            /\ inFlight' = flying \cup N
            /\ wire' \in Seq(Carried) /\ Elems(wire') = Elems(wire) \cup R
            /\ \A w \in R : w.lines \subseteq new
    BY <1>10, Zenon DEF Carries
  <1>12. Shape'
    <2>1. seqs' \in Seq(Nat) /\ seq' \in 0 .. Len(seqs') /\ \A k \in Written' : seqs'[k] \in 0 .. Len(seqs')
      BY <1>2, <1>3, <1>4, <1>5, <1>7 DEF l
    <2>2. inFlight' \subseteq Flight
      BY <1>1, <1>11 DEF Shape
    <2>3. queued' \in BOOLEAN /\ up' \in BOOLEAN /\ announced' \in BOOLEAN /\ writable' \in BOOLEAN
      BY <1>1, <1>3 DEF Shape
    <2>4. chain' \in Seq(Carried) /\ loop' \in Loop /\ asked' \subseteq BatchId
      BY <1>1 DEF Shape
    <2>5. seen' \subseteq Nat /\ forgotten' \subseteq Nat /\ troubles' \in 0 .. MaxTroubles
      BY <1>1 DEF Shape
    <2> QED BY <1>10, <1>11, <2>1, <2>2, <2>3, <2>4, <2>5 DEF Shape
  <1>13. Place'
    <2>1. (spool \cup disk \cup loop.left \cup loop.fresh)' \subseteq Written'
      BY <1>1, <1>3, <1>7, <1>8 DEF Place
    <2>2. (stored \cup twice \cup evicted \cup unsaved \cup unlanded)' \subseteq Written'
      BY <1>1, <1>3, <1>7, <1>8 DEF Place
    <2>3. \A w \in Elems(wire') : w.lines \subseteq Written'
      BY <1>1, <1>7, <1>8, <1>11 DEF Place
    <2>4. \A c \in Elems(chain') : c.lines \subseteq Written'
      BY <1>1, <1>7 DEF Place
    <2> QED BY <2>1, <2>2, <2>3, <2>4 DEF Place, Elems
  <1>14. Heard' /\ Remembered' /\ Landed' = Landed
    BY <1>1, <1>6, ServerRests
  <1>15. Answered'
    BY <1>1, <1>3, <1>6, <1>10, CarriesAnswered
  <1>16. Accounted'
    <2>1. spool \subseteq spool' \cup evicted' /\ evicted \subseteq evicted'
      BY <1>3, <1>8
    <2>2. Written' \ Written \subseteq spool' \cup evicted'
      BY <1>3, <1>7, <1>8
    <2> QED BY <1>1, <1>6, <1>12, <1>14, <2>1, <2>2, AccountKept
  <1> QED BY <1>12, <1>13, <1>14, <1>15, <1>16 DEF KeepInv

-----------------------------------------------------------------------------
(* The box's steps on any day *)

LEMMA RestKeeps ==
    ASSUME SizesAssumption, KeepInv, Minute \/ Flush \/ FlushFails \/ UNCHANGED vars
    PROVE  KeepInv'
  <1>1. Shape /\ Place /\ Heard /\ Answered /\ Accounted /\ Remembered
    BY DEF KeepInv
  <1>2. /\ UNCHANGED <<seqs, spool, seq, inFlight, up, announced, wire, acks>>
        /\ UNCHANGED <<writable, seen, loop, chain, asked>>
        /\ UNCHANGED <<stored, twice, evicted, unsaved, unlanded, forgotten, troubles>>
        /\ disk' \in {disk, spool} /\ queued' \in {queued, FALSE} /\ sent' \in {sent, 0}
    BY DEF Minute, Flush, FlushFails, vars, boxVars, serverVars, historyVars
  <1>3. Lasting /\ Written' = Written
    BY <1>1, <1>2 DEF Lasting, Shape, Written
  <1>4. Heard' /\ Remembered' /\ Landed' = Landed
    BY <1>1, <1>2, <1>3, ServerRests
  <1>5. Shape'
    <2>1. sent' \in 0 .. SendCap
      BY <1>1, <1>2 DEF Shape, SizesAssumption
    <2>2. queued' \in BOOLEAN
      BY <1>1, <1>2, Zenon DEF Shape
    <2> QED BY <1>1, <1>2, <1>3, <2>1, <2>2 DEF Shape
  <1>6. Place'
    BY <1>1, <1>2, <1>3 DEF Place, Elems
  <1>7. Answered'
    BY <1>1, <1>2, <1>4, FlightAnswered
  <1>8. Accounted'
    BY <1>1, <1>2, <1>3, <1>4, <1>5, AccountKept
  <1> QED BY <1>4, <1>5, <1>6, <1>7, <1>8 DEF KeepInv

LEMMA SendKeeps ==
    ASSUME SizesAssumption, KeepInv, Drain \/ Connect
    PROVE  KeepInv'
  <1>1. Shape /\ Place /\ Heard /\ Answered /\ Accounted /\ Remembered
    BY DEF KeepInv
  <1>2. /\ Ship(spool, seqs, inFlight)
        /\ UNCHANGED <<seqs, spool, disk, queued, seq, acks>>
        /\ UNCHANGED <<writable, seen, loop, chain, asked>>
        /\ UNCHANGED <<stored, twice, evicted, unsaved, unlanded, forgotten, troubles>>
        /\ up' \in {up, TRUE} /\ announced' \in {announced, FALSE}
    BY DEF Drain, Connect, serverVars, historyVars
  <1>3. Lasting /\ Written' = Written
    BY <1>1, <1>2 DEF Lasting, Shape, Written
  <1>4. Heard' /\ Remembered' /\ Landed' = Landed
    BY <1>1, <1>2, <1>3, ServerRests
  <1>5. spool \in SUBSET Nat /\ IsFiniteSet(spool) /\ \A l \in spool : seqs[l] \in Nat
    <2>1. spool \in SUBSET Written
      BY <1>1 DEF Place
    <2> QED BY <1>1, <2>1, SpoolIsFinite
  <1>6. Carries(inFlight, spool, seqs) /\ sent' \in 0 .. SendCap
    <2>1. sent \in 0 .. SendCap /\ sent \in Int /\ wire \in Seq(Carried)
      BY <1>1 DEF Shape
    <2> QED BY <1>2, <1>5, <2>1, ShipCarries, ShipBudget
  <1>7. PICK N \in SUBSET Flight, R \in SUBSET Carried :
            /\ inFlight' = inFlight \cup N
            /\ wire' \in Seq(Carried) /\ Elems(wire') = Elems(wire) \cup R
            /\ \A w \in R : w.lines \subseteq spool
    BY <1>6, Zenon DEF Carries
  <1>8. Shape'
    <2>1. up' \in BOOLEAN /\ announced' \in BOOLEAN
      BY <1>1, <1>2 DEF Shape
    <2>2. inFlight' \subseteq Flight
      BY <1>1, <1>7 DEF Shape
    <2> QED BY <1>1, <1>2, <1>3, <1>6, <1>7, <2>1, <2>2 DEF Shape
  <1>9. Place'
    <2>1. \A w \in Elems(wire') : w.lines \subseteq Written
      BY <1>1, <1>7 DEF Place
    <2> QED BY <1>1, <1>2, <1>3, <2>1 DEF Place, Elems
  <1>10. Answered'
    BY <1>1, <1>2, <1>3, <1>6, CarriesAnswered
  <1>11. Accounted'
    BY <1>1, <1>2, <1>3, <1>4, <1>8, AccountKept
  <1> QED BY <1>4, <1>8, <1>9, <1>10, <1>11 DEF KeepInv

LEMMA WriteKeeps ==
    ASSUME SizesAssumption, KeepInv, Write
    PROVE  KeepInv'
  <1>1. announced \in BOOLEAN /\ acks \in Seq(Ack)
    BY DEF KeepInv, Shape
  <1>2. /\ WriteLine(inFlight) /\ up' = up /\ announced' = announced /\ acks' = acks
        /\ UNCHANGED <<disk, writable, seen, loop, chain, asked>>
        /\ UNCHANGED <<stored, twice, unsaved, unlanded, forgotten, troubles>>
    BY DEF Write, serverVars
  <1> QED BY <1>1, <1>2, LineKept

LEMMA AckKeeps ==
    ASSUME SizesAssumption, KeepInv, AckArrives
    PROVE  KeepInv'
  <1>1. Shape /\ Place /\ Heard /\ Answered /\ Accounted /\ Remembered
    BY DEF KeepInv
  <1>2. PICK b \in inFlight :
            /\ b.id = Head(acks).id
            /\ IF Head(acks).accepted THEN Accepted(b) ELSE Refused(b)
    BY Zenon DEF AckArrives
  <1>3. /\ acks # <<>> /\ acks' = Tail(acks) /\ up' = up
        /\ UNCHANGED <<disk, writable, seen, loop, chain, asked>>
        /\ UNCHANGED <<stored, twice, unsaved, unlanded, forgotten, troubles>>
    BY DEF AckArrives, serverVars
  <1>4. acks \in Seq(Ack) /\ announced \in BOOLEAN
    BY <1>1 DEF Shape
  <1>5. /\ acks' \in Seq(Ack) /\ Head(acks) \in Ack /\ Head(acks) \in Elems(acks)
        /\ \A a \in Elems(acks') : a \in Elems(acks)
    BY <1>3, <1>4, ElemsTail
  <1>6. ASSUME UNCHANGED <<seqs, seq, evicted, announced, wire, sent>>, inFlight' = inFlight \ {b},
               queued' \in BOOLEAN, spool' \subseteq spool,
               \A l \in spool \ spool' : l \in Landed \/ SameSeq(l)
        PROVE  KeepInv'
    <2>1. Lasting /\ Written' = Written
      BY <1>1, <1>6 DEF Lasting, Shape, Written
    <2>2. Heard' /\ Remembered' /\ Landed' = Landed
      BY <1>1, <1>3, <2>1, ServerRests
    <2>3. Shape'
      BY <1>1, <1>3, <1>5, <1>6, <2>1 DEF Shape
    <2>4. Place'
      BY <1>1, <1>3, <1>6, <2>1 DEF Place, Elems
    <2>5. Answered'
      BY <1>1, <1>3, <1>5, <1>6, <2>2, FlightAnswered
    <2>6. Accounted'
      <3>1. \A l \in spool : l \in (spool \cup Landed \cup evicted \cup unsaved)' \/ SameSeq(l)
        BY <1>6, <2>2
      <3> QED BY <1>1, <1>3, <1>6, <2>1, <2>2, <2>3, <3>1, AccountKept
    <2> QED BY <2>2, <2>3, <2>4, <2>5, <2>6 DEF KeepInv
  <1>7. CASE Head(acks).accepted
    <2>1. Accepted(b)
      BY <1>2, <1>7
    <2>2. b.seqs \subseteq Names(seqs, Landed)
      BY <1>1, <1>2, <1>5, <1>7 DEF Answered
    <2>3. /\ spool' = {l \in spool : seqs[l] \notin b.seqs}
          /\ queued' = TRUE /\ inFlight' = inFlight \ {b}
          /\ UNCHANGED <<seqs, seq, evicted, announced, wire, sent>>
      BY <2>1 DEF Accepted
    <2>4. ASSUME NEW l \in spool \ spool' PROVE l \in Landed \/ SameSeq(l)
      <3>1. seqs[l] \in Names(seqs, Landed)
        BY <2>2, <2>3
      <3>2. PICK k \in Landed : seqs[k] = seqs[l]
        BY <3>1 DEF Names
      <3>3. k \in Written
        BY <1>1, LandedInPlace
      <3> QED BY <3>2, <3>3 DEF SameSeq
    <2> QED BY <1>6, <2>3, <2>4
  <1>8. CASE ~Head(acks).accepted /\ announced
    <2>1. /\ inFlight' = inFlight \ {b}
          /\ UNCHANGED <<seqs, seq, spool, evicted, queued, announced, wire, sent>>
      BY <1>2, <1>8 DEF Refused
    <2>2. queued' \in BOOLEAN
      BY <1>1, <2>1 DEF Shape
    <2> QED BY <1>6, <2>1, <2>2
  <1>9. CASE ~Head(acks).accepted /\ ~announced
    <2>1. announced' = TRUE /\ WriteLine(inFlight \ {b})
      BY <1>2, <1>9 DEF Refused
    <2> QED BY <1>3, <1>5, <2>1, LineKept
  <1> QED BY <1>7, <1>8, <1>9

-----------------------------------------------------------------------------
(* Sockets that die and processes that start again *)

LEMMA CutAnswers ==
    ASSUME inFlight' = {}
    PROVE  Answered'
  BY DEF Answered

LEMMA BoxRestartKeeps ==
    ASSUME SizesAssumption, BoundsAssumption, KeepInv, Drop \/ AgentRestart
    PROVE  KeepInv'
  <1>1. Shape /\ Place /\ Heard /\ Answered /\ Accounted /\ Remembered
    BY DEF KeepInv
  <1>2. /\ up' = FALSE /\ inFlight' = {} /\ wire' = <<>> /\ acks' = <<>> /\ asked' = {}
        /\ troubles < MaxTroubles /\ troubles' = troubles + 1
        /\ UNCHANGED <<seqs, announced, writable, seen, loop, chain>>
        /\ UNCHANGED <<stored, twice, evicted, unlanded, forgotten>>
        /\ sent' \in {sent, 0} /\ queued' \in {queued, FALSE}
    BY DEF Drop, AgentRestart, Hangup, historyVars
  <1>3. Lasting /\ Written' = Written
    BY <1>1, <1>2 DEF Lasting, Shape, Written
  <1>4. /\ spool' \subseteq Written /\ disk' \subseteq Written /\ seq' \in 0 .. Len(seqs)
        /\ unsaved' = unsaved \cup (spool \ spool')
    <2>1. CASE Drop
      <3>1. UNCHANGED <<spool, disk, seq, unsaved>>
        BY <2>1 DEF Drop, historyVars
      <3> QED BY <1>1, <3>1 DEF Place, Shape
    <2>2. CASE AgentRestart
      <3>1. /\ \/ /\ spool' \in {disk, {}}
                  /\ seq' = Started(spool')
               \/ \E cut \in spool :
                     /\ spool' = {l \in spool : l < cut}
                     /\ seq' \in {0, Started(spool')}
            /\ disk' = spool'
            /\ unsaved' = unsaved \cup (spool \ spool')
        BY <2>2 DEF AgentRestart
      <3>2. spool' \in SUBSET Written
        BY <1>1, <3>1 DEF Place
      <3>3. PICK S \in SUBSET Written : S = spool'
        BY <3>2
      <3>4. Started(S) \in 0 .. Len(seqs)
        BY <1>1, StartedBound
      <3>5. 0 \in 0 .. Len(seqs)
        BY <1>1 DEF Shape
      <3> QED BY <3>1, <3>3, <3>4, <3>5
    <2> QED BY <2>1, <2>2
  <1>5. Elems(<<>>) = {} /\ <<>> \in Seq(Carried) /\ <<>> \in Seq(Ack)
    BY ElemsEmpty
  <1>6. Shape'
    <2>1. sent' \in 0 .. SendCap
      BY <1>1, <1>2 DEF Shape, SizesAssumption
    <2>2. queued' \in BOOLEAN
      BY <1>1, <1>2, Zenon DEF Shape
    <2>3. troubles' \in 0 .. MaxTroubles
      BY <1>1, <1>2 DEF Shape, BoundsAssumption
    <2> QED BY <1>1, <1>2, <1>3, <1>4, <1>5, <2>1, <2>2, <2>3 DEF Shape
  <1>7. Place'
    <2>1. (spool \cup disk \cup loop.left \cup loop.fresh)' \subseteq Written'
      BY <1>1, <1>2, <1>3, <1>4 DEF Place
    <2>2. (stored \cup twice \cup evicted \cup unsaved \cup unlanded)' \subseteq Written'
      BY <1>1, <1>2, <1>3, <1>4 DEF Place
    <2>3. Elems(wire)' = {} /\ Elems(chain)' = Elems(chain)
      BY <1>2, <1>5 DEF Elems
    <2> QED BY <1>1, <1>3, <2>1, <2>2, <2>3 DEF Place
  <1>8. Heard' /\ Remembered' /\ Landed' = Landed
    BY <1>1, <1>2, <1>3, ServerRests
  <1>9. Answered'
    BY <1>2, CutAnswers
  <1>10. Accounted'
    <2>1. \A l \in spool : l \in (spool \cup Landed \cup evicted \cup unsaved)'
      BY <1>4
    <2> QED BY <1>1, <1>2, <1>3, <1>4, <1>6, <1>8, <2>1, AccountKept
  <1> QED BY <1>6, <1>7, <1>8, <1>9, <1>10 DEF KeepInv

LEMMA ServerRestartKeeps ==
    ASSUME SizesAssumption, BoundsAssumption, KeepInv, ServerRestart \/ Mend
    PROVE  KeepInv'
  <1>1. Shape /\ Place /\ Heard /\ Answered /\ Accounted /\ Remembered
    BY DEF KeepInv
  <1>2. /\ up' = FALSE /\ inFlight' = {} /\ wire' = <<>> /\ acks' = <<>> /\ asked' = {}
        /\ seen' = {} /\ loop' = NoLoop /\ chain' = <<>>
        /\ unlanded' = unlanded \cup Pending /\ forgotten' = forgotten \cup seen
        /\ UNCHANGED <<seqs, spool, disk, queued, seq, announced, sent, stored, twice, evicted, unsaved>>
    BY DEF ServerRestart, Mend, NewServer, Hangup
  <1>3. writable' \in BOOLEAN /\ troubles' \in 0 .. MaxTroubles
    <2>1. CASE ServerRestart
      BY <1>1, <2>1 DEF ServerRestart, Shape, BoundsAssumption
    <2>2. CASE Mend
      BY <1>1, <2>2 DEF Mend, Shape
    <2> QED BY <2>1, <2>2
  <1>4. Lasting /\ Written' = Written
    BY <1>1, <1>2 DEF Lasting, Shape, Written
  <1>5. /\ Elems(<<>>) = {} /\ <<>> \in Seq(Carried) /\ <<>> \in Seq(Ack) /\ Len(<<>>) = 0
        /\ NoLoop \in Loop /\ NoLoop.left = {} /\ NoLoop.fresh = {}
    BY ElemsEmpty DEF NoLoop, Loop
  <1>6. Pending' = {} /\ Landed' = Landed
    <2>1. Pending' = {}
      BY <1>2, PendingIsDue, DueNothing
    <2> QED BY <1>2, <2>1 DEF Landed
  <1>7. Landed \subseteq Written /\ Pending \subseteq Written
    BY <1>1, LandedInPlace
  <1>8. Shape'
    BY <1>1, <1>2, <1>3, <1>4, <1>5 DEF Shape
  <1>9. Place'
    <2>1. (spool \cup disk \cup loop.left \cup loop.fresh)' \subseteq Written'
      BY <1>1, <1>2, <1>4, <1>5 DEF Place
    <2>2. (stored \cup twice \cup evicted \cup unsaved \cup unlanded)' \subseteq Written'
      BY <1>1, <1>2, <1>4, <1>7 DEF Place
    <2>3. Elems(wire)' = {} /\ Elems(chain)' = {}
      BY <1>2, <1>5 DEF Elems
    <2> QED BY <2>1, <2>2, <2>3 DEF Place
  <1>10. Heard'
    BY <1>2 DEF Heard
  <1>11. Remembered'
    <2>1. \A l \in stored' \cup Pending' : seqs'[l] \in seen' \cup forgotten'
      BY <1>1, <1>2, <1>6 DEF Remembered
    <2>2. Lapsed(twice)' /\ Lapsed(loop.fresh \cap stored)'
      BY <1>1, <1>2, <1>5 DEF Remembered, Lapsed
    <2>3. 1 .. Len(chain') = {}
      BY <1>2, <1>5
    <2> QED BY <2>1, <2>2, <2>3 DEF Remembered
  <1>12. Answered'
    BY <1>2, CutAnswers
  <1>13. Accounted'
    BY <1>1, <1>2, <1>4, <1>6, <1>8, AccountKept
  <1> QED BY <1>8, <1>9, <1>10, <1>11, <1>12, <1>13 DEF KeepInv

-----------------------------------------------------------------------------
(* The server's steps on any day *)

LEMMA AnswerAdds ==
    ASSUME acks \in Seq(Ack), NEW id \in BatchId, NEW v \in BOOLEAN, Answer(id, v)
    PROVE  /\ acks' \in Seq(Ack) /\ asked' \subseteq asked
           /\ \A a \in Elems(acks') : a \in Elems(acks) \/ (a.id = id /\ (a.accepted => v))
  <1> DEFINE r == [id |-> id, accepted |-> v]
  <1>1. r \in Ack /\ r.id = id /\ r.accepted = v
    BY DEF Ack
  <1>2. /\ acks' = IF id \in asked THEN Append(acks, r) ELSE acks
        /\ asked' = asked \ {id}
    BY DEF Answer
  <1> HIDE DEF r
  <1>3. Append(acks, r) \in Seq(Ack) /\ Elems(Append(acks, r)) = Elems(acks) \cup {r}
    BY <1>1, ElemsAppend
  <1>4. CASE id \in asked
    <2>1. acks' = Append(acks, r)
      BY <1>2, <1>4
    <2>2. \A a \in Elems(acks') : a \in Elems(acks) \/ a = r
      BY <1>3, <2>1
    <2>3. r.accepted => v
      BY <1>1
    <2> QED BY <1>1, <1>2, <1>3, <2>1, <2>2, <2>3
  <1>5. CASE id \notin asked
    BY <1>2, <1>5
  <1> QED BY <1>4, <1>5

(* What a step of the server alone has to show. *)
LEMMA ServerKeeps ==
    ASSUME SizesAssumption, KeepInv, UNCHANGED boxVars, UNCHANGED <<writable, evicted, unsaved, troubles>>,
           wire' \in Seq(Carried), chain' \in Seq(Carried), acks' \in Seq(Ack),
           loop' \in Loop, asked' \subseteq BatchId, seen' \subseteq Nat, forgotten' \subseteq Nat,
           loop'.left \cup loop'.fresh \cup stored' \cup twice' \cup unlanded' \subseteq Written,
           \A w \in Elems(wire') : w.lines \subseteq Written,
           \A c \in Elems(chain') : c.lines \subseteq Written,
           Landed \subseteq Landed', Heard', Answered', Remembered'
    PROVE  KeepInv'
  <1>1. Shape /\ Place /\ Accounted
    BY DEF KeepInv
  <1>2. UNCHANGED <<seqs, spool, disk, queued, seq, inFlight, up, announced, sent>>
    BY DEF boxVars
  <1>3. Lasting /\ Written' = Written
    BY <1>1, <1>2 DEF Lasting, Shape, Written
  <1>4. Shape'
    BY <1>1, <1>2, <1>3 DEF Shape
  <1>5. Place'
    <2>1. Elems(wire)' = Elems(wire') /\ Elems(chain)' = Elems(chain')
      BY DEF Elems
    <2> QED BY <1>1, <1>2, <1>3, <2>1 DEF Place
  <1>6. Accounted'
    BY <1>1, <1>2, <1>3, <1>4, AccountKept
  <1> QED BY <1>4, <1>5, <1>6 DEF KeepInv

LEMMA ReceiveKeeps ==
    ASSUME SizesAssumption, KeepInv, Receive
    PROVE  KeepInv'
  <1>1. Shape /\ Place /\ Heard /\ Answered /\ Accounted /\ Remembered
    BY DEF KeepInv
  <1> DEFINE b == Head(wire)
             p == [id |-> {b.id}, left |-> b.lines, fresh |-> {}]
             r == [id |-> b.id, accepted |-> FALSE]
  <1>2. /\ loop = NoLoop /\ wire # <<>> /\ wire' = Tail(wire)
        /\ UNCHANGED boxVars /\ UNCHANGED <<writable, evicted, unsaved, troubles>>
        /\ UNCHANGED <<seqs, inFlight, seen, chain, stored, twice, unlanded, forgotten>>
        /\ \/ loop' = p /\ asked' = asked \cup {b.id} /\ acks' = acks
           \/ loop' = loop /\ asked' = asked /\ acks' = Append(acks, r)
    BY DEF Receive, boxVars, historyVars
  <1>3. /\ wire \in Seq(Carried) /\ acks \in Seq(Ack) /\ loop \in Loop /\ chain \in Seq(Carried)
        /\ asked \subseteq BatchId /\ seen \subseteq Nat /\ forgotten \subseteq Nat
    BY <1>1 DEF Shape
  <1>4. /\ wire' \in Seq(Carried) /\ b \in Carried /\ b \in Elems(wire)
        /\ \A w \in Elems(wire') : w \in Elems(wire)
    BY <1>2, <1>3, ElemsTail
  <1>5. b.id \in BatchId /\ b.lines \subseteq Nat /\ b.lines \subseteq Written
    BY <1>1, <1>4 DEF Carried, Place
  <1> HIDE DEF b
  <1>6. /\ p \in Loop /\ p.id = {b.id} /\ p.left = b.lines /\ p.fresh = {}
        /\ r \in Ack /\ r.accepted = FALSE
        /\ NoLoop.id = {} /\ NoLoop.left = {} /\ NoLoop.fresh = {}
    BY <1>5 DEF Loop, Ack, NoLoop
  <1> HIDE DEF p, r
  <1>7. /\ loop' \in Loop /\ loop'.fresh = {} /\ loop.fresh = {}
        /\ loop'.left \subseteq Written /\ asked' \subseteq BatchId
        /\ \A i \in loop'.id : i = b.id /\ loop'.left = b.lines
    BY <1>2, <1>3, <1>5, <1>6
  <1>8. /\ acks' \in Seq(Ack) /\ \A a \in Elems(acks') : a.accepted => a \in Elems(acks)
    <2>1. /\ Append(acks, r) \in Seq(Ack) /\ Elems(Append(acks, r)) = Elems(acks) \cup {r}
      BY <1>3, <1>6, ElemsAppend
    <2>2. CASE acks' = acks
      BY <1>3, <2>2
    <2>3. CASE acks' = Append(acks, r)
      BY <1>6, <2>1, <2>3
    <2> QED BY <1>2, <2>2, <2>3
  <1>9. Pending' = Pending /\ Landed' = Landed
    <2>1. Pending' = Pending
      BY <1>2, <1>7, PendingIsDue DEF Due
    <2> QED BY <1>2, <2>1 DEF Landed
  <1>10. Heard'
    BY <1>1, <1>2, <1>9 DEF Heard
  <1>11. Answered'
    <2>1. ASSUME NEW f \in inFlight
          PROVE  /\ \A w \in Elems(wire') : w.id = f.id => f.seqs \subseteq Names(seqs', w.lines)
                 /\ f.id \in loop'.id => f.seqs \subseteq Names(seqs', Landed' \cup loop'.left)
                 /\ \A c \in Elems(chain) : c.id = f.id => f.seqs \subseteq Names(seqs', Landed')
                 /\ \A a \in Elems(acks') : a.id = f.id /\ a.accepted => f.seqs \subseteq Names(seqs', Landed')
      <3>1. /\ \A w \in Elems(wire) : w.id = f.id => f.seqs \subseteq Names(seqs, w.lines)
            /\ \A c \in Elems(chain) : c.id = f.id => f.seqs \subseteq Names(seqs, Landed)
            /\ \A a \in Elems(acks) : a.id = f.id /\ a.accepted => f.seqs \subseteq Names(seqs, Landed)
        BY <1>1 DEF Answered
      <3>2. f.id \in loop'.id => f.seqs \subseteq Names(seqs', Landed' \cup loop'.left)
        <4> SUFFICES ASSUME f.id \in loop'.id PROVE f.seqs \subseteq Names(seqs', Landed' \cup loop'.left)
          OBVIOUS
        <4>1. f.seqs \subseteq Names(seqs, b.lines) /\ loop'.left = b.lines
          BY <1>4, <1>7, <3>1
        <4> QED BY <1>2, <4>1 DEF Names
      <3> QED BY <1>2, <1>4, <1>8, <1>9, <3>1, <3>2
    <2>2. inFlight' = inFlight /\ Elems(chain)' = Elems(chain) /\ Elems(wire)' = Elems(wire') /\ Elems(acks)' = Elems(acks')
      BY <1>2 DEF Elems
    <2> QED BY <2>1, <2>2 DEF Answered
  <1>12. Remembered'
    BY <1>1, <1>2, <1>7, <1>9 DEF Remembered, Lapsed
  <1>13. \A c \in Elems(chain') : c.lines \subseteq Written
    BY <1>1, <1>2 DEF Place
  <1>14. \A w \in Elems(wire') : w.lines \subseteq Written
    BY <1>1, <1>4 DEF Place
  <1>15. loop'.left \cup loop'.fresh \cup stored' \cup twice' \cup unlanded' \subseteq Written
    BY <1>1, <1>2, <1>7 DEF Place
  <1> QED BY <1>2, <1>3, <1>4, <1>7, <1>8, <1>9, <1>10, <1>11, <1>12, <1>13, <1>14, <1>15, ServerKeeps

LEMMA SiftKeeps ==
    ASSUME SizesAssumption, KeepInv, Sift
    PROVE  KeepInv'
  <1>1. Shape /\ Place /\ Heard /\ Answered /\ Accounted /\ Remembered
    BY DEF KeepInv
  <1>2. /\ UNCHANGED boxVars /\ UNCHANGED <<writable, evicted, unsaved, troubles>>
        /\ UNCHANGED <<seqs, inFlight, wire, acks, chain, asked, stored, twice, unlanded>>
    BY DEF Sift, boxVars
  <1>3. PICK l \in loop.left :
            IF seqs[l] \in seen
            THEN /\ loop' = [loop EXCEPT !.left = @ \ {l}]
                 /\ UNCHANGED <<seen, forgotten>>
            ELSE /\ loop' = [loop EXCEPT !.left = @ \ {l}, !.fresh = @ \cup {l}]
                 /\ seen' = Remember(seqs[l])
                 /\ forgotten' = forgotten \cup ((seen \cup {seqs[l]}) \ seen')
    BY Zenon DEF Sift
  <1>4. /\ wire \in Seq(Carried) /\ acks \in Seq(Ack) /\ loop \in Loop /\ chain \in Seq(Carried)
        /\ asked \subseteq BatchId /\ seen \subseteq Nat /\ forgotten \subseteq Nat
    BY <1>1 DEF Shape
  <1>5. l \in Written /\ l \in Nat /\ seqs[l] \in Nat
    BY <1>1 DEF Place, Shape, Loop
  <1>6. /\ loop' \in Loop /\ loop'.id = loop.id /\ loop'.left = loop.left \ {l}
        /\ loop'.fresh = IF seqs[l] \in seen THEN loop.fresh ELSE loop.fresh \cup {l}
    <2>1. CASE seqs[l] \in seen
      BY <1>3, <1>4, <2>1 DEF Loop
    <2>2. CASE seqs[l] \notin seen
      <3>1. loop' = [loop EXCEPT !.left = @ \ {l}, !.fresh = @ \cup {l}]
        BY <1>3, <2>2
      <3>2. loop'.id = loop.id /\ loop'.left = loop.left \ {l} /\ loop'.fresh = loop.fresh \cup {l}
        BY <1>4, <3>1 DEF Loop
      <3>3. loop' = [id |-> loop'.id, left |-> loop'.left, fresh |-> loop'.fresh]
        BY <1>4, <3>1 DEF Loop
      <3>4. loop.id \subseteq BatchId /\ loop.left \subseteq Nat /\ loop.fresh \subseteq Nat
        BY <1>4 DEF Loop
      <3>5. loop' \in Loop
        BY <1>5, <3>2, <3>3, <3>4 DEF Loop
      <3> QED BY <2>2, <3>2, <3>5
    <2> QED BY <2>1, <2>2
  <1>7. seen' \cup forgotten' = seen \cup forgotten \cup (IF seqs[l] \in seen THEN {} ELSE {seqs[l]})
        /\ forgotten \subseteq forgotten' /\ seen' \subseteq seen \cup {seqs[l]}
    <2>1. Remember(seqs[l]) \subseteq seen \cup {seqs[l]}
      BY DEF Remember
    <2>2. CASE seqs[l] \in seen
      BY <1>3, <2>2
    <2>3. CASE seqs[l] \notin seen
      <3>1. seen' \subseteq seen \cup {seqs[l]} /\ forgotten' = forgotten \cup ((seen \cup {seqs[l]}) \ seen')
        BY <1>3, <2>1, <2>3
      <3> QED BY <2>3, <3>1
    <2> QED BY <2>2, <2>3
  <1>8. Pending' = Pending \cup (IF seqs[l] \in seen THEN {} ELSE {l})
    BY <1>2, <1>6, PendingIsDue DEF Due
  <1>9. Landed' = Landed \cup (IF seqs[l] \in seen THEN {} ELSE {l})
    BY <1>2, <1>8 DEF Landed
  <1>10. /\ Names(seqs, Landed) \subseteq Names(seqs', Landed') /\ seqs[l] \in Names(seqs', Landed')
         /\ Names(seqs, Landed \cup loop.left) \subseteq Names(seqs', Landed' \cup loop'.left)
    <2>1. seqs' = seqs /\ Landed \subseteq Landed' /\ loop.left \subseteq loop'.left \cup {l}
      BY <1>2, <1>6, <1>9
    <2>2. seqs[l] \in Names(seqs, Landed')
      <3>1. CASE seqs[l] \in seen
        BY <1>1, <1>9, <3>1 DEF Heard
      <3>2. CASE seqs[l] \notin seen
        <4>1. l \in Landed'
          BY <1>9, <3>2
        <4> QED BY <4>1 DEF Names
      <3> QED BY <3>1, <3>2
    <2>3. Names(seqs, Landed) \subseteq Names(seqs, Landed')
      BY <2>1 DEF Names
    <2>4. ASSUME NEW k \in Landed \cup loop.left PROVE seqs[k] \in Names(seqs, Landed' \cup loop'.left)
      <3>1. CASE k = l
        BY <2>2, <3>1 DEF Names
      <3>2. CASE k # l
        <4>1. k \in Landed' \cup loop'.left
          BY <2>1, <3>2
        <4> QED BY <4>1 DEF Names
      <3> QED BY <3>1, <3>2
    <2>5. Names(seqs, Landed \cup loop.left) \subseteq Names(seqs, Landed' \cup loop'.left)
      <3> HIDE <2>1
      <3>1. \A n \in Names(seqs, Landed \cup loop.left) : \E k \in Landed \cup loop.left : n = seqs[k]
        BY DEF Names
      <3> QED BY <2>4, <3>1
    <2> QED BY <2>1, <2>2, <2>3, <2>5
  <1>11. Heard'
    BY <1>1, <1>7, <1>10 DEF Heard
  <1>12. Answered'
    <2>1. ASSUME NEW f \in inFlight
          PROVE  /\ \A w \in Elems(wire) : w.id = f.id => f.seqs \subseteq Names(seqs', w.lines)
                 /\ f.id \in loop'.id => f.seqs \subseteq Names(seqs', Landed' \cup loop'.left)
                 /\ \A c \in Elems(chain) : c.id = f.id => f.seqs \subseteq Names(seqs', Landed')
                 /\ \A a \in Elems(acks) : a.id = f.id /\ a.accepted => f.seqs \subseteq Names(seqs', Landed')
      <3>1. /\ \A w \in Elems(wire) : w.id = f.id => f.seqs \subseteq Names(seqs, w.lines)
            /\ f.id \in loop.id => f.seqs \subseteq Names(seqs, Landed \cup loop.left)
            /\ \A c \in Elems(chain) : c.id = f.id => f.seqs \subseteq Names(seqs, Landed)
            /\ \A a \in Elems(acks) : a.id = f.id /\ a.accepted => f.seqs \subseteq Names(seqs, Landed)
        BY <1>1 DEF Answered
      <3>2. \A w \in Elems(wire) : w.id = f.id => f.seqs \subseteq Names(seqs', w.lines)
        BY <1>2, <3>1
      <3>3. f.id \in loop'.id => f.seqs \subseteq Names(seqs', Landed' \cup loop'.left)
        BY <1>6, <1>10, <3>1
      <3> QED BY <1>10, <3>1, <3>2, <3>3
    <2>2. /\ inFlight' = inFlight /\ Elems(chain)' = Elems(chain)
          /\ Elems(wire)' = Elems(wire) /\ Elems(acks)' = Elems(acks)
      BY <1>2 DEF Elems
    <2> QED BY <2>1, <2>2 DEF Answered
  <1>13. Remembered'
    <2>1. seqs' = seqs /\ stored' = stored /\ twice' = twice /\ chain' = chain
      BY <1>2
    <2>2. \A k \in stored' \cup Pending' : seqs'[k] \in seen' \cup forgotten'
      BY <1>1, <1>7, <1>8, <2>1 DEF Remembered
    <2>3. l \in stored \cup Pending /\ seqs[l] \notin seen => seqs[l] \in forgotten'
      BY <1>1, <1>7 DEF Remembered
    <2>4. ASSUME NEW L, L \subseteq stored \cup Pending, Lapsed(L \cap loop.fresh)
          PROVE  \A k \in L \cap loop'.fresh : seqs[k] \in forgotten'
      BY <1>6, <1>7, <2>3, <2>4 DEF Lapsed
    <2>5. \A k \in twice : seqs[k] \in forgotten'
      BY <1>1, <1>7 DEF Remembered, Lapsed
    <2>6. \A k \in loop'.fresh \cap stored : seqs[k] \in forgotten'
      BY <1>1, <2>4 DEF Remembered, Lapsed
    <2>7. ASSUME NEW i \in 1 .. Len(chain)
          PROVE  /\ \A k \in chain[i].lines \cap stored : seqs[k] \in forgotten'
                 /\ \A k \in chain[i].lines \cap loop'.fresh : seqs[k] \in forgotten'
                 /\ \A j \in 1 .. i - 1 : \A k \in chain[i].lines \cap chain[j].lines : seqs[k] \in forgotten'
      <3>1. chain[i].lines \subseteq stored \cup Pending
        <4>1. chain[i] \in Elems(chain)
          BY DEF Elems
        <4> QED BY <4>1 DEF Pending
      <3>2. /\ Lapsed(chain[i].lines \cap stored)
            /\ Lapsed(chain[i].lines \cap loop.fresh)
            /\ \A j \in 1 .. i - 1 : Lapsed(chain[i].lines \cap chain[j].lines)
        BY <1>1 DEF Remembered
      <3>3. \A k \in chain[i].lines \cap loop'.fresh : seqs[k] \in forgotten'
        BY <2>4, <3>1, <3>2
      <3> QED BY <1>7, <3>2, <3>3 DEF Lapsed
    <2> QED BY <2>1, <2>2, <2>5, <2>6, <2>7 DEF Remembered, Lapsed
  <1>14. /\ wire' \in Seq(Carried) /\ chain' \in Seq(Carried) /\ acks' \in Seq(Ack)
         /\ asked' \subseteq BatchId /\ seen' \subseteq Nat /\ forgotten' \subseteq Nat
    BY <1>2, <1>4, <1>5, <1>7
  <1>15. /\ \A w \in Elems(wire') : w.lines \subseteq Written
         /\ \A c \in Elems(chain') : c.lines \subseteq Written
         /\ loop'.left \cup loop'.fresh \cup stored' \cup twice' \cup unlanded' \subseteq Written
    BY <1>1, <1>2, <1>5, <1>6 DEF Place
  <1> QED BY <1>2, <1>6, <1>9, <1>11, <1>12, <1>13, <1>14, <1>15, ServerKeeps

LEMMA EnqueueKeeps ==
    ASSUME SizesAssumption, KeepInv, Enqueue
    PROVE  KeepInv'
  <1>1. Shape /\ Place /\ Heard /\ Answered /\ Accounted /\ Remembered
    BY DEF KeepInv
  <1>2. /\ UNCHANGED boxVars /\ UNCHANGED <<writable, evicted, unsaved, troubles>>
        /\ UNCHANGED <<seqs, inFlight, wire, seen, stored, twice, unlanded, forgotten>>
        /\ loop.left = {} /\ loop' = NoLoop
    BY DEF Enqueue, boxVars, historyVars
  <1>3. PICK id \in loop.id :
            IF loop.fresh = {}
            THEN Answer(id, TRUE) /\ chain' = chain
            ELSE /\ chain' = Append(chain, [id |-> id, lines |-> loop.fresh])
                 /\ acks' = acks /\ asked' = asked
    BY Zenon DEF Enqueue
  <1>4. /\ wire \in Seq(Carried) /\ acks \in Seq(Ack) /\ loop \in Loop /\ chain \in Seq(Carried)
        /\ asked \subseteq BatchId /\ seen \subseteq Nat /\ forgotten \subseteq Nat
    BY <1>1 DEF Shape
  <1>5. /\ id \in BatchId /\ loop.fresh \subseteq Nat /\ loop.fresh \subseteq Written
        /\ NoLoop \in Loop /\ NoLoop.left = {} /\ NoLoop.id = {} /\ NoLoop.fresh = {}
    BY <1>1, <1>4 DEF Loop, NoLoop, Place
  <1> DEFINE c == [id |-> id, lines |-> loop.fresh]
  <1>6. c \in Carried /\ c.lines = loop.fresh /\ c.id = id
    BY <1>5 DEF Carried
  <1>7. \/ chain' = chain /\ loop.fresh = {}
        \/ chain' = Append(chain, c)
    BY <1>3
  <1> HIDE DEF c
  <1>8. /\ chain' \in Seq(Carried) /\ Pending' = Pending
        /\ \A d \in Elems(chain') : d \in Elems(chain) \/ d = c
    <2>1. CASE chain' = chain /\ loop.fresh = {}
      <3>1. Due(NoLoop, chain) = Due(loop, chain)
        BY <1>5, <2>1 DEF Due
      <3> QED BY <1>2, <1>4, <2>1, <3>1, PendingIsDue
    <2>2. CASE chain' = Append(chain, c)
      <3>1. Append(chain, c) \in Seq(Carried) /\ Elems(Append(chain, c)) = Elems(chain) \cup {c}
        BY <1>4, <1>6, ElemsAppend
      <3>2. Due(NoLoop, Append(chain, c)) = Due(loop, chain)
        BY <1>4, <1>6, DueAppend
      <3> QED BY <1>2, <2>2, <3>1, <3>2, PendingIsDue
    <2> QED BY <1>7, <2>1, <2>2
  <1>9. Landed' = Landed
    BY <1>2, <1>8 DEF Landed
  <1>10. /\ acks' \in Seq(Ack) /\ asked' \subseteq BatchId
         /\ \A a \in Elems(acks') : a \in Elems(acks) \/ a.id = id
    <2>1. CASE loop.fresh = {}
      <3>1. Answer(id, TRUE)
        BY <1>3, <2>1
      <3>2. /\ acks' \in Seq(Ack) /\ asked' \subseteq asked
            /\ \A a \in Elems(acks') : a \in Elems(acks) \/ (a.id = id /\ (a.accepted => TRUE))
        BY <1>4, <1>5, <3>1, AnswerAdds
      <3> QED BY <1>4, <3>2
    <2>2. CASE loop.fresh # {}
      BY <1>3, <1>4, <2>2
    <2> QED BY <2>1, <2>2
  <1>11. Heard'
    BY <1>1, <1>2, <1>9 DEF Heard
  <1>12. Answered'
    <2>1. ASSUME NEW f \in inFlight
          PROVE  /\ \A w \in Elems(wire) : w.id = f.id => f.seqs \subseteq Names(seqs, w.lines)
                 /\ \A d \in Elems(chain') : d.id = f.id => f.seqs \subseteq Names(seqs, Landed)
                 /\ \A a \in Elems(acks') : a.id = f.id /\ a.accepted => f.seqs \subseteq Names(seqs, Landed)
      <3>1. /\ \A w \in Elems(wire) : w.id = f.id => f.seqs \subseteq Names(seqs, w.lines)
            /\ f.id \in loop.id => f.seqs \subseteq Names(seqs, Landed \cup loop.left)
            /\ \A d \in Elems(chain) : d.id = f.id => f.seqs \subseteq Names(seqs, Landed)
            /\ \A a \in Elems(acks) : a.id = f.id /\ a.accepted => f.seqs \subseteq Names(seqs, Landed)
        BY <1>1 DEF Answered
      <3>2. Landed \cup loop.left = Landed
        BY <1>2
      <3>3. id = f.id => f.seqs \subseteq Names(seqs, Landed)
        BY <1>3, <3>1, <3>2
      <3> QED BY <1>6, <1>8, <1>10, <3>1, <3>3
    <2>2. /\ inFlight' = inFlight /\ Elems(chain)' = Elems(chain') /\ seqs' = seqs
          /\ Elems(wire)' = Elems(wire) /\ Elems(acks)' = Elems(acks') /\ \A f : f.id \notin loop'.id
      BY <1>2, <1>5 DEF Elems
    <2> QED BY <1>9, <2>1, <2>2 DEF Answered
  <1>13. Remembered'
    <2>1. \A k \in stored' \cup Pending' : seqs'[k] \in seen' \cup forgotten'
      BY <1>1, <1>2, <1>8 DEF Remembered
    <2>2. /\ \A k \in twice : seqs[k] \in forgotten
          /\ \A k \in loop'.fresh \cap stored : seqs[k] \in forgotten
      BY <1>1, <1>2, <1>5 DEF Remembered, Lapsed
    <2>3. ASSUME NEW i \in 1 .. Len(chain')
          PROVE  /\ \A k \in chain'[i].lines \cap stored : seqs[k] \in forgotten
                 /\ \A j \in 1 .. i - 1 : \A k \in chain'[i].lines \cap chain'[j].lines : seqs[k] \in forgotten
      <3>1. CASE chain' = chain
        BY <1>1, <2>3, <3>1 DEF Remembered, Lapsed
      <3>2. CASE chain' = Append(chain, c)
        <4>1. /\ Len(chain) \in Nat /\ Len(chain') = Len(chain) + 1 /\ chain'[Len(chain) + 1] = c
              /\ \A j \in 1 .. Len(chain) : chain'[j] = chain[j]
          BY <1>4, <1>6, <3>2
        <4>2. CASE i = Len(chain) + 1
          <5>1. chain'[i].lines = loop.fresh /\ i - 1 = Len(chain)
            BY <1>6, <4>1, <4>2
          <5>2. \A k \in loop.fresh \cap stored : seqs[k] \in forgotten
            BY <1>1 DEF Remembered, Lapsed
          <5>3. ASSUME NEW j \in 1 .. Len(chain) PROVE \A k \in loop.fresh \cap chain'[j].lines : seqs[k] \in forgotten
            <6>1. Lapsed(chain[j].lines \cap loop.fresh) /\ chain'[j] = chain[j]
              BY <1>1, <4>1 DEF Remembered
            <6> QED BY <6>1 DEF Lapsed
          <5> QED BY <5>1, <5>2, <5>3
        <4>3. CASE i # Len(chain) + 1
          <5>1. i \in 1 .. Len(chain) /\ \A j \in 1 .. i - 1 : j \in 1 .. Len(chain)
            BY <4>1, <4>3
          <5>2. /\ Lapsed(chain[i].lines \cap stored)
                /\ \A j \in 1 .. i - 1 : Lapsed(chain[i].lines \cap chain[j].lines)
            BY <1>1, <5>1 DEF Remembered
          <5> QED BY <4>1, <5>1, <5>2 DEF Lapsed
        <4> QED BY <4>2, <4>3
      <3> QED BY <1>7, <3>1, <3>2
    <2>4. ASSUME NEW i \in 1 .. Len(chain')
          PROVE  /\ \A k \in chain'[i].lines \cap stored' : seqs'[k] \in forgotten'
                 /\ \A k \in chain'[i].lines \cap loop'.fresh : seqs'[k] \in forgotten'
                 /\ \A j \in 1 .. i - 1 : \A k \in chain'[i].lines \cap chain'[j].lines : seqs'[k] \in forgotten'
      BY <1>2, <1>5, <2>3
    <2>5. /\ \A k \in twice' : seqs'[k] \in forgotten'
          /\ \A k \in loop'.fresh \cap stored' : seqs'[k] \in forgotten'
      BY <1>2, <2>2
    <2> QED BY <2>1, <2>4, <2>5 DEF Remembered, Lapsed
  <1>14. \A w \in Elems(wire') : w.lines \subseteq Written
    BY <1>1, <1>2 DEF Place
  <1>15. \A d \in Elems(chain') : d.lines \subseteq Written
    BY <1>1, <1>5, <1>6, <1>8 DEF Place
  <1>16. loop'.left \cup loop'.fresh \cup stored' \cup twice' \cup unlanded' \subseteq Written
    BY <1>1, <1>2, <1>5 DEF Place
  <1> QED BY <1>2, <1>4, <1>5, <1>8, <1>9, <1>10, <1>11, <1>12, <1>13, <1>14, <1>15, <1>16, ServerKeeps

(* An append that is done, or fails, is answered so. *)
LEMMA LandKeeps ==
    ASSUME SizesAssumption, KeepInv, Land \/ LandFails
    PROVE  KeepInv'
  <1>1. Shape /\ Place /\ Heard /\ Answered /\ Accounted /\ Remembered
    BY DEF KeepInv
  <1> DEFINE b == Head(chain)
  <1>2. /\ loop = NoLoop /\ chain # <<>> /\ chain' = Tail(chain)
        /\ UNCHANGED boxVars /\ UNCHANGED <<writable, evicted, unsaved, troubles>>
        /\ UNCHANGED <<seqs, inFlight, wire, seen, loop, forgotten>>
    BY DEF Land, LandFails, boxVars
  <1>3. PICK v \in BOOLEAN :
            /\ Answer(b.id, v)
            /\ IF v THEN /\ stored' = stored \cup b.lines
                         /\ twice' = twice \cup (stored \cap b.lines)
                         /\ unlanded' = unlanded
                    ELSE /\ unlanded' = unlanded \cup b.lines
                         /\ stored' = stored /\ twice' = twice
    <2>1. CASE Land
      <3>1. /\ Answer(b.id, TRUE) /\ stored' = stored \cup b.lines
            /\ twice' = twice \cup (stored \cap b.lines) /\ unlanded' = unlanded
        BY <2>1 DEF Land
      <3> QED BY <3>1, Zenon
    <2>2. CASE LandFails
      <3>1. /\ Answer(b.id, FALSE) /\ unlanded' = unlanded \cup b.lines
            /\ stored' = stored /\ twice' = twice
        BY <2>2 DEF LandFails
      <3> QED BY <3>1, Zenon
    <2> QED BY <2>1, <2>2
  <1>4. /\ wire \in Seq(Carried) /\ acks \in Seq(Ack) /\ loop \in Loop /\ chain \in Seq(Carried)
        /\ asked \subseteq BatchId /\ seen \subseteq Nat /\ forgotten \subseteq Nat
    BY <1>1 DEF Shape
  <1>5. /\ chain' \in Seq(Carried) /\ b \in Carried /\ b \in Elems(chain)
        /\ Elems(chain) = {b} \cup Elems(chain')
    BY <1>2, <1>4, ElemsTail
  <1>6. Due(loop, chain) = b.lines \cup Due(loop, chain')
    BY <1>2, <1>4, DueTail
  <1>7. /\ Len(chain) \in Nat \ {0} /\ Len(chain') = Len(chain) - 1 /\ b = chain[1]
        /\ \A i \in 1 .. Len(chain') : chain'[i] = chain[i + 1]
    BY <1>2, <1>4
  <1> HIDE DEF b
  <1>8. Pending = b.lines \cup Pending'
    BY <1>2, <1>6, PendingIsDue
  <1>9. Landed' = Landed
    <2>1. CASE v
      BY <1>3, <1>8, <2>1 DEF Landed
    <2>2. CASE ~v
      BY <1>3, <1>8, <2>2 DEF Landed
    <2> QED BY <2>1, <2>2
  <1>10. b.id \in BatchId /\ b.lines \subseteq Written
    BY <1>1, <1>5 DEF Carried, Place
  <1>11. /\ acks' \in Seq(Ack) /\ asked' \subseteq asked
         /\ \A a \in Elems(acks') : a \in Elems(acks) \/ a.id = b.id
    BY <1>3, <1>4, <1>10, AnswerAdds
  <1>12. Heard'
    BY <1>1, <1>2, <1>9 DEF Heard
  <1>13. Answered'
    <2>1. ASSUME NEW f \in inFlight
          PROVE  /\ \A w \in Elems(wire) : w.id = f.id => f.seqs \subseteq Names(seqs, w.lines)
                 /\ f.id \in loop.id => f.seqs \subseteq Names(seqs, Landed \cup loop.left)
                 /\ \A d \in Elems(chain') : d.id = f.id => f.seqs \subseteq Names(seqs, Landed)
                 /\ \A a \in Elems(acks') : a.id = f.id /\ a.accepted => f.seqs \subseteq Names(seqs, Landed)
      <3>1. /\ \A w \in Elems(wire) : w.id = f.id => f.seqs \subseteq Names(seqs, w.lines)
            /\ f.id \in loop.id => f.seqs \subseteq Names(seqs, Landed \cup loop.left)
            /\ \A d \in Elems(chain) : d.id = f.id => f.seqs \subseteq Names(seqs, Landed)
            /\ \A a \in Elems(acks) : a.id = f.id /\ a.accepted => f.seqs \subseteq Names(seqs, Landed)
        BY <1>1 DEF Answered
      <3> QED BY <1>5, <1>11, <3>1
    <2>2. /\ inFlight' = inFlight /\ Elems(chain)' = Elems(chain') /\ seqs' = seqs
          /\ Elems(wire)' = Elems(wire) /\ Elems(acks)' = Elems(acks') /\ loop' = loop
      BY <1>2 DEF Elems
    <2> QED BY <1>9, <2>1, <2>2 DEF Answered
  <1>14. /\ stored' \cup twice' \cup unlanded' \subseteq Written
         /\ stored' \cup Pending' \subseteq stored \cup Pending
         /\ stored' \subseteq stored \cup b.lines /\ twice' \subseteq twice \cup (b.lines \cap stored)
    <2>1. CASE v
      BY <1>1, <1>3, <1>8, <1>10, <2>1 DEF Place
    <2>2. CASE ~v
      BY <1>1, <1>3, <1>8, <1>10, <2>2 DEF Place
    <2> QED BY <2>1, <2>2
  <1>15. Remembered'
    <2>1. \A k \in stored' \cup Pending' : seqs'[k] \in seen' \cup forgotten'
      BY <1>1, <1>2, <1>14 DEF Remembered
    <2>2. \A k \in b.lines \cap stored : seqs[k] \in forgotten
      <3>1. 1 \in 1 .. Len(chain)
        BY <1>7
      <3>2. Lapsed(chain[1].lines \cap stored)
        BY <1>1, <3>1 DEF Remembered
      <3> QED BY <1>7, <3>2 DEF Lapsed
    <2>3. \A k \in twice' : seqs[k] \in forgotten
      BY <1>1, <1>14, <2>2 DEF Remembered, Lapsed
    <2>4. loop.fresh = {}
      BY <1>2 DEF NoLoop
    <2>5. ASSUME NEW i \in 1 .. Len(chain')
          PROVE  /\ \A k \in chain'[i].lines \cap stored' : seqs[k] \in forgotten
                 /\ \A j \in 1 .. i - 1 : \A k \in chain'[i].lines \cap chain'[j].lines : seqs[k] \in forgotten
      <3>1. /\ i + 1 \in 1 .. Len(chain) /\ chain'[i] = chain[i + 1] /\ 1 \in 1 .. (i + 1) - 1
            /\ \A j \in 1 .. i - 1 : j + 1 \in 1 .. (i + 1) - 1 /\ chain'[j] = chain[j + 1]
        BY <1>7
      <3>2. /\ Lapsed(chain[i + 1].lines \cap stored)
            /\ \A j \in 1 .. (i + 1) - 1 : Lapsed(chain[i + 1].lines \cap chain[j].lines)
        BY <1>1, <3>1 DEF Remembered
      <3>3. Lapsed(chain'[i].lines \cap stored) /\ Lapsed(chain'[i].lines \cap b.lines)
        BY <1>7, <3>1, <3>2
      <3>4. \A k \in chain'[i].lines \cap stored' : seqs[k] \in forgotten
        BY <1>14, <3>3 DEF Lapsed
      <3>5. ASSUME NEW j \in 1 .. i - 1
            PROVE  \A k \in chain'[i].lines \cap chain'[j].lines : seqs[k] \in forgotten
        <4>1. Lapsed(chain'[i].lines \cap chain'[j].lines)
          BY <3>1, <3>2
        <4> QED BY <4>1 DEF Lapsed
      <3> QED BY <3>4, <3>5
    <2>6. ASSUME NEW i \in 1 .. Len(chain')
          PROVE  /\ \A k \in chain'[i].lines \cap stored' : seqs'[k] \in forgotten'
                 /\ \A k \in chain'[i].lines \cap loop'.fresh : seqs'[k] \in forgotten'
                 /\ \A j \in 1 .. i - 1 : \A k \in chain'[i].lines \cap chain'[j].lines : seqs'[k] \in forgotten'
      BY <1>2, <2>4, <2>5
    <2>7. /\ \A k \in twice' : seqs'[k] \in forgotten'
          /\ \A k \in loop'.fresh \cap stored' : seqs'[k] \in forgotten'
      BY <1>2, <2>3, <2>4
    <2> QED BY <2>1, <2>6, <2>7 DEF Remembered, Lapsed
  <1>16. /\ \A w \in Elems(wire') : w.lines \subseteq Written
         /\ \A d \in Elems(chain') : d.lines \subseteq Written
         /\ loop'.left \cup loop'.fresh \cup stored' \cup twice' \cup unlanded' \subseteq Written
    BY <1>1, <1>2, <1>5, <1>14 DEF Place
  <1>17. /\ wire' \in Seq(Carried) /\ loop' \in Loop /\ asked' \subseteq BatchId
         /\ seen' \subseteq Nat /\ forgotten' \subseteq Nat
    BY <1>2, <1>4, <1>11
  <1> QED BY <1>2, <1>5, <1>9, <1>11, <1>12, <1>13, <1>15, <1>16, <1>17, ServerKeeps

-----------------------------------------------------------------------------
LEMMA KeepStart ==
    ASSUME SizesAssumption, BoundsAssumption, Init
    PROVE  KeepInv
  <1>1. /\ Elems(<<>>) = {} /\ <<>> \in Seq(Carried) /\ <<>> \in Seq(Ack) /\ <<>> \in Seq(Nat) /\ Len(<<>>) = 0
        /\ NoLoop \in Loop /\ NoLoop.left = {} /\ NoLoop.id = {} /\ NoLoop.fresh = {}
    BY ElemsEmpty DEF NoLoop, Loop
  <1>2. Written = {} /\ Pending = {}
    BY <1>1, PendingIsDue, DueNothing DEF Written, Init
  <1>3. Shape
    <2>1. 0 \in 0 .. MaxTroubles /\ 0 \in 0 .. SendCap
      BY DEF BoundsAssumption, SizesAssumption
    <2>2. seqs \in Seq(Nat) /\ seq \in 0 .. Len(seqs) /\ \A l \in Written : seqs[l] \in 0 .. Len(seqs)
      BY <1>1, <1>2 DEF Init
    <2>3. wire \in Seq(Carried) /\ chain \in Seq(Carried) /\ acks \in Seq(Ack) /\ loop \in Loop
      BY <1>1 DEF Init
    <2>4. queued \in BOOLEAN /\ up \in BOOLEAN /\ announced \in BOOLEAN /\ writable \in BOOLEAN
      BY DEF Init
    <2>5. /\ inFlight \subseteq Flight /\ sent \in 0 .. SendCap /\ asked \subseteq BatchId
          /\ seen \subseteq Nat /\ forgotten \subseteq Nat /\ troubles \in 0 .. MaxTroubles
      BY <2>1 DEF Init
    <2> QED BY <2>2, <2>3, <2>4, <2>5 DEF Shape
  <1>4. Place
    BY <1>1 DEF Init, Place
  <1>5. Heard /\ Answered /\ Accounted
    BY <1>2 DEF Init, Heard, Answered, Accounted
  <1>6. Remembered
    BY <1>1, <1>2 DEF Init, Remembered, Lapsed
  <1> QED BY <1>3, <1>4, <1>5, <1>6 DEF KeepInv

(* Whatever the sizes, and however many lines are written, sockets drop,    *)
(* processes start again and disks refuse: no line vanishes unaccounted, and *)
(* none is stored a second time unless its seq was forgotten in between     *)
(* (logger.ts, logs.ts).                                                    *)
THEOREM LinesAreKept == Spec => []LinesKept
  <1> USE SizesAssumption, BoundsAssumption
  <1>1. Init => KeepInv
    BY KeepStart
  <1>2. KeepInv /\ [CalmNext \/ FaultNext]_vars => KeepInv'
    <2> SUFFICES ASSUME KeepInv, [CalmNext \/ FaultNext]_vars PROVE KeepInv'
      OBVIOUS
    <2>1. CASE Minute \/ Flush \/ FlushFails \/ UNCHANGED vars
      BY <2>1, RestKeeps
    <2>2. CASE Drain \/ Connect
      BY <2>2, SendKeeps
    <2>3. CASE Write
      BY <2>3, WriteKeeps
    <2>4. CASE AckArrives
      BY <2>4, AckKeeps
    <2>5. CASE Drop \/ AgentRestart
      BY <2>5, BoxRestartKeeps
    <2>6. CASE ServerRestart \/ Mend
      BY <2>6, ServerRestartKeeps
    <2>7. CASE Receive
      BY <2>7, ReceiveKeeps
    <2>8. CASE Sift
      BY <2>8, SiftKeeps
    <2>9. CASE Enqueue
      BY <2>9, EnqueueKeeps
    <2>10. CASE Land \/ LandFails
      BY <2>10, LandKeeps
    <2> QED BY <2>1, <2>2, <2>3, <2>4, <2>5, <2>6, <2>7, <2>8, <2>9, <2>10 DEF CalmNext, FaultNext
  <1>3. KeepInv => LinesKept
    <2> SUFFICES ASSUME KeepInv PROVE LinesKept
      OBVIOUS
    <2>1. TypeOK
      BY KeptIsTyped DEF KeepInv
    <2>2. RepeatsForgotten
      BY DEF KeepInv, Remembered, Lapsed, RepeatsForgotten
    <2> QED BY <2>1, <2>2 DEF LinesKept, KeepInv
  <1> QED BY <1>1, <1>2, <1>3, PTL DEF Spec
=============================================================================
