----------------------- MODULE StreamHandlerProofs -----------------------
(***************************************************************************)
(* For any frames, sizes, windows and faults: however the stream cuts      *)
(* them, the frames one behaviour hands over reach the other whole, in     *)
(* order and once, a buffer is refused only for a bad frame, and it stays  *)
(* bounded.                                                                *)
(***************************************************************************)
EXTENDS StreamHandler, TLAPS

Size(f) == HeaderLen + f.len

(* The cells of buf are those of the frames k + 1 to n of g, one frame     *)
(* after the other, up to where buf ends; start[j] counts the cells before *)
(* frame j.                                                                *)
Carries(buf, g, k, n, start) ==
    /\ start[k + 1] = 0
    /\ \A j \in (k + 1)..n : start[j + 1] = start[j] + Size(g[j])
    /\ \A i, j \in (k + 1)..(n + 1) : i <= j => start[i] <= start[j]
    /\ Len(buf) <= start[n + 1]
    /\ \A j \in (k + 1)..n : \A a \in 1..Size(g[j]) :
            start[j] + a <= Len(buf) => buf[start[j] + a] = [frame |-> g[j], at |-> a]

(* The same, with frame n complete.                                        *)
Fills(buf, g, k, n, start) == Carries(buf, g, k, n, start) /\ Len(buf) = start[n + 1]

Starts == [Nat -> Nat]

(* What p still has to write on s of a frame it has begun.                 *)
Outgoing(p, s) == IF ~closed[p] /\ held[p] = s THEN writing[p] ELSE <<>>

Join(a, b, c) == a \o (b \o c)

Extend(b, c, n) == b \o SubSeq(c, 1, n)

(* d is b without its first z cells.                                       *)
Dropped(b, z, d) == Len(d) = Len(b) - z /\ \A i \in 1..Len(d) : d[i] = b[z + i]

(* Cells of d behind those of b are those of c.                            *)
Behind(b, c, d) ==
    /\ Len(d) = Len(b) + Len(c)
    /\ \A i \in 1..Len(b) : d[i] = b[i]
    /\ \A i \in 1..Len(c) : d[Len(b) + i] = c[i]

(* All that is between the behaviours on the way to q over stream s.       *)
Pipe(q, s) == Join(readBuf[q], wire[s][q], Outgoing(Peer(q), s))

(* Nothing has been sent by an end that holds no stream yet.               *)
Fresh ==
    \A p \in Ends :
        ~closed[p] /\ held[p] = None =>
            /\ given[p] = <<>> /\ queue[p] = <<>> /\ writing[p] = <<>>
            /\ ~ready[p] /\ ~announced[p]

(* The write queue holds the last frames handed over.                      *)
IsRest(w, g) ==
    /\ Len(w) <= Len(g)
    /\ \A j \in 1..Len(w) : w[j] = Encode(g[Len(g) - Len(w) + j])

QueueIsRest == \A p \in Ends : IsRest(queue[p], given[p])

(* The pipe holds the frames that have not arrived yet, and ends where the *)
(* write queue of a handler that still writes begins.                      *)
Whole(q, s, n, start) ==
    LET p == Peer(q) IN
    /\ Carries(Pipe(q, s), given[p], Len(arrived[q]), n, start)
    /\ ~closed[p] /\ held[p] = s =>
          n = Len(given[p]) - Len(queue[p]) /\ Len(Pipe(q, s)) = start[n + 1]

PipeIsSound(q, s) ==
    ~closed[q] /\ held[q] \in {s, None} =>
        \E n \in Len(arrived[q])..Len(given[Peer(q)]), start \in Starts :
            Whole(q, s, n, start)

PipeIsWhole == \A q \in Ends, s \in Initiators : PipeIsSound(q, s)

(* What is buffered begins with the frame that is to arrive next.          *)
BufferIsSound(q) ==
    \E n \in Len(arrived[q])..Len(given[Peer(q)]), start \in Starts :
        Carries(readBuf[q], given[Peer(q)], Len(arrived[q]), n, start)

BufferIsWhole == \A q \in Ends : BufferIsSound(q)

StreamInv == ReadBufferBounded /\ Fresh /\ QueueIsRest /\ PipeIsWhole /\ BufferIsWhole

-----------------------------------------------------------------------------
(* Facts about frames, cells and the frames a buffer carries.              *)

(* Two ends, each the peer of the other.                                   *)
LEMMA TwoEnds ==
    ASSUME NEW p \in Ends
    PROVE  /\ Peer(p) \in Ends /\ Peer(p) # p /\ Peer(Peer(p)) = p
           /\ \A q \in Ends : q = p \/ q = Peer(p)
BY EndsAssumption DEF Ends, Peer

(* A stream is no absent stream.                                           *)
LEMMA StreamsAreReal == Initiators \subseteq Ends /\ None \notin Initiators /\ Initiators # {}
BY EndsAssumption DEF Ends, None

(* A frame has at least a header.                                          *)
LEMMA SizeIsPositive ==
    ASSUME NEW f \in FrameType
    PROVE  Size(f) \in Nat \ {0} /\ f.len \in Nat /\ f.form \in FrameForms
<1>1. f.len \in Nat /\ f.form \in FrameForms
  BY DEF FrameType
<1>. QED
  BY <1>1, SizesAssumption DEF Size

(* The encoding of a frame is all its cells in turn.                       *)
LEMMA EncodeFacts ==
    ASSUME NEW f \in FrameType
    PROVE  /\ Encode(f) \in Seq(CellType) /\ Len(Encode(f)) = Size(f)
           /\ \A a \in 1..Size(f) : Encode(f)[a] = [frame |-> f, at |-> a]
<1>1. Size(f) \in Nat
  BY SizeIsPositive
<1>2. Encode(f) = [i \in 1..Size(f) |-> [frame |-> f, at |-> i]]
  BY DEF Encode, Size
<1>3. \A i \in 1..Size(f) : [frame |-> f, at |-> i] \in CellType
  BY <1>1 DEF CellType
<1>. QED
  BY <1>1, <1>2, <1>3

(* A buffer that ends earlier carries the same frames.                     *)
LEMMA CarriesPrefix ==
    ASSUME NEW g \in Seq(FrameType), NEW k \in Nat, NEW n \in k..Len(g), NEW start \in Starts,
           NEW b \in Seq(CellType), NEW d \in Seq(CellType), Carries(d, g, k, n, start),
           Len(b) <= Len(d), \A i \in 1..Len(b) : b[i] = d[i]
    PROVE  Carries(b, g, k, n, start)
<1>1. Len(b) \in Nat /\ Len(d) \in Nat /\ Len(g) \in Nat /\ n \in Nat
  OBVIOUS
<1>2. start[n + 1] \in Nat
  <2>1. n + 1 \in Nat
    BY <1>1
  <2>. QED
    BY <2>1 DEF Starts
<1>3. Len(b) <= start[n + 1]
  BY <1>1, <1>2 DEF Carries
<1>4. ASSUME NEW j \in (k + 1)..n, NEW a \in 1..Size(g[j]), start[j] + a <= Len(b)
      PROVE  b[start[j] + a] = [frame |-> g[j], at |-> a]
  <2>1. j \in Nat /\ j \in 1..Len(g)
    BY <1>1
  <2>2. g[j] \in FrameType /\ start[j] \in Nat
    BY <2>1 DEF Starts
  <2>3. Size(g[j]) \in Nat
    BY <2>2, SizeIsPositive
  <2>4. start[j] + a \in 1..Len(b) /\ start[j] + a <= Len(d)
    BY <1>1, <1>4, <2>2, <2>3
  <2>5. d[start[j] + a] = [frame |-> g[j], at |-> a]
    BY <2>4 DEF Carries
  <2>. QED
    BY <2>4, <2>5
<1>. QED
  BY <1>3, <1>4 DEF Carries

(* More frames handed over leave what is on its way alone.                 *)
LEMMA CarriesMore ==
    ASSUME NEW g \in Seq(FrameType), NEW f \in FrameType, NEW k \in Nat, NEW n \in k..Len(g),
           NEW start, NEW b, Carries(b, g, k, n, start)
    PROVE  Carries(b, Append(g, f), k, n, start)
<1>1. \A j \in (k + 1)..n : Append(g, f)[j] = g[j]
  OBVIOUS
<1>. QED
  BY <1>1 DEF Carries

(* The next frame behind a buffer of whole frames.                         *)
LEMMA CarriesNext ==
    ASSUME NEW g \in Seq(FrameType), NEW k \in Nat, NEW n \in k..Len(g), NEW start \in Starts,
           NEW b \in Seq(CellType), NEW d \in Seq(CellType), Fills(b, g, k, n, start),
           n < Len(g), Behind(b, Encode(g[n + 1]), d)
    PROVE  \E later \in Starts : Fills(d, g, k, n + 1, later)
<1>. DEFINE z == Size(g[n + 1])
            later == [start EXCEPT ![n + 2] = start[n + 1] + z]
<1>0. /\ Carries(b, g, k, n, start) /\ Len(b) = start[n + 1]
      /\ Len(d) = Len(b) + z /\ \A i \in 1..Len(b) : d[i] = b[i]
      /\ \A a \in 1..z : d[Len(b) + a] = [frame |-> g[n + 1], at |-> a]
  <2>1. g[n + 1] \in FrameType
    OBVIOUS
  <2>2. Len(Encode(g[n + 1])) = z /\ \A a \in 1..z : Encode(g[n + 1])[a] = [frame |-> g[n + 1], at |-> a]
    BY <2>1, EncodeFacts
  <2>. QED
    BY <2>2 DEF Fills, Behind
<1>1. Len(b) \in Nat /\ Len(d) \in Nat /\ Len(g) \in Nat /\ n \in Nat
  OBVIOUS
<1>2. z \in Nat
  BY <1>1, SizeIsPositive
<1>3. \A j \in Nat : start[j] \in Nat
  BY DEF Starts
<1>4. later \in Starts /\ later[n + 2] = start[n + 1] + z
  <2>1. n + 1 \in Nat /\ n + 2 \in Nat
    BY <1>1
  <2>2. start[n + 1] + z \in Nat
    <3>1. start[n + 1] \in Nat
      BY <1>3, <2>1
    <3>. QED
      BY <1>2, <3>1
  <2>. QED
    BY <2>1, <2>2 DEF Starts
<1>5. \A j \in 0..(n + 1) : later[j] = start[j]
  BY <1>1 DEF Starts
<1>. HIDE DEF later
<1>6. later[k + 1] = 0
  <2>1. k + 1 \in 0..(n + 1)
    BY <1>1
  <2>. QED
    BY <1>0, <1>5, <2>1 DEF Carries
<1>7. ASSUME NEW j \in (k + 1)..(n + 1)
      PROVE  later[j + 1] = later[j] + Size(g[j])
  <2>1. CASE j = n + 1
    <3>1. j \in 0..(n + 1) /\ j + 1 = n + 2
      BY <1>1, <2>1
    <3>. QED
      BY <1>4, <1>5, <2>1, <3>1
  <2>2. CASE j # n + 1
    <3>1. j \in 0..(n + 1) /\ j + 1 \in 0..(n + 1) /\ j \in (k + 1)..n
      BY <1>1, <2>2
    <3>. QED
      BY <1>0, <1>5, <3>1 DEF Carries
  <2>. QED
    BY <2>1, <2>2
<1>8. ASSUME NEW i \in (k + 1)..(n + 2), NEW j \in (k + 1)..(n + 2), i <= j
      PROVE  later[i] <= later[j]
  <2>1. CASE j # n + 2
    <3>1. /\ i \in 0..(n + 1) /\ j \in 0..(n + 1)
          /\ i \in (k + 1)..(n + 1) /\ j \in (k + 1)..(n + 1)
      BY <1>1, <1>8, <2>1
    <3>. QED
      BY <1>0, <1>5, <1>8, <3>1 DEF Carries
  <2>2. CASE j = n + 2 /\ i # n + 2
    <3>1. /\ i \in 0..(n + 1) /\ n + 1 \in 0..(n + 1) /\ i <= n + 1
          /\ i \in (k + 1)..(n + 1) /\ n + 1 \in (k + 1)..(n + 1) /\ i \in Nat /\ n + 1 \in Nat
      BY <1>1, <2>2
    <3>2. start[i] <= start[n + 1]
      BY <1>0, <3>1 DEF Carries
    <3>3. later[i] = start[i] /\ later[j] = start[n + 1] + z
      BY <1>4, <1>5, <2>2, <3>1
    <3>4. start[i] \in Nat /\ start[n + 1] \in Nat
      BY <1>3, <3>1
    <3>. QED
      BY <1>2, <3>2, <3>3, <3>4
  <2>3. CASE j = n + 2 /\ i = n + 2
    <3>1. later[n + 2] \in Nat
      BY <1>2, <1>3, <1>4, <1>1
    <3>. QED
      BY <2>3, <3>1
  <2>. QED
    BY <2>1, <2>2, <2>3
<1>9. Len(d) = later[n + 2]
  BY <1>0, <1>4
<1>10. ASSUME NEW j \in (k + 1)..(n + 1), NEW a \in 1..Size(g[j])
       PROVE  d[later[j] + a] = [frame |-> g[j], at |-> a]
  <2>1. CASE j = n + 1
    <3>1. n + 1 \in 0..(n + 1)
      BY <1>1
    <3>2. later[j] = Len(b)
      BY <1>0, <1>5, <2>1, <3>1
    <3>. QED
      BY <1>0, <2>1, <3>2
  <2>2. CASE j # n + 1
    <3>1. /\ j \in (k + 1)..n /\ j \in (k + 1)..(n + 1) /\ j + 1 \in (k + 1)..(n + 1) /\ j + 1 <= n + 1
          /\ n + 1 \in (k + 1)..(n + 1) /\ j \in 0..(n + 1) /\ j \in 1..Len(g) /\ j \in Nat /\ n + 1 \in Nat
      BY <1>1, <2>2
    <3>2. start[j + 1] = start[j] + Size(g[j]) /\ start[j + 1] <= start[n + 1]
      BY <1>0, <3>1 DEF Carries
    <3>3. Size(g[j]) \in Nat
      <4>1. g[j] \in FrameType
        BY <3>1
      <4>. QED
        BY <4>1, SizeIsPositive
    <3>4. start[j] \in Nat /\ start[n + 1] \in Nat
      BY <1>3, <3>1
    <3>5. start[j] + a \in 1..Len(b)
      BY <1>0, <1>1, <3>2, <3>3, <3>4, SMTT(30)
    <3>6. b[start[j] + a] = [frame |-> g[j], at |-> a]
      <4>1. start[j] + a <= Len(b)
        BY <1>1, <3>5
      <4>. QED
        BY <1>0, <3>1, <4>1 DEF Carries
    <3>7. later[j] = start[j]
      BY <1>5, <3>1
    <3>. QED
      BY <1>0, <3>5, <3>6, <3>7
  <2>. QED
    BY <2>1, <2>2
<1>11. (n + 1) + 1 = n + 2
  BY <1>1
<1>12. Carries(d, g, k, n + 1, later)
  <2>1. Len(d) <= later[n + 2]
    BY <1>1, <1>9
  <2>. QED
    BY <1>6, <1>7, <1>8, <1>10, <1>11, <2>1 DEF Carries
<1>. QED
  BY <1>4, <1>9, <1>11, <1>12 DEF Fills

(* What is left when the first frame has been taken out.                   *)
LEMMA CarriesDrop ==
    ASSUME NEW g \in Seq(FrameType), NEW k \in Nat, NEW n \in k..Len(g), NEW start \in Starts,
           NEW b \in Seq(CellType), NEW d \in Seq(CellType), Carries(b, g, k, n, start),
           k < n, Size(g[k + 1]) <= Len(b), Dropped(b, Size(g[k + 1]), d)
    PROVE  \E later \in Starts :
              Carries(d, g, k + 1, n, later) /\ (Len(b) = start[n + 1] => Len(d) = later[n + 1])
<1>0. ASSUME NEW x \in Nat, NEW y \in Nat, NEW l \in Nat, NEW h \in Nat, NEW c \in Nat \ {0},
             NEW r \in Nat, y = x - h, r = l - h, y + c <= r
      PROVE  y + c \in 1..r /\ h + (y + c) = x + c /\ x + c <= l
  BY <1>0
<1>. DEFINE z == Size(g[k + 1])
            later == [j \in Nat |-> IF j \in (k + 2)..(n + 1) THEN start[j] - z ELSE 0]
<1>1. Len(b) \in Nat /\ Len(d) \in Nat /\ Len(g) \in Nat /\ n \in Nat /\ k + 1 \in 1..Len(g)
  OBVIOUS
<1>16. Len(d) = Len(b) - z /\ \A i \in 1..Len(d) : d[i] = b[z + i]
  BY DEF Dropped
<1>2. z \in Nat
  BY <1>1, SizeIsPositive
<1>3. \A j \in Nat : start[j] \in Nat
  BY DEF Starts
<1>4. start[k + 2] = z
  <2>1. k + 1 \in (k + 1)..n /\ (k + 1) + 1 = k + 2
    BY <1>1
  <2>2. start[(k + 1) + 1] = start[k + 1] + Size(g[k + 1]) /\ start[k + 1] = 0
    BY <2>1 DEF Carries
  <2>. QED
    BY <1>2, <2>1, <2>2
<1>5. \A j \in (k + 2)..(n + 1) : start[j] \in Nat /\ z <= start[j]
  <2>. SUFFICES ASSUME NEW j \in (k + 2)..(n + 1) PROVE start[j] \in Nat /\ z <= start[j]
    OBVIOUS
  <2>1. j \in Nat /\ k + 2 \in (k + 1)..(n + 1) /\ j \in (k + 1)..(n + 1) /\ k + 2 <= j
    BY <1>1
  <2>2. start[k + 2] <= start[j]
    BY <2>1 DEF Carries
  <2>. QED
    BY <1>3, <1>4, <2>1, <2>2
<1>6. \A j \in (k + 2)..(n + 1) : later[j] = start[j] - z
  BY <1>1
<1>7. later \in Starts
  <2>. SUFFICES ASSUME NEW j \in Nat PROVE (IF j \in (k + 2)..(n + 1) THEN start[j] - z ELSE 0) \in Nat
    BY DEF Starts
  <2>1. CASE j \in (k + 2)..(n + 1)
    <3>1. start[j] \in Nat /\ z <= start[j]
      BY <1>5, <2>1
    <3>. QED
      BY <1>2, <2>1, <3>1
  <2>. QED
    BY <2>1
<1>. HIDE DEF later, z
<1>8. /\ (k + 1) + 1 = k + 2 /\ k + 2 \in (k + 2)..(n + 1) /\ n + 1 \in (k + 2)..(n + 1)
      /\ (k + 1) + 1 \in (k + 2)..(n + 1)
  BY <1>1
<1>9. later[(k + 1) + 1] = 0
  <2>1. later[k + 2] = start[k + 2] - z
    BY <1>6, <1>8
  <2>. QED
    BY <1>2, <1>4, <1>8, <2>1
<1>10. later[n + 1] = start[n + 1] - z
  BY <1>6, <1>8
<1>11. ASSUME NEW j \in ((k + 1) + 1)..n
       PROVE  later[j + 1] = later[j] + Size(g[j])
  <2>1. /\ j \in (k + 2)..(n + 1) /\ j + 1 \in (k + 2)..(n + 1) /\ j \in (k + 1)..n
        /\ j \in 1..Len(g)
    BY <1>1
  <2>2. start[j + 1] = start[j] + Size(g[j])
    BY <2>1 DEF Carries
  <2>3. later[j] = start[j] - z /\ later[j + 1] = start[j + 1] - z /\ start[j] \in Nat
    BY <1>5, <1>6, <2>1
  <2>4. Size(g[j]) \in Nat
    <3>1. g[j] \in FrameType
      BY <2>1
    <3>. QED
      BY <3>1, SizeIsPositive
  <2>. QED
    BY <1>2, <2>2, <2>3, <2>4
<1>12. ASSUME NEW i \in ((k + 1) + 1)..(n + 1), NEW j \in ((k + 1) + 1)..(n + 1), i <= j
       PROVE  later[i] <= later[j]
  <2>1. /\ i \in (k + 2)..(n + 1) /\ j \in (k + 2)..(n + 1)
        /\ i \in (k + 1)..(n + 1) /\ j \in (k + 1)..(n + 1)
    BY <1>1
  <2>2. start[i] <= start[j]
    BY <1>12, <2>1 DEF Carries
  <2>3. later[i] = start[i] - z /\ later[j] = start[j] - z /\ start[i] \in Nat /\ start[j] \in Nat
    BY <1>5, <1>6, <2>1
  <2>. QED
    BY <1>2, <2>2, <2>3
<1>13. Len(d) <= later[n + 1]
  <2>1. Len(b) <= start[n + 1] /\ start[n + 1] \in Nat
    BY <1>5, <1>8 DEF Carries
  <2>. QED
    BY <1>1, <1>2, <1>10, <1>16, <2>1
<1>14. ASSUME NEW j \in ((k + 1) + 1)..n, NEW a \in 1..Size(g[j]), later[j] + a <= Len(d)
       PROVE  d[later[j] + a] = [frame |-> g[j], at |-> a]
  <2>1. j \in (k + 2)..(n + 1) /\ j \in (k + 1)..n /\ j \in 1..Len(g)
    BY <1>1
  <2>2. later[j] = start[j] - z /\ start[j] \in Nat /\ z <= start[j]
    BY <1>5, <1>6, <2>1
  <2>3. Size(g[j]) \in Nat /\ a \in Nat \ {0}
    <3>1. g[j] \in FrameType
      BY <2>1
    <3>2. Size(g[j]) \in Nat
      BY <3>1, SizeIsPositive
    <3>. QED
      BY <3>2
  <2>4. Len(d) = Len(b) - z
    BY <1>16
  <2>5. /\ later[j] + a \in 1..Len(d) /\ z + (later[j] + a) = start[j] + a
        /\ start[j] + a <= Len(b)
    <3>2. later[j] \in Nat
      BY <1>2, <2>2
    <3>. QED
      BY <1>0, <1>1, <1>2, <1>14, <2>2, <2>3, <2>4, <3>2, SMTT(30)
  <2>6. d[later[j] + a] = b[z + (later[j] + a)]
    BY <1>16, <2>5
  <2>7. b[start[j] + a] = [frame |-> g[j], at |-> a]
    BY <2>1, <2>5 DEF Carries
  <2>. QED
    BY <2>5, <2>6, <2>7
<1>15. Carries(d, g, k + 1, n, later)
  BY <1>9, <1>11, <1>12, <1>13, <1>14 DEF Carries
<1>. QED
  BY <1>7, <1>10, <1>15, <1>16

(* A buffer begins with the frame that is next.                            *)
LEMMA CarriesFirst ==
    ASSUME NEW g \in Seq(FrameType), NEW k \in Nat, NEW n \in k..Len(g), NEW start \in Starts,
           NEW b \in Seq(CellType), Carries(b, g, k, n, start), Len(b) # 0
    PROVE  /\ k < n /\ k + 1 \in 1..Len(g) /\ g[k + 1] \in FrameType
           /\ \A a \in 1..Size(g[k + 1]) : a <= Len(b) => b[a] = [frame |-> g[k + 1], at |-> a]
           /\ b[1] = [frame |-> g[k + 1], at |-> 1]
<1>1. Len(b) \in Nat /\ Len(g) \in Nat /\ n \in Nat
  OBVIOUS
<1>2. k < n
  <2>1. SUFFICES ASSUME k = n PROVE FALSE
    BY <1>1
  <2>2. Len(b) <= 0
    BY <2>1 DEF Carries
  <2>. QED
    BY <1>1, <2>2
<1>3. k + 1 \in 1..Len(g) /\ k + 1 \in (k + 1)..n
  BY <1>1, <1>2
<1>4. g[k + 1] \in FrameType
  BY <1>3
<1>5. Size(g[k + 1]) \in Nat \ {0}
  BY <1>4, SizeIsPositive
<1>6. ASSUME NEW a \in 1..Size(g[k + 1]), a <= Len(b)
      PROVE  b[a] = [frame |-> g[k + 1], at |-> a]
  <2>1. start[k + 1] = 0 /\ start[k + 1] + a = a
    BY <1>5 DEF Carries
  <2>2. start[k + 1] + a <= Len(b)
    BY <1>6, <2>1
  <2>3. b[start[k + 1] + a] = [frame |-> g[k + 1], at |-> a]
    BY <1>3, <2>2 DEF Carries
  <2>. QED
    BY <2>1, <2>3
<1>7. 1 \in 1..Size(g[k + 1]) /\ 1 <= Len(b)
  BY <1>1, <1>5
<1>. QED
  BY <1>2, <1>3, <1>4, <1>6, <1>7

(* Nothing is carried of no frames.                                        *)
LEMMA CarriesNothing ==
    \E start \in Starts : Carries(<<>>, <<>>, 0, 0, start) /\ Len(<<>>) = start[0 + 1]
<1>. DEFINE start == [j \in Nat |-> 0]
<1>1. start \in Starts
  BY DEF Starts
<1>2. Carries(<<>>, <<>>, 0, 0, start) /\ Len(<<>>) = start[0 + 1]
  BY DEF Carries
<1>. QED
  BY <1>1, <1>2

(* Three buffers one after the other.                                      *)
LEMMA Joined ==
    ASSUME NEW a \in Seq(CellType), NEW b \in Seq(CellType), NEW c \in Seq(CellType)
    PROVE  /\ Join(a, b, c) \in Seq(CellType) /\ Len(Join(a, b, c)) = Len(a) + Len(b) + Len(c)
           /\ \A i \in 1..Len(a) : Join(a, b, c)[i] = a[i]
           /\ \A i \in 1..Len(b) : Join(a, b, c)[Len(a) + i] = b[i]
           /\ \A i \in 1..Len(c) : Join(a, b, c)[Len(a) + Len(b) + i] = c[i]
BY DEF Join

(* What is joined behind leaves what is before alone.                      *)
LEMMA JoinedBehind ==
    ASSUME NEW a \in Seq(CellType), NEW b \in Seq(CellType), NEW c \in Seq(CellType)
    PROVE  /\ Join(a, b, <<>>) \in Seq(CellType) /\ Join(a, b, c) \in Seq(CellType)
           /\ Behind(Join(a, b, <<>>), c, Join(a, b, c))
BY SMTT(30) DEF Join, Behind

(* Two parts of a buffer.                                                  *)
LEMMA Cut ==
    ASSUME NEW b \in Seq(CellType), NEW n \in 0..Len(b)
    PROVE  /\ SubSeq(b, 1, n) \in Seq(CellType) /\ SubSeq(b, n + 1, Len(b)) \in Seq(CellType)
           /\ Len(SubSeq(b, 1, n)) = n /\ Len(SubSeq(b, n + 1, Len(b))) = Len(b) - n
           /\ \A i \in 1..n : SubSeq(b, 1, n)[i] = b[i]
           /\ \A i \in 1..(Len(b) - n) : SubSeq(b, n + 1, Len(b))[i] = b[n + i]
           /\ SubSeq(b, 1, n) \o SubSeq(b, n + 1, Len(b)) = b
<1>. DEFINE x == SubSeq(b, 1, n)
            y == SubSeq(b, n + 1, Len(b))
<1>1. Len(b) \in Nat /\ n \in Nat /\ n <= Len(b)
  OBVIOUS
<1>2. x \in Seq(CellType) /\ Len(x) = n /\ \A i \in 1..n : x[i] = b[i]
  BY <1>1
<1>3. y \in Seq(CellType) /\ Len(y) = Len(b) - n
  BY <1>1
<1>4. \A i \in 1..(Len(b) - n) : y[i] = b[n + i]
  BY <1>1
<1>. HIDE DEF x, y
<1>5. x \o y = b
  <2>1. x \o y \in Seq(CellType) /\ Len(x \o y) = Len(b)
    BY <1>1, <1>2, <1>3
  <2>2. ASSUME NEW i \in 1..Len(b) PROVE (x \o y)[i] = b[i]
    <3>1. CASE i <= n
      BY <1>1, <1>2, <1>3, <3>1
    <3>2. CASE ~(i <= n)
      <4>1. i - n \in 1..(Len(b) - n) /\ n + (i - n) = i
        BY <1>1, <3>2
      <4>2. (x \o y)[i] = y[i - n]
        BY <1>1, <1>2, <1>3, <3>2
      <4>3. y[i - n] = b[n + (i - n)]
        BY <1>4, <4>1
      <4>4. b[n + (i - n)] = b[i]
        BY <4>1
      <4>. QED
        BY <4>2, <4>3, <4>4, Zenon
    <3>. QED
      BY <3>1, <3>2, Zenon
  <2>. DEFINE d == x \o y
  <2>3. d \in Seq(CellType) /\ Len(d) = Len(b) /\ \A i \in 1..Len(b) : d[i] = b[i]
    BY <2>1, <2>2
  <2>. HIDE DEF d
  <2>4. d = b
    BY <2>3
  <2>. QED
    BY <2>4 DEF d
<1>. QED
  BY <1>2, <1>3, <1>4, <1>5 DEF x, y

(* Cells read move from the stream to the read buffer.                     *)
LEMMA ReadMoves ==
    ASSUME NEW a \in Seq(CellType), NEW b \in Seq(CellType), NEW c \in Seq(CellType), NEW n \in 0..Len(b)
    PROVE  /\ Extend(a, b, n) \in Seq(CellType) /\ Unwritten(b, n) \in Seq(CellType)
           /\ Join(Extend(a, b, n), Unwritten(b, n), c) = Join(a, b, c)
<1>. DEFINE x == SubSeq(b, 1, n)
            y == SubSeq(b, n + 1, Len(b))
<1>1. x \in Seq(CellType) /\ y \in Seq(CellType)
  BY Cut
<1>2. x \o y = b
  BY Cut
<1>. HIDE DEF x, y
<1>3. y \o c \in Seq(CellType) /\ a \o x \in Seq(CellType)
  BY <1>1
<1>4. (x \o y) \o c = x \o (y \o c)
  BY <1>1, SMTT(30)
<1>5. (a \o x) \o (y \o c) = a \o (x \o (y \o c))
  BY <1>1, <1>3, SMTT(30)
<1>6. (a \o x) \o (y \o c) = a \o (b \o c)
  BY <1>2, <1>4, <1>5, Zenon
<1>. QED
  BY <1>1, <1>3, <1>6 DEF x, y, Join, Extend, Unwritten

(* Cells written move from the frame to the stream.                        *)
LEMMA WriteMoves ==
    ASSUME NEW a \in Seq(CellType), NEW b \in Seq(CellType), NEW c \in Seq(CellType), NEW n \in 0..Len(c)
    PROVE  /\ Extend(b, c, n) \in Seq(CellType) /\ Unwritten(c, n) \in Seq(CellType)
           /\ Join(a, Extend(b, c, n), Unwritten(c, n)) = Join(a, b, c)
<1>. DEFINE x == SubSeq(c, 1, n)
            y == SubSeq(c, n + 1, Len(c))
<1>1. x \in Seq(CellType) /\ y \in Seq(CellType)
  BY Cut
<1>2. x \o y = c
  BY Cut
<1>. HIDE DEF x, y
<1>3. b \o x \in Seq(CellType)
  BY <1>1
<1>4. (b \o x) \o y = b \o (x \o y)
  BY <1>1
<1>5. (b \o x) \o y = b \o c
  BY <1>2, <1>4, Zenon
<1>. QED
  BY <1>1, <1>3, <1>5 DEF x, y, Join, Extend, Unwritten

(* The parts of a pipe.                                                    *)
LEMMA PipeFacts ==
    ASSUME TypeOK, NEW q \in Ends, NEW s \in Initiators
    PROVE  /\ readBuf[q] \in Seq(CellType) /\ wire[s][q] \in Seq(CellType)
           /\ Outgoing(Peer(q), s) \in Seq(CellType) /\ writing[Peer(q)] \in Seq(CellType)
           /\ Pipe(q, s) \in Seq(CellType)
           /\ given[Peer(q)] \in Seq(FrameType) /\ arrived[q] \in Seq(FrameType)
           /\ queue[Peer(q)] \in Seq(Seq(CellType))
           /\ Len(arrived[q]) \in Nat /\ Len(given[Peer(q)]) \in Nat /\ Len(queue[Peer(q)]) \in Nat
<1>1. Peer(q) \in Ends
  BY TwoEnds
<1>2. /\ readBuf[q] \in Seq(CellType) /\ wire[s][q] \in Seq(CellType)
      /\ writing[Peer(q)] \in Seq(CellType)
      /\ given[Peer(q)] \in Seq(FrameType) /\ arrived[q] \in Seq(FrameType)
      /\ queue[Peer(q)] \in Seq(Seq(CellType))
  BY <1>1 DEF TypeOK
<1>3. Outgoing(Peer(q), s) \in Seq(CellType)
  <2>1. <<>> \in Seq(CellType)
    OBVIOUS
  <2>. QED
    BY <1>2, <2>1 DEF Outgoing
<1>4. Pipe(q, s) \in Seq(CellType)
  BY <1>2, <1>3, Joined DEF Pipe
<1>5. /\ Len(arrived[q]) \in Nat /\ Len(given[Peer(q)]) \in Nat /\ Len(queue[Peer(q)]) \in Nat
  BY <1>2
<1>. QED
  BY <1>2, <1>3, <1>4, <1>5

(* A step that moves no cell: streams are settled, handlers close.         *)
Quiet ==
    /\ UNCHANGED <<given, arrived, queue, writing, readBuf, wire>>
    /\ \A p \in Ends : ~closed'[p] => ~closed[p] /\ (held'[p] = held[p] \/ held[p] = None)

(* It leaves the pipes whole.                                              *)
LEMMA QuietKeepsPipes ==
    ASSUME StreamInv, TypeOK', Quiet
    PROVE  PipeIsWhole' /\ BufferIsWhole'
<1>0. TypeOK /\ Fresh /\ PipeIsWhole
  BY DEF StreamInv, ReadBufferBounded
<1>1. BufferIsWhole'
  BY DEF StreamInv, BufferIsWhole, BufferIsSound, Quiet
<1>2. ASSUME NEW q \in Ends, NEW s \in Initiators, ~closed'[q], held'[q] \in {s, None}
      PROVE  \E n \in Len(arrived'[q])..Len(given'[Peer(q)]), start \in Starts :
                Whole(q, s, n, start)'
  <2>. DEFINE p == Peer(q)
              g == given[p]
              k == Len(arrived[q])
  <2>1. ~closed[q] /\ held[q] \in {s, None}
    BY <1>2 DEF Quiet
  <2>2. PICK n \in k..Len(g), start \in Starts : Whole(q, s, n, start)
    BY <1>0, <2>1 DEF PipeIsWhole, PipeIsSound
  <2>3. p \in Ends /\ None # s
    BY TwoEnds, StreamsAreReal
  <2>4. /\ readBuf[q] \in Seq(CellType) /\ wire[s][q] \in Seq(CellType)
        /\ Outgoing(p, s) \in Seq(CellType) /\ writing[p] \in Seq(CellType)
        /\ Pipe(q, s) \in Seq(CellType) /\ g \in Seq(FrameType)
        /\ k \in Nat /\ Len(g) \in Nat
    BY <1>0, PipeFacts
  <2>5. /\ given'[p] = g /\ arrived'[q] = arrived[q] /\ queue'[p] = queue[p]
        /\ Pipe(q, s)' = Join(readBuf[q], wire[s][q], Outgoing(p, s)')
    BY DEF Quiet, Pipe
  <2>6. Carries(Pipe(q, s), g, k, n, start)
    BY <2>2 DEF Whole
  <2>7. CASE ~closed'[p] /\ held'[p] = s /\ held[p] = s
    <3>1. ~closed[p]
      BY <2>3, <2>7 DEF Quiet
    <3>2. Outgoing(p, s)' = Outgoing(p, s)
      BY <2>7, <3>1 DEF Outgoing, Quiet
    <3>3. Pipe(q, s)' = Pipe(q, s)
      BY <2>5, <3>2 DEF Pipe
    <3>4. n = Len(g) - Len(queue[p]) /\ Len(Pipe(q, s)) = start[n + 1]
      BY <2>2, <2>7, <3>1 DEF Whole
    <3>5. Whole(q, s, n, start)'
      BY <2>5, <2>6, <3>3, <3>4 DEF Whole
    <3>. QED
      BY <2>5, <3>5
  <2>8. CASE ~closed'[p] /\ held'[p] = s /\ held[p] # s
    <3>1. ~closed[p] /\ held[p] = None
      BY <2>3, <2>8 DEF Quiet
    <3>2. g = <<>> /\ queue[p] = <<>> /\ writing[p] = <<>>
      BY <1>0, <2>3, <3>1 DEF Fresh
    <3>3. Outgoing(p, s) = <<>> /\ Outgoing(p, s)' = <<>>
      BY <2>3, <2>8, <3>1, <3>2 DEF Outgoing, Quiet
    <3>4. Pipe(q, s)' = Pipe(q, s)
      BY <2>5, <3>3 DEF Pipe
    <3>5. k = 0 /\ n = 0 /\ Len(g) = 0 /\ Len(queue[p]) = 0
      BY <2>4, <3>2
    <3>6. Len(Pipe(q, s)) <= start[n + 1] /\ start[n + 1] = 0
      BY <2>6, <3>5 DEF Carries
    <3>7. Len(Pipe(q, s)) = start[n + 1]
      <4>1. Len(Pipe(q, s)) \in Nat
        BY <2>4
      <4>. QED
        BY <3>6, <4>1
    <3>8. Whole(q, s, n, start)'
      BY <2>5, <2>6, <3>4, <3>5, <3>7 DEF Whole
    <3>. QED
      BY <2>5, <3>8
  <2>9. CASE ~(~closed'[p] /\ held'[p] = s)
    <3>1. Outgoing(p, s)' = <<>> /\ <<>> \in Seq(CellType) /\ Len(<<>>) = 0
      BY <2>9 DEF Outgoing
    <3>. DEFINE b == Join(readBuf[q], wire[s][q], <<>>)
                d == Join(readBuf[q], wire[s][q], Outgoing(p, s))
    <3>2. /\ b \in Seq(CellType) /\ d \in Seq(CellType)
          /\ Len(b) <= Len(d) /\ \A i \in 1..Len(b) : b[i] = d[i]
      <4>1. b \in Seq(CellType) /\ d \in Seq(CellType) /\ Behind(b, Outgoing(p, s), d)
        BY <2>4, JoinedBehind
      <4>2. Len(b) \in Nat /\ Len(Outgoing(p, s)) \in Nat
        BY <2>4, <4>1
      <4>. HIDE DEF b, d
      <4>. QED
        BY <4>1, <4>2 DEF Behind
    <3>3. d = Pipe(q, s) /\ Pipe(q, s)' = b
      BY <2>5, <3>1 DEF Pipe
    <3>. HIDE DEF b, d, g, k
    <3>4. Carries(b, g, k, n, start)
      BY <2>4, <2>6, <3>2, <3>3, CarriesPrefix
    <3>5. Whole(q, s, n, start)'
      BY <2>5, <2>9, <3>3, <3>4 DEF Whole, g, k
    <3>. QED
      BY <2>5, <3>5 DEF g, k
  <2>. QED
    BY <2>7, <2>8, <2>9
<1>. QED
  BY <1>1, <1>2 DEF PipeIsWhole, PipeIsSound

(* Steps that settle streams or end a handler move no cell.                *)
LEMMA SetupSteps ==
    ASSUME StreamInv, NEW p \in Ends,
           \/ RequestOutbound(p) \/ AnnounceReady(p) \/ ConnectionDown
           \/ \E s \in Initiators : FullyNegotiated(p, s) \/ UpgradeError(p, s)
    PROVE  Quiet /\ TypeOK' /\ Fresh'
<1>0. TypeOK /\ Fresh
  BY DEF StreamInv, ReadBufferBounded
<1>1. CASE RequestOutbound(p)
  <2>1. TypeOK'
    <3>1. requested' \in [Ends -> BOOLEAN]
      BY <1>0, <1>1 DEF TypeOK, RequestOutbound
    <3>2. upgrade' \in [Initiators -> [Ends -> {"none", "pending", "done", "failed"}]]
      BY <1>0, <1>1 DEF TypeOK, RequestOutbound
    <3>. QED
      BY <1>0, <1>1, <3>1, <3>2 DEF TypeOK, RequestOutbound
  <2>. QED
    BY <1>0, <1>1, <2>1 DEF RequestOutbound, Quiet, Fresh
<1>2. CASE AnnounceReady(p)
  <2>1. TypeOK'
    BY <1>0, <1>2 DEF TypeOK, AnnounceReady
  <2>2. Fresh'
    <3>1. ~(~closed[p] /\ held[p] = None)
      BY <1>0, <1>2 DEF AnnounceReady, Fresh
    <3>2. \A q \in Ends : q # p => ready'[q] = ready[q] /\ announced'[q] = announced[q]
      BY <1>0, <1>2 DEF AnnounceReady, TypeOK
    <3>. QED
      BY <1>0, <1>2, <3>1, <3>2 DEF AnnounceReady, Fresh
  <2>. QED
    BY <1>0, <1>2, <2>1, <2>2 DEF AnnounceReady, Quiet
<1>3. CASE ConnectionDown
  <2>1. faults' \in 0..MaxFaults
    <3>1. faults \in Nat /\ faults < MaxFaults /\ faults' = faults + 1 /\ MaxFaults \in Nat
      BY <1>0, <1>3, SizesAssumption DEF TypeOK, ConnectionDown
    <3>. QED
      BY <3>1
  <2>2. TypeOK'
    BY <1>0, <1>3, <2>1 DEF TypeOK, ConnectionDown
  <2>. QED
    BY <1>0, <1>3, <2>2 DEF ConnectionDown, Quiet, Fresh
<1>4. ASSUME NEW s \in Initiators, FullyNegotiated(p, s)
      PROVE  Quiet /\ TypeOK' /\ Fresh'
  <2>1. /\ UNCHANGED <<requested, announced, queue, writing, readBuf, closed, wire, conn, faults, given, arrived>>
        /\ upgrade' = [upgrade EXCEPT ![s][p] = "done"]
        /\ SetSubstream(p, s)
    BY <1>4 DEF FullyNegotiated
  <2>2. upgrade' \in [Initiators -> [Ends -> {"none", "pending", "done", "failed"}]]
    BY <1>0, <2>1 DEF TypeOK
  <2>3. CASE held[p] = None
    <3>1. /\ held' = [held EXCEPT ![p] = s] /\ ready' = [ready EXCEPT ![p] = TRUE]
          /\ dropped' = dropped
      BY <2>1, <2>3 DEF SetSubstream
    <3>2. /\ held' \in [Ends -> Initiators \cup {None}] /\ ready' \in [Ends -> BOOLEAN]
          /\ held'[p] = s /\ \A q \in Ends : q # p => held'[q] = held[q] /\ ready'[q] = ready[q]
      BY <1>0, <3>1 DEF TypeOK
    <3>3. TypeOK'
      BY <1>0, <2>1, <2>2, <3>1, <3>2 DEF TypeOK
    <3>4. Quiet
      BY <2>1, <2>3, <3>2 DEF Quiet
    <3>5. Fresh'
      BY <1>0, <2>1, <3>2, StreamsAreReal DEF Fresh
    <3>. QED
      BY <3>3, <3>4, <3>5
  <2>4. CASE held[p] # None
    <3>1. held' = held /\ ready' = ready /\ dropped' = [dropped EXCEPT ![s] = @ \cup {p}]
      BY <2>1, <2>4 DEF SetSubstream
    <3>2. dropped' \in [Initiators -> SUBSET Ends]
      BY <1>0, <3>1 DEF TypeOK
    <3>3. TypeOK'
      BY <1>0, <2>1, <2>2, <3>1, <3>2 DEF TypeOK
    <3>. QED
      BY <1>0, <2>1, <3>1, <3>3 DEF Quiet, Fresh
  <2>. QED
    BY <2>3, <2>4
<1>5. ASSUME NEW s \in Initiators, UpgradeError(p, s)
      PROVE  Quiet /\ TypeOK' /\ Fresh'
  <2>1. /\ UNCHANGED <<requested, held, ready, announced, queue, writing, readBuf, wire, conn, given, arrived>>
        /\ upgrade' = [upgrade EXCEPT ![s][p] = "failed"]
        /\ dropped' = [dropped EXCEPT ![s] = @ \cup {p}]
        /\ closed' = [closed EXCEPT ![p] = TRUE]
        /\ (faults < MaxFaults /\ faults' = faults + 1) \/ faults' = faults
    BY <1>5 DEF UpgradeError
  <2>2. faults' \in 0..MaxFaults
    <3>1. faults \in 0..MaxFaults /\ MaxFaults \in Nat
      BY <1>0, SizesAssumption DEF TypeOK
    <3>. QED
      BY <2>1, <3>1
  <2>3. /\ upgrade' \in [Initiators -> [Ends -> {"none", "pending", "done", "failed"}]]
        /\ dropped' \in [Initiators -> SUBSET Ends]
    BY <1>0, <2>1 DEF TypeOK
  <2>4. /\ closed' \in [Ends -> BOOLEAN] /\ closed'[p]
        /\ \A q \in Ends : q # p => closed'[q] = closed[q]
    BY <1>0, <2>1 DEF TypeOK
  <2>5. TypeOK'
    BY <1>0, <2>1, <2>2, <2>3, <2>4 DEF TypeOK
  <2>. QED
    BY <1>0, <2>1, <2>4, <2>5 DEF Quiet, Fresh
<1>. QED
  BY <1>1, <1>2, <1>3, <1>4, <1>5

(* So does giving up.                                                      *)
LEMMA GiveUpSteps ==
    ASSUME StreamInv, NEW p \in Ends, WriteFails(p) \/ ReadFails(p) \/ PollClose(p)
    PROVE  Quiet /\ TypeOK' /\ Fresh'
<1>0. TypeOK /\ Fresh
  BY DEF StreamInv, ReadBufferBounded
<1>1. /\ closed' = [closed EXCEPT ![p] = TRUE]
      /\ held' = [held EXCEPT ![p] = None]
      /\ dropped' = [s \in Initiators |-> IF held[p] = s THEN dropped[s] \cup {p} ELSE dropped[s]]
      /\ UNCHANGED <<requested, upgrade, ready, announced, queue, writing, readBuf, wire, conn,
                     faults, given, arrived>>
  BY DEF WriteFails, ReadFails, PollClose, GiveUp
<1>2. /\ closed' \in [Ends -> BOOLEAN] /\ closed'[p]
      /\ \A q \in Ends : q # p => closed'[q] = closed[q] /\ held'[q] = held[q]
      /\ held' \in [Ends -> Initiators \cup {None}]
  BY <1>0, <1>1 DEF TypeOK
<1>3. dropped' \in [Initiators -> SUBSET Ends]
  BY <1>0, <1>1 DEF TypeOK
<1>4. TypeOK'
  BY <1>0, <1>1, <1>2, <1>3 DEF TypeOK
<1>. QED
  BY <1>0, <1>1, <1>2, <1>4 DEF Quiet, Fresh

(* Steps that move no cell keep the invariant.                             *)
LEMMA QuietKeepsInv ==
    ASSUME StreamInv, Quiet, TypeOK', Fresh'
    PROVE  StreamInv'
<1>1. PipeIsWhole' /\ BufferIsWhole'
  BY QuietKeepsPipes
<1>2. ReadBufferBounded' /\ QueueIsRest'
  BY DEF StreamInv, ReadBufferBounded, QueueIsRest, Quiet
<1>. QED
  BY <1>1, <1>2 DEF StreamInv

(* A pipe nobody has touched.                                              *)
LEMMA PipeStays ==
    ASSUME NEW q \in Ends, NEW s \in Initiators, PipeIsSound(q, s),
           UNCHANGED <<closed, held>>, Pipe(q, s)' = Pipe(q, s), arrived'[q] = arrived[q],
           given'[Peer(q)] = given[Peer(q)], queue'[Peer(q)] = queue[Peer(q)]
    PROVE  PipeIsSound(q, s)'
BY DEF PipeIsSound, Whole

(* A frame handed over joins the write queue.                              *)
LEMMA SendKeepsInv ==
    ASSUME StreamInv, NEW p \in Ends, SendFrames(p)
    PROVE  StreamInv'
<1>. DEFINE g == given[p]
            w == queue[p]
            f == Sends[p][Len(g) + 1]
<1>0. TypeOK /\ Fresh /\ QueueIsRest /\ PipeIsWhole /\ BufferIsWhole
  BY DEF StreamInv, ReadBufferBounded
<1>1. /\ announced[p] /\ Len(g) + 1 <= Len(Sends[p])
      /\ given' = [given EXCEPT ![p] = Append(g, f)]
      /\ queue' = [queue EXCEPT ![p] = Append(w, Encode(f))]
      /\ UNCHANGED <<requested, upgrade, held, ready, announced, writing, readBuf, closed, wire,
                     dropped, conn, faults, arrived>>
  BY DEF SendFrames
<1>2. g \in Seq(FrameType) /\ w \in Seq(Seq(CellType)) /\ Len(g) \in Nat /\ Len(w) \in Nat
  BY <1>0 DEF TypeOK
<1>3. f \in FrameType
  <2>1. Sends[p] \in Seq(FrameType)
    BY SendsAssumption DEF Ends
  <2>. QED
    BY <1>1, <1>2, <2>1
<1>4. Encode(f) \in Seq(CellType)
  BY <1>3, EncodeFacts
<1>5. /\ given'[p] = Append(g, f) /\ queue'[p] = Append(w, Encode(f))
      /\ \A q \in Ends : q # p => given'[q] = given[q] /\ queue'[q] = queue[q]
  BY <1>0, <1>1 DEF TypeOK
<1>. HIDE DEF g, w, f
<1>6. /\ Append(g, f) \in Seq(FrameType) /\ Append(w, Encode(f)) \in Seq(Seq(CellType))
      /\ Len(Append(g, f)) = Len(g) + 1 /\ Len(Append(w, Encode(f))) = Len(w) + 1
  BY <1>2, <1>3, <1>4
<1>7. TypeOK'
  <2>1. given' \in [Ends -> Seq(FrameType)] /\ queue' \in [Ends -> Seq(Seq(CellType))]
    BY <1>0, <1>1, <1>6 DEF TypeOK
  <2>. QED
    BY <1>0, <1>1, <2>1 DEF TypeOK
<1>8. ReadBufferBounded'
  BY <1>1, <1>7 DEF StreamInv, ReadBufferBounded
<1>9. Fresh'
  <2>1. ~(~closed[p] /\ held[p] = None)
    BY <1>0, <1>1 DEF Fresh
  <2>. QED
    BY <1>0, <1>1, <1>5, <2>1 DEF Fresh
<1>10. QueueIsRest'
  <2>1. /\ Len(w) <= Len(g)
        /\ \A j \in 1..Len(w) : w[j] = Encode(g[Len(g) - Len(w) + j])
    BY <1>0 DEF QueueIsRest, IsRest, g, w
  <2>2. Len(g) + 1 - (Len(w) + 1) = Len(g) - Len(w) /\ Len(w) + 1 <= Len(g) + 1
    BY <1>2, <2>1
  <2>3. ASSUME NEW j \in 1..(Len(w) + 1)
        PROVE  Append(w, Encode(f))[j] = Encode(Append(g, f)[Len(g) - Len(w) + j])
    <3>1. CASE j = Len(w) + 1
      <4>1. Len(g) - Len(w) + j = Len(g) + 1
        BY <1>2, <3>1
      <4>2. Append(w, Encode(f))[Len(w) + 1] = Encode(f)
        BY <1>2, <1>4
      <4>3. Append(g, f)[Len(g) + 1] = f
        BY <1>2, <1>3
      <4>. QED
        BY <3>1, <4>1, <4>2, <4>3
    <3>2. CASE j # Len(w) + 1
      <4>1. j \in 1..Len(w) /\ Len(g) - Len(w) + j \in 1..Len(g)
        BY <1>2, <2>1, <3>2
      <4>2. Append(w, Encode(f))[j] = w[j]
        BY <1>2, <1>4, <4>1
      <4>3. Append(g, f)[Len(g) - Len(w) + j] = g[Len(g) - Len(w) + j]
        BY <1>2, <1>3, <4>1
      <4>. QED
        BY <2>1, <4>1, <4>2, <4>3
    <3>. QED
      BY <3>1, <3>2
  <2>4. IsRest(queue'[p], given'[p])
    <3>. DEFINE x == Append(g, f)
                y == Append(w, Encode(f))
    <3>1. /\ given'[p] = x /\ queue'[p] = y /\ Len(x) = Len(g) + 1 /\ Len(y) = Len(w) + 1
          /\ \A j \in 1..(Len(w) + 1) : y[j] = Encode(x[Len(g) - Len(w) + j])
      BY <1>5, <1>6, <2>3
    <3>. HIDE DEF x, y
    <3>2. Len(x) - Len(y) = Len(g) - Len(w) /\ Len(y) <= Len(x)
      BY <2>2, <3>1
    <3>3. \A j \in 1..Len(y) : y[j] = Encode(x[Len(x) - Len(y) + j])
      BY <3>1, <3>2
    <3>. QED
      BY <3>1, <3>2, <3>3 DEF IsRest
  <2>. QED
    BY <1>0, <1>5, <2>4 DEF QueueIsRest
<1>11. \A q \in Ends, s \in Initiators : Pipe(q, s)' = Pipe(q, s)
  BY <1>1 DEF Pipe, Outgoing
<1>12. ASSUME NEW q \in Ends, NEW s \in Initiators
       PROVE  PipeIsSound(q, s)'
  <2>0. PipeIsSound(q, s)
    BY <1>0 DEF PipeIsWhole
  <2>1. CASE Peer(q) # p
    <3>1. given'[Peer(q)] = given[Peer(q)] /\ queue'[Peer(q)] = queue[Peer(q)]
      BY <1>5, <2>1, TwoEnds
    <3>. QED
      BY <1>1, <1>11, <2>0, <3>1, PipeStays
  <2>2. CASE Peer(q) = p
    <3>1. SUFFICES ASSUME ~closed'[q], held'[q] \in {s, None}
                   PROVE  \E n \in Len(arrived'[q])..Len(given'[p]), start \in Starts :
                             Whole(q, s, n, start)'
      BY <2>2 DEF PipeIsSound
    <3>2. PICK n \in Len(arrived[q])..Len(g), start \in Starts : Whole(q, s, n, start)
      BY <1>1, <2>0, <2>2, <3>1 DEF PipeIsSound, g
    <3>3. Len(arrived[q]) \in Nat
      BY <1>0, PipeFacts
    <3>. DEFINE k == Len(arrived[q])
                b == Pipe(q, s)
    <3>4. Carries(b, g, k, n, start)
      BY <2>2, <3>2 DEF Whole, g
    <3>. HIDE DEF k, b
    <3>5. Carries(b, Append(g, f), k, n, start)
      BY <1>2, <1>3, <3>3, <3>4, CarriesMore DEF k
    <3>6. ~closed[p] /\ held[p] = s => n = Len(g) - Len(w) /\ Len(b) = start[n + 1]
      BY <2>2, <3>2 DEF Whole, g, w, b
    <3>7. Len(g) + 1 - (Len(w) + 1) = Len(g) - Len(w) /\ n \in k..(Len(g) + 1)
      BY <1>2, <3>3 DEF k
    <3>8. /\ given'[Peer(q)] = Append(g, f) /\ arrived'[q] = arrived[q] /\ Pipe(q, s)' = b
          /\ closed' = closed /\ held' = held
          /\ Len(given'[Peer(q)]) = Len(g) + 1 /\ Len(queue'[Peer(q)]) = Len(w) + 1
      BY <1>1, <1>5, <1>6, <1>11, <2>2 DEF b
    <3>9. Whole(q, s, n, start)'
      BY <2>2, <3>5, <3>6, <3>7, <3>8 DEF Whole, k
    <3>. QED
      BY <2>2, <3>7, <3>8, <3>9 DEF k
  <2>. QED
    BY <2>1, <2>2
<1>13. ASSUME NEW q \in Ends
       PROVE  BufferIsSound(q)'
  <2>0. BufferIsSound(q)
    BY <1>0 DEF BufferIsWhole
  <2>1. CASE Peer(q) # p
    <3>1. given'[Peer(q)] = given[Peer(q)]
      BY <1>5, <2>1, TwoEnds
    <3>. QED
      BY <1>1, <2>0, <3>1 DEF BufferIsSound
  <2>2. CASE Peer(q) = p
    <3>1. PICK n \in Len(arrived[q])..Len(g), start \in Starts :
             Carries(readBuf[q], g, Len(arrived[q]), n, start)
      BY <2>0, <2>2 DEF BufferIsSound, g
    <3>2. Len(arrived[q]) \in Nat
      BY <1>0 DEF TypeOK
    <3>3. Carries(readBuf[q], Append(g, f), Len(arrived[q]), n, start)
      BY <1>2, <1>3, <3>1, <3>2, CarriesMore
    <3>4. n \in Len(arrived[q])..(Len(g) + 1)
      BY <1>2, <3>2
    <3>5. given'[Peer(q)] = Append(g, f) /\ readBuf' = readBuf /\ arrived' = arrived
      BY <1>1, <1>5, <2>2
    <3>. QED
      BY <1>6, <3>3, <3>4, <3>5 DEF BufferIsSound
  <2>. QED
    BY <2>1, <2>2
<1>. QED
  BY <1>8, <1>9, <1>10, <1>12, <1>13 DEF StreamInv, PipeIsWhole, BufferIsWhole

(* A partial write: the rest of a frame, or the first part of the next.    *)
LEMMA WriteKeepsInv ==
    ASSUME StreamInv, NEW p \in Ends, PollWrite(p)
    PROVE  StreamInv'
<1>0. TypeOK /\ Fresh /\ QueueIsRest /\ PipeIsWhole /\ BufferIsWhole
  BY DEF StreamInv, ReadBufferBounded
<1>1. /\ ~closed[p] /\ held[p] # None /\ (writing[p] # <<>> \/ queue[p] # <<>>)
      /\ queue' = [queue EXCEPT ![p] = IF writing[p] # <<>> THEN @ ELSE Tail(@)]
      /\ UNCHANGED <<requested, upgrade, held, ready, announced, readBuf, closed, dropped, conn,
                     faults, given, arrived>>
  BY DEF PollWrite, Running, HasWrites
<1>s. PICK s \in Initiators : s = held[p]
  BY <1>0, <1>1 DEF TypeOK
<1>q. PICK q \in Ends : q = Peer(p)
  BY TwoEnds
<1>3. q # p /\ Peer(q) = p
  BY <1>q, TwoEnds
<1>w. PICK w \in Seq(CellType) : w = wire[s][q]
  BY <1>0 DEF TypeOK
<1>r. PICK r \in Seq(CellType) : r = readBuf[q]
  BY <1>0 DEF TypeOK
<1>g. PICK g \in Seq(FrameType) : g = given[p]
  BY <1>0 DEF TypeOK
<1>l. PICK l \in Seq(Seq(CellType)) : l = queue[p]
  BY <1>0 DEF TypeOK
<1>k. PICK k \in Nat : k = Len(arrived[q])
  BY <1>0 DEF TypeOK
<1>4. writing[p] \in Seq(CellType)
  BY <1>0 DEF TypeOK
<1>b. PICK buf \in Seq(CellType) : buf = IF writing[p] # <<>> THEN writing[p] ELSE Head(l)
  BY <1>1, <1>4, <1>l
<1>5. Len(buf) \in Nat
  OBVIOUS
<1>2. PICK n \in 1..Room(p) :
         /\ n <= Len(buf)
         /\ wire' = [wire EXCEPT ![s][q] = w \o SubSeq(buf, 1, n)]
         /\ writing' = [writing EXCEPT ![p] = SubSeq(buf, n + 1, Len(buf))]
  BY <1>s, <1>q, <1>w, <1>b, <1>l DEF PollWrite, Unwritten
<1>6. n \in 0..Len(buf)
  <2>1. Len(w) \in Nat /\ Room(p) = Window - Len(w)
    BY <1>s, <1>q, <1>w DEF Room
  <2>2. n \in Nat
    BY <2>1, SizesAssumption
  <2>. QED
    BY <1>2, <1>5, <2>2
<1>7. PICK x \in Seq(CellType), y \in Seq(CellType) :
         x = Extend(w, buf, n) /\ y = Unwritten(buf, n)
  BY <1>6, WriteMoves
<1>8. Join(r, x, y) = Join(r, w, buf)
  BY <1>6, <1>7, WriteMoves
<1>9. /\ wire' = [wire EXCEPT ![s][q] = x]
      /\ writing' = [writing EXCEPT ![p] = y]
  BY <1>2, <1>7 DEF Extend, Unwritten
<1>11. /\ wire'[s][q] = x /\ writing'[p] = y
       /\ \A e \in Ends : e # p => writing'[e] = writing[e]
       /\ \A t \in Initiators, e \in Ends : ~(t = s /\ e = q) => wire'[t][e] = wire[t][e]
  BY <1>0, <1>3, <1>9 DEF TypeOK
<1>12. /\ queue'[p] = IF writing[p] # <<>> THEN queue[p] ELSE Tail(queue[p])
       /\ \A e \in Ends : e # p => queue'[e] = queue[e]
  BY <1>0, <1>1 DEF TypeOK
<1>13. queue'[p] \in Seq(Seq(CellType))
  <2>1. writing[p] = <<>> => Tail(l) \in Seq(Seq(CellType))
    BY <1>1, <1>l
  <2>. QED
    BY <1>12, <1>l, <2>1
<1>14. TypeOK'
  <2>1. wire' \in [Initiators -> [Ends -> Seq(CellType)]]
    BY <1>0, <1>3, <1>8, <1>9 DEF TypeOK
  <2>2. writing' \in [Ends -> Seq(CellType)]
    BY <1>0, <1>9 DEF TypeOK
  <2>3. queue' \in [Ends -> Seq(Seq(CellType))]
    <3>1. queue' = [e \in Ends |-> queue'[e]]
      BY <1>0, <1>1 DEF TypeOK
    <3>2. \A e \in Ends : queue'[e] \in Seq(Seq(CellType))
      BY <1>0, <1>12, <1>13 DEF TypeOK
    <3>. QED
      BY <3>1, <3>2
  <2>. QED
    BY <1>0, <1>1, <2>1, <2>2, <2>3 DEF TypeOK
<1>15. ReadBufferBounded'
  BY <1>1, <1>14 DEF StreamInv, ReadBufferBounded
<1>16. Fresh'
  BY <1>0, <1>1, <1>11, <1>12 DEF Fresh
<1>17. BufferIsWhole'
  BY <1>0, <1>1 DEF BufferIsWhole, BufferIsSound
<1>18. Len(l) <= Len(g) /\ \A j \in 1..Len(l) : l[j] = Encode(g[Len(g) - Len(l) + j])
  BY <1>0, <1>g, <1>l DEF QueueIsRest, IsRest
<1>19. CASE writing[p] # <<>>
  <2>1. queue' = queue /\ buf = writing[p]
    BY <1>0, <1>1, <1>b, <1>19 DEF TypeOK
  <2>2. QueueIsRest'
    BY <1>0, <1>1, <2>1 DEF QueueIsRest
  <2>3. ASSUME NEW e \in Ends, NEW t \in Initiators
        PROVE  PipeIsSound(e, t)'
    <3>1. Outgoing(Peer(e), t)' = IF Peer(e) = p /\ t = s THEN y ELSE Outgoing(Peer(e), t)
      <4>1. CASE Peer(e) = p
        BY <1>1, <1>11, <1>s, <4>1 DEF Outgoing
      <4>2. CASE Peer(e) # p
        BY <1>1, <1>11, <4>2, TwoEnds DEF Outgoing
      <4>. QED
        BY <4>1, <4>2
    <3>2. Pipe(e, t)' = Pipe(e, t)
      <4>1. CASE Peer(e) = p /\ t = s
        <5>1. e = q
          BY <1>q, <4>1, TwoEnds
        <5>2. Outgoing(Peer(e), t) = buf
          BY <1>1, <1>s, <2>1, <4>1 DEF Outgoing
        <5>3. Pipe(e, t)' = Join(r, x, y)
          BY <1>1, <1>11, <1>r, <3>1, <4>1, <5>1 DEF Pipe
        <5>4. Pipe(e, t) = Join(r, w, buf)
          BY <1>r, <1>w, <4>1, <5>1, <5>2 DEF Pipe
        <5>. QED
          BY <1>8, <5>3, <5>4, Zenon
      <4>2. CASE ~(Peer(e) = p /\ t = s)
        <5>1. ~(t = s /\ e = q)
          BY <1>3, <4>2
        <5>. QED
          BY <1>1, <1>11, <3>1, <4>2, <5>1 DEF Pipe
      <4>. QED
        BY <4>1, <4>2
    <3>3. PipeIsSound(e, t)
      BY <1>0 DEF PipeIsWhole
    <3>. QED
      BY <1>1, <2>1, <3>2, <3>3, PipeStays
  <2>. QED
    BY <1>15, <1>16, <1>17, <2>2, <2>3 DEF StreamInv, PipeIsWhole
<1>20. CASE writing[p] = <<>>
  <2>1. l # <<>> /\ queue'[p] = Tail(l) /\ buf = Head(l)
    BY <1>1, <1>12, <1>20, <1>b, <1>l
  <2>2. Len(l) \in Nat \ {0} /\ Len(g) \in Nat /\ Len(l) <= Len(g)
    BY <1>18, <2>1
  <2>m. PICK m \in Nat : m = Len(g) - Len(l)
    <3>1. Len(g) - Len(l) \in Nat
      BY <2>2
    <3>. QED
      BY <3>1
  <2>3. m < Len(g) /\ m + 1 \in 1..Len(g)
    BY <2>2, <2>m
  <2>z. PICK z \in FrameType : z = g[m + 1]
    BY <2>3
  <2>4. buf = Encode(z)
    <3>1. 1 \in 1..Len(l) /\ Head(l) = l[1]
      BY <2>1, <2>2
    <3>2. l[1] = Encode(g[Len(g) - Len(l) + 1])
      BY <1>18, <3>1
    <3>. QED
      BY <2>1, <2>m, <2>z, <3>1, <3>2
  <2>5. /\ Len(Tail(l)) = Len(l) - 1 /\ \A j \in 1..(Len(l) - 1) : Tail(l)[j] = l[j + 1]
        /\ Len(g) - (Len(l) - 1) = m + 1
    BY <2>1, <2>2, <2>m
  <2>6. QueueIsRest'
    <3>1. \A j \in 1..(Len(l) - 1) : Tail(l)[j] = Encode(g[(m + 1) + j])
      <4>. SUFFICES ASSUME NEW j \in 1..(Len(l) - 1) PROVE Tail(l)[j] = Encode(g[(m + 1) + j])
        OBVIOUS
      <4>1. j + 1 \in 1..Len(l) /\ m + (j + 1) = (m + 1) + j
        BY <2>2, <2>3
      <4>2. l[j + 1] = Encode(g[m + (j + 1)])
        BY <1>18, <2>m, <4>1
      <4>. QED
        BY <2>5, <4>1, <4>2
    <3>2. IsRest(queue'[p], given'[p])
      <4>1. queue'[p] = Tail(l) /\ given'[p] = g /\ Len(queue'[p]) = Len(l) - 1
        BY <1>1, <1>g, <2>1, <2>5
      <4>2. Len(given'[p]) - Len(queue'[p]) = m + 1 /\ Len(queue'[p]) <= Len(given'[p])
        BY <2>2, <2>5, <4>1
      <4>. QED
        BY <3>1, <4>1, <4>2 DEF IsRest
    <3>. QED
      <4>1. \A e \in Ends : e # p => queue'[e] = queue[e] /\ given'[e] = given[e]
        BY <1>1, <1>12
      <4>. QED
        BY <1>0, <3>2, <4>1 DEF QueueIsRest
  <2>7. ASSUME NEW e \in Ends, NEW t \in Initiators
        PROVE  PipeIsSound(e, t)'
    <3>0. PipeIsSound(e, t)
      BY <1>0 DEF PipeIsWhole
    <3>1. Outgoing(Peer(e), t)' = IF Peer(e) = p /\ t = s THEN y ELSE Outgoing(Peer(e), t)
      <4>1. CASE Peer(e) = p
        BY <1>1, <1>11, <1>s, <4>1 DEF Outgoing
      <4>2. CASE Peer(e) # p
        BY <1>1, <1>11, <4>2, TwoEnds DEF Outgoing
      <4>. QED
        BY <4>1, <4>2
    <3>2. CASE ~(Peer(e) = p /\ t = s)
      <4>1. ~(t = s /\ e = q)
        BY <1>3, <3>2
      <4>2. Pipe(e, t)' = Pipe(e, t)
        BY <1>1, <1>11, <3>1, <3>2, <4>1 DEF Pipe
      <4>3. CASE Peer(e) # p
        BY <1>1, <1>12, <3>0, <4>2, <4>3, PipeStays, TwoEnds
      <4>4. CASE Peer(e) = p
        <5>1. ~(held[p] = t)
          BY <1>s, <3>2, <4>4
        <5>2. given'[p] = given[p] /\ arrived' = arrived /\ held' = held /\ closed' = closed
          BY <1>1
        <5>. QED
          BY <3>0, <4>2, <4>4, <5>1, <5>2 DEF PipeIsSound, Whole
      <4>. QED
        BY <4>3, <4>4
    <3>3. CASE Peer(e) = p /\ t = s
      <4>1. e = q
        BY <1>q, <3>3, TwoEnds
      <4>b. PICK b \in Seq(CellType) : b = Join(r, w, <<>>)
        BY JoinedBehind
      <4>d. PICK d \in Seq(CellType) : d = Join(r, w, buf)
        BY Joined
      <4>2. SUFFICES ASSUME ~closed'[q], held'[q] \in {s, None}
                     PROVE  \E i \in Len(arrived'[q])..Len(given'[p]), start \in Starts :
                               Whole(q, s, i, start)'
        BY <3>3, <4>1 DEF PipeIsSound
      <4>3. PICK i \in k..Len(g), start \in Starts : Whole(q, s, i, start)
        BY <1>1, <1>g, <1>k, <3>0, <3>3, <4>1, <4>2 DEF PipeIsSound
      <4>5. Pipe(q, s) = b
        BY <1>3, <1>20, <1>r, <1>w, <4>b DEF Pipe, Outgoing
      <4>4. Carries(b, g, k, i, start) /\ i = m /\ Len(b) = start[i + 1]
        BY <1>1, <1>3, <1>g, <1>k, <1>l, <1>s, <2>m, <4>3, <4>5 DEF Whole
      <4>6. Pipe(q, s)' = d
        <5>1. Pipe(q, s)' = Join(r, x, y)
          BY <1>1, <1>11, <1>r, <3>1, <3>3, <4>1 DEF Pipe
        <5>. QED
          BY <1>8, <4>d, <5>1, Zenon
      <4>7. Behind(b, Encode(g[m + 1]), d)
        <5>1. Behind(b, buf, d)
          BY <4>b, <4>d, JoinedBehind
        <5>. QED
          BY <2>4, <2>z, <5>1
      <4>8. Fills(b, g, k, m, start) /\ m \in k..Len(g)
        BY <4>4 DEF Fills
      <4>9. PICK later \in Starts : Fills(d, g, k, m + 1, later)
        BY <2>3, <4>7, <4>8, CarriesNext
      <4>10. m + 1 \in k..Len(g) /\ (m + 1) + 1 = m + 2
        BY <2>2, <2>3, <4>4
      <4>11. Whole(q, s, m + 1, later)'
        <5>1. /\ given'[p] = g /\ arrived' = arrived /\ Len(queue'[p]) = Len(l) - 1
              /\ Len(g) - (Len(l) - 1) = m + 1
          BY <1>1, <1>g, <2>1, <2>5
        <5>. QED
          BY <1>3, <1>k, <4>6, <4>9, <4>10, <5>1 DEF Whole, Fills
      <4>12. Len(arrived'[q]) = k /\ given'[p] = g
        BY <1>1, <1>k, <1>g
      <4>. QED
        BY <4>10, <4>11, <4>12
    <3>. QED
      BY <3>2, <3>3
  <2>. QED
    BY <1>15, <1>16, <1>17, <2>6, <2>7 DEF StreamInv, PipeIsWhole
<1>. QED
  BY <1>19, <1>20

(* A frame taken off the front of the first buffer.                        *)
LEMMA JoinedDrop ==
    ASSUME NEW a \in Seq(CellType), NEW b \in Seq(CellType), NEW c \in Seq(CellType),
           NEW z \in 0..Len(a)
    PROVE  /\ Unwritten(a, z) \in Seq(CellType)
           /\ Join(Unwritten(a, z), b, c) \in Seq(CellType)
           /\ Dropped(Join(a, b, c), z, Join(Unwritten(a, z), b, c))
<1>. DEFINE y == Unwritten(a, z)
            d == Join(y, b, c)
            e == Join(a, b, c)
<1>1. y \in Seq(CellType) /\ Len(y) = Len(a) - z /\ \A i \in 1..(Len(a) - z) : y[i] = a[z + i]
  BY Cut DEF Unwritten
<1>. HIDE DEF y
<1>2. /\ d \in Seq(CellType) /\ Len(d) = Len(y) + Len(b) + Len(c)
      /\ \A i \in 1..Len(y) : d[i] = y[i]
      /\ \A i \in 1..Len(b) : d[Len(y) + i] = b[i]
      /\ \A i \in 1..Len(c) : d[Len(y) + Len(b) + i] = c[i]
  BY <1>1, Joined, ZenonT(60)
<1>3. /\ e \in Seq(CellType) /\ Len(e) = Len(a) + Len(b) + Len(c)
      /\ \A i \in 1..Len(a) : e[i] = a[i]
      /\ \A i \in 1..Len(b) : e[Len(a) + i] = b[i]
      /\ \A i \in 1..Len(c) : e[Len(a) + Len(b) + i] = c[i]
  BY Joined
<1>. HIDE DEF d, e
<1>4. Len(a) \in Nat /\ Len(b) \in Nat /\ Len(c) \in Nat /\ z \in Nat /\ z <= Len(a)
  OBVIOUS
<1>5. Len(d) = Len(e) - z
  BY <1>1, <1>2, <1>3, <1>4
<1>6. ASSUME NEW i \in 1..Len(d) PROVE d[i] = e[z + i]
  <2>0. i \in Nat \ {0} /\ i <= Len(y) + Len(b) + Len(c) /\ Len(y) \in Nat /\ Len(a) = Len(y) + z
    BY <1>1, <1>2, <1>4
  <2>1. CASE i <= Len(y)
    <3>1. i \in 1..Len(y) /\ i \in 1..(Len(a) - z) /\ z + i \in 1..Len(a)
      BY <1>4, <2>0, <2>1
    <3>. QED
      BY <1>1, <1>2, <1>3, <3>1
  <2>2. CASE ~(i <= Len(y)) /\ i <= Len(y) + Len(b)
    <3>. DEFINE j == i - Len(y)
    <3>1. j \in 1..Len(b) /\ i = Len(y) + j /\ z + i = Len(a) + j
      BY <1>4, <2>0, <2>2
    <3>. HIDE DEF j
    <3>2. d[Len(y) + j] = b[j] /\ e[Len(a) + j] = b[j]
      BY <1>2, <1>3, <3>1
    <3>. QED
      BY <3>1, <3>2
  <2>3. CASE ~(i <= Len(y) + Len(b))
    <3>. DEFINE j == i - (Len(y) + Len(b))
    <3>1. j \in 1..Len(c) /\ i = Len(y) + Len(b) + j /\ z + i = Len(a) + Len(b) + j
      BY <1>4, <2>0, <2>3
    <3>. HIDE DEF j
    <3>2. d[Len(y) + Len(b) + j] = c[j] /\ e[Len(a) + Len(b) + j] = c[j]
      BY <1>2, <1>3, <3>1
    <3>. QED
      BY <3>1, <3>2
  <2>. QED
    BY <2>1, <2>2, <2>3, Zenon
<1>7. Dropped(e, z, d)
  BY <1>5, <1>6 DEF Dropped
<1>. QED
  BY <1>1, <1>2, <1>7 DEF y, d, e

(* What is read is the front of the pipe.                                  *)
LEMMA CarriesFront ==
    ASSUME NEW g \in Seq(FrameType), NEW k \in Nat, NEW n \in k..Len(g), NEW start \in Starts,
           NEW a \in Seq(CellType), NEW b \in Seq(CellType), NEW c \in Seq(CellType),
           Carries(Join(a, b, c), g, k, n, start)
    PROVE  Carries(a, g, k, n, start)
<1>. DEFINE d == Join(a, b, c)
<1>1. /\ d \in Seq(CellType) /\ Len(d) = Len(a) + Len(b) + Len(c)
      /\ \A i \in 1..Len(a) : d[i] = a[i]
  BY Joined
<1>. HIDE DEF d
<1>2. Len(a) <= Len(d)
  BY <1>1
<1>3. Carries(d, g, k, n, start)
  BY DEF d
<1>. QED
  BY <1>1, <1>2, <1>3, CarriesPrefix

(* decode hands up the frame that is next, and only a sound one.           *)
LEMMA DecodesNext ==
    ASSUME NEW g \in Seq(FrameType), NEW k \in Nat, NEW n \in k..Len(g), NEW start \in Starts,
           NEW b \in Seq(CellType), Carries(b, g, k, n, start), ~Truncated(b), ~Malformed(b)
    PROVE  /\ k < n /\ k + 1 \in 1..Len(g) /\ g[k + 1] \in SoundFrames
           /\ Size(g[k + 1]) \in 0..Len(b)
           /\ Decode(b) = g[k + 1] /\ AfterFrame(b) = Unwritten(b, Size(g[k + 1]))
<1>1. Len(b) \in Nat /\ HeaderLen \in Nat \ {0} /\ MaxPayload \in Nat
  BY SizesAssumption
<1>2. Len(b) >= HeaderLen /\ HeaderAccepted(b) /\ ~(Len(b) < Consumed(b)) /\ Leading(b).form = "good"
  BY DEF Truncated, Malformed
<1>3. Len(b) # 0
  BY <1>1, <1>2
<1>4. /\ k < n /\ k + 1 \in 1..Len(g) /\ g[k + 1] \in FrameType
      /\ \A a \in 1..Size(g[k + 1]) : a <= Len(b) => b[a] = [frame |-> g[k + 1], at |-> a]
      /\ b[1] = [frame |-> g[k + 1], at |-> 1]
  BY <1>3, CarriesFirst
<1>. DEFINE f == g[k + 1]
            z == Size(f)
<1>5. Leading(b) = f /\ Consumed(b) = z
  BY <1>4 DEF Leading, Consumed, Size
<1>6. z \in Nat \ {0} /\ f \in FrameType /\ f.len \in Nat
  BY <1>4, SizeIsPositive
<1>7. f \in SoundFrames
  BY <1>2, <1>5, <1>6 DEF SoundFrames, HeaderAccepted
<1>8. z \in 0..Len(b)
  BY <1>1, <1>2, <1>5, <1>6
<1>9. \A a \in 1..z : b[a] = [frame |-> f, at |-> a]
  BY <1>1, <1>4, <1>8
<1>. HIDE DEF f, z
<1>10. SubSeq(b, 1, z) = Encode(f)
  <2>1. /\ SubSeq(b, 1, z) \in Seq(CellType) /\ Len(SubSeq(b, 1, z)) = z
        /\ \A i \in 1..z : SubSeq(b, 1, z)[i] = b[i]
    BY <1>8, Cut
  <2>2. /\ Encode(f) \in Seq(CellType) /\ Len(Encode(f)) = z
        /\ \A a \in 1..z : Encode(f)[a] = [frame |-> f, at |-> a]
    BY <1>6, EncodeFacts DEF z
  <2>. DEFINE u == SubSeq(b, 1, z)
              v == Encode(f)
  <2>3. /\ u \in Seq(CellType) /\ v \in Seq(CellType) /\ Len(u) = Len(v)
        /\ \A i \in 1..Len(u) : u[i] = v[i]
    BY <1>9, <2>1, <2>2, ZenonT(60)
  <2>. HIDE DEF u, v
  <2>4. u = v
    BY <2>3
  <2>. QED
    BY <2>4 DEF u, v
<1>11. Decode(b) = f
  BY <1>5, <1>10 DEF Decode
<1>12. AfterFrame(b) = Unwritten(b, z)
  BY <1>5 DEF AfterFrame, Unwritten
<1>. QED
  BY <1>4, <1>7, <1>8, <1>11, <1>12 DEF f, z

(* A buffer is refused only when the next frame is a bad one.              *)
LEMMA RefusesBad ==
    ASSUME NEW g \in Seq(FrameType), NEW k \in Nat, NEW n \in k..Len(g), NEW start \in Starts,
           NEW b \in Seq(CellType), Carries(b, g, k, n, start), Refused(b)
    PROVE  k + 1 <= Len(g) /\ g[k + 1] \notin SoundFrames
<1>1. Len(b) \in Nat /\ HeaderLen \in Nat \ {0} /\ MaxPayload \in Nat
  BY SizesAssumption
<1>2. CASE Truncated(b) /\ Len(b) > MaxReadBuffer
  <2>1. Len(b) >= HeaderLen /\ Len(b) # 0
    BY <1>1, <1>2 DEF MaxReadBuffer
  <2>2. HeaderAccepted(b) /\ Len(b) < Consumed(b)
    BY <1>2, <2>1 DEF Truncated
  <2>3. g[k + 1] \in FrameType /\ b[1] = [frame |-> g[k + 1], at |-> 1]
    BY <2>1, CarriesFirst
  <2>4. Leading(b).len \in Nat
    BY <2>3 DEF Leading, FrameType
  <2>5. Consumed(b) <= MaxReadBuffer
    BY <1>1, <2>2, <2>4 DEF HeaderAccepted, Consumed, MaxReadBuffer
  <2>6. Consumed(b) \in Nat /\ MaxReadBuffer \in Nat
    BY <1>1, <2>4 DEF Consumed, MaxReadBuffer
  <2>. QED
    BY <1>1, <1>2, <2>2, <2>5, <2>6
<1>3. CASE Malformed(b)
  <2>1. Len(b) >= HeaderLen /\ (HeaderAccepted(b) => Leading(b).form # "good")
    BY <1>3 DEF Malformed, Truncated
  <2>2. Len(b) # 0
    BY <1>1, <2>1
  <2>3. /\ k + 1 \in 1..Len(g) /\ g[k + 1] \in FrameType
        /\ b[1] = [frame |-> g[k + 1], at |-> 1]
    BY <2>2, CarriesFirst
  <2>4. Leading(b) = g[k + 1] /\ b[1].at = 1
    BY <2>3 DEF Leading
  <2>5. g[k + 1] \notin SoundFrames
    BY <2>1, <2>4 DEF SoundFrames, HeaderAccepted
  <2>. QED
    BY <2>3, <2>5
<1>. QED
  BY <1>2, <1>3 DEF Refused

(* A read, which cuts the stream anywhere.                                 *)
LEMMA ReadKeepsInv ==
    ASSUME StreamInv, NEW p \in Ends, PollRead(p)
    PROVE  StreamInv'
<1>0. TypeOK /\ Fresh /\ QueueIsRest /\ PipeIsWhole /\ BufferIsWhole
  BY DEF StreamInv, ReadBufferBounded
<1>1. /\ ~closed[p] /\ held[p] # None /\ NeedsBytes(readBuf[p])
      /\ UNCHANGED <<requested, upgrade, held, ready, announced, queue, writing, closed, dropped,
                     conn, faults, given, arrived>>
  BY DEF PollRead, MayRead, Running
<1>s. PICK s \in Initiators : s = held[p]
  BY <1>0, <1>1 DEF TypeOK
<1>2. Peer(p) \in Ends /\ Peer(p) # p /\ s # None
  BY TwoEnds, StreamsAreReal
<1>w. PICK w \in Seq(CellType) : w = wire[s][p]
  BY <1>0 DEF TypeOK
<1>r. PICK r \in Seq(CellType) : r = readBuf[p]
  BY <1>0 DEF TypeOK
<1>o. PICK o \in Seq(CellType) : o = Outgoing(Peer(p), s)
  BY <1>0, PipeFacts
<1>g. PICK g \in Seq(FrameType) : g = given[Peer(p)]
  BY <1>0, <1>2 DEF TypeOK
<1>k. PICK k \in Nat : k = Len(arrived[p])
  BY <1>0 DEF TypeOK
<1>3. PICK n \in 1..Chunk :
         /\ n <= Len(w)
         /\ readBuf' = [readBuf EXCEPT ![p] = r \o SubSeq(w, 1, n)]
         /\ wire' = [wire EXCEPT ![s][p] = SubSeq(w, n + 1, Len(w))]
  BY <1>s, <1>w, <1>r DEF PollRead
<1>4. n \in 0..Len(w) /\ n \in Nat /\ n <= Chunk
  BY <1>3, SizesAssumption
<1>5. PICK x \in Seq(CellType), y \in Seq(CellType) :
         x = Extend(r, w, n) /\ y = Unwritten(w, n)
  BY <1>4, ReadMoves
<1>6. Join(x, y, o) = Join(r, w, o)
  BY <1>4, <1>5, ReadMoves
<1>7. readBuf' = [readBuf EXCEPT ![p] = x] /\ wire' = [wire EXCEPT ![s][p] = y]
  BY <1>3, <1>5 DEF Extend, Unwritten
<1>8. Len(x) = Len(r) + n
  <2>1. SubSeq(w, 1, n) \in Seq(CellType) /\ Len(SubSeq(w, 1, n)) = n
    BY <1>4, Cut
  <2>2. ASSUME NEW v \in Seq(CellType) PROVE Len(r \o v) = Len(r) + Len(v)
    OBVIOUS
  <2>3. Len(r \o SubSeq(w, 1, n)) = Len(r) + n
    BY <2>1, <2>2
  <2>. QED
    BY <1>5, <2>3 DEF Extend
<1>9. /\ readBuf'[p] = x /\ wire'[s][p] = y
      /\ \A e \in Ends : e # p => readBuf'[e] = readBuf[e]
      /\ \A t \in Initiators, e \in Ends : ~(t = s /\ e = p) => wire'[t][e] = wire[t][e]
  BY <1>0, <1>7 DEF TypeOK
<1>10. TypeOK'
  <2>1. readBuf' \in [Ends -> Seq(CellType)]
    BY <1>0, <1>7 DEF TypeOK
  <2>2. wire' \in [Initiators -> [Ends -> Seq(CellType)]]
    BY <1>0, <1>7 DEF TypeOK
  <2>. QED
    BY <1>0, <1>1, <2>1, <2>2 DEF TypeOK
<1>11. PICK n0 \in k..Len(g), start \in Starts : Whole(p, s, n0, start)
  <2>1. PipeIsSound(p, s)
    BY <1>0 DEF PipeIsWhole
  <2>. QED
    BY <1>1, <1>s, <1>g, <1>k, <2>1 DEF PipeIsSound
<1>12. Carries(Join(r, w, o), g, k, n0, start)
  BY <1>11, <1>w, <1>r, <1>o, <1>g, <1>k DEF Whole, Pipe
<1>13. Pipe(p, s)' = Pipe(p, s)
  <2>1. Pipe(p, s)' = Join(x, y, o)
    BY <1>1, <1>9, <1>o DEF Pipe, Outgoing
  <2>2. Pipe(p, s) = Join(r, w, o)
    BY <1>r, <1>w, <1>o DEF Pipe
  <2>. QED
    BY <1>6, <2>1, <2>2
<1>14. ReadBufferBounded'
  <2>1. Carries(r, g, k, n0, start)
    BY <1>12, CarriesFront
  <2>2. Len(r) \in Nat /\ HeaderLen \in Nat \ {0} /\ MaxPayload \in Nat /\ Chunk \in Nat \ {0}
    BY SizesAssumption
  <2>3. Truncated(r)
    BY <1>1, <1>r DEF NeedsBytes
  <2>4. Len(r) < MaxReadBuffer
    <3>1. CASE Len(r) < HeaderLen
      BY <2>2, <3>1 DEF MaxReadBuffer
    <3>2. CASE ~(Len(r) < HeaderLen)
      <4>1. HeaderAccepted(r) /\ Len(r) < Consumed(r) /\ Len(r) # 0
        BY <2>2, <2>3, <3>2 DEF Truncated
      <4>2. g[k + 1] \in FrameType /\ r[1] = [frame |-> g[k + 1], at |-> 1]
        BY <2>1, <4>1, CarriesFirst, ZenonT(60)
      <4>3. Leading(r).len \in Nat /\ Leading(r).len <= MaxPayload
        BY <4>1, <4>2 DEF Leading, FrameType, HeaderAccepted
      <4>. QED
        BY <2>2, <4>1, <4>3 DEF Consumed, MaxReadBuffer
    <3>. QED
      BY <3>1, <3>2
  <2>5. Len(x) < MaxReadBuffer + Chunk
    <3>1. MaxReadBuffer \in Nat
      BY <2>2 DEF MaxReadBuffer
    <3>. QED
      BY <1>4, <1>8, <2>2, <2>4, <3>1
  <2>. QED
    BY <1>9, <1>10, <2>5 DEF StreamInv, ReadBufferBounded
<1>15. Fresh' /\ QueueIsRest'
  BY <1>0, <1>1 DEF Fresh, QueueIsRest
<1>16. ASSUME NEW e \in Ends, NEW t \in Initiators
       PROVE  PipeIsSound(e, t)'
  <2>0. PipeIsSound(e, t)
    BY <1>0 DEF PipeIsWhole
  <2>1. CASE e = p /\ t = s
    BY <1>1, <1>13, <2>0, <2>1, PipeStays
  <2>2. CASE e = p /\ t # s
    BY <1>1, <1>2, <1>s, <2>2 DEF PipeIsSound
  <2>3. CASE e # p
    <3>1. Pipe(e, t)' = Pipe(e, t)
      BY <1>1, <1>9, <2>3 DEF Pipe, Outgoing
    <3>. QED
      BY <1>1, <2>0, <3>1, PipeStays
  <2>. QED
    BY <2>1, <2>2, <2>3
<1>17. ASSUME NEW e \in Ends
       PROVE  BufferIsSound(e)'
  <2>0. BufferIsSound(e)
    BY <1>0 DEF BufferIsWhole
  <2>1. CASE e = p
    <3>1. Carries(Join(x, y, o), g, k, n0, start)
      BY <1>6, <1>12
    <3>2. Carries(x, g, k, n0, start)
      BY <3>1, CarriesFront
    <3>3. given' = given /\ arrived' = arrived
      BY <1>1
    <3>. QED
      BY <1>9, <1>g, <1>k, <2>1, <3>2, <3>3 DEF BufferIsSound
  <2>2. CASE e # p
    BY <1>1, <1>9, <2>0, <2>2 DEF BufferIsSound
  <2>. QED
    BY <2>1, <2>2
<1>. QED
  BY <1>14, <1>15, <1>16, <1>17 DEF StreamInv, PipeIsWhole, BufferIsWhole

(* What the other end handed over next, whole and sound, arrives.          *)
LEMMA FrameIsTheNext ==
    ASSUME StreamInv, NEW p \in Ends, PollFrame(p)
    PROVE  LET n == Len(arrived[p]) + 1 IN
           /\ ~closed[p] /\ n <= Len(given[Peer(p)])
           /\ given[Peer(p)][n] \in SoundFrames
           /\ Decode(readBuf[p]) = given[Peer(p)][n]
<1>0. TypeOK /\ BufferIsSound(p) /\ Peer(p) \in Ends
  BY TwoEnds DEF StreamInv, ReadBufferBounded, BufferIsWhole
<1>1. ~closed[p] /\ ~Truncated(readBuf[p]) /\ ~Malformed(readBuf[p])
  BY DEF PollFrame, MayRead, Running
<1>r. PICK r \in Seq(CellType) : r = readBuf[p]
  BY <1>0 DEF TypeOK
<1>g. PICK g \in Seq(FrameType) : g = given[Peer(p)]
  BY <1>0 DEF TypeOK
<1>k. PICK k \in Nat : k = Len(arrived[p])
  BY <1>0 DEF TypeOK
<1>2. PICK n \in k..Len(g), start \in Starts : Carries(r, g, k, n, start)
  BY <1>0, <1>r, <1>g, <1>k DEF BufferIsSound
<1>3. k + 1 \in 1..Len(g) /\ g[k + 1] \in SoundFrames /\ Decode(r) = g[k + 1]
  BY <1>1, <1>2, <1>r, DecodesNext
<1>4. k + 1 <= Len(g)
  BY <1>3
<1>. QED
  BY <1>1, <1>3, <1>4, <1>r, <1>g, <1>k

(* A frame handed up.                                                      *)
LEMMA FrameKeepsInv ==
    ASSUME StreamInv, NEW p \in Ends, PollFrame(p)
    PROVE  StreamInv'
<1>0. TypeOK /\ Fresh /\ QueueIsRest /\ PipeIsWhole /\ BufferIsWhole
  BY DEF StreamInv, ReadBufferBounded
<1>1. /\ ~closed[p] /\ held[p] # None /\ ~Truncated(readBuf[p]) /\ ~Malformed(readBuf[p])
      /\ arrived' = [arrived EXCEPT ![p] = Append(@, Decode(readBuf[p]))]
      /\ readBuf' = [readBuf EXCEPT ![p] = AfterFrame(@)]
      /\ UNCHANGED <<requested, upgrade, held, ready, announced, queue, writing, closed, wire,
                     dropped, conn, faults, given>>
  BY DEF PollFrame, MayRead, Running
<1>s. PICK s \in Initiators : s = held[p]
  BY <1>0, <1>1 DEF TypeOK
<1>2. Peer(p) \in Ends /\ Peer(p) # p /\ s # None
  BY TwoEnds, StreamsAreReal
<1>w. PICK w \in Seq(CellType) : w = wire[s][p]
  BY <1>0 DEF TypeOK
<1>r. PICK r \in Seq(CellType) : r = readBuf[p]
  BY <1>0 DEF TypeOK
<1>o. PICK o \in Seq(CellType) : o = Outgoing(Peer(p), s)
  BY <1>0, PipeFacts
<1>g. PICK g \in Seq(FrameType) : g = given[Peer(p)]
  BY <1>0, <1>2 DEF TypeOK
<1>a. PICK a \in Seq(FrameType) : a = arrived[p]
  BY <1>0 DEF TypeOK
<1>k. PICK k \in Nat : k = Len(a)
  OBVIOUS
<1>3. PICK n \in k..Len(g), start \in Starts : Whole(p, s, n, start)
  <2>1. PipeIsSound(p, s)
    BY <1>0 DEF PipeIsWhole
  <2>. QED
    BY <1>1, <1>s, <1>g, <1>k, <1>a, <2>1 DEF PipeIsSound
<1>b. PICK b \in Seq(CellType) : b = Join(r, w, o)
  BY Joined
<1>4. Carries(b, g, k, n, start) /\ Pipe(p, s) = b
  BY <1>3, <1>w, <1>r, <1>o, <1>g, <1>k, <1>a, <1>b DEF Whole, Pipe
<1>5. Carries(r, g, k, n, start)
  BY <1>4, <1>b, CarriesFront
<1>6. /\ k < n /\ k + 1 \in 1..Len(g) /\ g[k + 1] \in SoundFrames
      /\ Size(g[k + 1]) \in 0..Len(r)
      /\ Decode(r) = g[k + 1] /\ AfterFrame(r) = Unwritten(r, Size(g[k + 1]))
  BY <1>1, <1>5, <1>r, DecodesNext
<1>z. PICK z \in Nat : z = Size(g[k + 1])
  BY <1>6
<1>f. PICK f \in FrameType : f = g[k + 1]
  BY <1>6 DEF SoundFrames
<1>7. PICK x \in Seq(CellType) : x = Unwritten(r, z)
  BY <1>6, <1>z, JoinedDrop
<1>d. PICK d \in Seq(CellType) : d = Join(x, w, o)
  BY Joined
<1>8. Dropped(b, z, d)
  BY <1>6, <1>z, <1>7, <1>b, <1>d, JoinedDrop
<1>9. /\ readBuf'[p] = x /\ arrived'[p] = Append(a, f)
      /\ \A e \in Ends : e # p => readBuf'[e] = readBuf[e] /\ arrived'[e] = arrived[e]
  <2>1. readBuf'[p] = AfterFrame(readBuf[p]) /\ arrived'[p] = Append(arrived[p], Decode(readBuf[p]))
    BY <1>0, <1>1 DEF TypeOK
  <2>2. AfterFrame(readBuf[p]) = x /\ Decode(readBuf[p]) = f
    BY <1>6, <1>r, <1>z, <1>7, <1>f
  <2>3. \A e \in Ends : e # p => readBuf'[e] = readBuf[e] /\ arrived'[e] = arrived[e]
    BY <1>0, <1>1 DEF TypeOK
  <2>. QED
    BY <1>a, <2>1, <2>2, <2>3
<1>10. Append(a, f) \in Seq(FrameType) /\ Len(Append(a, f)) = k + 1
  BY <1>k
<1>11. TypeOK'
  <2>1. readBuf' \in [Ends -> Seq(CellType)] /\ arrived' \in [Ends -> Seq(FrameType)]
    <3>1. readBuf' = [e \in Ends |-> readBuf'[e]] /\ arrived' = [e \in Ends |-> arrived'[e]]
      BY <1>0, <1>1 DEF TypeOK
    <3>2. \A e \in Ends : readBuf'[e] \in Seq(CellType) /\ arrived'[e] \in Seq(FrameType)
      BY <1>0, <1>9, <1>10 DEF TypeOK
    <3>. QED
      BY <3>1, <3>2
  <2>. QED
    BY <1>0, <1>1, <2>1 DEF TypeOK
<1>12. ReadBufferBounded'
  <2>1. Len(x) <= Len(r) /\ Len(x) \in Nat /\ Len(r) \in Nat
    <3>1. Len(x) = Len(r) - z
      BY <1>6, <1>z, <1>7, Cut DEF Unwritten
    <3>. QED
      BY <1>6, <1>z, <3>1
  <2>2. Len(r) < MaxReadBuffer + Chunk
    BY <1>r DEF StreamInv, ReadBufferBounded
  <2>3. MaxReadBuffer + Chunk \in Nat
    BY SizesAssumption DEF MaxReadBuffer
  <2>4. Len(x) < MaxReadBuffer + Chunk
    BY <2>1, <2>2, <2>3
  <2>. QED
    BY <1>9, <1>11, <2>4 DEF StreamInv, ReadBufferBounded
<1>13. Fresh' /\ QueueIsRest'
  BY <1>0, <1>1 DEF Fresh, QueueIsRest
<1>14. Size(g[k + 1]) <= Len(b)
  <2>1. Len(b) = Len(r) + Len(w) + Len(o)
    BY <1>b, Joined
  <2>. QED
    BY <1>6, <2>1
<1>15. PICK later \in Starts :
          Carries(d, g, k + 1, n, later) /\ (Len(b) = start[n + 1] => Len(d) = later[n + 1])
  BY <1>4, <1>6, <1>8, <1>14, <1>z, CarriesDrop
<1>16. n \in (k + 1)..Len(g) /\ k + 1 \in Nat
  BY <1>6
<1>17. Pipe(p, s)' = d /\ Len(arrived'[p]) = k + 1 /\ given' = given /\ queue' = queue
  BY <1>1, <1>9, <1>10, <1>w, <1>o, <1>d DEF Pipe, Outgoing
<1>18. Whole(p, s, n, later)'
  <2>1. ~closed[Peer(p)] /\ held[Peer(p)] = s =>
           n = Len(given[Peer(p)]) - Len(queue[Peer(p)]) /\ Len(b) = start[n + 1]
    BY <1>3, <1>4 DEF Whole
  <2>. QED
    BY <1>1, <1>15, <1>17, <1>g, <2>1 DEF Whole
<1>19. ASSUME NEW e \in Ends, NEW t \in Initiators
       PROVE  PipeIsSound(e, t)'
  <2>0. PipeIsSound(e, t)
    BY <1>0 DEF PipeIsWhole
  <2>1. CASE e = p /\ t = s
    BY <1>16, <1>17, <1>18, <1>g, <2>1 DEF PipeIsSound
  <2>2. CASE e = p /\ t # s
    BY <1>1, <1>2, <1>s, <2>2 DEF PipeIsSound
  <2>3. CASE e # p
    <3>1. Pipe(e, t)' = Pipe(e, t)
      BY <1>1, <1>9, <2>3 DEF Pipe, Outgoing
    <3>. QED
      BY <1>1, <1>9, <2>0, <2>3, <3>1, PipeStays
  <2>. QED
    BY <2>1, <2>2, <2>3
<1>20. ASSUME NEW e \in Ends
       PROVE  BufferIsSound(e)'
  <2>0. BufferIsSound(e)
    BY <1>0 DEF BufferIsWhole
  <2>1. CASE e = p
    <3>1. Carries(Join(x, w, o), g, k + 1, n, later)
      BY <1>15, <1>d
    <3>2. Carries(x, g, k + 1, n, later)
      BY <1>16, <3>1, CarriesFront
    <3>. QED
      BY <1>9, <1>16, <1>17, <1>g, <2>1, <3>2 DEF BufferIsSound
  <2>2. CASE e # p
    BY <1>1, <1>9, <2>0, <2>2 DEF BufferIsSound
  <2>. QED
    BY <2>1, <2>2
<1>. QED
  BY <1>12, <1>13, <1>19, <1>20 DEF StreamInv, PipeIsWhole, BufferIsWhole

-----------------------------------------------------------------------------
(* The invariant holds at the start: nothing is held, queued or under way. *)
LEMMA StreamStart == Init => StreamInv
<1>. SUFFICES ASSUME Init PROVE StreamInv
  OBVIOUS
<1>1. /\ <<>> \in Seq(CellType) /\ <<>> \in Seq(Seq(CellType)) /\ <<>> \in Seq(FrameType)
      /\ 0 \in 0..MaxFaults
  BY SizesAssumption
<1>2. TypeOK
  BY <1>1 DEF Init, TypeOK
<1>3. \A p \in Ends :
         /\ given[p] = <<>> /\ arrived[p] = <<>> /\ queue[p] = <<>> /\ writing[p] = <<>>
         /\ readBuf[p] = <<>> /\ held[p] = None /\ ~ready[p] /\ ~announced[p]
         /\ \A s \in Initiators : wire[s][p] = <<>>
  BY DEF Init
<1>4. Len(<<>>) = 0
  OBVIOUS
<1>5. ReadBufferBounded
  <2>1. 0 < MaxReadBuffer + Chunk
    BY SizesAssumption DEF MaxReadBuffer
  <2>. QED
    BY <1>2, <1>3, <1>4, <2>1 DEF ReadBufferBounded
<1>6. Fresh
  BY <1>3 DEF Fresh
<1>7. QueueIsRest
  <2>1. \A p \in Ends : Len(queue[p]) = 0 /\ Len(given[p]) = 0
    BY <1>3, <1>4
  <2>2. 1..0 = {} /\ 0 <= 0
    OBVIOUS
  <2>. QED
    BY <2>1, <2>2 DEF QueueIsRest, IsRest
<1>8. PICK start \in Starts : Carries(<<>>, <<>>, 0, 0, start) /\ Len(<<>>) = start[0 + 1]
  BY CarriesNothing
<1>9. BufferIsWhole
  <2>. SUFFICES ASSUME NEW q \in Ends PROVE BufferIsSound(q)
    BY DEF BufferIsWhole
  <2>1. readBuf[q] = <<>> /\ given[Peer(q)] = <<>> /\ Len(arrived[q]) = 0 /\ Len(given[Peer(q)]) = 0
    BY <1>3, <1>4, TwoEnds
  <2>2. 0 \in 0..0
    OBVIOUS
  <2>. QED
    BY <1>8, <2>1, <2>2 DEF BufferIsSound
<1>10. PipeIsWhole
  <2>. SUFFICES ASSUME NEW q \in Ends, NEW s \in Initiators PROVE PipeIsSound(q, s)
    BY DEF PipeIsWhole
  <2>1. /\ given[Peer(q)] = <<>> /\ Len(arrived[q]) = 0 /\ Len(given[Peer(q)]) = 0
        /\ held[Peer(q)] # s
    BY <1>3, <1>4, TwoEnds, StreamsAreReal
  <2>2. Pipe(q, s) = <<>>
    <3>1. Pipe(q, s) = Join(<<>>, <<>>, <<>>)
      BY <1>3, TwoEnds DEF Pipe, Outgoing
    <3>2. Join(<<>>, <<>>, <<>>) = <<>>
      BY DEF Join
    <3>. QED
      BY <3>1, <3>2
  <2>3. Whole(q, s, 0, start)
    BY <1>8, <2>1, <2>2 DEF Whole
  <2>4. 0 \in 0..0
    OBVIOUS
  <2>. QED
    BY <2>1, <2>3, <2>4 DEF PipeIsSound
<1>. QED
  BY <1>5, <1>6, <1>7, <1>9, <1>10 DEF StreamInv

(* Every step keeps it.                                                    *)
LEMMA StreamStep == StreamInv /\ [Next]_vars => StreamInv'
<1>. SUFFICES ASSUME StreamInv, [Next]_vars PROVE StreamInv'
  OBVIOUS
<1>1. ASSUME NEW p \in Ends, Poll(p) \/ SendFrames(p) \/ PollClose(p)
      PROVE  StreamInv'
  <2>1. CASE RequestOutbound(p) \/ AnnounceReady(p)
    BY <2>1, SetupSteps, QuietKeepsInv
  <2>2. CASE WriteFails(p) \/ ReadFails(p) \/ PollClose(p)
    BY <2>2, GiveUpSteps, QuietKeepsInv
  <2>3. CASE PollWrite(p)
    BY <2>3, WriteKeepsInv
  <2>4. CASE PollRead(p)
    BY <2>4, ReadKeepsInv
  <2>5. CASE PollFrame(p)
    BY <2>5, FrameKeepsInv
  <2>6. CASE SendFrames(p)
    BY <2>6, SendKeepsInv
  <2>. QED
    BY <1>1, <2>1, <2>2, <2>3, <2>4, <2>5, <2>6 DEF Poll
<1>2. ASSUME NEW p \in Ends, NEW s \in Initiators, FullyNegotiated(p, s) \/ UpgradeError(p, s)
      PROVE  StreamInv'
  BY <1>2, SetupSteps, QuietKeepsInv
<1>3. CASE ConnectionDown
  <2>1. A \in Ends
    BY DEF Ends
  <2>. QED
    BY <1>3, <2>1, SetupSteps, QuietKeepsInv
<1>4. CASE UNCHANGED vars
  <2>1. UNCHANGED <<given, arrived, queue, writing, readBuf, wire, closed, held, ready, announced>>
    BY <1>4 DEF vars
  <2>2. Quiet /\ Fresh'
    BY <2>1 DEF Quiet, Fresh, StreamInv
  <2>3. TypeOK'
    BY <1>4 DEF vars, TypeOK, StreamInv, ReadBufferBounded
  <2>. QED
    BY <2>2, <2>3, QuietKeepsInv
<1>. QED
  BY <1>1, <1>2, <1>3, <1>4 DEF Next

-----------------------------------------------------------------------------
(* In every reachable state what is between the two behaviours is the      *)
(* frames handed over and not yet arrived, in order and without a gap,     *)
(* cut anywhere.                                                           *)
THEOREM StreamInvariant == Spec => []StreamInv
BY StreamStart, StreamStep, PTL DEF Spec

(* The read buffer holds cells of frames, and never more than one          *)
(* incomplete frame and one read: poll_read_once is reached only when      *)
(* decode_frame found no complete frame.                                   *)
THEOREM BufferStaysBounded == Spec => []ReadBufferBounded
<1>1. StreamInv => ReadBufferBounded
  BY DEF StreamInv
<1>. QED
  BY <1>1, StreamInvariant, PTL

(* A handler closes over what it has read only where the other behaviour   *)
(* handed over a frame nobody may accept, and all before it has arrived.   *)
THEOREM OnlyBadFramesAreRefused == Spec => []RefusesOnlyBadFrames
<1>1. StreamInv => RefusesOnlyBadFrames
  <2>. SUFFICES ASSUME StreamInv, NEW p \in Ends, Refused(readBuf[p])
                PROVE  /\ Len(arrived[p]) + 1 <= Len(given[Peer(p)])
                       /\ given[Peer(p)][Len(arrived[p]) + 1] \notin SoundFrames
    BY DEF RefusesOnlyBadFrames
  <2>0. TypeOK /\ BufferIsSound(p) /\ Peer(p) \in Ends
    BY TwoEnds DEF StreamInv, ReadBufferBounded, BufferIsWhole
  <2>1. PICK r \in Seq(CellType) : r = readBuf[p]
    BY <2>0 DEF TypeOK
  <2>2. PICK g \in Seq(FrameType) : g = given[Peer(p)]
    BY <2>0 DEF TypeOK
  <2>3. PICK k \in Nat : k = Len(arrived[p])
    BY <2>0 DEF TypeOK
  <2>4. PICK n \in k..Len(g), start \in Starts : Carries(r, g, k, n, start)
    BY <2>0, <2>1, <2>2, <2>3 DEF BufferIsSound
  <2>5. k + 1 <= Len(g) /\ g[k + 1] \notin SoundFrames
    BY <2>1, <2>4, RefusesBad
  <2>. QED
    BY <2>2, <2>3, <2>5
<1>. QED
  BY <1>1, StreamInvariant, PTL

(* A quiet step is a stutter of the frame stream or ends one end.          *)
LEMMA QuietRefines ==
    ASSUME UNCHANGED <<given, arrived>>, NEW p \in Ends, closed \in [Ends -> BOOLEAN],
           closed' = closed \/ closed' = [closed EXCEPT ![p] = TRUE]
    PROVE  [FS!StreamNext]_(FS!fvars)
<1>1. CASE closed' = closed
  BY <1>1 DEF FS!fvars
<1>2. CASE closed' = [closed EXCEPT ![p] = TRUE] /\ closed[p]
  <2>1. closed' = closed
    BY <1>2
  <2>. QED
    BY <2>1 DEF FS!fvars
<1>3. CASE closed' = [closed EXCEPT ![p] = TRUE] /\ ~closed[p]
  <2>1. FS!End(p)
    BY <1>3 DEF FS!End
  <2>. QED
    BY <2>1 DEF FS!StreamNext, FS!Ends, Ends
<1>. QED
  BY <1>1, <1>2, <1>3

(* Every step of the handlers is a step of the frame stream or stutters.   *)
LEMMA StepRefines == StreamInv /\ [Next]_vars => [FS!StreamNext]_(FS!fvars)
<1>. SUFFICES ASSUME StreamInv, [Next]_vars PROVE [FS!StreamNext]_(FS!fvars)
  OBVIOUS
<1>0. TypeOK /\ closed \in [Ends -> BOOLEAN]
  BY DEF StreamInv, ReadBufferBounded, TypeOK
<1>1. ASSUME NEW p \in Ends, Poll(p) \/ SendFrames(p) \/ PollClose(p)
      PROVE  [FS!StreamNext]_(FS!fvars)
  <2>1. CASE RequestOutbound(p) \/ AnnounceReady(p) \/ PollWrite(p) \/ PollRead(p)
    BY <2>1 DEF RequestOutbound, AnnounceReady, PollWrite, PollRead, FS!fvars
  <2>2. CASE WriteFails(p) \/ ReadFails(p) \/ PollClose(p)
    BY <1>0, <2>2, QuietRefines DEF WriteFails, ReadFails, PollClose, GiveUp
  <2>3. CASE SendFrames(p)
    <3>. DEFINE f == Sends[p][Len(given[p]) + 1]
    <3>1. /\ given' = [given EXCEPT ![p] = Append(@, f)] /\ UNCHANGED <<arrived, closed>>
          /\ Len(given[p]) + 1 <= Len(Sends[p])
      BY <2>3 DEF SendFrames
    <3>2. f \in UNION {Range(Sends[q]) : q \in Ends}
      <4>1. Sends[p] \in Seq(FrameType) /\ Len(given[p]) \in Nat
        BY <1>0, SendsAssumption DEF TypeOK, Ends
      <4>2. Len(given[p]) + 1 \in DOMAIN Sends[p]
        BY <3>1, <4>1
      <4>3. f \in Range(Sends[p])
        BY <4>2 DEF Range
      <4>. QED
        BY <4>3
    <3>. HIDE DEF f
    <3>3. FS!Give(p)
      BY <3>1, <3>2 DEF FS!Give
    <3>. QED
      BY <3>3 DEF FS!StreamNext, FS!Ends, Ends
  <2>4. CASE PollFrame(p)
    <3>1. LET n == Len(arrived[p]) + 1 IN
          /\ ~closed[p] /\ n <= Len(given[Peer(p)])
          /\ given[Peer(p)][n] \in SoundFrames
          /\ Decode(readBuf[p]) = given[Peer(p)][n]
      BY <2>4, FrameIsTheNext
    <3>2. /\ arrived' = [arrived EXCEPT ![p] = Append(@, Decode(readBuf[p]))]
          /\ UNCHANGED <<given, closed>>
      BY <2>4 DEF PollFrame
    <3>3. FS!Arrive(p)
      BY <3>1, <3>2 DEF FS!Arrive, FS!Peer, Peer
    <3>. QED
      BY <3>3 DEF FS!StreamNext, FS!Ends, Ends
  <2>. QED
    BY <1>1, <2>1, <2>2, <2>3, <2>4 DEF Poll
<1>2. ASSUME NEW p \in Ends, NEW s \in Initiators, FullyNegotiated(p, s) \/ UpgradeError(p, s)
      PROVE  [FS!StreamNext]_(FS!fvars)
  BY <1>0, <1>2, QuietRefines DEF FullyNegotiated, UpgradeError
<1>3. CASE ConnectionDown \/ UNCHANGED vars
  BY <1>3 DEF ConnectionDown, vars, FS!fvars
<1>. QED
  BY <1>1, <1>2, <1>3 DEF Next

(* The handlers implement the frame stream: whatever partial writes and    *)
(* reads do, frames arrive whole, in order and once, a malformed one       *)
(* never, and an end that is closed hands up nothing more.                 *)
THEOREM StreamRefinement == Spec => ImplementsFrameStream
<1>1. Init => FS!StreamInit
  BY DEF Init, FS!StreamInit, FS!Ends, Ends
<1>. QED
  BY <1>1, StreamInvariant, StepRefines, PTL DEF Spec, ImplementsFrameStream, FS!StreamSpec

=============================================================================
