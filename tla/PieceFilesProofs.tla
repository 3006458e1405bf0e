-------------------------- MODULE PieceFilesProofs --------------------------
(***************************************************************************)
(* The bytes of every torrent get to the right places of its files and     *)
(* back, for any number and lengths of files and any length of a piece.    *)
(***************************************************************************)
EXTENDS PieceFiles, SumLemmas

USE LayoutsAssumption

-----------------------------------------------------------------------------
(* Where the files start                                                   *)

(* Lengths, up to the end of the layout.                                   *)
LEMMA LayoutType ==
  ASSUME layout \in Layouts
  PROVE  /\ layout \in Seq(Nat) /\ Len(layout) \in Nat /\ Files = 1 .. Len(layout)
         /\ \A f \in Files : layout[f] \in Nat
  BY DEF Files

(* A fold of + over a sequence is the sum of its elements.                 *)
LEMMA FoldIsSum ==
  ASSUME NEW s
  PROVE  FoldSeq(+, 0, s) = SumFunctionOnSet(s, DOMAIN s)
  BY DEF FoldSeq, FoldFunction, SumFunctionOnSet, FoldFunctionOnSet

(* Start sums up the lengths of the files in front.                        *)
LEMMA StartIsSum ==
  ASSUME layout \in Layouts, NEW f \in 1 .. Len(layout) + 1
  PROVE  /\ Start(f) = SumFunctionOnSet(layout, 1 .. f - 1)
         /\ IsFiniteSet(1 .. f - 1)
         /\ Start(f) \in Nat
<1> DEFINE s == SubSeq(layout, 1, f - 1)
<1>1. /\ layout \in Seq(Nat) /\ Len(layout) \in Nat /\ f - 1 \in 0 .. Len(layout)
      /\ \A i \in 1 .. f - 1 : layout[i] \in Nat
  BY LayoutType
<1>2. DOMAIN s = 1 .. f - 1 /\ \A i \in 1 .. f - 1 : s[i] = layout[i]
  BY <1>1
<1>3. IsFiniteSet(1 .. f - 1)
  BY <1>1, FS_Interval
<1>4. Start(f) = SumFunctionOnSet(s, 1 .. f - 1)
  BY <1>2, FoldIsSum DEF Start
<1> HIDE DEF s
<1>5. SumFunctionOnSet(s, 1 .. f - 1) = SumFunctionOnSet(layout, 1 .. f - 1)
  BY <1>1, <1>2, <1>3, SumCongruence
<1>6. SumFunctionOnSet(layout, 1 .. f - 1) \in Nat
  BY <1>1, <1>3, SumType
<1>7. QED
  BY <1>3, <1>4, <1>5, <1>6

(* The files lie one behind the other, from 0 to the total length.         *)
LEMMA StartSteps ==
  ASSUME layout \in Layouts
  PROVE  /\ Start(1) = 0
         /\ Start(Len(layout) + 1) = TotalLength
         /\ TotalLength \in Nat
         /\ \A f \in Files : Start(f + 1) = Start(f) + layout[f]
<1>1. Len(layout) \in Nat /\ Files = 1 .. Len(layout) /\ \A f \in Files : layout[f] \in Nat
  BY LayoutType
<1>2. Start(1) = 0
  <2>1. Start(1) = SumFunctionOnSet(layout, 1 .. 0)
    BY <1>1, StartIsSum
  <2>2. SumFunctionOnSet(layout, {}) = 0
    BY FS_EmptySet, SumEquation
  <2>3. 1 .. 0 = {}
    OBVIOUS
  <2>4. QED
    BY <2>1, <2>2, <2>3
<1>3. Start(Len(layout) + 1) = TotalLength /\ TotalLength \in Nat
  <2>1. /\ Start(Len(layout) + 1) = SumFunctionOnSet(layout, 1 .. (Len(layout) + 1) - 1)
        /\ Start(Len(layout) + 1) \in Nat
    BY <1>1, StartIsSum
  <2>2. 1 .. (Len(layout) + 1) - 1 = DOMAIN layout
    BY <1>1 DEF Files
  <2>3. TotalLength = SumFunctionOnSet(layout, DOMAIN layout)
    BY FoldIsSum DEF TotalLength
  <2>4. QED
    BY <2>1, <2>2, <2>3
<1>4. ASSUME NEW f \in Files PROVE Start(f + 1) = Start(f) + layout[f]
  <2>1. f \in 1 .. Len(layout) + 1 /\ f + 1 \in 1 .. Len(layout) + 1
    BY <1>1
  <2>2. /\ Start(f) = SumFunctionOnSet(layout, 1 .. f - 1) /\ Start(f) \in Nat
        /\ Start(f + 1) = SumFunctionOnSet(layout, 1 .. (f + 1) - 1)
        /\ IsFiniteSet(1 .. (f + 1) - 1)
    BY <2>1, StartIsSum
  <2> DEFINE all == 1 .. (f + 1) - 1
  <2>3. f \in all /\ all \ {f} = 1 .. f - 1 /\ \A i \in all : layout[i] \in Nat
    BY <1>1
  <2>4. layout[f] \in Nat /\ SumFunctionOnSet(layout, all) = Start(f + 1) /\ IsFiniteSet(all)
    BY <1>1, <2>2
  <2> HIDE DEF all
  <2>5. SumFunctionOnSet(layout, all) = layout[f] + SumFunctionOnSet(layout, all \ {f})
    BY <2>3, <2>4, SumRemove
  <2>6. SumFunctionOnSet(layout, all \ {f}) = Start(f)
    BY <2>2, <2>3
  <2>7. QED
    BY <2>2, <2>4, <2>5, <2>6
<1>5. QED
  BY <1>2, <1>3, <1>4

(* A file starts where the one in front of it ends, or behind that.        *)
LEMMA StartMonotone ==
  ASSUME layout \in Layouts, NEW f \in 1 .. Len(layout) + 1, NEW g \in 1 .. Len(layout) + 1, f <= g
  PROVE  /\ Start(f) <= Start(g)
         /\ f < g => Start(f) + layout[f] <= Start(g)
<1> DEFINE Ordered(n) == \A i \in 1 .. Len(layout) + 1 :
                           i + n <= Len(layout) + 1 => Start(i) <= Start(i + n)
           Good == {n \in Nat : Ordered(n)}
<1>1. /\ Len(layout) \in Nat /\ Files = 1 .. Len(layout)
      /\ \A i \in 1 .. Len(layout) : layout[i] \in Nat /\ Start(i + 1) = Start(i) + layout[i]
      /\ \A i \in 1 .. Len(layout) + 1 : Start(i) \in Nat
  BY LayoutType, StartSteps, StartIsSum
<1>2. Ordered(0)
  BY <1>1
<1>3. ASSUME NEW n \in Nat, Ordered(n) PROVE Ordered(n + 1)
  <2> SUFFICES ASSUME NEW i \in 1 .. Len(layout) + 1, i + (n + 1) <= Len(layout) + 1
               PROVE  Start(i) <= Start(i + (n + 1))
    OBVIOUS
  <2> DEFINE k == i + n
  <2>1. k \in 1 .. Len(layout) /\ k + 1 = i + (n + 1) /\ k <= Len(layout) + 1
    BY <1>1
  <2>2. Start(i) <= Start(k)
    BY <1>3, <2>1
  <2> HIDE DEF k
  <2>3. Start(k + 1) = Start(k) + layout[k] /\ layout[k] \in Nat /\ Start(k) \in Nat
        /\ Start(i) \in Nat
    BY <1>1, <2>1
  <2>4. Start(i) <= Start(k + 1)
    BY <2>2, <2>3
  <2>5. QED
    BY <2>1, <2>4
<1> HIDE DEF Ordered
<1>4. 0 \in Good /\ \A n \in Nat : n \in Good => n + 1 \in Good
  BY <1>2, <1>3
<1> HIDE DEF Good
<1>5. Nat \subseteq Good
  BY <1>4, Induction
<1>6. \A n \in Nat : Ordered(n)
  BY <1>5 DEF Good
<1>7. \A i, j \in 1 .. Len(layout) + 1 : i <= j => Start(i) <= Start(j)
  <2> SUFFICES ASSUME NEW i \in 1 .. Len(layout) + 1, NEW j \in 1 .. Len(layout) + 1, i <= j
               PROVE  Start(i) <= Start(j)
    OBVIOUS
  <2>1. j - i \in Nat /\ i + (j - i) = j
    BY <1>1
  <2>2. Ordered(j - i)
    BY <1>6, <2>1
  <2>3. QED
    BY <2>1, <2>2 DEF Ordered
<1>8. f < g => Start(f) + layout[f] <= Start(g)
  <2> SUFFICES ASSUME f < g PROVE Start(f) + layout[f] <= Start(g)
    OBVIOUS
  <2>1. f \in 1 .. Len(layout) /\ f + 1 \in 1 .. Len(layout) + 1 /\ f + 1 <= g
    BY <1>1
  <2>2. Start(f + 1) <= Start(g)
    BY <1>7, <2>1
  <2>3. QED
    BY <1>1, <2>1, <2>2
<1>9. QED
  BY <1>7, <1>8

-----------------------------------------------------------------------------
(* Pieces, minima and maxima                                               *)

(* A piece has at least one byte, and all its bytes are the torrent's.     *)
LEMMA PieceType ==
  ASSUME layout \in Layouts, NEW p \in Pieces
  PROVE  /\ p \in Nat /\ p * PieceLength \in Nat
         /\ PieceSize(p) \in Nat \ {0}
         /\ p * PieceLength + PieceSize(p) <= TotalLength
<1> DEFINE n == (TotalLength + PieceLength - 1) \div PieceLength
           r == (TotalLength + PieceLength - 1) % PieceLength
<1>1. TotalLength \in Nat
  BY StartSteps
<1>2. /\ n \in Int /\ r \in 0 .. PieceLength - 1
      /\ TotalLength + PieceLength - 1 = PieceLength * n + r
  BY <1>1
<1>3. p \in Int /\ 0 <= p /\ p <= n - 1
  BY <1>2 DEF Pieces, NumPieces
<1>4. NumPieces = n
  BY DEF NumPieces
<1> HIDE DEF n, r
<1>5. p * PieceLength \in Nat /\ (p + 1) * PieceLength = p * PieceLength + PieceLength
  BY <1>3
<1>6. n * PieceLength = PieceLength * n /\ (n - 1) * PieceLength = PieceLength * n - PieceLength
      /\ PieceLength * n \in Int
  BY <1>2
<1>7. CASE p = n - 1
  <2>1. PieceSize(p) = TotalLength - p * PieceLength
    BY <1>4, <1>7 DEF PieceSize
  <2>2. TotalLength - 1 = PieceLength * n - PieceLength + r
    BY <1>1, <1>2, <1>6
  <2>3. p * PieceLength + r = TotalLength - 1
    BY <1>6, <1>7, <2>2
  <2>4. QED
    BY <1>1, <1>2, <1>3, <1>5, <2>1, <2>3
<1>8. CASE p # n - 1
  <2>1. PieceSize(p) = PieceLength
    BY <1>4, <1>8 DEF PieceSize
  <2>2. p + 1 <= n - 1
    BY <1>2, <1>3, <1>8
  <2>3. (p + 1) * PieceLength <= (n - 1) * PieceLength
    BY <1>2, <1>3, <2>2
  <2>4. QED
    BY <1>1, <1>2, <1>3, <1>5, <1>6, <2>1, <2>3
<1>9. QED
  BY <1>7, <1>8

(* The least element of a set of natural numbers.                          *)
LEMMA MinIs ==
  ASSUME NEW S, S \subseteq Nat, S # {}
  PROVE  Min(S) \in S /\ \A x \in S : Min(S) <= x
<1>1. \E x \in S : \A y \in S : x <= y
  BY LeastNumber
<1>2. QED
  BY <1>1 DEF Min

(* The greatest element of a set of natural numbers that has a bound.      *)
LEMMA MaxIs ==
  ASSUME NEW b \in Nat, NEW S, S \subseteq 0 .. b, S # {}
  PROVE  Max(S) \in S /\ \A x \in S : x <= Max(S)
<1> DEFINE T == {b - x : x \in S}
<1>1. T \subseteq Nat /\ T # {}
  <2>1. \A x \in S : x \in 0 .. b /\ b - x \in Nat
    OBVIOUS
  <2>2. QED
    BY <2>1
<1>2. PICK y \in T : \A z \in T : y <= z
  BY <1>1, LeastNumber
<1>3. PICK x \in S : y = b - x
  BY <1>2
<1>4. \A z \in S : x >= z
  <2> SUFFICES ASSUME NEW z \in S PROVE x >= z
    OBVIOUS
  <2>1. b - x <= b - z
    BY <1>2, <1>3
  <2>2. x \in 0 .. b /\ z \in 0 .. b
    OBVIOUS
  <2>3. QED
    BY <2>1, <2>2
<1>5. \E u \in S : \A z \in S : u >= z
  BY <1>4
<1>6. Max(S) \in S /\ \A z \in S : Max(S) >= z
  BY <1>5 DEF Max
<1>7. QED
  BY <1>6

(* The sums in terms of the layout, in this state and the next.            *)
LEMMA TotalIs == TotalLength = SumFunctionOnSet(layout, DOMAIN layout)
  BY FoldIsSum DEF TotalLength

(* The same of where a file starts.                                        *)
LEMMA StartIs ==
  \A f : Start(f) = SumFunctionOnSet(SubSeq(layout, 1, f - 1), DOMAIN SubSeq(layout, 1, f - 1))
  BY FoldIsSum DEF Start

(* What is derived from the layout stays as it is.                         *)
LEMMA LayoutSame ==
  ASSUME layout' = layout
  PROVE  /\ Files' = Files /\ TotalLength' = TotalLength /\ Pieces' = Pieces
         /\ \A p : PieceSize(p)' = PieceSize(p)
         /\ \A f : Start(f)' = Start(f)
<1>1. TotalLength' = TotalLength
  <2>1. (TotalLength = SumFunctionOnSet(layout, DOMAIN layout))'
    BY TotalIs, PTL
  <2>2. QED
    BY <2>1, TotalIs
<1>2. \A f : Start(f)' = Start(f)
  <2>1. (\A f : Start(f) = SumFunctionOnSet(SubSeq(layout, 1, f - 1),
                                           DOMAIN SubSeq(layout, 1, f - 1)))'
    BY StartIs, PTL
  <2>2. QED
    BY <2>1, StartIs
<1>3. QED
  BY <1>1, <1>2 DEF Files, Pieces, NumPieces, PieceSize

-----------------------------------------------------------------------------
(* Type correctness                                                        *)

Movers == [at : {"idle", "write", "written", "read", "got"}, file : Int, global : Int,
           remain : Int, moved : Int]

(* TypeOK, with what it takes to keep it: where the offset can be, and     *)
(* that the set of files has an element or is the empty one.               *)
Shape ==
  /\ TypeOK
  /\ \E k \in 1 .. Len(layout) + 1 : offset = Start(k) /\ (Building => k = nextFile)
  /\ torfiles = << >> \/ DOMAIN torfiles # {}
  /\ content = [f \in Files |-> content[f]]
  /\ mover \in [Pieces -> Movers]
  /\ result = [p \in Pieces |-> result[p]]

(* A part is no longer than what remains of the piece.                     *)
LEMMA PartType ==
  ASSUME layout \in Layouts, NEW m \in Movers, m.remain \in Nat, m.file \in DOMAIN torfiles,
         torfiles[m.file] \in Files
  PROVE  Part(m) \in 0 .. m.remain
<1> DEFINE room == (layout[torfiles[m.file]] - FileOffset(m)) % WordSize
<1>1. layout[torfiles[m.file]] \in Nat
  BY LayoutType
<1>2. FileOffset(m) \in Nat
  BY DEF FileOffset, Movers
<1>3. room \in Nat
  BY <1>1, <1>2
<1>4. Part(m) = Min({m.remain, room})
  BY DEF Part
<1> HIDE DEF room
<1>5. Part(m) \in {m.remain, room} /\ Part(m) <= m.remain
  BY <1>3, <1>4, MinIs
<1>6. QED
  BY <1>3, <1>5

(* Where the loop over the files starts.                                   *)
LEMMA StartAtType ==
  ASSUME layout \in Layouts, DOMAIN torfiles \subseteq 0 .. TotalLength,
         torfiles = << >> \/ DOMAIN torfiles # {}, NEW at \in Nat
  PROVE  StartAt(at) = End \/ StartAt(at) \in DOMAIN torfiles
<1> DEFINE before == {o \in DOMAIN torfiles : o < at}
<1>1. TotalLength \in Nat /\ before \subseteq 0 .. TotalLength /\ DOMAIN torfiles \subseteq Nat
  BY StartSteps
<1>2. CASE before # {}
  BY <1>1, <1>2, MaxIs DEF StartAt
<1>3. CASE before = {}
  BY <1>1, <1>3, MinIs DEF StartAt
<1>4. QED
  BY <1>2, <1>3

(* Where it goes on.                                                       *)
LEMMA NextAfterType ==
  ASSUME layout \in Layouts, DOMAIN torfiles \subseteq 0 .. TotalLength, NEW o
  PROVE  NextAfter(o) = End \/ NextAfter(o) \in DOMAIN torfiles
<1> DEFINE after == {q \in DOMAIN torfiles : q > o}
<1>1. after \subseteq Nat
  BY StartSteps
<1>2. QED
  BY <1>1, MinIs DEF NextAfter

(* The loop that moves piece p is at one of the files, within the piece.   *)
MoverTyped(p, m) ==
  /\ m \in Movers
  /\ m.at \in {"write", "read"} =>
       /\ m.file \in DOMAIN torfiles
       /\ m.remain \in 1 .. PieceSize(p)
       /\ m.moved = PieceSize(p) - m.remain
       /\ m.global = p * PieceLength + m.moved

(* What Shape says of a loop.                                              *)
LEMMA ShapeMovers ==
  ASSUME Shape
  PROVE  \A p \in Pieces : MoverTyped(p, mover[p])
  BY DEF Shape, TypeOK, MoverTyped

(* The loop begins, at a file, or is over at once.                         *)
LEMMA BeginType ==
  ASSUME Shape, NEW p \in Pieces, NEW kind \in {"write", "read"}, NEW over \in {"written", "got"},
         Begin(p, kind, over)
  PROVE  /\ mover' = [mover EXCEPT ![p] = mover'[p]] /\ MoverTyped(p, mover'[p])
         /\ mover'[p].at \in {kind, over}
<1> DEFINE first == StartAt(p * PieceLength)
<1>1. /\ p * PieceLength \in Nat /\ PieceSize(p) \in Nat \ {0}
      /\ layout \in Layouts /\ mover \in [Pieces -> Movers]
  BY PieceType DEF Shape, TypeOK
<1>2. first = End \/ first \in DOMAIN torfiles
  BY <1>1, StartAtType DEF Shape, TypeOK
<1>3. DOMAIN torfiles \subseteq Int
  BY StartSteps DEF Shape, TypeOK
<1> HIDE DEF first
<1>4. CASE first = End
  BY <1>1, <1>4 DEF Begin, MoverTyped, Movers, Idle, first, End
<1>5. CASE first # End
  BY <1>1, <1>2, <1>3, <1>5 DEF Begin, MoverTyped, Movers, first
<1>6. QED
  BY <1>4, <1>5

(* The loop goes on to the next file, or is over.                          *)
LEMMA AdvanceType ==
  ASSUME Shape, NEW p \in Pieces, NEW over \in {"written", "got"},
         mover[p].at \in {"write", "read"}, Advance(p, over)
  PROVE  /\ mover' = [mover EXCEPT ![p] = mover'[p]] /\ MoverTyped(p, mover'[p])
         /\ mover'[p].at \in {mover[p].at, over}
<1> DEFINE m == mover[p]
           n == Part(m)
           file == NextAfter(m.file)
<1>1. /\ p * PieceLength \in Nat /\ PieceSize(p) \in Nat \ {0}
      /\ layout \in Layouts /\ mover \in [Pieces -> Movers] /\ m \in Movers
      /\ m.file \in DOMAIN torfiles /\ torfiles[m.file] \in Files
      /\ m.remain \in 1 .. PieceSize(p) /\ m.moved = PieceSize(p) - m.remain
      /\ m.global = p * PieceLength + m.moved
  BY PieceType, ShapeMovers DEF Shape, TypeOK, MoverTyped
<1>2. n \in 0 .. m.remain
  BY <1>1, PartType
<1>3. file = End \/ file \in DOMAIN torfiles
  BY <1>1, NextAfterType DEF Shape, TypeOK
<1>4. DOMAIN torfiles \subseteq Int
  BY StartSteps DEF Shape, TypeOK
<1> HIDE DEF n, file
<1>5. CASE m.remain = n \/ file = End
  BY <1>1, <1>5 DEF Advance, MoverTyped, Movers, Idle, n, file, End
<1>6. CASE ~(m.remain = n \/ file = End)
  <2>1. mover' = [mover EXCEPT ![p] = [m EXCEPT !.file = file, !.global = @ + n,
                                               !.remain = @ - n, !.moved = @ + n]]
    BY <1>6 DEF Advance, n, file
  <2>2. mover'[p] = [m EXCEPT !.file = file, !.global = @ + n, !.remain = @ - n, !.moved = @ + n]
    BY <1>1, <2>1
  <2> DEFINE x == mover'[p]
  <2> HIDE DEF m, x
  <2>3. /\ x \in Movers /\ x.at = m.at /\ x.file = file
        /\ x.global = m.global + n /\ x.remain = m.remain - n /\ x.moved = m.moved + n
    <3>1. m \in Movers /\ file \in Int /\ n \in Int
      BY <1>1, <1>2, <1>3, <1>4, <1>6
    <3>2. x = [m EXCEPT !.file = file, !.global = @ + n, !.remain = @ - n, !.moved = @ + n]
      BY <2>2 DEF x
    <3>3. DOMAIN m = {"at", "file", "global", "remain", "moved"}
      BY <3>1 DEF Movers
    <3>4. /\ x.at = m.at /\ x.file = file
          /\ x.global = m.global + n /\ x.remain = m.remain - n /\ x.moved = m.moved + n
      BY <3>2, <3>3
    <3>5. x \in Movers
      <4>1. /\ m.at \in {"idle", "write", "written", "read", "got"}
            /\ m.global \in Int /\ m.remain \in Int /\ m.moved \in Int
        BY <3>1 DEF Movers
      <4>2. x = [at |-> m.at, file |-> file, global |-> m.global + n,
                 remain |-> m.remain - n, moved |-> m.moved + n]
        BY <3>1, <3>2 DEF Movers
      <4>3. m.global + n \in Int /\ m.remain - n \in Int /\ m.moved + n \in Int
        BY <3>1, <4>1
      <4>4. QED
        BY <3>1, <4>1, <4>2, <4>3 DEF Movers
    <3>6. QED
      BY <3>4, <3>5
  <2>4. MoverTyped(p, x)
    BY <1>1, <1>2, <1>3, <1>6, <2>3 DEF MoverTyped
  <2>5. QED
    BY <2>1, <2>2, <2>3, <2>4 DEF x, m
<1>7. QED
  BY <1>5, <1>6

(* A round of the loop for one piece keeps the shape, if what it writes to *)
(* a file or to the result has the type.                                   *)
LEMMA RoundType ==
  ASSUME Shape, NEW p \in Pieces, UNCHANGED <<layout, torfiles, nextFile, offset>>,
         mover' = [mover EXCEPT ![p] = mover'[p]], MoverTyped(p, mover'[p]),
         \/ content' = content
         \/ \E f \in Files : /\ content' = [content EXCEPT ![f] = content'[f]]
                             /\ \A o \in DOMAIN content'[f] : content'[f][o] \in -1 .. TotalLength - 1,
         \/ result' = result
         \/ /\ result' = [result EXCEPT ![p] = result'[p]]
            /\ DOMAIN result'[p] \subseteq 0 .. PieceSize(p) - 1
  PROVE  Shape'
<1>1. /\ Files' = Files /\ TotalLength' = TotalLength /\ Pieces' = Pieces
      /\ \A q : PieceSize(q)' = PieceSize(q)
      /\ \A f : Start(f)' = Start(f)
  BY LayoutSame
<1>2. mover' \in [Pieces -> Movers] /\ \A q \in Pieces : MoverTyped(q, mover'[q])
  <2>1. mover \in [Pieces -> Movers] /\ mover'[p] \in Movers
    BY DEF Shape, MoverTyped
  <2>2. \A q \in Pieces \ {p} : mover'[q] = mover[q]
    BY <2>1
  <2>3. mover' \in [Pieces -> Movers]
    BY <2>1
  <2>4. QED
    BY <2>2, <2>3, ShapeMovers
<1>3. /\ content' = [f \in Files |-> content'[f]]
      /\ \A f \in Files : \A o \in DOMAIN content'[f] : content'[f][o] \in -1 .. TotalLength - 1
  <2>1. /\ content = [f \in Files |-> content[f]]
        /\ \A f \in Files : \A o \in DOMAIN content[f] : content[f][o] \in -1 .. TotalLength - 1
    BY DEF Shape, TypeOK
  <2>2. CASE content' = content
    BY <2>1, <2>2
  <2>3. ASSUME NEW f \in Files, content' = [content EXCEPT ![f] = content'[f]],
               \A o \in DOMAIN content'[f] : content'[f][o] \in -1 .. TotalLength - 1
        PROVE  /\ content' = [g \in Files |-> content'[g]]
               /\ \A g \in Files : \A o \in DOMAIN content'[g] :
                    content'[g][o] \in -1 .. TotalLength - 1
    <3>1. content' = [g \in Files |-> content'[g]]
      BY <2>1, <2>3
    <3>2. \A g \in Files \ {f} : content'[g] = content[g]
      BY <2>1, <2>3
    <3>3. QED
      BY <2>1, <2>3, <3>1, <3>2
  <2>4. QED
    BY <2>2, <2>3
<1>4. /\ result' = [q \in Pieces |-> result'[q]]
      /\ \A q \in Pieces : DOMAIN result'[q] \subseteq 0 .. PieceSize(q) - 1
  <2>1. /\ result = [q \in Pieces |-> result[q]]
        /\ \A q \in Pieces : DOMAIN result[q] \subseteq 0 .. PieceSize(q) - 1
    BY DEF Shape, TypeOK
  <2>2. CASE result' = result
    BY <2>1, <2>2
  <2>3. CASE /\ result' = [result EXCEPT ![p] = result'[p]]
             /\ DOMAIN result'[p] \subseteq 0 .. PieceSize(p) - 1
    <3>1. result' = [q \in Pieces |-> result'[q]]
      BY <2>1, <2>3
    <3>2. \A q \in Pieces \ {p} : result'[q] = result[q]
      BY <2>1, <2>3
    <3>3. QED
      BY <2>1, <2>3, <3>1, <3>2
  <2>4. QED
    BY <2>2, <2>3
<1>5. TypeOK'
  BY <1>1, <1>2, <1>3, <1>4 DEF Shape, TypeOK, MoverTyped, Movers
<1>6. QED
  BY <1>1, <1>2, <1>3, <1>4, <1>5 DEF Shape, Building

(* The bytes that a part writes are the torrent's.                         *)
LEMMA WrittenType ==
  ASSUME Shape, NEW p \in Pieces, NEW f \in Files, mover[p].at = "write", torfiles[mover[p].file] = f
  PROVE  LET m == mover[p]
             new == Overwritten(content[f], FileOffset(m), Part(m), p * PieceLength + m.moved)
         IN  \A o \in DOMAIN new : new[o] \in -1 .. TotalLength - 1
<1> DEFINE m == mover[p]
           n == Part(m)
           at == FileOffset(m)
           first == p * PieceLength + m.moved
           old == content[f]
           new == Overwritten(old, at, n, first)
<1>1. /\ m \in Movers /\ m.file \in DOMAIN torfiles /\ m.remain \in 1 .. PieceSize(p)
      /\ m.moved = PieceSize(p) - m.remain
      /\ layout \in Layouts /\ TotalLength \in Nat
      /\ \A o \in DOMAIN old : old[o] \in -1 .. TotalLength - 1
  BY ShapeMovers, StartSteps DEF MoverTyped, Shape, TypeOK
<1>2. n \in 0 .. m.remain
  BY <1>1, PartType
<1>3. at \in Nat
  BY <1>1 DEF FileOffset, Movers
<1>4. first \in Nat /\ first + m.remain <= TotalLength
  <2>1. /\ p * PieceLength \in Nat /\ PieceSize(p) \in Nat \ {0}
        /\ p * PieceLength + PieceSize(p) <= TotalLength
    BY <1>1, PieceType
  <2>2. QED
    BY <1>1, <2>1
<1> HIDE DEF n, at, first, old, m
<1>5. ASSUME NEW o \in DOMAIN new PROVE new[o] \in -1 .. TotalLength - 1
  <2>1. CASE o \in at .. at + n - 1
    <3>1. new[o] = first + o - at /\ n # 0
      BY <1>2, <1>3, <1>5, <2>1 DEF Overwritten
    <3>2. QED
      BY <1>1, <1>2, <1>3, <1>4, <2>1, <3>1
  <2>2. CASE o \notin at .. at + n - 1 /\ o \in DOMAIN old
    BY <1>1, <1>5, <2>2 DEF Overwritten
  <2>3. CASE o \notin at .. at + n - 1 /\ o \notin DOMAIN old
    BY <1>1, <1>5, <2>3 DEF Overwritten, Hole
  <2>4. QED
    BY <2>1, <2>2, <2>3
<1>6. QED
  BY <1>5 DEF n, at, first, old, m

(* Nothing is made, moved or read at first.                                *)
LEMMA InitShape == Init => Shape
<1> SUFFICES ASSUME Init PROVE Shape
  OBVIOUS
<1>1. /\ layout \in Layouts /\ torfiles = << >> /\ nextFile = 1 /\ offset = 0
      /\ content = [f \in Files |-> Holes(0)] /\ mover = [p \in Pieces |-> Idle]
      /\ result = [p \in Pieces |-> Holes(0)]
  BY DEF Init
<1>2. /\ Len(layout) \in Nat /\ TotalLength \in Nat /\ Start(1) = 0
      /\ \A p \in Pieces : PieceSize(p) \in Nat \ {0}
  BY <1>1, LayoutType, StartSteps, PieceType
<1>3. DOMAIN Holes(0) = {}
  BY DEF Holes
<1>4. Idle \in Movers /\ Idle.at = "idle"
  BY DEF Idle, Movers, End
<1>5. mover \in [Pieces -> Movers] /\ \A p \in Pieces : mover[p] = Idle
  BY <1>1, <1>4
<1>6. TypeOK
  BY <1>1, <1>2, <1>3, <1>4, <1>5 DEF TypeOK
<1>7. 1 \in 1 .. Len(layout) + 1 /\ offset = Start(1) /\ nextFile = 1
  BY <1>1, <1>2
<1>8. content = [f \in Files |-> content[f]] /\ result = [p \in Pieces |-> result[p]]
  BY <1>1
<1>9. QED
  BY <1>1, <1>5, <1>6, <1>7, <1>8 DEF Shape

(* Another file: it begins where the one in front of it ends.              *)
LEMMA AddFileType ==
  ASSUME Shape, AddFile
  PROVE  Shape'
<1>1. /\ layout \in Layouts /\ layout' = layout /\ mover' = mover /\ result' = result
      /\ nextFile \in Files /\ nextFile' = nextFile + 1 /\ nextFile + 1 \in 1 .. Len(layout) + 1
      /\ Len(layout) \in Nat /\ layout[nextFile] \in Nat
  BY LayoutType DEF AddFile, Building, Shape, TypeOK
<1>2. /\ Files' = Files /\ TotalLength' = TotalLength /\ Pieces' = Pieces
      /\ \A q : PieceSize(q)' = PieceSize(q)
      /\ \A f : Start(f)' = Start(f)
  BY <1>1, LayoutSame
<1>3. offset = Start(nextFile) /\ offset' = Start(nextFile + 1)
  BY <1>1, StartSteps DEF AddFile, Shape
<1>4. TotalLength \in Nat /\ offset \in 0 .. TotalLength /\ offset' \in 0 .. TotalLength
  <2>1. nextFile + 1 \in 1 .. Len(layout) + 1 /\ nextFile + 1 <= Len(layout) + 1
        /\ Len(layout) + 1 \in 1 .. Len(layout) + 1
    BY <1>1
  <2>2. Start(nextFile + 1) <= Start(Len(layout) + 1) /\ Start(nextFile + 1) \in Nat
    BY <1>1, <2>1, StartMonotone, StartIsSum
  <2>3. QED
    BY <1>1, <1>3, <2>2, StartSteps DEF Shape, TypeOK
<1>5. /\ DOMAIN torfiles' = DOMAIN torfiles \cup {offset}
      /\ \A o \in DOMAIN torfiles' : torfiles'[o] \in Files
  <2>1. torfiles' = Emplace(nextFile, offset) /\ \A o \in DOMAIN torfiles : torfiles[o] \in Files
    BY DEF AddFile, Shape, TypeOK
  <2>2. CASE offset \in DOMAIN torfiles
    BY <2>1, <2>2 DEF Emplace
  <2>3. CASE offset \notin DOMAIN torfiles
    BY <1>1, <2>1, <2>3 DEF Emplace
  <2>4. QED
    BY <2>2, <2>3
<1>6. /\ content' = [f \in Files |-> content'[f]]
      /\ \A f \in Files : \A o \in DOMAIN content'[f] : content'[f][o] \in -1 .. TotalLength - 1
  <2>1. /\ content = [f \in Files |-> content[f]]
        /\ content' = [content EXCEPT ![nextFile] = Holes(layout[nextFile])]
        /\ \A f \in Files : \A o \in DOMAIN content[f] : content[f][o] \in -1 .. TotalLength - 1
    BY DEF AddFile, Shape, TypeOK
  <2>2. \A o \in DOMAIN Holes(layout[nextFile]) :
          Holes(layout[nextFile])[o] \in -1 .. TotalLength - 1
    BY <1>4 DEF Holes, Hole
  <2>3. content' = [f \in Files |-> IF f = nextFile THEN Holes(layout[nextFile]) ELSE content[f]]
    BY <1>1, <2>1
  <2>4. QED
    BY <2>1, <2>2, <2>3
<1>7. TypeOK'
  BY <1>1, <1>2, <1>4, <1>5, <1>6 DEF Shape, TypeOK
<1>8. \E k \in 1 .. Len(layout') + 1 : offset' = Start(k)' /\ (Building' => k = nextFile')
  BY <1>1, <1>2, <1>3
<1>9. QED
  BY <1>1, <1>2, <1>5, <1>6, <1>7, <1>8 DEF Shape

(* Every step keeps the shape.                                             *)
LEMMA NextShape == Shape /\ [Next]_vars => Shape'
<1> SUFFICES ASSUME Shape, [Next]_vars PROVE Shape'
  OBVIOUS
<1>1. CASE AddFile
  BY <1>1, AddFileType
<1>2. CASE FailFile
  <2>1. /\ layout' = layout /\ UNCHANGED <<torfiles, offset, content, mover, result>>
        /\ nextFile' = Len(layout) + 1 /\ Len(layout) \in Nat
    BY <1>2, LayoutType DEF FailFile, Shape, TypeOK
  <2>2. /\ Files' = Files /\ TotalLength' = TotalLength /\ Pieces' = Pieces
        /\ \A q : PieceSize(q)' = PieceSize(q)
        /\ \A f : Start(f)' = Start(f)
    BY <2>1, LayoutSame
  <2>3. TypeOK'
    BY <2>1, <2>2 DEF Shape, TypeOK
  <2>4. ~Building'
    BY <2>1 DEF Building
  <2>5. QED
    BY <2>1, <2>2, <2>3, <2>4 DEF Shape
<1>3. ASSUME NEW p \in Pieces, BeginWrite(p) PROVE Shape'
  BY <1>3, BeginType, RoundType DEF BeginWrite
<1>4. ASSUME NEW p \in Pieces, BeginRead(p) PROVE Shape'
  <2>1. result' = [result EXCEPT ![p] = Holes(PieceSize(p))] /\ p \in DOMAIN result
    BY <1>4 DEF BeginRead, Shape
  <2>2. result'[p] = Holes(PieceSize(p)) /\ DOMAIN Holes(PieceSize(p)) = 0 .. PieceSize(p) - 1
    BY <2>1 DEF Holes
  <2>3. QED
    BY <1>4, <2>1, <2>2, BeginType, RoundType DEF BeginRead
<1>5. ASSUME NEW p \in Pieces, WritePart(p) PROVE Shape'
  <2> DEFINE m == mover[p]
             f == torfiles[m.file]
             new == Overwritten(content[f], FileOffset(m), Part(m), p * PieceLength + m.moved)
  <2>1. f \in Files /\ m.at = "write" /\ content = [g \in Files |-> content[g]]
    BY <1>5, ShapeMovers DEF WritePart, Shape, TypeOK, MoverTyped
  <2>2. \A o \in DOMAIN new : new[o] \in -1 .. TotalLength - 1
    BY <2>1, WrittenType
  <2>3. content' = content \/ content' = [content EXCEPT ![f] = new]
    BY <1>5 DEF WritePart
  <2> HIDE DEF new
  <2>4. \/ content' = content
        \/ /\ content' = [content EXCEPT ![f] = content'[f]]
           /\ \A o \in DOMAIN content'[f] : content'[f][o] \in -1 .. TotalLength - 1
    BY <2>1, <2>2, <2>3
  <2>5. QED
    BY <1>5, <2>1, <2>4, AdvanceType, RoundType DEF WritePart
<1>6. ASSUME NEW p \in Pieces, ReadPart(p) PROVE Shape'
  <2> DEFINE new == Filled(mover[p], result[p], content[torfiles[mover[p].file]])
  <2>1. result' = [result EXCEPT ![p] = new] /\ p \in DOMAIN result
    BY <1>6 DEF ReadPart, Shape
  <2>2. DOMAIN new = DOMAIN result[p] /\ DOMAIN result[p] \subseteq 0 .. PieceSize(p) - 1
    BY DEF Filled, Shape, TypeOK
  <2> HIDE DEF new
  <2>3. /\ result' = [result EXCEPT ![p] = result'[p]]
        /\ DOMAIN result'[p] \subseteq 0 .. PieceSize(p) - 1
    BY <2>1, <2>2
  <2>4. QED
    BY <1>6, <2>3, AdvanceType, RoundType DEF ReadPart
<1>7. CASE UNCHANGED vars
  <2>1. /\ layout' = layout
        /\ UNCHANGED <<torfiles, nextFile, offset, content, mover, result>>
    BY <1>7 DEF vars
  <2>2. /\ Files' = Files /\ TotalLength' = TotalLength /\ Pieces' = Pieces
        /\ \A q : PieceSize(q)' = PieceSize(q)
        /\ \A f : Start(f)' = Start(f)
    BY <2>1, LayoutSame
  <2>3. TypeOK'
    BY <2>1, <2>2 DEF Shape, TypeOK
  <2>4. QED
    BY <2>1, <2>2, <2>3 DEF Shape, Building
<1>8. QED
  BY <1>1, <1>2, <1>3, <1>4, <1>5, <1>6, <1>7 DEF Next

(* So it holds of every state.                                             *)
LEMMA ShapeCorrect == Spec => []Shape
  BY InitShape, NextShape, PTL DEF Spec

(* Whatever files there are and may fail to be made, every variable has    *)
(* its type; the loops over the files are always at a file of the set, and *)
(* never move a byte beyond the end of their piece.                        *)
THEOREM TypeCorrect == Spec => []TypeOK
<1>1. Shape => TypeOK
  BY DEF Shape
<1>2. QED
  BY <1>1, ShapeCorrect, PTL

-----------------------------------------------------------------------------
(* The files that are in the set                                           *)

(***************************************************************************)
(* Two things the code relies on: no file is empty but perhaps the last,   *)
(* as an empty one hides the file behind it in the set, and the length of  *)
(* a file is an off_t, which has one bit less than a size_t.               *)
(***************************************************************************)
OnlyLastEmpty == \A l \in Layouts : \A f \in 1 .. Len(l) - 1 : l[f] > 0

LengthsFit == \A l \in Layouts : \A f \in 1 .. Len(l) : 2 * l[f] <= WordSize

(* Then the files start one behind the other.                              *)
LEMMA StartStrict ==
  ASSUME OnlyLastEmpty, layout \in Layouts, NEW f \in Files, NEW g \in Files, f < g
  PROVE  Start(f) < Start(g)
<1>1. /\ Len(layout) \in Nat /\ f \in 1 .. Len(layout) - 1
      /\ f \in 1 .. Len(layout) + 1 /\ g \in 1 .. Len(layout) + 1
  BY LayoutType
<1>2. layout[f] > 0 /\ layout[f] \in Nat
  BY <1>1, LayoutType DEF OnlyLastEmpty
<1>3. Start(f) + layout[f] <= Start(g)
  BY <1>1, StartMonotone
<1>4. Start(f) \in Nat /\ Start(g) \in Nat
  BY <1>1, StartIsSum
<1>5. QED
  BY <1>2, <1>3, <1>4

(* The set has the first k - 1 files, each at its offset.                  *)
LaidTo(k) ==
  /\ offset = Start(k)
  /\ DOMAIN torfiles = {Start(f) : f \in 1 .. k - 1}
  /\ \A f \in 1 .. k - 1 : torfiles[Start(f)] = f
  /\ Building => k = nextFile

(* The set has every file that holds a byte, and nothing else.             *)
Covered ==
  /\ layout \in Layouts
  /\ DOMAIN torfiles \subseteq 0 .. TotalLength
  /\ \A f \in Files : Start(f) < TotalLength => Start(f) \in DOMAIN torfiles
  /\ \A o \in DOMAIN torfiles : \E f \in Files : o = Start(f) /\ torfiles[o] = f

(* When the offset has reached the end, no byte is without a file.         *)
LEMMA LaidIsCovered ==
  ASSUME Shape, Laid, NEW k \in 1 .. Len(layout) + 1, LaidTo(k)
  PROVE  Covered
<1>1. /\ layout \in Layouts /\ DOMAIN torfiles \subseteq 0 .. TotalLength
      /\ Len(layout) \in Nat /\ Files = 1 .. Len(layout)
  BY LayoutType DEF Shape, TypeOK
<1>2. Start(k) = TotalLength
  BY DEF Laid, LaidTo
<1>3. ASSUME NEW f \in Files, Start(f) < TotalLength PROVE Start(f) \in DOMAIN torfiles
  <2>1. f \in 1 .. Len(layout) + 1 /\ Start(f) \in Nat /\ TotalLength \in Nat
    BY <1>1, StartIsSum, StartSteps
  <2>2. ~(k <= f)
    BY <1>1, <1>2, <1>3, <2>1, StartMonotone
  <2>3. f \in 1 .. k - 1
    BY <2>1, <2>2
  <2>4. QED
    BY <2>3 DEF LaidTo
<1>4. ASSUME NEW o \in DOMAIN torfiles PROVE \E f \in Files : o = Start(f) /\ torfiles[o] = f
  <2>1. PICK f \in 1 .. k - 1 : o = Start(f)
    BY DEF LaidTo
  <2>2. f \in Files /\ torfiles[o] = f
    BY <1>1, <2>1 DEF LaidTo
  <2>3. QED
    BY <2>1, <2>2
<1>5. QED
  BY <1>1, <1>3, <1>4 DEF Covered

(* Byte i of the stream lies in file f.                                    *)
InFile(f, i) == i \in Start(f) .. Start(f) + layout[f] - 1

(* The ranges of two files have no byte in common.                         *)
LEMMA FilesDisjoint ==
  ASSUME layout \in Layouts, NEW f \in Files, NEW g \in Files, NEW i, InFile(f, i), InFile(g, i)
  PROVE  f = g
<1>1. /\ f \in 1 .. Len(layout) + 1 /\ g \in 1 .. Len(layout) + 1
      /\ layout[f] \in Nat /\ layout[g] \in Nat /\ Start(f) \in Nat /\ Start(g) \in Nat
  BY LayoutType, StartIsSum
<1>2. ASSUME f < g PROVE FALSE
  <2>1. Start(f) + layout[f] <= Start(g)
    BY <1>1, <1>2, StartMonotone
  <2>2. QED
    BY <1>1, <2>1 DEF InFile
<1>3. ASSUME g < f PROVE FALSE
  <2>1. Start(g) + layout[g] <= Start(f)
    BY <1>1, <1>3, StartMonotone
  <2>2. QED
    BY <1>1, <2>1 DEF InFile
<1>4. QED
  BY <1>1, <1>2, <1>3

(* If more bytes follow, the next file of the set is the one that begins   *)
(* where this one ends.                                                    *)
LEMMA NextFile ==
  ASSUME OnlyLastEmpty, Covered, NEW f \in Files, Start(f) + layout[f] < TotalLength
  PROVE  /\ f + 1 \in Files
         /\ NextAfter(Start(f)) = Start(f) + layout[f]
         /\ Start(f + 1) = Start(f) + layout[f]
         /\ Start(f + 1) \in DOMAIN torfiles /\ torfiles[Start(f + 1)] = f + 1
<1> DEFINE after == {q \in DOMAIN torfiles : q > Start(f)}
<1>1. /\ layout \in Layouts /\ Len(layout) \in Nat /\ Files = 1 .. Len(layout)
      /\ f \in 1 .. Len(layout) + 1 /\ f + 1 \in 1 .. Len(layout) + 1
      /\ Start(f + 1) = Start(f) + layout[f] /\ TotalLength = Start(Len(layout) + 1)
      /\ layout[f] \in Nat /\ TotalLength \in Nat
      /\ \A g \in 1 .. Len(layout) + 1 : Start(g) \in Nat
  BY LayoutType, StartSteps, StartIsSum DEF Covered
<1>2. f + 1 \in Files /\ layout[f] > 0
  <2>1. f # Len(layout)
    BY <1>1
  <2>2. f \in 1 .. Len(layout) - 1
    BY <1>1, <2>1
  <2>3. QED
    BY <1>1, <2>2 DEF OnlyLastEmpty
<1>3. Start(f + 1) \in after
  BY <1>1, <1>2 DEF Covered
<1>4. \A q \in after : Start(f + 1) <= q
  <2> SUFFICES ASSUME NEW q \in after PROVE Start(f + 1) <= q
    OBVIOUS
  <2>1. PICK g \in Files : q = Start(g)
    BY DEF Covered
  <2>2. g \in 1 .. Len(layout) + 1 /\ Start(g) > Start(f)
    BY <1>1, <2>1
  <2>3. ~(g <= f)
    BY <1>1, <2>2, StartMonotone
  <2>4. f + 1 <= g
    BY <1>1, <2>2, <2>3
  <2>5. QED
    BY <1>1, <2>1, <2>2, <2>4, StartMonotone
<1>5. after \subseteq Nat
  BY <1>1 DEF Covered
<1>6. Min(after) \in after /\ \A x \in after : Min(after) <= x
  BY <1>3, <1>5, MinIs
<1>7. NextAfter(Start(f)) = Start(f + 1)
  <2>1. NextAfter(Start(f)) = Min(after)
    BY <1>3 DEF NextAfter
  <2>2. Min(after) <= Start(f + 1) /\ Start(f + 1) <= Min(after) /\ Min(after) \in Nat
    BY <1>3, <1>4, <1>5, <1>6
  <2>3. QED
    BY <1>1, <2>1, <2>2
<1>8. PICK g \in Files : Start(f + 1) = Start(g) /\ torfiles[Start(f + 1)] = g
  BY <1>3 DEF Covered
<1>9. g = f + 1
  <2>1. \A i, j \in Files : i < j => Start(i) < Start(j)
    BY StartStrict DEF Covered
  <2>2. ~(g < f + 1) /\ ~(f + 1 < g)
    BY <1>1, <1>2, <1>8, <2>1
  <2>3. QED
    BY <1>1, <2>2
<1>10. QED
  BY <1>1, <1>2, <1>3, <1>7, <1>8, <1>9

(* The file where the loop starts holds the piece's first byte, or ends    *)
(* where the piece begins.                                                 *)
AtFile(m, f) ==
  /\ m.file = Start(f) /\ m.file \in DOMAIN torfiles /\ torfiles[m.file] = f
  /\ m.global \in Start(f) .. Start(f) + layout[f]

(* The loop starts at such a file.                                         *)
LEMMA FirstFile ==
  ASSUME OnlyLastEmpty, Covered, NEW at \in Nat, at < TotalLength
  PROVE  \E f \in Files : /\ StartAt(at) = Start(f) /\ Start(f) \in DOMAIN torfiles
                          /\ torfiles[Start(f)] = f /\ at \in Start(f) .. Start(f) + layout[f]
<1> DEFINE before == {o \in DOMAIN torfiles : o < at}
<1>1. /\ layout \in Layouts /\ Len(layout) \in Nat /\ Files = 1 .. Len(layout)
      /\ DOMAIN torfiles \subseteq 0 .. TotalLength /\ TotalLength \in Nat
      /\ Start(1) = 0 /\ Start(Len(layout) + 1) = TotalLength
      /\ \A f \in Files : layout[f] \in Nat /\ Start(f) \in Nat /\ Start(f + 1) = Start(f) + layout[f]
  BY LayoutType, StartSteps, StartIsSum DEF Covered
<1>2. 1 \in Files /\ 0 \in DOMAIN torfiles
  <2>1. 1 \in Files
    BY <1>1
  <2>2. QED
    BY <1>1, <2>1 DEF Covered
<1>3. \A o \in DOMAIN torfiles : \E f \in Files : o = Start(f) /\ torfiles[o] = f
  BY DEF Covered
<1>4. CASE before = {}
  <2>1. at = 0
    BY <1>2, <1>4
  <2>2. StartAt(at) = Min(DOMAIN torfiles)
    BY <1>2, <1>4 DEF StartAt
  <2>3. Min(DOMAIN torfiles) \in DOMAIN torfiles /\ Min(DOMAIN torfiles) <= 0
    BY <1>1, <1>2, MinIs
  <2>4. StartAt(at) = 0
    BY <1>1, <2>2, <2>3
  <2>5. PICK f \in Files : 0 = Start(f) /\ torfiles[0] = f
    BY <1>2, <1>3
  <2>6. QED
    BY <1>1, <1>2, <2>1, <2>4, <2>5
<1>5. CASE before # {}
  <2>1. StartAt(at) = Max(before) /\ before \subseteq 0 .. TotalLength
    BY <1>1, <1>5 DEF StartAt
  <2>2. Max(before) \in before /\ \A x \in before : x <= Max(before)
    BY <1>1, <1>5, <2>1, MaxIs
  <2>3. PICK f \in Files : Max(before) = Start(f) /\ torfiles[Max(before)] = f
    BY <1>3, <2>2
  <2>4. Start(f) < at /\ Start(f) \in DOMAIN torfiles
    BY <2>2, <2>3
  <2> HIDE DEF before
  <2>5. at <= Start(f) + layout[f]
    <3> SUFFICES ASSUME Start(f) + layout[f] < at PROVE FALSE
      BY <1>1
    <3>1. Start(f) + layout[f] < TotalLength
      BY <1>1
    <3>2. /\ f + 1 \in Files /\ Start(f + 1) \in DOMAIN torfiles
          /\ Start(f + 1) = Start(f) + layout[f]
      BY <3>1, NextFile
    <3>3. Start(f + 1) <= Start(f)
      BY <2>2, <2>3, <3>2 DEF before
    <3>4. Start(f) < Start(f + 1)
      BY <1>1, <3>2, StartStrict
    <3>5. QED
      BY <1>1, <3>2, <3>3, <3>4
  <2>6. QED
    BY <1>1, <2>1, <2>3, <2>4, <2>5
<1>6. QED
  BY <1>4, <1>5

(* What is smaller than the word does not wrap.                            *)
LEMMA ModSmall ==
  ASSUME NEW w \in Nat \ {0}, NEW a \in 0 .. w - 1
  PROVE  a % w = a
  OBVIOUS

(* At a file the offsets do not wrap, and the part is what the file and    *)
(* the piece have in common from there on.                                 *)
LEMMA PartIs ==
  ASSUME LengthsFit, layout \in Layouts, NEW m \in Movers, NEW f \in Files, AtFile(m, f),
         m.remain \in Nat \ {0}
  PROVE  /\ FileOffset(m) = m.global - Start(f)
         /\ FileOffset(m) \in 0 .. layout[f]
         /\ Part(m) \in 0 .. m.remain
         /\ Part(m) \in {m.remain, Start(f) + layout[f] - m.global}
         /\ m.global + Part(m) <= Start(f) + layout[f]
         /\ Part(m) # 0 => ~Refused(m)
<1> DEFINE at == m.global - Start(f)
           room == layout[f] - at
<1>1. /\ layout[f] \in Nat /\ Start(f) \in Nat /\ 2 * layout[f] <= WordSize
      /\ WordSize \in Nat \ {0}
  BY LayoutType, StartIsSum DEF LengthsFit
<1>2. m.global \in Start(f) .. Start(f) + layout[f]
  BY DEF AtFile
<1>3. at \in 0 .. layout[f] /\ room \in 0 .. layout[f]
  <2>1. \A i, l \in Nat : \A g \in i .. i + l : g - i \in 0 .. l /\ l - (g - i) \in 0 .. l
    OBVIOUS
  <2>2. QED
    BY <1>1, <1>2, <2>1
<1>4. at % WordSize = at /\ room % WordSize = room
  <2> HIDE DEF at, room
  <2>1. \A a \in 0 .. layout[f] : a \in 0 .. WordSize - 1
    BY <1>1
  <2>2. QED
    BY <1>1, <1>3, <2>1, ModSmall
<1>5. FileOffset(m) = at
  BY <1>4 DEF FileOffset, AtFile
<1>6. Part(m) = Min({m.remain, room})
  BY <1>4, <1>5 DEF Part, AtFile
<1>7. m.remain \in Nat /\ room \in Nat
  BY <1>1, <1>3
<1> HIDE DEF at, room
<1>8. Part(m) \in {m.remain, room} /\ Part(m) <= m.remain /\ Part(m) <= room
  BY <1>6, <1>7, MinIs
<1>9. Part(m) \in 0 .. m.remain
  BY <1>7, <1>8
<1>10. room = Start(f) + layout[f] - m.global
  BY <1>1, <1>2 DEF room, at
<1>11. m.global + Part(m) <= Start(f) + layout[f]
  <2>1. \A i, l, n \in Nat : \A g \in i .. i + l : n <= i + l - g => g + n <= i + l
    OBVIOUS
  <2>2. Part(m) \in Nat
    BY <1>7, <1>9
  <2>3. QED
    BY <1>1, <1>2, <1>8, <1>10, <2>1, <2>2
<1>12. Part(m) # 0 => ~Refused(m)
  <2>1. Part(m) # 0 => at < layout[f]
    BY <1>1, <1>3, <1>8, <1>9 DEF room
  <2>2. at < layout[f] => ~(at >= WordSize \div 2)
    BY <1>1, <1>3
  <2>3. QED
    BY <1>5, <2>1, <2>2 DEF Refused
<1>13. QED
  BY <1>3, <1>5, <1>8, <1>9, <1>10, <1>11, <1>12 DEF at

(* The loop ends when the piece does, and not before: until then there is  *)
(* a next file, which begins at the next byte.                             *)
LEMMA AdvanceIs ==
  ASSUME OnlyLastEmpty, LengthsFit, Shape, Covered, NEW p \in Pieces, NEW f \in Files,
         NEW over \in {"written", "got"}, mover[p].at \in {"write", "read"},
         AtFile(mover[p], f), Advance(p, over)
  PROVE  LET m == mover[p]
             n == Part(m)
         IN  \/ n = m.remain /\ mover'[p].at = over
             \/ /\ n # m.remain
                /\ mover'[p].at = m.at /\ mover'[p].moved = m.moved + n
                /\ mover'[p].global = m.global + n
                /\ f + 1 \in Files /\ mover'[p].file = Start(f + 1)
                /\ Start(f + 1) \in DOMAIN torfiles /\ torfiles[Start(f + 1)] = f + 1
                /\ mover'[p].global = Start(f + 1)
<1> DEFINE m == mover[p]
           n == Part(m)
<1>1. /\ mover \in [Pieces -> Movers] /\ m \in Movers /\ m.remain \in 1 .. PieceSize(p)
      /\ m.moved = PieceSize(p) - m.remain /\ m.global = p * PieceLength + m.moved
      /\ layout \in Layouts
  BY ShapeMovers DEF Shape, TypeOK, MoverTyped
<1>2. /\ p * PieceLength \in Nat /\ PieceSize(p) \in Nat \ {0}
      /\ p * PieceLength + PieceSize(p) <= TotalLength
      /\ layout[f] \in Nat /\ Start(f) \in Nat /\ TotalLength \in Nat
  <2>1. /\ p * PieceLength \in Nat /\ PieceSize(p) \in Nat \ {0}
        /\ p * PieceLength + PieceSize(p) <= TotalLength
    BY <1>1, PieceType
  <2>2. layout[f] \in Nat /\ Files = 1 .. Len(layout) /\ Len(layout) \in Nat
    BY <1>1, LayoutType
  <2>3. f \in 1 .. Len(layout) + 1
    BY <2>2
  <2>4. Start(f) \in Nat
    BY <1>1, <2>3, StartIsSum
  <2>5. TotalLength \in Nat
    BY <1>1, StartSteps
  <2> QED
    BY <2>1, <2>2, <2>4, <2>5
<1>3. m.remain \in Nat \ {0}
  BY <1>1, <1>2
<1>4. /\ n \in 0 .. m.remain /\ n \in {m.remain, Start(f) + layout[f] - m.global}
  BY <1>1, <1>3, PartIs
<1>5. m.file = Start(f) /\ m.global \in Start(f) .. Start(f) + layout[f]
  BY DEF AtFile
<1>6. CASE n = m.remain
  BY <1>1, <1>6 DEF Advance, Idle
<1>7. CASE n # m.remain
  <2>1. m.global + n = Start(f) + layout[f] /\ n < m.remain
    <3>1. \A i, l \in Nat : \A g \in i .. i + l : g + (i + l - g) = i + l
      OBVIOUS
    <3> HIDE DEF m, n
    <3>2. n = Start(f) + layout[f] - m.global
      BY <1>4, <1>7
    <3>3. m.global + n = Start(f) + layout[f]
      BY <1>2, <1>5, <3>1, <3>2
    <3>4. n < m.remain
      BY <1>3, <1>4, <1>7
    <3>5. QED
      BY <3>3, <3>4
  <2>2. m.global + m.remain <= TotalLength
    BY <1>1, <1>2
  <2>3. Start(f) + layout[f] < TotalLength
    <3>1. m.global \in Int /\ m.remain \in Int /\ n \in Int
      BY <1>1, <1>3, <1>4 DEF Movers
    <3> HIDE DEF m, n
    <3>2. QED
      BY <1>2, <2>1, <2>2, <3>1
  <2>4. /\ f + 1 \in Files /\ NextAfter(Start(f)) = Start(f) + layout[f]
        /\ Start(f + 1) = Start(f) + layout[f]
        /\ Start(f + 1) \in DOMAIN torfiles /\ torfiles[Start(f + 1)] = f + 1
    BY <2>3, NextFile
  <2>5. NextAfter(m.file) # End
    BY <1>2, <1>5, <2>4 DEF End
  <2>6. mover' = [mover EXCEPT ![p] = [m EXCEPT !.file = NextAfter(m.file), !.global = @ + n,
                                               !.remain = @ - n, !.moved = @ + n]]
    BY <1>7, <2>5 DEF Advance
  <2>7. mover'[p] = [m EXCEPT !.file = NextAfter(m.file), !.global = @ + n,
                              !.remain = @ - n, !.moved = @ + n]
    BY <1>1, <2>6
  <2> HIDE DEF m, n
  <2>8. DOMAIN m = {"at", "file", "global", "remain", "moved"}
    BY <1>1 DEF Movers
  <2>9. /\ mover'[p].at = m.at /\ mover'[p].moved = m.moved + n
        /\ mover'[p].global = m.global + n /\ mover'[p].file = NextAfter(m.file)
    BY <2>7, <2>8
  <2>10. QED
    BY <1>5, <1>7, <2>1, <2>4, <2>9 DEF m, n
<1>8. QED
  BY <1>6, <1>7

-----------------------------------------------------------------------------
(* The invariant                                                           *)

(***************************************************************************)
(* A file holds a byte of the stream only where it belongs, a piece is in  *)
(* place as far as the loop that writes it has come, and the buffer that   *)
(* is read back is right as far as that loop has come.  The last two are   *)
(* said of the torrents that have all their files.                         *)
(***************************************************************************)
Moving(p) == mover[p].at \in {"write", "read"}

(* The files are being made, or are all there, or none is.                 *)
AllOrNone == Building \/ Laid \/ torfiles = << >>

Placed(f, o) == o \in DOMAIN content[f] /\ content[f][o] = Start(f) + o

WrittenTo(p) ==
  IF mover[p].at = "idle" THEN p * PieceLength
  ELSE IF mover[p].at = "write" THEN mover[p].global
  ELSE p * PieceLength + PieceSize(p)

InPlace(p) ==
  \A i \in p * PieceLength .. WrittenTo(p) - 1 :
    \A f \in Files : InFile(f, i) => Placed(f, i - Start(f))

ReadTo(p) ==
  IF mover[p].at = "read" THEN mover[p].moved
  ELSE IF mover[p].at = "got" THEN PieceSize(p)
  ELSE 0

InResult(p) ==
  /\ mover[p].at \in {"read", "got"} => DOMAIN result[p] = 0 .. PieceSize(p) - 1
  /\ \A o \in 0 .. ReadTo(p) - 1 : result[p][o] = p * PieceLength + o

Located(p) == Moving(p) => \E f \in Files : AtFile(mover[p], f)

PieceOK(p) == Located(p) /\ InPlace(p) /\ InResult(p)

SpreadInv ==
  /\ Shape
  /\ \E k \in 1 .. Len(layout) + 1 : LaidTo(k)
  /\ Building => \A p \in Pieces : mover[p].at = "idle"
  /\ torfiles = << >> => \A p \in Pieces : ~Moving(p)
  /\ AllOrNone => NoStrayByte
  /\ Laid => \A p \in Pieces : PieceOK(p)

(* In a torrent that has all its files, what one round of handle_piece     *)
(* writes is right, and takes nothing away that was.                       *)
LEMMA WriteIsRight ==
  ASSUME LengthsFit, Shape, NEW p \in Pieces, NEW f \in Files,
         AtFile(mover[p], f), WritePart(p),
         DOMAIN content[f] \subseteq 0 .. layout[f] - 1
  PROVE  LET m == mover[p]
         IN  /\ \A g \in Files \ {f} : content'[g] = content[g]
             /\ DOMAIN content'[f] \subseteq 0 .. layout[f] - 1
             /\ \A o \in DOMAIN content'[f] :
                  \/ content'[f][o] = Hole
                  \/ content'[f][o] = Start(f) + o
                  \/ o \in DOMAIN content[f] /\ content'[f][o] = content[f][o]
             /\ \A o \in DOMAIN content[f] :
                  /\ o \in DOMAIN content'[f]
                  /\ content[f][o] = Start(f) + o => content'[f][o] = Start(f) + o
             /\ \A i \in m.global .. m.global + Part(m) - 1 :
                  i - Start(f) \in DOMAIN content'[f] /\ content'[f][i - Start(f)] = i
<1> DEFINE m == mover[p]
           n == Part(m)
           at == FileOffset(m)
           old == content[f]
           new == Overwritten(old, at, n, p * PieceLength + m.moved)
<1>1. /\ m \in Movers /\ m.remain \in 1 .. PieceSize(p) /\ layout \in Layouts
      /\ m.global = p * PieceLength + m.moved /\ m.file = Start(f) /\ torfiles[m.file] = f
      /\ content = [g \in Files |-> content[g]]
  BY ShapeMovers DEF WritePart, Shape, TypeOK, MoverTyped, AtFile
<1>2. layout[f] \in Nat /\ Start(f) \in Nat /\ PieceSize(p) \in Nat
  BY <1>1, LayoutType, StartIsSum, PieceType
<1>3. m.remain \in Nat \ {0} /\ m.global \in Start(f) .. Start(f) + layout[f]
  BY <1>1, <1>2 DEF AtFile
<1>4. /\ at = m.global - Start(f) /\ at \in 0 .. layout[f] /\ n \in 0 .. m.remain
      /\ m.global + n <= Start(f) + layout[f] /\ (n # 0 => ~Refused(m))
  BY <1>1, <1>3, PartIs
<1>5. content' = IF Refused(m) THEN content ELSE [content EXCEPT ![f] = new]
  BY <1>1 DEF WritePart
<1>6. new = Overwritten(old, at, n, m.global)
  BY <1>1
<1> HIDE DEF new, n, at, m, old
<1>7. /\ \A g \in Files \ {f} : content'[g] = content[g]
      /\ content'[f] = IF Refused(m) THEN old ELSE new
  BY <1>1, <1>5 DEF old
<1>8. CASE Refused(m)
  <2>1. n = 0 /\ content'[f] = old
    BY <1>4, <1>7, <1>8
  <2>2. m.global .. m.global + n - 1 = {}
    BY <1>2, <1>3, <2>1
  <2>3. QED
    BY <1>7, <2>1, <2>2 DEF m, n, old
<1>9. CASE ~Refused(m)
  <2>1. content'[f] = new
    BY <1>7, <1>9
  <2>2. DOMAIN new = DOMAIN old \cup (IF n = 0 THEN {} ELSE 0 .. at + n - 1)
    BY <1>6 DEF Overwritten
  <2>3. DOMAIN new \subseteq 0 .. layout[f] - 1
    <3>1. DOMAIN old \subseteq 0 .. layout[f] - 1
      BY DEF old
    <3>2. n \in Nat /\ at \in Nat /\ at + n <= layout[f]
      BY <1>2, <1>3, <1>4
    <3>3. QED
      BY <1>2, <2>2, <3>1, <3>2
  <2>4. \A o \in DOMAIN new :
          new[o] = IF o \in at .. at + n - 1 THEN m.global + o - at
                   ELSE IF o \in DOMAIN old THEN old[o] ELSE Hole
    BY <1>6 DEF Overwritten
  <2>5. \A o \in at .. at + n - 1 : o \in DOMAIN new /\ new[o] = Start(f) + o
    <3> SUFFICES ASSUME NEW o \in at .. at + n - 1 PROVE o \in DOMAIN new /\ new[o] = Start(f) + o
      OBVIOUS
    <3>1. n \in Nat /\ n # 0 /\ at \in Nat /\ o \in 0 .. at + n - 1
      BY <1>2, <1>3, <1>4
    <3>2. new[o] = m.global + o - at
      BY <2>2, <2>4, <3>1
    <3>3. QED
      BY <1>2, <1>3, <1>4, <2>2, <3>1, <3>2
  <2>6. \A i \in m.global .. m.global + n - 1 : i - Start(f) \in at .. at + n - 1
                                                /\ Start(f) + (i - Start(f)) = i
    <3> SUFFICES ASSUME NEW i \in m.global .. m.global + n - 1
                 PROVE  i - Start(f) \in at .. at + n - 1 /\ Start(f) + (i - Start(f)) = i
      OBVIOUS
    <3>1. n \in Nat /\ m.global \in Nat /\ Start(f) \in Nat /\ at = m.global - Start(f)
      BY <1>2, <1>3, <1>4
    <3>2. i \in Int /\ m.global <= i /\ i <= m.global + n - 1
      BY <3>1
    <3> QED
      BY <3>1, <3>2
  <2>7. \A i \in m.global .. m.global + n - 1 :
          i - Start(f) \in DOMAIN new /\ new[i - Start(f)] = i
    <3> SUFFICES ASSUME NEW i \in m.global .. m.global + n - 1
                 PROVE  i - Start(f) \in DOMAIN new /\ new[i - Start(f)] = i
      OBVIOUS
    <3>1. i - Start(f) \in at .. at + n - 1 /\ Start(f) + (i - Start(f)) = i
      BY <2>6
    <3> QED
      BY <2>5, <3>1
  <2>8. \A o \in DOMAIN new : \/ new[o] = Hole \/ new[o] = Start(f) + o
                              \/ o \in DOMAIN old /\ new[o] = old[o]
    BY <2>4, <2>5
  <2>9. \A o \in DOMAIN old : o \in DOMAIN new /\ (old[o] = Start(f) + o => new[o] = Start(f) + o)
    BY <2>2, <2>4, <2>5
  <2>10. QED
    BY <1>7, <2>1, <2>3, <2>7, <2>8, <2>9 DEF m, n, old
<1>10. QED
  BY <1>8, <1>9

-----------------------------------------------------------------------------
(* The steps                                                               *)

(* Of a piece that is not yet on its way there is nothing to say.          *)
LEMMA IdleOK ==
  \A p \in Pieces : layout \in Layouts /\ mover[p].at = "idle" => PieceOK(p)
<1> SUFFICES ASSUME NEW p \in Pieces, layout \in Layouts, mover[p].at = "idle" PROVE PieceOK(p)
  OBVIOUS
<1>1. p * PieceLength \in Nat
  BY PieceType
<1>2. WrittenTo(p) = p * PieceLength /\ ReadTo(p) = 0 /\ ~Moving(p)
  BY DEF WrittenTo, ReadTo, Moving
<1>3. p * PieceLength .. WrittenTo(p) - 1 = {} /\ 0 .. ReadTo(p) - 1 = {}
  BY <1>1, <1>2
<1>4. QED
  BY <1>2, <1>3 DEF PieceOK, Located, InPlace, InResult

(* No right byte is taken out of a file.                                   *)
RightStays ==
  \A f \in Files : \A o \in DOMAIN content[f] : content[f][o] = Start(f) + o =>
    o \in DOMAIN content'[f] /\ content'[f][o] = Start(f) + o

(* A piece is left alone by a step that takes no right byte away.          *)
LEMMA OthersKeep ==
  ASSUME UNCHANGED <<layout, torfiles>>, NEW q \in Pieces, mover'[q] = mover[q],
         result'[q] = result[q],
         RightStays,
         PieceOK(q)
  PROVE  PieceOK(q)'
<1>1. /\ Files' = Files /\ PieceSize(q)' = PieceSize(q) /\ \A f : Start(f)' = Start(f)
      /\ layout' = layout /\ torfiles' = torfiles
  BY LayoutSame
<1>2. Located(q)'
  BY <1>1 DEF PieceOK, Located, Moving, AtFile
<1>3. WrittenTo(q)' = WrittenTo(q) /\ ReadTo(q)' = ReadTo(q)
  BY <1>1 DEF WrittenTo, ReadTo
<1>4. \A f, i : InFile(f, i)' <=> InFile(f, i)
  BY <1>1 DEF InFile
<1>5. InPlace(q)'
  <2>1. \A i \in q * PieceLength .. WrittenTo(q) - 1 : \A f \in Files :
          InFile(f, i) =>
            /\ i - Start(f) \in DOMAIN content'[f]
            /\ content'[f][i - Start(f)] = Start(f) + (i - Start(f))
    BY DEF PieceOK, InPlace, Placed, RightStays
  <2>2. QED
    BY <1>1, <1>3, <1>4, <2>1 DEF InPlace, Placed
<1>6. InResult(q)'
  BY <1>1, <1>3 DEF PieceOK, InResult
<1>7. QED
  BY <1>2, <1>5, <1>6 DEF PieceOK

(* A round of a loop keeps the invariant, if it keeps what is said of its  *)
(* piece and of the files.                                                 *)
LEMMA RoundKeeps ==
  ASSUME SpreadInv, Shape', NEW p \in Pieces, ~Building,
         UNCHANGED <<layout, torfiles, nextFile, offset>>,
         mover' = [mover EXCEPT ![p] = mover'[p]],
         result' = result \/ result' = [result EXCEPT ![p] = result'[p]],
         torfiles = << >> => mover'[p].at \notin {"write", "read"} /\ content' = content,
         Laid => /\ NoStrayByte' /\ PieceOK(p)'
                 /\ RightStays
  PROVE  SpreadInv'
<1>1. /\ Files' = Files /\ TotalLength' = TotalLength /\ Pieces' = Pieces
      /\ \A q : PieceSize(q)' = PieceSize(q)
      /\ \A f : Start(f)' = Start(f)
      /\ layout' = layout /\ torfiles' = torfiles /\ nextFile' = nextFile /\ offset' = offset
  BY LayoutSame
<1>2. /\ \E k \in 1 .. Len(layout) + 1 : LaidTo(k)
      /\ torfiles = << >> => \A q \in Pieces : ~Moving(q)
      /\ AllOrNone => NoStrayByte
      /\ Laid => \A q \in Pieces : PieceOK(q)
  BY DEF SpreadInv
<1>3. (Laid' <=> Laid) /\ ~Building'
  BY <1>1 DEF Laid, Building
<1>4. \A q \in Pieces \ {p} : mover'[q] = mover[q] /\ result'[q] = result[q]
  <2>1. mover = [q \in Pieces |-> mover[q]] /\ result = [q \in Pieces |-> result[q]]
    BY DEF SpreadInv, Shape
  <2>2. QED
    BY <2>1
<1>5. \E k \in 1 .. Len(layout') + 1 : LaidTo(k)'
  <2>1. PICK k \in 1 .. Len(layout) + 1 : LaidTo(k)
    BY <1>2
  <2>2. LaidTo(k)'
    BY <1>1, <1>3, <2>1 DEF LaidTo
  <2>3. QED
    BY <1>1, <2>1, <2>2
<1>6. torfiles' = << >> => \A q \in Pieces' : ~Moving(q)'
  BY <1>1, <1>2, <1>4 DEF Moving
<1>7. AllOrNone' => NoStrayByte'
  <2>1. AllOrNone' => Laid \/ torfiles = << >>
    BY <1>1, <1>3 DEF AllOrNone
  <2>2. ASSUME torfiles = << >> PROVE NoStrayByte'
    <3>1. NoStrayByte /\ content' = content
      BY <1>2, <2>2 DEF AllOrNone
    <3>2. QED
      BY <1>1, <3>1 DEF NoStrayByte, RightFor
  <2>3. QED
    BY <2>1, <2>2
<1>8. Laid' => \A q \in Pieces' : PieceOK(q)'
  <2> SUFFICES ASSUME Laid, NEW q \in Pieces PROVE PieceOK(q)'
    BY <1>1, <1>3
  <2>1. CASE q = p
    BY <2>1
  <2>2. CASE q # p
    BY <1>2, <1>4, <2>2, OthersKeep
  <2>3. QED
    BY <2>1, <2>2
<1>9. QED
  BY <1>3, <1>5, <1>6, <1>7, <1>8 DEF SpreadInv

(* A torrent that has all its files covers every byte.                     *)
LEMMA LaidCovers == SpreadInv /\ Laid => Covered
  BY LaidIsCovered DEF SpreadInv

(* Another file, and the end of init_torfiles: nothing is moved yet.       *)
LEMMA AddFileKeeps ==
  ASSUME OnlyLastEmpty, SpreadInv, Shape', AddFile
  PROVE  SpreadInv'
<1>1. /\ layout \in Layouts /\ layout' = layout /\ mover' = mover
      /\ nextFile \in Files /\ nextFile' = nextFile + 1 /\ offset' = offset + layout[nextFile]
      /\ Len(layout) \in Nat /\ Files = 1 .. Len(layout)
      /\ torfiles' = Emplace(nextFile, offset) /\ Building
      /\ content = [f \in Files |-> content[f]]
  BY LayoutType DEF AddFile, Building, SpreadInv, Shape, TypeOK
<1>2. /\ Files' = Files /\ TotalLength' = TotalLength /\ Pieces' = Pieces
      /\ \A q : PieceSize(q)' = PieceSize(q)
      /\ \A f : Start(f)' = Start(f)
  BY <1>1, LayoutSame
<1>3. LaidTo(nextFile) /\ \A p \in Pieces : mover[p].at = "idle"
  BY <1>1 DEF SpreadInv, LaidTo
<1>4. \E k \in 1 .. Len(layout') + 1 : LaidTo(k)'
  <2>0. PICK k \in Files : k = nextFile
    BY <1>1
  <2>1. /\ offset = Start(k) /\ DOMAIN torfiles = {Start(f) : f \in 1 .. k - 1}
        /\ \A f \in 1 .. k - 1 : torfiles[Start(f)] = f
        /\ offset' = Start(k + 1)
    BY <1>1, <1>3, <2>0, StartSteps DEF LaidTo
  <2>2. 1 .. (k + 1) - 1 = (1 .. k - 1) \cup {k} /\ \A f \in 1 .. k - 1 : f \in Files /\ f < k
    <3>1. Files = 1 .. Len(layout) /\ Len(layout) \in Nat
      BY <1>1
    <3> QED
      BY <3>1
  <2>3. \A f \in 1 .. k - 1 : Start(f) < Start(k)
    BY <1>1, <2>2, StartStrict
  <2>4. \A f \in 1 .. k - 1 : Start(f) # Start(k)
    <3>1. \A f \in Files : Start(f) \in Nat
      BY <1>1, StartIsSum
    <3>2. QED
      BY <1>1, <2>2, <2>3, <3>1
  <2>5. torfiles' = [o \in DOMAIN torfiles \cup {Start(k)} |-> IF o = Start(k) THEN k ELSE torfiles[o]]
    BY <1>1, <2>0, <2>1, <2>4 DEF Emplace
  <2>6. DOMAIN torfiles' = {Start(f) : f \in 1 .. (k + 1) - 1}
    BY <2>1, <2>2, <2>5
  <2>7. \A f \in 1 .. (k + 1) - 1 : torfiles'[Start(f)] = f
    BY <2>1, <2>2, <2>4, <2>5
  <2>8. LaidTo(k + 1)'
    BY <1>1, <1>2, <2>0, <2>1, <2>6, <2>7 DEF LaidTo
  <2>9. k + 1 \in 1 .. Len(layout') + 1
    BY <1>1
  <2>10. QED
    BY <2>8, <2>9
<1>5. \A p \in Pieces' : mover'[p].at = "idle"
  BY <1>1, <1>2, <1>3
<1>6. NoStrayByte'
  <2>1. NoStrayByte /\ content' = [content EXCEPT ![nextFile] = Holes(layout[nextFile])]
    BY <1>1 DEF SpreadInv, AllOrNone, AddFile
  <2>2. content' = [f \in Files |-> IF f = nextFile THEN Holes(layout[f]) ELSE content[f]]
    BY <1>1, <2>1
  <2>3. \A f : /\ DOMAIN Holes(layout[f]) = 0 .. layout[f] - 1
               /\ \A o \in 0 .. layout[f] - 1 : Holes(layout[f])[o] = Hole
    BY DEF Holes
  <2>4. ASSUME NEW f \in Files
        PROVE  /\ DOMAIN content'[f] \subseteq 0 .. layout[f] - 1
               /\ \A o \in DOMAIN content'[f] :
                    content'[f][o] = Hole \/ RightFor(f, o, content'[f][o])
    <3>1. CASE f = nextFile
      BY <2>2, <2>3, <3>1
    <3>2. CASE f # nextFile
      BY <2>1, <2>2, <3>2 DEF NoStrayByte
    <3>3. QED
      BY <3>1, <3>2
  <2>5. QED
    BY <1>1, <1>2, <2>4 DEF NoStrayByte, RightFor
<1>7. \A p \in Pieces' : PieceOK(p)'
  <2>1. (\A p \in Pieces : layout \in Layouts /\ mover[p].at = "idle" => PieceOK(p))'
    BY IdleOK, PTL
  <2>2. QED
    BY <1>1, <1>5, <2>1
<1>8. \A p \in Pieces' : ~Moving(p)'
  BY <1>5 DEF Moving
<1>9. QED
  BY <1>4, <1>5, <1>6, <1>7, <1>8 DEF SpreadInv

(* An exception ends it early: the set stays as it is, perhaps too small.  *)
LEMMA FailFileKeeps ==
  ASSUME SpreadInv, Shape', FailFile
  PROVE  SpreadInv'
<1>1. /\ layout' = layout /\ UNCHANGED <<torfiles, offset, content, mover, result>>
      /\ nextFile' = Len(layout) + 1 /\ Len(layout) \in Nat /\ Building
      /\ layout \in Layouts
  BY LayoutType DEF FailFile, SpreadInv, Shape, TypeOK
<1>2. /\ Files' = Files /\ TotalLength' = TotalLength /\ Pieces' = Pieces
      /\ \A q : PieceSize(q)' = PieceSize(q)
      /\ \A f : Start(f)' = Start(f)
  BY <1>1, LayoutSame
<1>3. ~Building' /\ \A p \in Pieces : mover[p].at = "idle"
  BY <1>1 DEF Building, SpreadInv
<1>4. \E k \in 1 .. Len(layout') + 1 : LaidTo(k)'
  <2>1. PICK k \in 1 .. Len(layout) + 1 : LaidTo(k)
    BY DEF SpreadInv
  <2>2. LaidTo(k)'
    BY <1>1, <1>2, <1>3, <2>1 DEF LaidTo
  <2>3. QED
    BY <1>1, <2>1, <2>2
<1>5. NoStrayByte'
  BY <1>1, <1>2 DEF SpreadInv, AllOrNone, NoStrayByte, RightFor
<1>6. \A p \in Pieces' : PieceOK(p)' /\ ~Moving(p)'
  <2>1. (\A p \in Pieces : layout \in Layouts /\ mover[p].at = "idle" => PieceOK(p))'
    BY IdleOK, PTL
  <2>2. QED
    BY <1>1, <1>2, <1>3, <2>1 DEF Moving
<1>7. QED
  BY <1>3, <1>4, <1>5, <1>6 DEF SpreadInv

(* The loop starts at a file that has the piece's first byte, or ends at it.*)
LEMMA BeginIs ==
  ASSUME OnlyLastEmpty, SpreadInv, NEW p \in Pieces, NEW kind \in {"write", "read"},
         NEW over \in {"written", "got"}, Begin(p, kind, over)
  PROVE  /\ torfiles = << >> => mover'[p].at = over
         /\ Laid => /\ mover'[p].at = kind /\ mover'[p].moved = 0
                    /\ mover'[p].global = p * PieceLength
                    /\ \E f \in Files :
                         /\ mover'[p].file = Start(f) /\ Start(f) \in DOMAIN torfiles
                         /\ torfiles[Start(f)] = f
                         /\ p * PieceLength \in Start(f) .. Start(f) + layout[f]
<1>1. /\ layout \in Layouts /\ mover \in [Pieces -> Movers]
      /\ p * PieceLength \in Nat /\ PieceSize(p) \in Nat \ {0}
      /\ p * PieceLength + PieceSize(p) <= TotalLength /\ TotalLength \in Nat
  BY PieceType, StartSteps DEF SpreadInv, Shape, TypeOK
<1>2. torfiles = << >> => mover'[p].at = over
  <2> SUFFICES ASSUME torfiles = << >> PROVE mover'[p].at = over
    OBVIOUS
  <2>1. StartAt(p * PieceLength) = End
    BY DEF StartAt
  <2>2. QED
    BY <1>1, <2>1 DEF Begin, Idle
<1>3. ASSUME Laid
      PROVE  /\ mover'[p].at = kind /\ mover'[p].moved = 0
             /\ mover'[p].global = p * PieceLength
             /\ \E f \in Files :
                  /\ mover'[p].file = Start(f) /\ Start(f) \in DOMAIN torfiles
                  /\ torfiles[Start(f)] = f
                  /\ p * PieceLength \in Start(f) .. Start(f) + layout[f]
  <2>1. Covered /\ p * PieceLength < TotalLength
    BY <1>1, <1>3, LaidCovers
  <2>2. PICK f \in Files : /\ StartAt(p * PieceLength) = Start(f) /\ Start(f) \in DOMAIN torfiles
                           /\ torfiles[Start(f)] = f
                           /\ p * PieceLength \in Start(f) .. Start(f) + layout[f]
    BY <1>1, <2>1, FirstFile
  <2>3. Start(f) # End
    BY <1>1, <2>2 DEF End, SpreadInv, Shape, TypeOK
  <2>4. mover'[p] = [at |-> kind, file |-> Start(f), global |-> p * PieceLength,
                     remain |-> PieceSize(p), moved |-> 0]
    BY <1>1, <2>2, <2>3 DEF Begin
  <2>5. QED
    BY <2>2, <2>4
<1>4. QED
  BY <1>2, <1>3

(* handle_piece starts: nothing of the piece is said to be in place yet.   *)
LEMMA BeginWriteKeeps ==
  ASSUME OnlyLastEmpty, SpreadInv, Shape', NEW p \in Pieces, BeginWrite(p)
  PROVE  SpreadInv'
<1>1. /\ UNCHANGED <<layout, torfiles, nextFile, offset, content, result>>
      /\ ~Building /\ Begin(p, "write", "written") /\ Shape
  BY DEF BeginWrite, SpreadInv
<1>2. /\ Files' = Files /\ PieceSize(p)' = PieceSize(p) /\ \A f : Start(f)' = Start(f)
  BY <1>1, LayoutSame
<1>3. /\ mover' = [mover EXCEPT ![p] = mover'[p]]
      /\ torfiles = << >> => mover'[p].at = "written"
      /\ Laid => /\ mover'[p].at = "write" /\ mover'[p].global = p * PieceLength
                 /\ \E f \in Files :
                      /\ mover'[p].file = Start(f) /\ Start(f) \in DOMAIN torfiles
                      /\ torfiles[Start(f)] = f
                      /\ p * PieceLength \in Start(f) .. Start(f) + layout[f]
  BY <1>1, BeginType, BeginIs
<1>4. ASSUME Laid PROVE NoStrayByte' /\ PieceOK(p)' /\ RightStays
  <2>1. NoStrayByte' /\ RightStays
    BY <1>1, <1>2, <1>4 DEF SpreadInv, AllOrNone, NoStrayByte, RightFor, RightStays
  <2>2. Located(p)'
    BY <1>1, <1>2, <1>3, <1>4 DEF Located, AtFile
  <2>3. p * PieceLength \in Nat
    BY PieceType DEF SpreadInv, Shape, TypeOK
  <2>4. WrittenTo(p)' = p * PieceLength /\ ReadTo(p)' = 0
    BY <1>3, <1>4 DEF WrittenTo, ReadTo
  <2>5. p * PieceLength .. WrittenTo(p)' - 1 = {} /\ 0 .. ReadTo(p)' - 1 = {}
    BY <2>3, <2>4
  <2>6. InPlace(p)' /\ InResult(p)'
    BY <1>3, <1>4, <2>5 DEF InPlace, InResult
  <2>7. QED
    BY <2>1, <2>2, <2>6 DEF PieceOK
<1>5. QED
  BY <1>1, <1>3, <1>4, RoundKeeps

(* What is read back was written before.                                   *)
LEMMA BeginReadKeeps ==
  ASSUME OnlyLastEmpty, SpreadInv, Shape', NEW p \in Pieces, BeginRead(p)
  PROVE  SpreadInv'
<1>1. /\ UNCHANGED <<layout, torfiles, nextFile, offset, content>>
      /\ Begin(p, "read", "got") /\ Shape /\ mover[p].at \in {"written", "got"}
      /\ result' = [result EXCEPT ![p] = Holes(PieceSize(p))] /\ p \in DOMAIN result
  BY DEF BeginRead, SpreadInv, Shape
<1>2. /\ Files' = Files /\ PieceSize(p)' = PieceSize(p) /\ \A f : Start(f)' = Start(f)
  BY <1>1, LayoutSame
<1>3. /\ mover' = [mover EXCEPT ![p] = mover'[p]]
      /\ torfiles = << >> => mover'[p].at = "got"
      /\ Laid => /\ mover'[p].at = "read" /\ mover'[p].moved = 0
                 /\ \E f \in Files :
                      /\ mover'[p].file = Start(f) /\ Start(f) \in DOMAIN torfiles
                      /\ torfiles[Start(f)] = f
                      /\ mover'[p].global \in Start(f) .. Start(f) + layout[f]
  BY <1>1, BeginType, BeginIs
<1>4. result'[p] = Holes(PieceSize(p)) /\ DOMAIN result'[p] = 0 .. PieceSize(p) - 1
  BY <1>1 DEF Holes
<1>5. ASSUME Laid PROVE NoStrayByte' /\ PieceOK(p)' /\ RightStays
  <2>1. NoStrayByte' /\ RightStays
    BY <1>1, <1>2, <1>5 DEF SpreadInv, AllOrNone, NoStrayByte, RightFor, RightStays
  <2>2. Located(p)'
    BY <1>1, <1>2, <1>3, <1>5 DEF Located, AtFile
  <2>3. WrittenTo(p)' = WrittenTo(p) /\ ReadTo(p)' = 0
    BY <1>1, <1>2, <1>3, <1>5 DEF WrittenTo, ReadTo
  <2>4. InPlace(p)'
    BY <1>1, <1>2, <1>5, <2>3 DEF SpreadInv, PieceOK, InPlace, InFile, Placed
  <2>5. InResult(p)'
    BY <1>2, <1>3, <1>4, <1>5, <2>3 DEF InResult
  <2>6. QED
    BY <2>1, <2>2, <2>4, <2>5 DEF PieceOK
<1>6. ~Building
  BY <1>1 DEF SpreadInv
<1>7. QED
  BY <1>1, <1>3, <1>4, <1>5, <1>6, RoundKeeps

(* One round of handle_piece: the bytes up to the end of the part are in   *)
(* place.                                                                  *)
LEMMA WritePartKeeps ==
  ASSUME OnlyLastEmpty, LengthsFit, SpreadInv, Shape', NEW p \in Pieces, WritePart(p)
  PROVE  SpreadInv'
<1> DEFINE m == mover[p]
           n == Part(m)
<1>1. /\ UNCHANGED <<layout, torfiles, nextFile, offset, result>>
      /\ Shape /\ m.at = "write" /\ Advance(p, "written") /\ Moving(p)
  BY DEF WritePart, SpreadInv, Moving
<1>2. ~Building /\ torfiles # << >>
  BY <1>1 DEF SpreadInv
<1>3. /\ Files' = Files /\ PieceSize(p)' = PieceSize(p) /\ \A f : Start(f)' = Start(f)
  BY <1>1, LayoutSame
<1>4. mover' = [mover EXCEPT ![p] = mover'[p]] /\ MoverTyped(p, mover'[p])
  BY <1>1, AdvanceType
<1>5. ASSUME Laid PROVE NoStrayByte' /\ PieceOK(p)' /\ RightStays
  <2>1. Covered /\ NoStrayByte /\ PieceOK(p)
    BY <1>5, LaidCovers DEF SpreadInv, AllOrNone
  <2>2. PICK f \in Files : AtFile(m, f)
    BY <1>1, <2>1 DEF PieceOK, Located
  <2>3. /\ m \in Movers /\ m.remain \in 1 .. PieceSize(p) /\ m.moved = PieceSize(p) - m.remain
        /\ m.global = p * PieceLength + m.moved
        /\ p * PieceLength \in Nat /\ PieceSize(p) \in Nat \ {0} /\ layout \in Layouts
        /\ layout[f] \in Nat /\ Start(f) \in Nat
        /\ m.remain \in Nat \ {0} /\ m.global + m.remain = p * PieceLength + PieceSize(p)
    <3>1. /\ m \in Movers /\ m.remain \in 1 .. PieceSize(p) /\ m.moved = PieceSize(p) - m.remain
          /\ m.global = p * PieceLength + m.moved /\ layout \in Layouts
      BY <1>1, ShapeMovers DEF Shape, TypeOK, MoverTyped
    <3>2. /\ p * PieceLength \in Nat /\ PieceSize(p) \in Nat \ {0}
          /\ layout[f] \in Nat /\ Start(f) \in Nat
      BY <3>1, PieceType, LayoutType, StartIsSum
    <3>3. m.remain \in Nat \ {0} /\ m.global + m.remain = p * PieceLength + PieceSize(p)
      BY <3>1, <3>2
    <3>4. QED
      BY <3>1, <3>2, <3>3
  <2>4. /\ n \in 0 .. m.remain /\ m.global + n <= Start(f) + layout[f]
        /\ m.global \in Start(f) .. Start(f) + layout[f]
    <3>1. AtFile(m, f)
      BY <2>2
    <3> HIDE DEF m, n
    <3>2. Part(m) \in 0 .. m.remain /\ m.global + Part(m) <= Start(f) + layout[f]
      BY <2>3, <3>1, PartIs
    <3>3. QED
      BY <3>1, <3>2 DEF AtFile, n
  <2>5. \/ n = m.remain /\ mover'[p].at = "written"
        \/ /\ n # m.remain /\ mover'[p].at = "write" /\ mover'[p].global = m.global + n
           /\ f + 1 \in Files /\ mover'[p].file = Start(f + 1)
           /\ Start(f + 1) \in DOMAIN torfiles /\ torfiles[Start(f + 1)] = f + 1
           /\ mover'[p].global = Start(f + 1)
    BY <1>1, <2>1, <2>2, AdvanceIs
  <2>6. DOMAIN content[f] \subseteq 0 .. layout[f] - 1
    BY <2>1 DEF NoStrayByte
  <2>7. /\ \A g \in Files \ {f} : content'[g] = content[g]
        /\ DOMAIN content'[f] \subseteq 0 .. layout[f] - 1
        /\ \A o \in DOMAIN content'[f] :
             \/ content'[f][o] = Hole
             \/ content'[f][o] = Start(f) + o
             \/ o \in DOMAIN content[f] /\ content'[f][o] = content[f][o]
        /\ \A o \in DOMAIN content[f] :
             /\ o \in DOMAIN content'[f]
             /\ content[f][o] = Start(f) + o => content'[f][o] = Start(f) + o
        /\ \A i \in m.global .. m.global + n - 1 :
             i - Start(f) \in DOMAIN content'[f] /\ content'[f][i - Start(f)] = i
    BY <1>1, <2>2, <2>6, WriteIsRight
  <2> HIDE DEF m, n
  <2>8. NoStrayByte'
    <3>1. ASSUME NEW g \in Files
          PROVE  /\ DOMAIN content'[g] \subseteq 0 .. layout[g] - 1
                 /\ \A o \in DOMAIN content'[g] :
                      content'[g][o] = Hole \/ content'[g][o] = Start(g) + o
      <4>1. CASE g = f
        BY <2>1, <2>7, <4>1 DEF NoStrayByte, RightFor
      <4>2. CASE g # f
        BY <2>1, <2>7, <4>2 DEF NoStrayByte, RightFor
      <4>3. QED
        BY <4>1, <4>2
    <3>2. QED
      BY <1>1, <1>3, <3>1 DEF NoStrayByte, RightFor
  <2>9. RightStays
    BY <2>7 DEF RightStays
  <2>10. Located(p)'
    <3>1. CASE mover'[p].at = "written"
      BY <3>1 DEF Located, Moving
    <3>2. CASE mover'[p].at # "written"
      <4>1. /\ f + 1 \in Files /\ mover'[p].file = Start(f + 1)
            /\ Start(f + 1) \in DOMAIN torfiles /\ torfiles[Start(f + 1)] = f + 1
            /\ mover'[p].global = Start(f + 1)
        BY <2>5, <3>2
      <4>2. Start(f + 1) \in Start(f + 1) .. Start(f + 1) + layout[f + 1]
        <5>1. Start(f + 1) \in Nat /\ layout[f + 1] \in Nat
          BY <2>3, <4>1, LayoutType, StartIsSum
        <5>2. QED
          BY <5>1
      <4>3. QED
        BY <1>1, <1>3, <4>1, <4>2 DEF Located, AtFile
    <3>3. QED
      BY <3>1, <3>2
  <2>11. WrittenTo(p)' = m.global + n
    <3>1. CASE n = m.remain /\ mover'[p].at = "written"
      BY <1>3, <2>3, <3>1 DEF WrittenTo
    <3>2. CASE mover'[p].at = "write" /\ mover'[p].global = m.global + n
      BY <3>2 DEF WrittenTo
    <3>3. QED
      BY <2>5, <3>1, <3>2
  <2>12. WrittenTo(p) = m.global
    BY <1>1 DEF WrittenTo, m
  <2>13. InPlace(p)'
    <3>1. ASSUME NEW i \in p * PieceLength .. m.global + n - 1, NEW g \in Files, InFile(g, i)
          PROVE  /\ i - Start(g) \in DOMAIN content'[g]
                 /\ content'[g][i - Start(g)] = Start(g) + (i - Start(g))
      <4>1. CASE i < m.global
        <5>1. i \in p * PieceLength .. WrittenTo(p) - 1
          BY <2>3, <2>12, <4>1
        <5>2. Placed(g, i - Start(g))
          BY <2>1, <3>1, <5>1 DEF PieceOK, InPlace
        <5>3. QED
          BY <2>9, <5>2 DEF RightStays, Placed
      <4>2. CASE i >= m.global
        <5>1. i \in m.global .. m.global + n - 1
          <6>1. i \in Int /\ i <= m.global + n - 1 /\ m.global \in Int /\ n \in Int
            BY <2>3, <2>4 DEF Movers
          <6>2. QED
            BY <4>2, <6>1
        <5>5. InFile(f, i)
          <6>1. /\ m.global \in Int /\ n \in Int /\ Start(f) \in Int /\ layout[f] \in Int
                /\ Start(f) <= m.global /\ m.global + n <= Start(f) + layout[f]
            BY <2>3, <2>4
          <6>2. \A a, b, c, l \in Int : \A k \in a .. a + b - 1 :
                  c <= a /\ a + b <= c + l => k \in c .. c + l - 1
            OBVIOUS
          <6>3. QED
            BY <5>1, <6>1, <6>2 DEF InFile
        <5>2. g = f
          BY <2>3, <3>1, <5>5, FilesDisjoint
        <5>3. Start(f) + (i - Start(f)) = i
          BY <2>3, <2>4, <5>1
        <5>4. QED
          BY <2>7, <5>1, <5>2, <5>3
      <4>3. QED
        BY <2>3, <4>1, <4>2 DEF Movers
    <3>2. QED
      <4>1. \A g, i : InFile(g, i)' <=> InFile(g, i)
        BY <1>1, <1>3 DEF InFile
      <4>2. \A i \in p * PieceLength .. WrittenTo(p)' - 1 : \A g \in Files : InFile(g, i) =>
              /\ i - Start(g) \in DOMAIN content'[g]
              /\ content'[g][i - Start(g)] = Start(g) + (i - Start(g))
        <5>1. p * PieceLength .. WrittenTo(p)' - 1 = p * PieceLength .. m.global + n - 1
          <6>1. m.global \in Int /\ n \in Int
            BY <2>3, <2>4
          <6>2. QED
            BY <2>11, <6>1
        <5>2. \A i \in p * PieceLength .. m.global + n - 1 : \A g \in Files : InFile(g, i) =>
                /\ i - Start(g) \in DOMAIN content'[g]
                /\ content'[g][i - Start(g)] = Start(g) + (i - Start(g))
          BY <3>1
        <5>3. QED
          BY <5>1, <5>2, Zenon
      <4>3. QED
        BY <1>1, <1>3, <4>1, <4>2 DEF InPlace, Placed
  <2>14. InResult(p)'
    <3>1. ReadTo(p)' = 0 /\ mover'[p].at \notin {"read", "got"}
      BY <2>5 DEF ReadTo
    <3>2. 0 .. ReadTo(p)' - 1 = {}
      BY <3>1
    <3>3. QED
      BY <3>1, <3>2 DEF InResult
  <2>15. QED
    BY <2>8, <2>9, <2>10, <2>13, <2>14 DEF PieceOK
<1>6. QED
  BY <1>1, <1>2, <1>4, <1>5, RoundKeeps

(* One round of get_piece_by_index: the buffer is right up to the end of   *)
(* the part, because the piece is in place.                                *)
LEMMA ReadPartKeeps ==
  ASSUME OnlyLastEmpty, LengthsFit, SpreadInv, Shape', NEW p \in Pieces, ReadPart(p)
  PROVE  SpreadInv'
<1> DEFINE m == mover[p]
           n == Part(m)
           first == p * PieceLength
<1>1. /\ UNCHANGED <<layout, torfiles, nextFile, offset, content>>
      /\ Shape /\ m.at = "read" /\ Advance(p, "got") /\ Moving(p)
      /\ result' = [result EXCEPT ![p] = Filled(m, @, content[torfiles[m.file]])]
      /\ p \in DOMAIN result
  BY DEF ReadPart, SpreadInv, Shape, Moving
<1>2. ~Building /\ torfiles # << >>
  BY <1>1 DEF SpreadInv
<1>3. /\ Files' = Files /\ PieceSize(p)' = PieceSize(p) /\ \A f : Start(f)' = Start(f)
  BY <1>1, LayoutSame
<1>4. mover' = [mover EXCEPT ![p] = mover'[p]] /\ MoverTyped(p, mover'[p])
  BY <1>1, AdvanceType
<1>5. ASSUME Laid PROVE NoStrayByte' /\ PieceOK(p)' /\ RightStays
  <2>1. Covered /\ NoStrayByte /\ PieceOK(p)
    BY <1>5, LaidCovers DEF SpreadInv, AllOrNone
  <2>2. PICK f \in Files : AtFile(m, f)
    BY <1>1, <2>1 DEF PieceOK, Located
  <2>3. /\ m \in Movers /\ m.remain \in 1 .. PieceSize(p) /\ m.moved = PieceSize(p) - m.remain
        /\ m.global = first + m.moved /\ layout \in Layouts
    BY <1>1, ShapeMovers DEF Shape, TypeOK, MoverTyped
  <2>4. /\ first \in Nat /\ PieceSize(p) \in Nat \ {0}
        /\ layout[f] \in Nat /\ Start(f) \in Nat
    BY <2>3, PieceType, LayoutType, StartIsSum
  <2>5. m.remain \in Nat \ {0} /\ m.moved \in Nat
    <3>1. \A s \in Nat : \A r \in 1 .. s : r \in Nat \ {0} /\ s - r \in Nat
      OBVIOUS
    <3>2. QED
      BY <2>3, <2>4, <3>1
  <2>6. /\ n \in 0 .. m.remain /\ m.global + n <= Start(f) + layout[f]
        /\ m.global \in Start(f) .. Start(f) + layout[f]
        /\ FileOffset(m) = m.global - Start(f)
    <3>1. AtFile(m, f)
      BY <2>2
    <3> HIDE DEF m, n
    <3>2. /\ Part(m) \in 0 .. m.remain /\ m.global + Part(m) <= Start(f) + layout[f]
          /\ FileOffset(m) = m.global - Start(f)
      BY <2>3, <2>5, <3>1, PartIs
    <3>3. QED
      BY <3>1, <3>2 DEF AtFile, n
  <2>7. \/ n = m.remain /\ mover'[p].at = "got"
        \/ /\ n # m.remain /\ mover'[p].at = "read" /\ mover'[p].moved = m.moved + n
           /\ f + 1 \in Files /\ mover'[p].file = Start(f + 1)
           /\ Start(f + 1) \in DOMAIN torfiles /\ torfiles[Start(f + 1)] = f + 1
           /\ mover'[p].global = Start(f + 1)
    BY <1>1, <2>1, <2>2, AdvanceIs
  <2>8. result'[p] = Filled(m, result[p], content[f])
    BY <1>1, <2>2 DEF AtFile
  <2>9. /\ DOMAIN result[p] = 0 .. PieceSize(p) - 1
        /\ \A o \in 0 .. m.moved - 1 : result[p][o] = first + o
        /\ \A i \in first .. first + PieceSize(p) - 1 : InFile(f, i) => Placed(f, i - Start(f))
    <3>1. ReadTo(p) = m.moved /\ WrittenTo(p) = first + PieceSize(p)
      BY <1>1 DEF ReadTo, WrittenTo
    <3> HIDE DEF first
    <3>2. /\ DOMAIN result[p] = 0 .. PieceSize(p) - 1
          /\ \A o \in 0 .. ReadTo(p) - 1 : result[p][o] = first + o
          /\ \A i \in first .. WrittenTo(p) - 1 : InFile(f, i) => Placed(f, i - Start(f))
      BY <1>1, <2>1 DEF PieceOK, InResult, InPlace, first
    <3>3. WrittenTo(p) - 1 = first + PieceSize(p) - 1
      BY <2>4, <3>1
    <3>4. QED
      BY <3>1, <3>2, <3>3
  <2> HIDE DEF m, n, first
  <2>10. NoStrayByte' /\ RightStays
    BY <1>1, <1>3, <2>1 DEF NoStrayByte, RightFor, RightStays
  <2>11. Located(p)'
    <3>1. CASE mover'[p].at = "got"
      BY <3>1 DEF Located, Moving
    <3>2. CASE mover'[p].at # "got"
      <4>1. /\ f + 1 \in Files /\ mover'[p].file = Start(f + 1)
            /\ Start(f + 1) \in DOMAIN torfiles /\ torfiles[Start(f + 1)] = f + 1
            /\ mover'[p].global = Start(f + 1)
        BY <2>7, <3>2
      <4>2. Start(f + 1) \in Start(f + 1) .. Start(f + 1) + layout[f + 1]
        <5>1. Start(f + 1) \in Nat /\ layout[f + 1] \in Nat
          BY <2>3, <4>1, LayoutType, StartIsSum
        <5>2. QED
          BY <5>1
      <4>3. QED
        BY <1>1, <1>3, <4>1, <4>2 DEF Located, AtFile
    <3>3. QED
      BY <3>1, <3>2
  <2>12. InPlace(p)'
    <3>1. WrittenTo(p)' = WrittenTo(p)
      BY <1>1, <1>3, <2>7 DEF WrittenTo, m
    <3>2. QED
      BY <1>1, <1>3, <2>1, <3>1 DEF PieceOK, InPlace, InFile, Placed
  <2>13. ReadTo(p)' = m.moved + n
    <3>1. CASE n = m.remain /\ mover'[p].at = "got"
      BY <1>3, <2>3, <2>4, <2>5, <3>1 DEF ReadTo
    <3>2. CASE mover'[p].at = "read" /\ mover'[p].moved = m.moved + n
      BY <3>2 DEF ReadTo
    <3>3. QED
      BY <2>7, <3>1, <3>2
  <2>14. DOMAIN result'[p] = DOMAIN result[p]
    BY <2>8 DEF Filled
  <2>15. \A o \in DOMAIN result[p] :
           result'[p][o] = IF /\ o \in m.moved .. m.moved + n - 1
                              /\ FileOffset(m) + o - m.moved \in DOMAIN content[f]
                           THEN content[f][FileOffset(m) + o - m.moved] ELSE result[p][o]
    BY <2>8 DEF Filled, n
  <2>16. m.moved + n <= PieceSize(p) /\ n \in Nat /\ m.moved \in Nat
    BY <2>3, <2>4, <2>5, <2>6
  <2>17. ASSUME NEW o \in 0 .. m.moved + n - 1 PROVE result'[p][o] = first + o
    <3>1. o \in DOMAIN result[p] /\ o \in Nat
      BY <2>4, <2>9, <2>16
    <3>2. CASE o < m.moved
      <4>1. o \in 0 .. m.moved - 1 /\ o \notin m.moved .. m.moved + n - 1
        BY <2>16, <3>1, <3>2
      <4>2. QED
        BY <2>9, <2>15, <3>1, <4>1
    <3>3. CASE o >= m.moved
      <4>1. o \in m.moved .. m.moved + n - 1
        BY <2>16, <3>1, <3>3
      <4>2. first + o \in first .. first + PieceSize(p) - 1
        BY <2>4, <2>9, <3>1
      <4>3. InFile(f, first + o)
        <5>1. \A a, k, c, j, l \in Nat : \A b \in k .. k + j - 1 :
                c <= a + k /\ a + k + j <= c + l => a + b \in c .. c + l - 1
          OBVIOUS
        <5>2. Start(f) <= first + m.moved /\ first + m.moved + n <= Start(f) + layout[f]
          BY <2>3, <2>4, <2>6
        <5>3. QED
          BY <2>4, <2>16, <4>1, <5>1, <5>2 DEF InFile
      <4>4. Placed(f, (first + o) - Start(f))
        BY <2>9, <4>2, <4>3
      <4>5. FileOffset(m) + o - m.moved = (first + o) - Start(f)
        <5>1. \A a, b, c, d \in Int : ((a + b) - c) + (d - b) = (a + d) - c
          OBVIOUS
        <5>2. FileOffset(m) = (first + m.moved) - Start(f)
          BY <2>3, <2>6
        <5>3. first \in Int /\ m.moved \in Int /\ Start(f) \in Int /\ o \in Int
          BY <2>4, <2>5, <3>1
        <5>4. ((first + m.moved) - Start(f)) + (o - m.moved) = (first + o) - Start(f)
          BY <5>1, <5>3
        <5>5. QED
          BY <5>2, <5>4
      <4>6. Start(f) + ((first + o) - Start(f)) = first + o
        BY <2>4, <3>1
      <4>7. QED
        BY <2>15, <3>1, <4>1, <4>4, <4>5, <4>6 DEF Placed
    <3>4. QED
      BY <2>16, <3>1, <3>2, <3>3
  <2>18. InResult(p)'
    <3>1. 0 .. ReadTo(p)' - 1 = 0 .. m.moved + n - 1
      BY <2>13, <2>16
    <3>2. \A o \in 0 .. ReadTo(p)' - 1 : result'[p][o] = p * PieceLength + o
      BY <2>17, <3>1 DEF first
    <3>3. QED
      BY <1>3, <2>9, <2>14, <3>2 DEF InResult
  <2>19. QED
    BY <2>10, <2>11, <2>12, <2>18 DEF PieceOK
<1>6. QED
  BY <1>1, <1>2, <1>4, <1>5, RoundKeeps

-----------------------------------------------------------------------------
(* The invariant holds                                                     *)

(* Nor does a step that changes nothing.                                   *)
LEMMA StutterKeeps ==
  ASSUME SpreadInv, Shape', UNCHANGED vars
  PROVE  SpreadInv'
<1>1. UNCHANGED <<layout, torfiles, nextFile, offset, content, mover, result>>
  BY DEF vars
<1>2. /\ Files' = Files /\ TotalLength' = TotalLength /\ Pieces' = Pieces
      /\ \A q : PieceSize(q)' = PieceSize(q)
      /\ \A f : Start(f)' = Start(f)
  BY <1>1, LayoutSame
<1>3. (Building' <=> Building) /\ (Laid' <=> Laid)
  BY <1>1, <1>2 DEF Building, Laid
<1>4. \E k \in 1 .. Len(layout') + 1 : LaidTo(k)'
  <2>1. PICK k \in 1 .. Len(layout) + 1 : LaidTo(k)
    BY DEF SpreadInv
  <2>2. LaidTo(k)'
    BY <1>1, <1>2, <1>3, <2>1 DEF LaidTo
  <2>3. QED
    BY <1>1, <2>1, <2>2
<1>5. AllOrNone' => NoStrayByte'
  BY <1>1, <1>2, <1>3 DEF SpreadInv, AllOrNone, NoStrayByte, RightFor
<1>6. Laid' => \A q \in Pieces' : PieceOK(q)'
  <2>1. RightStays
    BY <1>1 DEF RightStays
  <2>2. ASSUME Laid, NEW q \in Pieces PROVE PieceOK(q)'
    <3>1. PieceOK(q)
      BY <2>2 DEF SpreadInv
    <3>2. QED
      BY <1>1, <2>1, <3>1, OthersKeep
  <2>3. QED
    BY <1>2, <1>3, <2>2
<1>7. /\ Building' => \A q \in Pieces' : mover'[q].at = "idle"
      /\ torfiles' = << >> => \A q \in Pieces' : ~Moving(q)'
  BY <1>1, <1>2, <1>3 DEF SpreadInv, Moving
<1>8. QED
  BY <1>4, <1>5, <1>6, <1>7 DEF SpreadInv

(* At first the set is empty and the files are.                            *)
LEMMA InitSpread ==
  ASSUME OnlyLastEmpty
  PROVE  Init => SpreadInv
<1> SUFFICES ASSUME Init PROVE SpreadInv
  OBVIOUS
<1>1. /\ layout \in Layouts /\ torfiles = << >> /\ nextFile = 1 /\ offset = 0
      /\ content = [f \in Files |-> Holes(0)] /\ mover = [p \in Pieces |-> Idle]
      /\ Len(layout) \in Nat
  BY LayoutType DEF Init
<1>2. \A p \in Pieces : mover[p].at = "idle" /\ ~Moving(p)
  BY <1>1 DEF Idle, Moving
<1>3. LaidTo(1)
  <2>1. Start(1) = 0 /\ 1 .. 1 - 1 = {}
    BY <1>1, StartSteps
  <2>2. QED
    BY <1>1, <2>1 DEF LaidTo
<1>4. NoStrayByte
  BY <1>1 DEF NoStrayByte, Holes
<1>5. \A p \in Pieces : PieceOK(p)
  BY <1>1, <1>2, IdleOK
<1>6. 1 \in 1 .. Len(layout) + 1
  BY <1>1
<1>7. QED
  BY <1>2, <1>3, <1>4, <1>5, <1>6, InitShape DEF SpreadInv

(* Every step keeps it, action by action.                                  *)
LEMMA NextSpread ==
  ASSUME OnlyLastEmpty, LengthsFit
  PROVE  SpreadInv /\ [Next]_vars => SpreadInv'
<1> SUFFICES ASSUME SpreadInv, [Next]_vars PROVE SpreadInv'
  OBVIOUS
<1>1. Shape'
  BY NextShape DEF SpreadInv
<1>2. CASE AddFile
  BY <1>1, <1>2, AddFileKeeps
<1>3. CASE FailFile
  BY <1>1, <1>3, FailFileKeeps
<1>4. ASSUME NEW p \in Pieces, BeginWrite(p) PROVE SpreadInv'
  BY <1>1, <1>4, BeginWriteKeeps
<1>5. ASSUME NEW p \in Pieces, WritePart(p) PROVE SpreadInv'
  BY <1>1, <1>5, WritePartKeeps
<1>6. ASSUME NEW p \in Pieces, BeginRead(p) PROVE SpreadInv'
  BY <1>1, <1>6, BeginReadKeeps
<1>7. ASSUME NEW p \in Pieces, ReadPart(p) PROVE SpreadInv'
  BY <1>1, <1>7, ReadPartKeeps
<1>8. CASE UNCHANGED vars
  BY <1>1, <1>8, StutterKeeps
<1>9. QED
  BY <1>2, <1>3, <1>4, <1>5, <1>6, <1>7, <1>8 DEF Next

(* So it holds of every state.                                             *)
LEMMA SpreadCorrect ==
  ASSUME OnlyLastEmpty, LengthsFit
  PROVE  Spec => []SpreadInv
<1>1. Init => SpreadInv
  BY InitSpread
<1>2. SpreadInv /\ [Next]_vars => SpreadInv'
  BY NextSpread
<1>3. QED
  BY <1>1, <1>2, PTL DEF Spec

(* If making a file fails it fails with the first one, then no file at all *)
(* is in the set.                                                          *)
LEMMA StaysAllOrNone ==
  ASSUME Failing \subseteq {1}, SpreadInv, AllOrNone, [Next]_vars
  PROVE  AllOrNone'
<1>1. /\ layout \in Layouts /\ Len(layout) \in Nat /\ nextFile \in Nat /\ Shape
      /\ torfiles = << >> \/ DOMAIN torfiles # {}
  BY LayoutType DEF SpreadInv, Shape, TypeOK
<1>2. CASE AddFile
  <2>1. /\ layout' = layout /\ nextFile' = nextFile + 1 /\ Building
        /\ offset' = offset + layout[nextFile]
    BY <1>2 DEF AddFile
  <2>2. CASE nextFile + 1 <= Len(layout)
    BY <2>1, <2>2 DEF AllOrNone, Building
  <2>3. CASE ~(nextFile + 1 <= Len(layout))
    <3>1. nextFile = Len(layout) /\ nextFile \in Files
      BY <1>1, <2>1, <2>3, LayoutType DEF Building, SpreadInv, Shape, TypeOK
    <3>2. offset = Start(nextFile)
      BY <2>1 DEF SpreadInv, LaidTo
    <3>3. PICK k \in Files : k = nextFile
      BY <3>1
    <3>4. offset' = Start(k + 1)
      BY <1>1, <2>1, <3>2, <3>3, StartSteps
    <3>5. Start(Len(layout) + 1) = TotalLength
      BY <1>1, StartSteps
    <3>6. TotalLength' = TotalLength
      BY <2>1, LayoutSame
    <3>7. QED
      BY <3>1, <3>3, <3>4, <3>5, <3>6 DEF AllOrNone, Laid
  <2>4. QED
    BY <2>2, <2>3
<1>3. CASE FailFile
  <2>1. nextFile = 1 /\ torfiles' = torfiles /\ Building
    BY <1>3 DEF FailFile
  <2>2. DOMAIN torfiles = {Start(f) : f \in 1 .. 1 - 1}
    BY <2>1 DEF SpreadInv, LaidTo
  <2>3. 1 .. 1 - 1 = {}
    OBVIOUS
  <2>4. QED
    BY <1>1, <2>1, <2>2, <2>3 DEF AllOrNone
<1>4. ASSUME UNCHANGED <<layout, torfiles, nextFile, offset>> PROVE AllOrNone'
  BY <1>4, LayoutSame DEF AllOrNone, Building, Laid
<1>5. QED
  BY <1>2, <1>3, <1>4 DEF Next, vars, BeginWrite, WritePart, BeginRead, ReadPart

(* No file holds a byte that belongs elsewhere, and none grows beyond its  *)
(* length, however the writes of the pieces interleave; if a file could    *)
(* not be made, then as long as init_torfiles made none.                   *)
THEOREM StaysInPlace ==
  ASSUME OnlyLastEmpty, LengthsFit, Failing \subseteq {1}
  PROVE  Spec => []NoStrayByte
<1>1. Init => SpreadInv /\ AllOrNone
  <2>1. Init => AllOrNone
    BY DEF Init, AllOrNone
  <2>2. QED
    BY <2>1, InitSpread
<1>2. SpreadInv /\ AllOrNone /\ [Next]_vars => SpreadInv' /\ AllOrNone'
  BY NextSpread, StaysAllOrNone
<1>3. SpreadInv /\ AllOrNone => NoStrayByte
  BY DEF SpreadInv
<1>4. QED
  BY <1>1, <1>2, <1>3, PTL DEF Spec

(* A piece whose loop in handle_piece is over has all its bytes in the     *)
(* files, each where the torrent has it.                                   *)
THEOREM WritesInPlace ==
  ASSUME OnlyLastEmpty, LengthsFit
  PROVE  Spec => []WrittenInPlace
<1>1. SpreadInv => WrittenInPlace
  <2> SUFFICES ASSUME SpreadInv, NEW p \in Pieces, Laid,
                      mover[p].at \in {"written", "read", "got"},
                      NEW f \in Files, NEW o \in 0 .. layout[f] - 1,
                      Start(f) + o \in p * PieceLength .. p * PieceLength + PieceSize(p) - 1
               PROVE  RightFor(f, o, content[f][o])
    BY DEF WrittenInPlace
  <2>1. InPlace(p) /\ layout \in Layouts
    BY DEF SpreadInv, PieceOK, Shape, TypeOK
  <2>2. WrittenTo(p) = p * PieceLength + PieceSize(p)
    BY DEF WrittenTo
  <2>3. Start(f) \in Nat /\ layout[f] \in Nat
    BY <2>1, LayoutType, StartIsSum
  <2>4. InFile(f, Start(f) + o) /\ (Start(f) + o) - Start(f) = o
    BY <2>3 DEF InFile
  <2>5. Placed(f, o)
    <3>1. Placed(f, (Start(f) + o) - Start(f))
      <4>1. p * PieceLength \in Nat /\ PieceSize(p) \in Nat
        BY <2>1, PieceType
      <4>2. Start(f) + o \in p * PieceLength .. WrittenTo(p) - 1
        BY <2>2, <2>3, <4>1
      <4>3. QED
        BY <2>1, <2>4, <4>2 DEF InPlace
    <3>2. QED
      BY <2>4, <3>1
  <2>6. QED
    BY <2>5 DEF Placed, RightFor
<1>2. QED
  BY <1>1, SpreadCorrect, PTL

(* What get_piece_by_index returns for a piece that was written is the     *)
(* piece, byte for byte, whatever is written meanwhile.                    *)
THEOREM ReadsTheSame ==
  ASSUME OnlyLastEmpty, LengthsFit
  PROVE  Spec => []ReadsBack
<1>1. SpreadInv => ReadsBack
  BY DEF SpreadInv, PieceOK, InResult, ReadTo, ReadsBack
<1>2. QED
  BY <1>1, SpreadCorrect, PTL

-----------------------------------------------------------------------------
(* The loops write and read whole pieces                                   *)

(* Byte i of the stream is one of piece p.                                 *)
InPiece(p, i) == i \in p * PieceLength .. p * PieceLength + PieceSize(p) - 1

(* What Stored says of one piece, of the files as they are.                *)
Whole(p) ==
  \A f \in Files : \A o \in 0 .. layout[f] - 1 : InPiece(p, Start(f) + o) => Placed(f, o)

(* Stored, in these terms.                                                 *)
LEMMA StoredIs == Stored = {p \in Pieces : Laid /\ Whole(p)}
  BY DEF Stored, Whole, InPiece, Placed, RightFor

(* Two pieces have no byte in common.                                      *)
LEMMA PiecesDisjoint ==
  ASSUME layout \in Layouts, NEW p \in Pieces, NEW q \in Pieces, NEW i,
         InPiece(p, i), InPiece(q, i)
  PROVE  p = q
<1>1. /\ p \in Nat /\ q \in Nat /\ p * PieceLength \in Nat /\ q * PieceLength \in Nat
      /\ PieceSize(p) \in Nat /\ PieceSize(q) \in Nat
  BY PieceType
<1>2. ASSUME NEW a \in Pieces, NEW b \in Pieces, a \in Nat, b \in Nat, a < b
      PROVE  a * PieceLength + PieceSize(a) <= b * PieceLength
  <2>1. NumPieces \in Int
    BY StartSteps DEF NumPieces
  <2>2. a # NumPieces - 1
    BY <1>2, <2>1 DEF Pieces
  <2>3. PieceSize(a) = PieceLength
    BY <2>2 DEF PieceSize
  <2>4. a * PieceLength + PieceLength = (a + 1) * PieceLength
    BY <1>2
  <2>5. (a + 1) * PieceLength <= b * PieceLength
    BY <1>2
  <2>6. QED
    BY <2>3, <2>4, <2>5
<1>3. i \in Int
  BY <1>1 DEF InPiece
<1>4. ~(p < q)
  BY <1>1, <1>2, <1>3 DEF InPiece
<1>5. ~(q < p)
  BY <1>1, <1>2, <1>3 DEF InPiece
<1>6. QED
  BY <1>1, <1>4, <1>5

(* Every byte of the stream lies in a file.                                *)
LEMMA SomeFile ==
  ASSUME layout \in Layouts, NEW i \in Nat, i < TotalLength
  PROVE  \E f \in Files : InFile(f, i)
<1> DEFINE behind == {k \in 1 .. Len(layout) + 1 : i < Start(k)}
<1>1. /\ Len(layout) \in Nat /\ Files = 1 .. Len(layout)
      /\ Start(1) = 0 /\ Start(Len(layout) + 1) = TotalLength
      /\ \A f \in Files : Start(f + 1) = Start(f) + layout[f] /\ Start(f) \in Nat /\ layout[f] \in Nat
  BY LayoutType, StartSteps, StartIsSum
<1>2. behind \subseteq Nat /\ behind # {}
  <2>1. Len(layout) + 1 \in 1 .. Len(layout) + 1 /\ i < Start(Len(layout) + 1)
    BY <1>1
  <2>2. Len(layout) + 1 \in behind
    BY <2>1
  <2>3. QED
    BY <2>2
<1>3. PICK k \in behind : \A j \in behind : k <= j
  BY <1>2, LeastNumber
<1>4. k \in 1 .. Len(layout) + 1 /\ i < Start(k)
  BY <1>3
<1>5. k # 1
  BY <1>1, <1>4
<1>6. k - 1 \in Files /\ (k - 1) + 1 = k /\ k - 1 \in 1 .. Len(layout) + 1
  BY <1>1, <1>4, <1>5
<1>7. k - 1 \notin behind
  BY <1>1, <1>3, <1>6
<1>8. Start(k - 1) <= i
  BY <1>1, <1>6, <1>7
<1>9. PICK f \in Files : f = k - 1
  BY <1>6
<1>10. Start(f) <= i /\ i < Start(f) + layout[f]
  BY <1>1, <1>4, <1>6, <1>8, <1>9
<1>11. InFile(f, i)
  BY <1>1, <1>10 DEF InFile
<1>12. QED
  BY <1>11

(* As long as the files are being made, nothing is written to them.        *)
Blank == Building => \A f \in Files : \A o \in DOMAIN content[f] : content[f][o] = Hole

(* Init makes them empty.                                                  *)
LEMMA InitBlank == Init => Blank
  BY DEF Init, Blank, Holes

(* And AddFile full of holes.                                              *)
LEMMA AddFileBlank ==
  ASSUME Blank, Shape, AddFile
  PROVE  \A f \in Files : \A o \in DOMAIN content'[f] : content'[f][o] = Hole
<1>1. content' = [f \in Files |-> IF f = nextFile THEN Holes(layout[f]) ELSE content[f]]
  BY DEF AddFile, Shape
<1>2. \A n : \A o \in DOMAIN Holes(n) : Holes(n)[o] = Hole
  BY DEF Holes
<1>3. QED
  BY <1>1, <1>2 DEF Blank, AddFile

(* The writes start when the files are made.                               *)
LEMMA NextBlank == Blank /\ SpreadInv /\ [Next]_vars => Blank'
<1> SUFFICES ASSUME Blank, SpreadInv, [Next]_vars PROVE Blank'
  OBVIOUS
<1>1. CASE AddFile
  <2>1. Files' = Files
    BY <1>1, LayoutSame DEF AddFile
  <2>2. QED
    BY <1>1, <2>1, AddFileBlank DEF Blank, SpreadInv
<1>2. CASE FailFile
  <2>1. nextFile' = Len(layout) + 1 /\ layout' = layout /\ Len(layout) \in Nat
    BY <1>2, LayoutType DEF FailFile, SpreadInv, Shape, TypeOK
  <2>2. ~Building'
    BY <2>1 DEF Building
  <2>3. QED
    BY <2>2 DEF Blank
<1>3. ASSUME NEW p \in Pieces, BeginWrite(p) \/ WritePart(p) \/ BeginRead(p) \/ ReadPart(p)
      PROVE  Blank'
  <2>1. layout' = layout /\ nextFile' = nextFile /\ ~Building
    <3>1. mover[p].at # "idle" => ~Building
      BY DEF SpreadInv
    <3>2. QED
      BY <1>3, <3>1 DEF BeginWrite, WritePart, BeginRead, ReadPart
  <2>2. ~Building'
    BY <2>1 DEF Building
  <2>3. QED
    BY <2>2 DEF Blank
<1>4. CASE UNCHANGED vars
  <2>1. Files' = Files /\ content' = content /\ (Building' <=> Building)
    BY <1>4, LayoutSame DEF vars, Building
  <2>2. QED
    BY <2>1 DEF Blank
<1>5. QED
  BY <1>1, <1>2, <1>3, <1>4 DEF Next

(* The same pieces are stored after a step that writes nothing.            *)
LEMMA StoredSame ==
  ASSUME UNCHANGED <<layout, offset, content>>
  PROVE  Stored' = Stored /\ (Laid' <=> Laid) /\ Pieces' = Pieces
<1>1. /\ Files' = Files /\ TotalLength' = TotalLength /\ Pieces' = Pieces
      /\ \A q : PieceSize(q)' = PieceSize(q)
      /\ \A f : Start(f)' = Start(f)
  BY LayoutSame
<1>2. Laid' <=> Laid
  BY <1>1 DEF Laid
<1>3. QED
  BY <1>1, <1>2 DEF Stored, RightFor

(* A piece that get_piece_by_index is asked for is stored, if its loop in  *)
(* handle_piece is over.                                                   *)
LEMMA OverIsStored ==
  ASSUME SpreadInv, Laid, NEW p \in Pieces, mover[p].at \in {"written", "read", "got"}
  PROVE  p \in Stored
<1>1. InPlace(p) /\ layout \in Layouts /\ WrittenTo(p) = p * PieceLength + PieceSize(p)
  BY DEF SpreadInv, PieceOK, Shape, TypeOK, WrittenTo
<1>2. ASSUME NEW f \in Files, NEW o \in 0 .. layout[f] - 1, InPiece(p, Start(f) + o)
      PROVE  Placed(f, o)
  <2>1. Start(f) \in Nat /\ layout[f] \in Nat
    BY <1>1, LayoutType, StartIsSum
  <2>2. InFile(f, Start(f) + o) /\ (Start(f) + o) - Start(f) = o
    BY <2>1 DEF InFile
  <2>3. Placed(f, (Start(f) + o) - Start(f))
    <3>1. Start(f) + o \in p * PieceLength .. WrittenTo(p) - 1
      <4>1. p * PieceLength \in Nat /\ PieceSize(p) \in Nat
        BY <1>1, PieceType
      <4>2. WrittenTo(p) - 1 = p * PieceLength + PieceSize(p) - 1
        BY <1>1, <4>1
      <4>3. QED
        BY <1>2, <4>2 DEF InPiece
    <3>2. QED
      BY <1>1, <2>2, <3>1 DEF InPlace
  <2>4. QED
    BY <2>2, <2>3
<1>3. QED
  BY <1>2, StoredIs DEF Whole

-----------------------------------------------------------------------------
(* One round of handle_piece                                               *)

(* It changes no byte but those of its piece, and no right byte at all.    *)
LEMMA PartStays ==
  ASSUME OnlyLastEmpty, LengthsFit, SpreadInv, Laid, NEW p \in Pieces, WritePart(p)
  PROVE  /\ RightStays
         /\ \A g \in Files : \A o \in DOMAIN content'[g] :
              ~InPiece(p, Start(g) + o) =>
                \/ content'[g][o] = Hole
                \/ o \in DOMAIN content[g] /\ content'[g][o] = content[g][o]
<1> DEFINE m == mover[p]
           n == Part(m)
           at == FileOffset(m)
           new(f) == Overwritten(content[f], at, n, p * PieceLength + m.moved)
<1>1. Covered /\ NoStrayByte /\ PieceOK(p) /\ Shape /\ Moving(p)
  BY LaidCovers DEF SpreadInv, AllOrNone, WritePart, Moving
<1>2. PICK f \in Files : AtFile(m, f)
  BY <1>1 DEF PieceOK, Located
<1>3. /\ m \in Movers /\ m.remain \in 1 .. PieceSize(p) /\ layout \in Layouts
      /\ m.moved = PieceSize(p) - m.remain
      /\ m.global = p * PieceLength + m.moved /\ m.file = Start(f) /\ torfiles[m.file] = f
      /\ content = [g \in Files |-> content[g]]
  BY <1>1, <1>2, ShapeMovers DEF WritePart, Shape, TypeOK, MoverTyped, AtFile, Moving
<1>4. /\ \A g \in Files \ {f} : content'[g] = content[g]
      /\ \A o \in DOMAIN content[f] :
           /\ o \in DOMAIN content'[f]
           /\ content[f][o] = Start(f) + o => content'[f][o] = Start(f) + o
  <2>1. DOMAIN content[f] \subseteq 0 .. layout[f] - 1
    BY <1>1 DEF NoStrayByte
  <2>2. QED
    BY <1>1, <1>2, <2>1, WriteIsRight
<1>5. RightStays
  BY <1>4 DEF RightStays
<1>6. /\ PieceSize(p) \in Nat /\ p * PieceLength \in Nat /\ Start(f) \in Nat
      /\ m.remain \in Nat \ {0} /\ m.moved \in Nat
  <2>1. PieceSize(p) \in Nat /\ p * PieceLength \in Nat /\ Start(f) \in Nat
    BY <1>3, PieceType, LayoutType, StartIsSum
  <2>2. \A s \in Nat : \A r \in 1 .. s : r \in Nat \ {0} /\ s - r \in Nat
    OBVIOUS
  <2>3. QED
    BY <1>3, <2>1, <2>2
<1>7. at = m.global - Start(f) /\ n \in 0 .. m.remain
  <2> HIDE DEF m, n, at
  <2>1. FileOffset(m) = m.global - Start(f) /\ Part(m) \in 0 .. m.remain
    BY <1>2, <1>3, <1>6, PartIs
  <2>2. QED
    BY <2>1 DEF n, at
<1>8. content'[f] = IF Refused(m) THEN content[f] ELSE new(f)
  <2>1. content' = IF Refused(m) THEN content ELSE [content EXCEPT ![f] = new(f)]
    BY <1>3 DEF WritePart
  <2> HIDE DEF new, n, at, m
  <2>2. QED
    BY <1>3, <2>1
<1>9. ASSUME NEW o \in at .. at + n - 1 PROVE InPiece(p, Start(f) + o)
  <2>1. \A a, s, k, r, z \in Nat : \A c \in 0 .. r :
          \A b \in ((a + k) - s) .. ((a + k) - s) + c - 1 :
            k = z - r => s + b \in a .. a + z - 1
    OBVIOUS
  <2> HIDE DEF n, at, m
  <2>2. at = (p * PieceLength + m.moved) - Start(f)
    BY <1>3, <1>7
  <2>3. QED
    BY <1>3, <1>6, <1>7, <1>9, <2>1, <2>2 DEF InPiece
<1>10. ASSUME NEW o \in DOMAIN content'[f], ~InPiece(p, Start(f) + o)
       PROVE  \/ content'[f][o] = Hole
              \/ o \in DOMAIN content[f] /\ content'[f][o] = content[f][o]
  <2>1. CASE Refused(m)
    BY <1>8, <2>1
  <2>2. CASE ~Refused(m)
    <3>1. content'[f] = new(f) /\ o \notin at .. at + n - 1
      BY <1>8, <1>9, <1>10, <2>2
    <3>2. new(f)[o] = IF o \in DOMAIN content[f] THEN content[f][o] ELSE Hole
      BY <3>1 DEF Overwritten
    <3>3. QED
      BY <3>1, <3>2
  <2>3. QED
    BY <2>1, <2>2
<1>11. QED
  BY <1>4, <1>5, <1>10

(* So it stores its own piece, or none.                                    *)
LEMMA WritePartStores ==
  ASSUME OnlyLastEmpty, LengthsFit, SpreadInv, NEW p \in Pieces, WritePart(p)
  PROVE  Stored' = Stored \/ Stored' = Stored \cup {p}
<1>1. UNCHANGED <<layout, offset>> /\ layout \in Layouts
  BY DEF WritePart, SpreadInv, Shape, TypeOK
<1>2. /\ Files' = Files /\ TotalLength' = TotalLength /\ Pieces' = Pieces
      /\ \A q : PieceSize(q)' = PieceSize(q)
      /\ \A f : Start(f)' = Start(f)
  BY <1>1, LayoutSame
<1> DEFINE WholeNext(q) ==
             \A f \in Files : \A o \in 0 .. layout[f] - 1 : InPiece(q, Start(f) + o) =>
               o \in DOMAIN content'[f] /\ content'[f][o] = Start(f) + o
<1>3. (Laid' <=> Laid) /\ Stored' = {q \in Pieces : Laid /\ WholeNext(q)}
  BY <1>1, <1>2 DEF Laid, Stored, InPiece, RightFor
<1>4. CASE ~Laid
  BY <1>3, <1>4, StoredIs
<1>5. CASE Laid
  <2>1. /\ RightStays
        /\ \A g \in Files : \A o \in DOMAIN content'[g] :
              ~InPiece(p, Start(g) + o) =>
                \/ content'[g][o] = Hole
                \/ o \in DOMAIN content[g] /\ content'[g][o] = content[g][o]
    BY <1>5, PartStays
  <2>2. \A q \in Pieces : Whole(q) => WholeNext(q)
    BY <2>1 DEF RightStays, Whole, Placed
  <2>3. ASSUME NEW q \in Pieces, q # p, WholeNext(q) PROVE Whole(q)
    <3> SUFFICES ASSUME NEW f \in Files, NEW o \in 0 .. layout[f] - 1, InPiece(q, Start(f) + o)
                 PROVE  Placed(f, o)
      BY DEF Whole
    <3>1. o \in DOMAIN content'[f] /\ content'[f][o] = Start(f) + o
      BY <2>3
    <3>2. ~InPiece(p, Start(f) + o)
      BY <1>1, <2>3, PiecesDisjoint
    <3>3. Start(f) \in Nat /\ layout[f] \in Nat
      BY <1>1, LayoutType, StartIsSum
    <3>4. content'[f][o] # Hole
      BY <3>1, <3>3 DEF Hole
    <3>5. QED
      BY <2>1, <3>1, <3>2, <3>4 DEF Placed
  <2> HIDE DEF WholeNext
  <2>4. Stored = {q \in Pieces : Whole(q)} /\ Stored' = {q \in Pieces : WholeNext(q)}
    BY <1>3, <1>5, StoredIs
  <2>5. QED
    BY <2>2, <2>3, <2>4
<1>6. QED
  BY <1>4, <1>5

(* A file more does not store a piece: every piece has a byte, which is    *)
(* not there yet.                                                          *)
LEMMA AddFileStores ==
  ASSUME OnlyLastEmpty, SpreadInv, Blank, AddFile
  PROVE  Stored = {} /\ Stored' = {}
<1>1. layout' = layout /\ Building /\ Shape /\ layout \in Layouts
  BY DEF AddFile, SpreadInv, Shape, TypeOK
<1>2. /\ Files' = Files /\ TotalLength' = TotalLength /\ Pieces' = Pieces
      /\ \A q : PieceSize(q)' = PieceSize(q)
      /\ \A f : Start(f)' = Start(f)
  BY <1>1, LayoutSame
<1>3. /\ \A f \in Files : \A o \in DOMAIN content[f] : content[f][o] = Hole
      /\ \A f \in Files : \A o \in DOMAIN content'[f] : content'[f][o] = Hole
  BY <1>1, AddFileBlank DEF Blank
<1>4. ASSUME NEW q \in Pieces
      PROVE  \E f \in Files : \E o \in 0 .. layout[f] - 1 :
               /\ Start(f) + o \in q * PieceLength .. q * PieceLength + PieceSize(q) - 1
               /\ Start(f) + o # Hole
  <2>1. /\ q * PieceLength \in Nat /\ PieceSize(q) \in Nat \ {0}
        /\ q * PieceLength + PieceSize(q) <= TotalLength /\ TotalLength \in Nat
    BY <1>1, PieceType, StartSteps
  <2>2. PICK f \in Files : InFile(f, q * PieceLength)
    BY <1>1, <2>1, SomeFile
  <2> DEFINE o == q * PieceLength - Start(f)
  <2>3. Start(f) \in Nat /\ layout[f] \in Nat
    BY <1>1, LayoutType, StartIsSum
  <2>4. o \in 0 .. layout[f] - 1 /\ Start(f) + o = q * PieceLength
    BY <2>1, <2>2, <2>3 DEF InFile
  <2> HIDE DEF o
  <2>5. /\ Start(f) + o \in q * PieceLength .. q * PieceLength + PieceSize(q) - 1
        /\ Start(f) + o # Hole
    BY <2>1, <2>4 DEF Hole
  <2>6. QED
    BY <2>4, <2>5
<1>5. Stored = {}
  BY <1>3, <1>4 DEF Stored, RightFor
<1>6. Stored' = {}
  <2>1. \A q \in Pieces : ~(\A f \in Files : \A o \in 0 .. layout[f] - 1 :
          Start(f) + o \in q * PieceLength .. q * PieceLength + PieceSize(q) - 1 =>
            o \in DOMAIN content'[f] /\ content'[f][o] = Start(f) + o)
    BY <1>3, <1>4
  <2>2. QED
    BY <1>1, <1>2, <2>1 DEF Stored, RightFor
<1>7. QED
  BY <1>5, <1>6

(* What is asked for changes with the loop of one piece.                   *)
LEMMA AskedMove ==
  ASSUME Shape, UNCHANGED <<layout, offset>>, NEW p \in Pieces,
         mover' = [mover EXCEPT ![p] = mover'[p]]
  PROVE  /\ AskedFor' = {q \in Pieces : Laid /\ IF q = p THEN mover'[p].at \in {"read", "got"}
                                                ELSE mover[q].at \in {"read", "got"}}
<1>1. TotalLength' = TotalLength /\ Pieces' = Pieces
  BY LayoutSame
<1>2. Laid' <=> Laid
  BY <1>1 DEF Laid
<1>3. \A q \in Pieces : q # p => mover'[q] = mover[q]
  BY DEF Shape
<1>4. QED
  BY <1>1, <1>2, <1>3 DEF AskedFor

(* As long as the files are being made no piece is asked for.              *)
LEMMA NoneAsked ==
  ASSUME SpreadInv, Building, UNCHANGED <<layout, mover>>
  PROVE  AskedFor = {} /\ AskedFor' = {}
<1>1. Pieces' = Pieces /\ \A p \in Pieces : mover[p].at = "idle"
  BY LayoutSame DEF SpreadInv
<1>2. QED
  BY <1>1 DEF AskedFor

(* The store is of the pieces of all torrents.                             *)
LEMMA AnyPieceHas ==
  ASSUME layout \in Layouts, NEW p \in Pieces
  PROVE  p \in AnyPiece
<1>1. \A a \in Nat, l \in Nat \ {0} : a <= a * l
  OBVIOUS
<1>2. /\ p \in Nat /\ p * PieceLength \in Nat /\ PieceSize(p) \in Nat /\ TotalLength \in Nat
      /\ p * PieceLength + PieceSize(p) <= TotalLength /\ p <= p * PieceLength
  BY <1>1, PieceType, StartSteps
<1>3. p \in 0 .. TotalLength
  BY <1>2
<1>4. QED
  BY <1>3 DEF AnyPiece, TotalLength

(* Every step is one of the store, on one piece, or leaves it alone.       *)
LEMMA NextStores ==
  ASSUME OnlyLastEmpty, LengthsFit, SpreadInv, Blank, [Next]_vars
  PROVE  Store!Next \/ UNCHANGED <<Stored, AskedFor>>
<1>0. Shape /\ layout \in Layouts
  BY DEF SpreadInv, Shape, TypeOK
<1>1. CASE AddFile
  <2>1. Stored = {} /\ Stored' = {} /\ AskedFor = {} /\ AskedFor' = {}
    BY <1>1, AddFileStores, NoneAsked DEF AddFile
  <2>2. QED
    BY <2>1
<1>2. CASE FailFile
  <2>1. Stored' = Stored /\ AskedFor = {} /\ AskedFor' = {}
    BY <1>2, StoredSame, NoneAsked DEF FailFile
  <2>2. QED
    BY <2>1
<1>3. ASSUME NEW p \in Pieces, BeginWrite(p)
      PROVE  UNCHANGED <<Stored, AskedFor>>
  <2>1. /\ UNCHANGED <<layout, offset, content>> /\ mover[p].at = "idle"
        /\ Begin(p, "write", "written")
    BY <1>3 DEF BeginWrite
  <2>2. mover' = [mover EXCEPT ![p] = mover'[p]] /\ mover'[p].at \in {"write", "written"}
    BY <1>0, <2>1, BeginType
  <2>3. AskedFor' = AskedFor
    BY <1>0, <2>1, <2>2, AskedMove DEF AskedFor
  <2>4. QED
    BY <2>1, <2>3, StoredSame
<1>4. ASSUME NEW p \in Pieces, WritePart(p)
      PROVE  Store!Next \/ UNCHANGED <<Stored, AskedFor>>
  <2>1. UNCHANGED <<layout, offset>> /\ mover[p].at = "write" /\ Advance(p, "written")
    BY <1>4 DEF WritePart
  <2>2. mover' = [mover EXCEPT ![p] = mover'[p]] /\ mover'[p].at \in {"write", "written"}
    BY <1>0, <2>1, AdvanceType
  <2>3. AskedFor' = AskedFor
    BY <1>0, <2>1, <2>2, AskedMove DEF AskedFor
  <2>4. p \in AnyPiece
    BY <1>0, AnyPieceHas
  <2>5. Stored' = Stored \/ Stored' = Stored \cup {p}
    BY <1>4, WritePartStores
  <2>6. QED
    BY <2>3, <2>4, <2>5 DEF Store!Next, Store!Store
<1>5. ASSUME NEW p \in Pieces, BeginRead(p)
      PROVE  Store!Next \/ UNCHANGED <<Stored, AskedFor>>
  <2>1. /\ UNCHANGED <<layout, offset, content>> /\ mover[p].at \in {"written", "got"}
        /\ Begin(p, "read", "got")
    BY <1>5 DEF BeginRead
  <2>2. mover' = [mover EXCEPT ![p] = mover'[p]] /\ mover'[p].at \in {"read", "got"}
    BY <1>0, <2>1, BeginType
  <2>3. AskedFor' = {q \in Pieces : Laid /\ (q = p \/ mover[q].at \in {"read", "got"})}
    BY <1>0, <2>1, <2>2, AskedMove
  <2>4. Stored' = Stored
    BY <2>1, StoredSame
  <2>5. CASE ~Laid
    BY <2>3, <2>4, <2>5 DEF AskedFor
  <2>6. CASE Laid
    <3>1. p \in Stored /\ AskedFor' = AskedFor \cup {p}
      BY <2>1, <2>3, <2>6, OverIsStored DEF AskedFor
    <3>2. p \in AnyPiece
      BY <1>0, AnyPieceHas
    <3>3. QED
      BY <2>4, <3>1, <3>2 DEF Store!Next, Store!Report
  <2>7. QED
    BY <2>5, <2>6
<1>6. ASSUME NEW p \in Pieces, ReadPart(p)
      PROVE  UNCHANGED <<Stored, AskedFor>>
  <2>1. /\ UNCHANGED <<layout, offset, content>> /\ mover[p].at = "read"
        /\ Advance(p, "got")
    BY <1>6 DEF ReadPart
  <2>2. mover' = [mover EXCEPT ![p] = mover'[p]] /\ mover'[p].at \in {"read", "got"}
    BY <1>0, <2>1, AdvanceType
  <2>3. AskedFor' = AskedFor
    BY <1>0, <2>1, <2>2, AskedMove DEF AskedFor
  <2>4. QED
    BY <2>1, <2>3, StoredSame
<1>7. CASE UNCHANGED vars
  <2>1. UNCHANGED <<layout, offset, content, mover>>
    BY <1>7 DEF vars
  <2>2. Stored' = Stored /\ (Laid' <=> Laid) /\ Pieces' = Pieces
    BY <2>1, StoredSame
  <2>3. QED
    BY <2>1, <2>2 DEF AskedFor
<1>8. QED
  BY <1>1, <1>2, <1>3, <1>4, <1>5, <1>6, <1>7 DEF Next

(* The loops of handle_piece and get_piece_by_index, which go from file to *)
(* file and interleave, implement a store whose pieces are written and     *)
(* read in one step each: the step that PeerConn takes for a whole piece.  *)
THEOREM PiecesAreAtomic ==
  ASSUME OnlyLastEmpty, LengthsFit
  PROVE  Spec => ImplementsStore
<1>1. Init => Store!Init
  <2> SUFFICES ASSUME Init PROVE Stored = {} /\ AskedFor = {}
    BY DEF Store!Init
  <2>1. \A q \in Pieces : mover[q].at = "idle"
    BY DEF Init, Idle
  <2>2. AskedFor = {}
    BY <2>1 DEF AskedFor
  <2>3. ASSUME NEW q \in Pieces PROVE ~Whole(q)
    <3>1. layout \in Layouts /\ \A f \in Files : DOMAIN content[f] = {}
      BY DEF Init, Holes
    <3>2. /\ q * PieceLength \in Nat /\ PieceSize(q) \in Nat \ {0}
          /\ q * PieceLength + PieceSize(q) <= TotalLength /\ TotalLength \in Nat
      BY <3>1, PieceType, StartSteps
    <3>3. PICK f \in Files : InFile(f, q * PieceLength)
      BY <3>1, <3>2, SomeFile
    <3> DEFINE o == q * PieceLength - Start(f)
    <3>4. Start(f) \in Nat /\ layout[f] \in Nat
      BY <3>1, LayoutType, StartIsSum
    <3>5. o \in 0 .. layout[f] - 1 /\ Start(f) + o = q * PieceLength
      BY <3>2, <3>3, <3>4 DEF InFile
    <3> HIDE DEF o
    <3>6. InPiece(q, Start(f) + o)
      BY <3>2, <3>5 DEF InPiece
    <3>7. QED
      BY <3>1, <3>5, <3>6 DEF Whole, Placed
  <2>4. QED
    BY <2>2, <2>3, StoredIs
<1>2. SpreadInv /\ Blank /\ [Next]_vars => [Store!Next]_<<Stored, AskedFor>>
  BY NextStores
<1>3. Spec => []Blank
  BY InitBlank, NextBlank, SpreadCorrect, PTL DEF Spec
<1>4. QED
  BY <1>1, <1>2, <1>3, SpreadCorrect, PTL DEF Spec, ImplementsStore, Store!Spec
=============================================================================
