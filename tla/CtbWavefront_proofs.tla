------------------------- MODULE CtbWavefront_proofs --------------------------
(* Proofs about CtbWavefront for every size of the picture, of its tiles, of    *)
(* the chunks and of the ring of slice headers, and for every number of workers: *)
(* each CTB is processed after its neighbours and with the header of its slice,  *)
(* and every variable keeps its type.                                            *)
EXTENDS CtbWavefront, FiniteSetTheorems, TLAPS

-----------------------------------------------------------------------------
(* Geometry.                                                                   *)

\* The CTB at place x of tile row k, and its number in parsing order.
Cell(k, x) == RowStart(k) + x
Number(k, x) == k * tileWd + x
Places == 0..(tileWd - 1)
Numbers == 0..(Wd * Ht - 1)
Tiles == Wd \div tileWd

LEMMA Divided ==
  ASSUME NEW w \in Nat \ {0}, NEW h \in Nat \ {0}, NEW n \in 0..(h * w - 1)
  PROVE  n % w \in 0..(w - 1) /\ n \div w \in 0..(h - 1) /\ n = w * (n \div w) + (n % w)
OBVIOUS

LEMMA Composed ==
  ASSUME NEW w \in Nat \ {0}, NEW h \in Nat \ {0}, NEW a \in 0..(h - 1), NEW b \in 0..(w - 1)
  PROVE  (a * w + b) % w = b /\ (a * w + b) \div w = a /\ a * w + b \in 0..(h * w - 1)
<1>1. a * w <= (h - 1) * w /\ a * w \in Nat
  OBVIOUS
<1> QED BY <1>1

LEMMA Sizes ==
  ASSUME tileWd \in TileWds
  PROVE  /\ Wd \in Nat \ {0} /\ Ht \in Nat \ {0} /\ tileWd \in Nat \ {0} /\ tileWd <= Wd
         /\ Tiles \in Nat \ {0} /\ Wd = tileWd * Tiles
<1>1. /\ Wd \in Nat \ {0} /\ Ht \in Nat \ {0} /\ tileWd \in Nat \ {0} /\ tileWd <= Wd
      /\ Wd % tileWd = 0
  BY PictureAssumption
<1>2. \A n, w \in Nat \ {0} : n % w = 0 /\ w <= n => n \div w \in Nat \ {0} /\ n = w * (n \div w)
  OBVIOUS
<1> QED BY <1>1, <1>2 DEF Tiles

LEMMA TileRowsSize ==
  ASSUME tileWd \in TileWds
  PROVE  /\ TileRows = 0..(Tiles * Ht - 1) /\ Tiles * Ht \in Nat \ {0}
         /\ Wd * Ht = (Tiles * Ht) * tileWd /\ Wd * Ht = Ht * Wd /\ Wd * Ht \in Nat \ {0}
<1>1. \A a, b, c \in Nat \ {0} : (a * b) * c = (b * c) * a /\ b * c \in Nat \ {0} /\ b * c = c * b
  OBVIOUS
<1> QED BY <1>1, Sizes DEF TileRows, Tiles

\* Where the places of a tile row are in the picture and in parsing order.
LEMMA CellPlace ==
  ASSUME tileWd \in TileWds, NEW k \in TileRows, NEW x \in Places
  PROVE  /\ k \div Ht \in 0..(Tiles - 1) /\ k % Ht \in 0..(Ht - 1)
         /\ k = Ht * (k \div Ht) + (k % Ht)
         /\ X(Cell(k, x)) = (k \div Ht) * tileWd + x /\ Y(Cell(k, x)) = k % Ht
         /\ Tile(Cell(k, x)) = k \div Ht
         /\ Cell(k, x) \in Ctbs
         /\ Number(k, x) \in Numbers /\ NthCtb(Number(k, x)) = Cell(k, x)
<1> DEFINE t == k \div Ht
           y == k % Ht
<1>1. t \in 0..(Tiles - 1) /\ y \in 0..(Ht - 1) /\ k = Ht * t + y /\ k \in Nat
  <2>1. k \in 0..(Tiles * Ht - 1) /\ Ht \in Nat \ {0} /\ Tiles \in Nat \ {0}
    BY Sizes, TileRowsSize
  <2>2. k % Ht \in 0..(Ht - 1) /\ k \div Ht \in 0..(Tiles - 1) /\ k = Ht * (k \div Ht) + (k % Ht)
    BY <2>1, Divided
  <2> QED BY <2>1, <2>2
<1>2. (t * tileWd + x) \div tileWd = t /\ t * tileWd + x \in 0..(Wd - 1)
  <2>1. t * tileWd + x \in 0..(Tiles * tileWd - 1)
    BY <1>1, Sizes, Composed DEF Places
  <2>2. Tiles * tileWd = Wd
    BY Sizes
  <2> QED BY <2>1, <2>2, <1>1, Sizes, Composed DEF Places
<1>3. Cell(k, x) = y * Wd + (t * tileWd + x)
  <2>1. t * tileWd \in Int /\ y * Wd \in Int /\ x \in Int
    BY <1>1, Sizes, SMTT(30) DEF Places
  <2> QED BY <2>1 DEF Cell, RowStart, CtbAt
<1>4. X(Cell(k, x)) = t * tileWd + x /\ Y(Cell(k, x)) = y /\ Cell(k, x) \in Ctbs
  <2> DEFINE b == t * tileWd + x
  <2> HIDE DEF b
  <2>1. b \in 0..(Wd - 1) /\ Cell(k, x) = y * Wd + b
    BY <1>2, <1>3 DEF b
  <2>2. Wd \in Nat \ {0} /\ Ht \in Nat \ {0} /\ y \in 0..(Ht - 1)
    BY <1>1, Sizes
  <2>3. (y * Wd + b) % Wd = b /\ (y * Wd + b) \div Wd = y /\ y * Wd + b \in 0..(Ht * Wd - 1)
    BY <2>1, <2>2, Composed
  <2> QED BY <2>1, <2>3, TileRowsSize DEF X, Y, Ctbs, b
<1>5. Tile(Cell(k, x)) = t
  BY <1>2, <1>4 DEF Tile
<1>6. Number(k, x) \in Numbers /\ Number(k, x) \div tileWd = k /\ Number(k, x) % tileWd = x
  <2> DEFINE rows == Tiles * Ht
  <2> HIDE DEF rows
  <2>1. tileWd \in Nat \ {0} /\ rows \in Nat \ {0} /\ k \in 0..(rows - 1) /\ x \in 0..(tileWd - 1)
    BY Sizes, TileRowsSize DEF Places, rows
  <2>2. (k * tileWd + x) % tileWd = x /\ (k * tileWd + x) \div tileWd = k
        /\ k * tileWd + x \in 0..(rows * tileWd - 1)
    BY <2>1, Composed
  <2> QED BY <2>2, TileRowsSize DEF Number, Numbers, rows
<1>7. NthCtb(Number(k, x)) = Cell(k, x)
  BY <1>6 DEF NthCtb, Cell
<1> QED BY <1>1, <1>4, <1>5, <1>6, <1>7

LEMMA RowStartType ==
  ASSUME tileWd \in TileWds, NEW k \in TileRows
  PROVE  RowStart(k) \in Int
<1>1. \A t, y, w, v \in Int : y * w + t * v \in Int
  OBVIOUS
<1>2. k \div Ht \in Int /\ k % Ht \in Int /\ Wd \in Int /\ tileWd \in Int
  <2>1. 0 \in Places
    BY Sizes DEF Places
  <2>2. k \div Ht \in 0..(Tiles - 1) /\ k % Ht \in 0..(Ht - 1)
    BY <2>1, CellPlace
  <2> QED BY <2>2, Sizes
<1> QED BY <1>1, <1>2, Zenon DEF RowStart, CtbAt

LEMMA CellsDiffer ==
  ASSUME tileWd \in TileWds, NEW k \in TileRows, NEW m \in TileRows,
         NEW x \in Places, NEW y \in Places, Cell(k, x) = Cell(m, y)
  PROVE  k = m /\ x = y
<1>1. k \div Ht = m \div Ht /\ k % Ht = m % Ht
  BY CellPlace
<1>2. k = m
  BY <1>1, CellPlace, Sizes
<1>3. RowStart(k) \in Int
  BY RowStartType
<1> QED BY <1>2, <1>3 DEF Cell, Places

\* Every number is that of one place.
LEMMA NumberPlace ==
  ASSUME tileWd \in TileWds, NEW n \in Numbers
  PROVE  /\ n \div tileWd \in TileRows /\ n % tileWd \in Places
         /\ n = Number(n \div tileWd, n % tileWd)
         /\ NthCtb(n) = Cell(n \div tileWd, n % tileWd) /\ NthCtb(n) \in Ctbs
<1> DEFINE k == n \div tileWd
           x == n % tileWd
<1>1. k \in TileRows /\ x \in Places /\ n = tileWd * k + x
  BY Sizes, TileRowsSize, Divided DEF Numbers, Places
<1>2. n = Number(k, x)
  BY <1>1, Sizes, TileRowsSize DEF Number
<1>3. NthCtb(n) = Cell(k, x) /\ Cell(k, x) \in Ctbs
  BY <1>1, CellPlace DEF NthCtb, Cell
<1> QED BY <1>1, <1>2, <1>3

LEMMA NumbersDiffer ==
  ASSUME tileWd \in TileWds, NEW m \in Numbers, NEW n \in Numbers, NthCtb(m) = NthCtb(n)
  PROVE  m = n
BY NumberPlace, CellsDiffer

LEMMA FirstNumber ==
  ASSUME tileWd \in TileWds
  PROVE  0 \in Numbers /\ NthCtb(0) = 0
<1>1. 0 \in Numbers /\ 0 \div tileWd = 0 /\ 0 % tileWd = 0 /\ 0 \div Ht = 0 /\ 0 % Ht = 0
  <2>1. \A w \in Nat \ {0} : 0 \div w = 0 /\ 0 % w = 0
    OBVIOUS
  <2>2. 0 \in Numbers
    BY TileRowsSize DEF Numbers
  <2> QED BY <2>1, <2>2, Sizes
<1> QED BY <1>1, Sizes DEF NthCtb, RowStart, CtbAt

-----------------------------------------------------------------------------
(* The inductive invariant.                                                    *)

Slice(n) == sliceOf[NthCtb(n)]
Lap(s) == s \div Ring
Headers == [at : Ctbs \union {NoCtb}, slice : Nat \union {NoCtb}]

\* The parser has queued the rows it has begun.
ParserInv ==
  /\ tileWd \in TileWds
  /\ Ring \in Rings /\ hdr \in [0..(Ring - 1) -> Headers]
  /\ curSlice \in Nat /\ parsed \in 0..(Wd * Ht)
  /\ sliceOf \in [Ctbs -> Nat \union {NoCtb}]
  /\ parser \in {"header", "row", "ctb", "sliceEnd", "done"}
  /\ parser = "done" <=> parsed = Wd * Ht
  /\ rowSlice \in Seq(Nat)
  /\ parser = "ctb" => tileWd * Len(rowSlice) \in (parsed + 1)..(parsed + tileWd)
  /\ parser # "ctb" => tileWd * Len(rowSlice) \in parsed..(parsed + tileWd - 1)

\* The slices are numbered in parsing order, without a gap.
SliceInv ==
  /\ \A n \in 0..(parsed - 1) : Slice(n) \in 0..curSlice /\ (n = 0 => Slice(n) = 0)
  /\ \A m, n \in 0..(parsed - 1) : m <= n => Slice(m) <= Slice(n)
  /\ \A n \in 1..(parsed - 1) : Slice(n) <= Slice(n - 1) + 1
  /\ parsed = 0 => curSlice = 0 /\ parser # "sliceEnd"
  /\ parsed > 0 =>
       /\ parser \in {"sliceEnd", "done"} => Slice(parsed - 1) = curSlice
       /\ parser = "header" => Slice(parsed - 1) + 1 = curSlice
       /\ parser \in {"row", "ctb"} => curSlice <= Slice(parsed - 1) + 1
  /\ \A k \in 1..Len(rowSlice) :
       /\ tileWd * (k - 1) < parsed => rowSlice[k] = Slice(tileWd * (k - 1))
       /\ tileWd * (k - 1) >= parsed => rowSlice[k] = curSlice

\* The headers of the current lap of the ring are kept, and each header in the ring
\* is at its slice's first CTB.
Written(s) == s \in 0..curSlice /\ (s = curSlice => parser # "header")
FirstOf(s, n) ==
  /\ n < parsed => Slice(n) = s
  /\ n = parsed => s = curSlice /\ parser \in {"row", "ctb"}
  /\ n > 0 => s = Slice(n - 1) + 1
HeaderAt(j) ==
  \/ hdr[j] = NoHeader
  \/ /\ hdr[j].slice \in Nat /\ Slot(hdr[j].slice) = j
     /\ \E n \in 0..parsed : hdr[j].at = NthCtb(n) /\ FirstOf(hdr[j].slice, n)
HeaderInv ==
  /\ \A s \in Nat : Written(s) /\ Lap(s) = Lap(curSlice) => hdr[Slot(s)].slice = s
  /\ \A j \in 0..(Ring - 1) : HeaderAt(j)

\* Only CTBs of the current lap are left to be processed.
LapInv ==
  /\ stage \in [Ctbs -> 0..Complete]
  /\ \A n \in 0..(parsed - 1) : stage[NthCtb(n)] # Complete => Lap(Slice(n)) = Lap(curSlice)
  /\ \A n \in Numbers : n >= parsed => stage[NthCtb(n)] = 0

\* A process that has a row, how far it has come with the row's CTBs, and that the
\* row is its own.
Processing(p) == ctx[p] # Idle
RowContext == [at : {"check", "work", "complete"}, row : TileRows, first : Places, x : Places,
               num : 1..tileWd, stage : Inter..Sao, slice : Nat, saved : Nat]
StageAt(c, x) ==
  IF x < c.first THEN Complete
  ELSE IF x < c.x THEN (IF c.stage = Sao THEN Complete ELSE c.stage)
  ELSE IF x = c.x /\ c.at = "complete" THEN Sao
  ELSE IF x < c.first + c.num THEN c.stage - 1
  ELSE 0
RowInv ==
  /\ taken \in 0..Len(rowSlice)
  /\ ctx \in [Procs -> RowContext \union {Idle}]
  /\ \A p \in Procs : Processing(p) =>
       /\ ctx[p].row < taken
       /\ ctx[p].first <= ctx[p].x /\ ctx[p].x < ctx[p].first + ctx[p].num
       /\ ctx[p].first + ctx[p].num <= tileWd
       /\ ctx[p].at = "complete" => ctx[p].stage = Sao
       /\ \A x \in Places : stage[Cell(ctx[p].row, x)] = StageAt(ctx[p], x)
  /\ \A p, q \in Procs : Processing(p) /\ Processing(q) /\ p # q => ctx[p].row # ctx[q].row
  /\ \A k \in TileRows, x \in Places : k >= taken => stage[Cell(k, x)] = 0

\* The slice index of a context is that of the CTB before, until the CTB's own is found.
SliceBefore(k, x) == IF x = 0 THEN rowSlice[k + 1] ELSE sliceOf[Cell(k, x - 1)]
TrackInv ==
  \A p \in Procs : Processing(p) =>
    /\ ctx[p].saved = SliceBefore(ctx[p].row, ctx[p].first)
    /\ ctx[p].at = "check" => ctx[p].slice = SliceBefore(ctx[p].row, ctx[p].x)
    /\ ctx[p].at # "check" => /\ Number(ctx[p].row, ctx[p].x) < parsed
                              /\ ctx[p].slice = sliceOf[Ctb(p)]

\* A CTB is not ahead of its neighbours, nor of those above.
NotAhead(c, d) == stage[d] >= stage[c] \/ stage[d] >= Sao
OrderInv ==
  /\ \A c \in Ctbs : \A d \in Neighbours(c) : NotAhead(c, d)
  /\ \A c, d \in Ctbs : X(d) = X(c) /\ Y(d) <= Y(c) => NotAhead(c, d)
  /\ \A p \in Procs : Works(p) => \A d \in Neighbours(Ctb(p)) : stage[d] >= ctx[p].stage

IInv == ParserInv /\ SliceInv /\ HeaderInv /\ LapInv /\ RowInv /\ TrackInv /\ OrderInv

-----------------------------------------------------------------------------
(* What follows from the invariant, and what steps leave alone.                *)

LEMMA Facts ==
  ASSUME IInv
  PROVE  /\ ParserInv /\ SliceInv /\ HeaderInv /\ LapInv /\ RowInv /\ TrackInv /\ OrderInv
         /\ tileWd \in TileWds /\ Wd \in Nat \ {0} /\ Ht \in Nat \ {0}
         /\ tileWd \in Nat \ {0} /\ tileWd <= Wd
         /\ Ring \in Nat /\ Ring >= 2
         /\ parsed \in Nat /\ Len(rowSlice) \in Nat /\ taken \in Nat /\ taken <= Len(rowSlice)
<1>1. ParserInv /\ RowInv
  BY DEF IInv
<1>2. parsed \in Nat
  BY <1>1, Sizes, TileRowsSize DEF ParserInv
<1>3. Len(rowSlice) \in Nat /\ taken \in Nat /\ taken <= Len(rowSlice)
  BY <1>1 DEF ParserInv, RowInv
<1> QED BY <1>1, <1>2, <1>3, Sizes, RingAssumption, SMTT(30) DEF IInv, ParserInv

\* The geometry of a picture stays.
LEMMA SamePicture ==
  ASSUME tileWd' = tileWd
  PROVE  /\ TileRows' = TileRows /\ Places' = Places
         /\ \A n : NthCtb(n)' = NthCtb(n)
         /\ \A k, x : Cell(k, x)' = Cell(k, x) /\ Number(k, x)' = Number(k, x)
         /\ \A c : Neighbours(c)' = Neighbours(c)
BY DEF TileRows, Places, NthCtb, Cell, Number, RowStart, CtbAt, Neighbours, FilteredWith, Tile

LEMMA SameRing ==
  ASSUME DOMAIN hdr' = DOMAIN hdr
  PROVE  /\ Ring' = Ring
         /\ \A s : Slot(s)' = Slot(s) /\ Lap(s)' = Lap(s)
BY DEF Ring, Slot, Lap

\* Two slices of one lap have different slots.
LEMMA SlotsDiffer ==
  ASSUME IInv, NEW s \in Nat, NEW u \in Nat, Lap(s) = Lap(u), Slot(s) = Slot(u)
  PROVE  s = u
<1>1. \A r \in Nat \ {0} : \A m, n \in Nat : m \div r = n \div r /\ m % r = n % r => m = n
  OBVIOUS
<1> QED BY <1>1, Facts DEF Slot, Lap

\* A CTB that has gone through a stage is parsed.
LEMMA StartedParsed ==
  ASSUME IInv, NEW k \in TileRows, NEW x \in Places, stage[Cell(k, x)] # 0
  PROVE  Number(k, x) \in 0..(parsed - 1)
<1>1. Number(k, x) \in Numbers /\ NthCtb(Number(k, x)) = Cell(k, x)
  BY Facts, CellPlace
<1>2. Number(k, x) < parsed
  BY <1>1, Facts DEF LapInv, ParserInv, Numbers
<1>3. Number(k, x) \in Nat
  BY <1>1 DEF Numbers
<1> QED BY <1>2, <1>3, Facts

\* The place of a process.
LEMMA AtPlace ==
  ASSUME IInv, NEW p \in Procs, Processing(p)
  PROVE  /\ ctx[p] \in RowContext /\ ctx[p].row \in TileRows /\ ctx[p].x \in Places
         /\ ctx[p].row \in Nat /\ ctx[p].row < taken
         /\ Ctb(p) = Cell(ctx[p].row, ctx[p].x) /\ Ctb(p) \in Ctbs
         /\ stage[Ctb(p)] = IF ctx[p].at = "complete" THEN Sao ELSE ctx[p].stage - 1
<1>1. ctx[p] \in RowContext /\ ctx[p].row \in TileRows /\ ctx[p].x \in Places
  BY Facts DEF RowInv, Processing, RowContext
<1>2. Ctb(p) = Cell(ctx[p].row, ctx[p].x) /\ Ctb(p) \in Ctbs
  BY <1>1, CellPlace, Facts DEF Ctb, Cell
<1>3. stage[Ctb(p)] = StageAt(ctx[p], ctx[p].x)
  BY <1>1, <1>2, Facts DEF RowInv
<1>4. StageAt(ctx[p], ctx[p].x) = IF ctx[p].at = "complete" THEN Sao ELSE ctx[p].stage - 1
  BY <1>1, Facts DEF RowInv, StageAt, Places, RowContext
<1>5. ctx[p].row \in Nat /\ ctx[p].row < taken
  BY <1>1, TileRowsSize, Facts DEF RowInv
<1> QED BY <1>1, <1>2, <1>3, <1>4, <1>5

\* The CTB before the one a context is at, or its chunk begins with, is parsed.
LEMMA BeforeParsed ==
  ASSUME IInv, NEW p \in Procs, Processing(p), NEW y \in {ctx[p].first, ctx[p].x}, y # 0
  PROVE  y - 1 \in Places /\ Number(ctx[p].row, y - 1) \in 0..(parsed - 1)
<1>1. ctx[p] \in RowContext /\ ctx[p].row \in TileRows /\ y - 1 \in Places
  <2>1. ctx[p] \in RowContext /\ ctx[p].row \in TileRows
    BY AtPlace
  <2>2. y \in 0..(tileWd - 1)
    BY <2>1 DEF RowContext, Places
  <2>3. tileWd \in Nat
    BY Facts
  <2> QED BY <2>1, <2>2, <2>3 DEF Places
<1>2. stage[Cell(ctx[p].row, y - 1)] = StageAt(ctx[p], y - 1)
  BY <1>1, Facts DEF RowInv
<1>3. StageAt(ctx[p], y - 1) # 0
  <2> DEFINE c == ctx[p]
  <2>1. c.first \in Int /\ c.x \in Int /\ c.num \in Int /\ c.num > 0 /\ c.stage \in 1..4
    <3>1. tileWd \in Nat
      BY Facts
    <3> HIDE DEF c
    <3>2. c \in RowContext
      BY <1>1 DEF c
    <3>3. c.first \in Places /\ c.x \in Places /\ c.num \in 1..tileWd /\ c.stage \in Inter..Sao
      BY <3>2 DEF RowContext
    <3> QED BY <3>1, <3>3 DEF Places, Inter, Sao
  <2>2. c.first <= c.x /\ c.x < c.first + c.num
    BY Facts DEF RowInv
  <2> HIDE DEF c
  <2>3. y \in Int /\ y - 1 < c.x /\ (y = c.first \/ y = c.x)
    BY <2>1, <2>2 DEF c
  <2>4. y - 1 < c.first => StageAt(c, y - 1) = Complete
    BY DEF StageAt
  <2>5. ~(y - 1 < c.first)
          => StageAt(c, y - 1) = IF c.stage = Sao THEN Complete ELSE c.stage
    BY <2>3 DEF StageAt
  <2> QED BY <2>1, <2>4, <2>5 DEF Complete, Sao, c
<1> QED BY <1>1, <1>2, <1>3, StartedParsed

\* The parser's steps leave the processes alone.
LEMMA ParserFrame ==
  ASSUME IInv, UNCHANGED <<tileWd, taken, ctx, stage>>,
         parsed' \in Nat, parsed' >= parsed,
         \A n \in 0..(parsed - 1) : sliceOf'[NthCtb(n)] = sliceOf[NthCtb(n)],
         Len(rowSlice') \in Nat, Len(rowSlice') >= Len(rowSlice),
         \A k \in 1..Len(rowSlice) : rowSlice'[k] = rowSlice[k]
  PROVE  RowInv' /\ TrackInv' /\ OrderInv'
<1>1. RowInv'
  <2>1. taken' \in 0..Len(rowSlice')
    BY Facts
  <2>2. \A c, x : StageAt(c, x)' = StageAt(c, x)
    BY DEF StageAt
  <2>3. RowContext' = RowContext
    BY SamePicture DEF RowContext
  <2>4. \A p : Processing(p)' <=> Processing(p)
    BY DEF Processing
  <2> QED BY <2>1, <2>2, <2>3, <2>4, SamePicture, Facts DEF RowInv
<1>2. ASSUME NEW p \in Procs, Processing(p), NEW y \in {ctx[p].first, ctx[p].x}
      PROVE  SliceBefore(ctx[p].row, y)' = SliceBefore(ctx[p].row, y)
  <2>1. CASE y = 0
    <3>1. ctx[p].row + 1 \in 1..Len(rowSlice)
      BY <1>2, Facts, AtPlace
    <3> QED BY <2>1, <3>1 DEF SliceBefore
  <2>2. CASE y # 0
    <3>1. y - 1 \in Places /\ Number(ctx[p].row, y - 1) \in 0..(parsed - 1)
      BY <1>2, <2>2, BeforeParsed
    <3>2. NthCtb(Number(ctx[p].row, y - 1)) = Cell(ctx[p].row, y - 1)
      BY <1>2, <3>1, AtPlace, CellPlace, Facts
    <3> QED BY <2>2, <3>1, <3>2, SamePicture DEF SliceBefore
  <2> QED BY <2>1, <2>2
<1>3. TrackInv'
  <2> SUFFICES ASSUME NEW p \in Procs, Processing(p)
               PROVE  (/\ ctx[p].saved = SliceBefore(ctx[p].row, ctx[p].first)
                       /\ ctx[p].at = "check" => ctx[p].slice = SliceBefore(ctx[p].row, ctx[p].x)
                       /\ ctx[p].at # "check" => /\ Number(ctx[p].row, ctx[p].x) < parsed
                                                 /\ ctx[p].slice = sliceOf[Ctb(p)])'
    BY DEF TrackInv, Processing
  <2>1. /\ ctx[p].saved = SliceBefore(ctx[p].row, ctx[p].first)
        /\ ctx[p].at = "check" => ctx[p].slice = SliceBefore(ctx[p].row, ctx[p].x)
        /\ ctx[p].at # "check" => /\ Number(ctx[p].row, ctx[p].x) < parsed
                                  /\ ctx[p].slice = sliceOf[Ctb(p)]
    BY Facts DEF TrackInv
  <2>2. /\ Number(ctx[p].row, ctx[p].x) \in Numbers /\ Ctb(p)' = Ctb(p)
        /\ NthCtb(Number(ctx[p].row, ctx[p].x)) = Ctb(p)
    BY AtPlace, CellPlace, Facts DEF Ctb, RowStart, CtbAt
  <2>3. Number(ctx[p].row, ctx[p].x) \in Nat /\ parsed \in Nat
    BY <2>2, Facts DEF Numbers
  <2>4. ASSUME ctx[p].at # "check" PROVE sliceOf'[Ctb(p)] = sliceOf[Ctb(p)]
    <3> DEFINE n == Number(ctx[p].row, ctx[p].x)
    <3>1. n < parsed /\ n \in Nat /\ NthCtb(n) = Ctb(p)
      BY <2>1, <2>2, <2>3, <2>4
    <3> HIDE DEF n
    <3>2. n \in 0..(parsed - 1)
      BY <2>3, <3>1
    <3> QED BY <3>1, <3>2
  <2> QED BY <1>2, <2>1, <2>2, <2>3, <2>4, SamePicture
<1>4. OrderInv'
  BY SamePicture, Facts DEF OrderInv, NotAhead, Works, Ctb, RowStart, CtbAt
<1> QED BY <1>1, <1>3, <1>4

\* The processes' steps leave the parser alone.
LEMMA ProcessFrame ==
  ASSUME IInv, UNCHANGED parserVars
  PROVE  ParserInv' /\ SliceInv' /\ HeaderInv'
<1> USE DEF parserVars
<1>1. \A n : Slice(n)' = Slice(n)
  BY SamePicture DEF Slice
<1>2. ParserInv'
  BY SameRing, Facts DEF ParserInv, Headers, Ring
<1>3. SliceInv'
  BY <1>1, Facts DEF SliceInv
<1>4. HeaderInv'
  <2>1. \A k, n : FirstOf(k, n)' <=> FirstOf(k, n)
    BY <1>1 DEF FirstOf
  <2>2. \A k : Written(k)' <=> Written(k)
    BY DEF Written
  <2>3. /\ Ring' = Ring /\ (\A k : Slot(k)' = Slot(k) /\ Lap(k)' = Lap(k))
        /\ \A n : NthCtb(n)' = NthCtb(n)
    BY SameRing, SamePicture
  <2>4. \A j : HeaderAt(j)' <=> HeaderAt(j)
    BY <2>1, <2>3 DEF HeaderAt
  <2> QED BY <2>2, <2>3, <2>4, Facts DEF HeaderInv
<1> QED BY <1>2, <1>3, <1>4

-----------------------------------------------------------------------------
(* The start of a picture.                                                     *)

Fresh ==
  /\ tileWd \in TileWds /\ Ring \in Rings
  /\ hdr = [s \in 0..(Ring - 1) |-> NoHeader]
  /\ curSlice = 0 /\ parsed = 0 /\ sliceOf = [c \in Ctbs |-> NoCtb] /\ parser = "header"
  /\ rowSlice = <<>> /\ taken = 0
  /\ ctx = [p \in Procs |-> Idle] /\ stage = [c \in Ctbs |-> 0]

LEMMA FreshKeeps == Fresh => IInv
<1> SUFFICES ASSUME Fresh PROVE IInv
  OBVIOUS
<1>0. /\ tileWd \in Nat \ {0} /\ Wd * Ht \in Nat \ {0} /\ Ring \in Nat /\ Ring >= 2
      /\ Len(rowSlice) = 0 /\ tileWd * 0 = 0
  <2>1. \A n \in Nat : n * 0 = 0
    OBVIOUS
  <2> QED BY <2>1, Sizes, TileRowsSize, RingAssumption DEF Fresh
<1>1. ParserInv
  BY <1>0 DEF Fresh, ParserInv, Headers, NoHeader
<1>2. SliceInv
  BY <1>0 DEF Fresh, SliceInv
<1>3. HeaderInv
  BY <1>0 DEF Fresh, HeaderInv, HeaderAt, Written
<1>4. \A n \in Numbers : NthCtb(n) \in Ctbs
  BY NumberPlace DEF Fresh
<1>5. \A k \in TileRows, x \in Places : Cell(k, x) \in Ctbs
  BY CellPlace DEF Fresh
<1>6. LapInv
  BY <1>0, <1>4 DEF Fresh, LapInv, Complete
<1>7. RowInv
  BY <1>0, <1>5 DEF Fresh, RowInv, Processing
<1>8. TrackInv
  BY DEF Fresh, TrackInv, Processing
<1>9. OrderInv
  <2>1. \A c, d \in Ctbs : NotAhead(c, d)
    BY DEF Fresh, NotAhead
  <2>2. \A c : \A d \in Neighbours(c) : d \in Ctbs
    BY DEF Neighbours, FilteredWith
  <2>3. \A p \in Procs : ~Works(p)
    BY DEF Fresh, Works, Idle
  <2> QED BY <2>1, <2>2, <2>3 DEF OrderInv
<1> QED BY <1>1, <1>2, <1>3, <1>6, <1>7, <1>8, <1>9 DEF IInv

LEMMA FreshNext == Fresh' => IInv'
BY FreshKeeps, PTL

LEMMA InitKeeps == Init => IInv
<1> SUFFICES ASSUME Init PROVE Fresh
  BY FreshKeeps
<1>1. PICK r \in Rings : hdr = [s \in 0..(r - 1) |-> NoHeader]
  BY DEF Init
<1>2. r \in Nat /\ DOMAIN hdr = 0..(r - 1)
  BY <1>1, RingAssumption
<1>3. Ring = r
  BY <1>2, FS_Interval DEF Ring
<1> QED BY <1>1, <1>3 DEF Init, Fresh

LEMMA NextPictureStep ==
  ASSUME IInv, NextPicture
  PROVE  IInv'
<1>1. ctx = [p \in Procs |-> Idle]
  BY Facts DEF NextPicture, PictureDone, RowInv
<1>2. hdr' = [s \in 0..(Ring - 1) |-> NoHeader] /\ Ring' = Ring
  BY SameRing, Facts DEF NextPicture, ParserInv
<1> QED BY <1>1, <1>2, FreshNext, Facts DEF NextPicture, Fresh, ParserInv

-----------------------------------------------------------------------------
(* The parser's actions.                                                       *)

\* The CTB to be parsed.
LEMMA NextCtbPlace ==
  ASSUME IInv, parser # "done"
  PROVE  /\ parsed \in Numbers /\ NextCtb = NthCtb(parsed) /\ NextCtb \in Ctbs
         /\ \A n \in 0..(parsed - 1) : n \in Numbers /\ NthCtb(n) # NextCtb
<1>1. parsed \in Numbers
  <2> DEFINE n == Wd * Ht
  <2>1. parsed \in 0..n /\ parsed # n
    BY Facts DEF ParserInv
  <2>2. n \in Nat
    BY TileRowsSize, Facts
  <2> HIDE DEF n
  <2>3. parsed \in 0..(n - 1)
    BY <2>1, <2>2
  <2> QED BY <2>3 DEF Numbers, n
<1>2. \A n \in 0..(parsed - 1) : n \in Numbers
  <2>1. Wd * Ht \in Nat
    BY TileRowsSize, Facts
  <2> QED BY <2>1, <1>1, Facts DEF Numbers
<1> QED BY <1>1, <1>2, NumberPlace, NumbersDiffer, Facts DEF NextCtb

LEMMA SliceHeaderStep ==
  ASSUME IInv, SliceHeader
  PROVE  IInv'
<1>0. /\ parser = "header" /\ parser' = "row"
      /\ hdr' = [hdr EXCEPT ![Slot(curSlice)] = [at |-> NextCtb, slice |-> curSlice]]
      /\ UNCHANGED <<tileWd, curSlice, parsed, sliceOf, rowSlice, taken, ctx, stage>>
      /\ DOMAIN hdr = 0..(Ring - 1) /\ curSlice \in Nat
  BY Facts DEF SliceHeader, ParserInv
<1>1. Ring' = Ring /\ \A s : Slot(s)' = Slot(s) /\ Lap(s)' = Lap(s)
  BY <1>0, SameRing
<1>2. Slot(curSlice) \in 0..(Ring - 1)
  BY <1>0, Facts DEF Slot
<1>3. /\ hdr'[Slot(curSlice)] = [at |-> NextCtb, slice |-> curSlice]
      /\ \A j \in 0..(Ring - 1) : j # Slot(curSlice) => hdr'[j] = hdr[j]
  BY <1>0, <1>2
<1>4. ParserInv'
  BY <1>0, <1>1, <1>2, NextCtbPlace, Facts DEF ParserInv, Headers
<1>5. \A n : Slice(n)' = Slice(n) /\ NthCtb(n)' = NthCtb(n)
  BY <1>0, SamePicture DEF Slice
<1>6. SliceInv'
  BY <1>0, <1>5, Facts, SMTT(30) DEF SliceInv
<1>7. HeaderInv'
  <2>1. ASSUME NEW s \in Nat, Written(s)', Lap(s) = Lap(curSlice)
        PROVE  hdr'[Slot(s)].slice = s
    <3>1. CASE s = curSlice
      BY <3>1, <1>3
    <3>2. CASE s # curSlice
      <4>1. Slot(s) # Slot(curSlice) /\ Slot(s) \in 0..(Ring - 1)
        BY <3>2, <2>1, <1>0, SlotsDiffer, Facts, SMTT(30) DEF Slot
      <4>2. Written(s)
        BY <2>1, <3>2, <1>0 DEF Written
      <4> QED BY <2>1, <4>1, <4>2, <1>3, Facts DEF HeaderInv
    <3> QED BY <3>1, <3>2
  <2>2. ASSUME NEW j \in 0..(Ring - 1) PROVE HeaderAt(j)'
    <3>1. CASE j = Slot(curSlice)
      <4>1. FirstOf(curSlice, parsed)'
        BY <1>0, <1>5, Facts DEF FirstOf, SliceInv
      <4>2. hdr'[j].at = NthCtb(parsed) /\ hdr'[j].slice = curSlice /\ parsed \in 0..parsed
        BY <3>1, <1>3, NextCtbPlace, <1>0, Facts
      <4> QED BY <3>1, <4>1, <4>2, <1>0, <1>1, <1>5 DEF HeaderAt
    <3>2. CASE j # Slot(curSlice)
      <4>1. hdr'[j] = hdr[j] /\ HeaderAt(j)
        BY <3>2, <1>3, Facts DEF HeaderInv
      <4>2. \A s, n : FirstOf(s, n) => FirstOf(s, n)'
        BY <1>0, <1>5 DEF FirstOf
      <4> QED BY <4>1, <4>2, <1>0, <1>1, <1>5 DEF HeaderAt
    <3> QED BY <3>1, <3>2
  <2> QED BY <2>1, <2>2, <1>0, <1>1 DEF HeaderInv
<1>8. LapInv'
  BY <1>0, <1>1, <1>5, Facts DEF LapInv
<1>9. RowInv' /\ TrackInv' /\ OrderInv'
  BY <1>0, ParserFrame, Facts
<1> QED BY <1>4, <1>6, <1>7, <1>8, <1>9 DEF IInv

\* Whole rows: the CTBs of the rows begun.
LEMMA RowCount ==
  ASSUME NEW w \in Nat \ {0}, NEW n \in Nat, NEW l \in Nat, w * l \in n..(n + w - 1)
  PROVE  /\ w * (l + 1) = w * l + w
         /\ n % w = 0 <=> w * l = n
         /\ \A k \in 1..l : w * (k - 1) < n
<1>1. w * (l + 1) = w * l + w
  OBVIOUS
<1>2. n % w = 0 <=> w * l = n
  <2>1. n % w \in 0..(w - 1) /\ n \div w \in Nat /\ n = w * (n \div w) + (n % w)
    OBVIOUS
  <2>2. \A a, b \in Nat : w * a >= w * b /\ w * a < w * b + w => a = b
    <3> SUFFICES ASSUME NEW a \in Nat, NEW b \in Nat, w * a >= w * b, w * a < w * b + w
                 PROVE  a = b
      OBVIOUS
    <3>1. CASE a < b
      <4>1. w * (a + 1) <= w * b /\ w * (a + 1) = w * a + w
        BY <3>1
      <4> QED BY <4>1
    <3>2. CASE a > b
      <4>1. w * (b + 1) <= w * a /\ w * (b + 1) = w * b + w
        BY <3>2
      <4> QED BY <4>1
    <3> QED BY <3>1, <3>2
  <2>3. ASSUME n % w = 0 PROVE w * l = n
    <3>1. n = w * (n \div w)
      BY <2>1, <2>3
    <3>2. l = n \div w
      BY <3>1, <2>1, <2>2
    <3> QED BY <3>1, <3>2
  <2>4. ASSUME w * l = n PROVE n % w = 0
    <3>1. \A a \in Nat : (w * a) % w = 0
      OBVIOUS
    <3> QED BY <2>4, <3>1
  <2> QED BY <2>3, <2>4
<1>3. ASSUME NEW k \in 1..l PROVE w * (k - 1) < n
  <2>1. w * k <= w * l /\ w * k = w * (k - 1) + w
    OBVIOUS
  <2> QED BY <2>1
<1> QED BY <1>1, <1>2, <1>3

LEMMA QueueRowStep ==
  ASSUME IInv, QueueRow
  PROVE  IInv'
<1>0. /\ parser = "row" /\ parser' = "ctb"
      /\ rowSlice' = IF parsed % tileWd = 0 THEN Append(rowSlice, curSlice) ELSE rowSlice
      /\ UNCHANGED <<tileWd, hdr, curSlice, parsed, sliceOf, taken, ctx, stage>>
      /\ rowSlice \in Seq(Nat) /\ curSlice \in Nat
  BY Facts DEF QueueRow, ParserInv
<1> DEFINE l == Len(rowSlice)
<1>1. /\ l \in Nat /\ tileWd * l \in parsed..(parsed + tileWd - 1)
      /\ tileWd * (l + 1) = tileWd * l + tileWd
      /\ parsed % tileWd = 0 <=> tileWd * l = parsed
      /\ \A k \in 1..l : tileWd * (k - 1) < parsed
  <2>1. l \in Nat /\ tileWd * l \in parsed..(parsed + tileWd - 1)
    BY <1>0, Facts DEF ParserInv
  <2>2. tileWd \in Nat \ {0} /\ parsed \in Nat
    BY Facts
  <2> HIDE DEF l
  <2>3. /\ tileWd * (l + 1) = tileWd * l + tileWd
        /\ parsed % tileWd = 0 <=> tileWd * l = parsed
        /\ \A k \in 1..l : tileWd * (k - 1) < parsed
    BY <2>1, <2>2, RowCount, ZenonT(60)
  <2> QED BY <2>1, <2>3, ZenonT(60)
<1>2. /\ rowSlice' \in Seq(Nat) /\ Len(rowSlice') \in Nat /\ Len(rowSlice') >= l
      /\ \A k \in 1..l : rowSlice'[k] = rowSlice[k]
      /\ Len(rowSlice') = IF parsed % tileWd = 0 THEN l + 1 ELSE l
      /\ parsed % tileWd = 0 => rowSlice'[l + 1] = curSlice
  BY <1>0
<1>3. tileWd * Len(rowSlice') \in (parsed + 1)..(parsed + tileWd)
  <2>1. CASE parsed % tileWd = 0
    <3>1. Len(rowSlice') = l + 1
      BY <1>2, <2>1
    <3> HIDE DEF l
    <3>2. \A a, b, c \in Nat : c > 0 /\ a = b => a + c \in (b + 1)..(b + c)
      OBVIOUS
    <3>3. tileWd * l = parsed /\ parsed \in Nat /\ tileWd \in Nat /\ tileWd > 0
      BY <1>1, <2>1, Facts
    <3>4. tileWd * l + tileWd \in (parsed + 1)..(parsed + tileWd)
      BY <3>2, <3>3
    <3> QED BY <3>1, <3>4, <1>1
  <2>2. CASE parsed % tileWd # 0
    <3>1. Len(rowSlice') = l
      BY <1>2, <2>2
    <3> HIDE DEF l
    <3>2. \A a, b, c \in Nat : a \in b..(b + c - 1) /\ a # b => a \in (b + 1)..(b + c)
      OBVIOUS
    <3> DEFINE a == tileWd * l
    <3>3. a # parsed /\ a \in parsed..(parsed + tileWd - 1) /\ a \in Nat
      BY <1>1, <2>2, Facts
    <3> HIDE DEF a
    <3>4. a \in (parsed + 1)..(parsed + tileWd)
      BY <3>2, <3>3, Facts
    <3> QED BY <3>1, <3>4 DEF a
  <2> QED BY <2>1, <2>2
<1>4. Ring' = Ring /\ \A s : Slot(s)' = Slot(s) /\ Lap(s)' = Lap(s)
  BY <1>0, SameRing
<1>5. \A n : Slice(n)' = Slice(n) /\ NthCtb(n)' = NthCtb(n)
  BY <1>0, SamePicture DEF Slice
<1>6. ParserInv'
  BY <1>0, <1>2, <1>3, <1>4, Facts DEF ParserInv, Headers
<1>7. SliceInv'
  <2>1. ASSUME NEW k \in 1..Len(rowSlice')
        PROVE  /\ tileWd * (k - 1) < parsed => rowSlice'[k] = Slice(tileWd * (k - 1))
               /\ tileWd * (k - 1) >= parsed => rowSlice'[k] = curSlice
    <3>1. CASE k \in 1..l
      BY <3>1, <1>2, Facts DEF SliceInv
    <3>2. CASE k \notin 1..l
      <4>1. k = l + 1 /\ parsed % tileWd = 0 /\ l = k - 1
        BY <3>2, <1>2, <1>1
      <4>2. tileWd * (k - 1) = parsed /\ rowSlice'[k] = curSlice
        BY <4>1, <1>1, <1>2
      <4> QED BY <4>2, Facts
    <3> QED BY <3>1, <3>2
  <2> QED BY <2>1, <1>0, <1>5, Facts DEF SliceInv
<1>8. HeaderInv'
  BY <1>0, <1>4, <1>5, Facts DEF HeaderInv, HeaderAt, Written, FirstOf
<1>9. LapInv'
  BY <1>0, <1>4, <1>5, Facts DEF LapInv
<1>10. RowInv' /\ TrackInv' /\ OrderInv'
  BY <1>0, <1>2, ParserFrame, Facts
<1> QED BY <1>6, <1>7, <1>8, <1>9, <1>10 DEF IInv

LEMMA ParseCtbStep ==
  ASSUME IInv, ParseCtb
  PROVE  IInv'
<1>0. /\ parser = "ctb" /\ parsed' = parsed + 1
      /\ sliceOf' = [sliceOf EXCEPT ![NextCtb] = curSlice]
      /\ parser' \in {"row", "sliceEnd", "done"} /\ (parser' = "done" <=> parsed' = Wd * Ht)
      /\ UNCHANGED <<tileWd, hdr, curSlice, rowSlice, taken, ctx, stage>>
      /\ sliceOf \in [Ctbs -> Nat \union {NoCtb}] /\ curSlice \in Nat /\ parsed \in Nat
  <2>1. Wd * Ht \in Nat /\ parsed \in Nat
    BY Facts, TileRowsSize
  <2> QED BY <2>1, Facts DEF ParseCtb, ParserInv
<1>1. /\ parsed \in Numbers /\ NextCtb = NthCtb(parsed) /\ NextCtb \in Ctbs
      /\ \A n \in 0..(parsed - 1) : NthCtb(n) # NextCtb
  BY <1>0, NextCtbPlace
<1>2. Ring' = Ring /\ \A s : Slot(s)' = Slot(s) /\ Lap(s)' = Lap(s)
  BY <1>0, SameRing
<1>3. \A n : NthCtb(n)' = NthCtb(n)
  BY <1>0, SamePicture
<1>4. /\ \A n \in 0..(parsed - 1) : sliceOf'[NthCtb(n)] = sliceOf[NthCtb(n)]
      /\ sliceOf'[NthCtb(parsed)] = curSlice
  <2>1. \A n \in 0..(parsed - 1) : NthCtb(n) \in Ctbs
    BY <1>0, NextCtbPlace, NumberPlace, Facts
  <2> QED BY <2>1, <1>0, <1>1
<1>5. /\ \A n \in 0..(parsed - 1) : Slice(n)' = Slice(n)
      /\ \A n : n = parsed => Slice(n)' = curSlice
  BY <1>3, <1>4, <1>0 DEF Slice
<1>6. ParserInv'
  <2>1. parsed' \in 0..(Wd * Ht)
    <3>1. Wd * Ht \in Nat
      BY TileRowsSize, Facts
    <3> QED BY <3>1, <1>0, <1>1, Facts DEF Numbers
  <2>2. tileWd * Len(rowSlice) \in (parsed + 1)..(parsed + 1 + tileWd - 1)
    <3> DEFINE a == tileWd * Len(rowSlice)
    <3>1. a \in (parsed + 1)..(parsed + tileWd)
      BY <1>0, Facts DEF ParserInv
    <3> HIDE DEF a
    <3>2. a \in (parsed + 1)..(parsed + 1 + tileWd - 1)
      BY <3>1, Facts
    <3> QED BY <3>2 DEF a
  <2>3. sliceOf' \in [Ctbs -> Nat \union {NoCtb}]
    BY <1>0, <1>1
  <2> QED BY <1>0, <1>2, <2>1, <2>2, <2>3, Facts DEF ParserInv, Headers
<1>7. SliceInv'
  <2>1. \A n \in 0..(parsed - 1) : Slice(n) \in 0..curSlice /\ (n = 0 => Slice(n) = 0)
    BY Facts DEF SliceInv
  <2>2. \A n \in 0..parsed : Slice(n)' \in 0..curSlice /\ (n = 0 => Slice(n)' = 0)
    <3>1. parsed = 0 => curSlice = 0
      BY Facts DEF SliceInv
    <3> SUFFICES ASSUME NEW n \in 0..parsed
                 PROVE  Slice(n)' \in 0..curSlice /\ (n = 0 => Slice(n)' = 0)
      OBVIOUS
    <3>2. CASE n = parsed
      BY <3>1, <3>2, <1>5, <1>0
    <3>3. CASE n # parsed
      <4>1. n \in 0..(parsed - 1)
        BY <3>3, <1>0
      <4> QED BY <4>1, <2>1, <1>5
    <3> QED BY <3>2, <3>3
  <2>3. \A m, n \in 0..parsed : m <= n => Slice(m)' <= Slice(n)'
    <3>1. \A m, n \in 0..(parsed - 1) : m <= n => Slice(m) <= Slice(n)
      BY Facts DEF SliceInv
    <3> QED BY <2>1, <3>1, <1>5, <1>0
  <2>4. \A n \in 1..parsed : Slice(n)' <= Slice(n - 1)' + 1
    <3>1. \A n \in 1..(parsed - 1) : Slice(n) <= Slice(n - 1) + 1
      BY Facts DEF SliceInv
    <3>2. parsed > 0 => curSlice <= Slice(parsed - 1) + 1
      BY <1>0, Facts DEF SliceInv
    <3> QED BY <3>1, <3>2, <1>5, <1>0
  <2>5. ASSUME NEW k \in 1..Len(rowSlice)
        PROVE  /\ tileWd * (k - 1) < parsed' => rowSlice[k] = Slice(tileWd * (k - 1))'
               /\ tileWd * (k - 1) >= parsed' => rowSlice[k] = curSlice
    <3>0. PICK a : a = tileWd * (k - 1)
      OBVIOUS
    <3>1. a \in Nat
      <4>1. \A w, i \in Nat : w * i \in Nat
        OBVIOUS
      <4> QED BY <3>0, <4>1, Facts
    <3>2. (a < parsed => rowSlice[k] = Slice(a)) /\ (a >= parsed => rowSlice[k] = curSlice)
      BY <3>0, Facts DEF SliceInv
    <3>3. (a < parsed' => rowSlice[k] = Slice(a)') /\ (a >= parsed' => rowSlice[k] = curSlice)
      <4>1. CASE a < parsed
        BY <4>1, <3>1, <3>2, <1>5, <1>0
      <4>2. CASE a = parsed
        BY <4>2, <3>1, <3>2, <1>5, <1>0
      <4>3. CASE a > parsed
        BY <4>3, <3>1, <3>2, <1>5, <1>0
      <4> QED BY <4>1, <4>2, <4>3, <3>1, <1>0
    <3>4. tileWd' * (k - 1) = a
      BY <3>0, <1>0
    <3> QED BY <3>0, <3>3, <3>4
  <2>6. parsed' - 1 = parsed /\ parsed' > 0 /\ curSlice \in Nat
    BY <1>0
  <2> QED BY <2>2, <2>3, <2>4, <2>5, <2>6, <1>0, <1>5 DEF SliceInv
<1>8. HeaderInv'
  <2>1. \A s \in Nat : Written(s)' => Written(s)
    BY <1>0 DEF Written
  <2>2. \A j \in 0..(Ring - 1) : HeaderAt(j)'
    <3> SUFFICES ASSUME NEW j \in 0..(Ring - 1), hdr[j] # NoHeader PROVE HeaderAt(j)'
      BY <1>0, <1>2 DEF HeaderAt
    <3>1. /\ hdr[j].slice \in Nat /\ Slot(hdr[j].slice) = j
          /\ \E n \in 0..parsed : hdr[j].at = NthCtb(n) /\ FirstOf(hdr[j].slice, n)
      BY Facts DEF HeaderInv, HeaderAt
    <3>2. PICK n \in 0..parsed : hdr[j].at = NthCtb(n) /\ FirstOf(hdr[j].slice, n)
      BY <3>1
    <3>3. FirstOf(hdr[j].slice, n)'
      BY <3>1, <3>2, <1>5, <1>0 DEF FirstOf
    <3>4. n \in 0..parsed'
      BY <1>0
    <3> QED BY <3>1, <3>2, <3>3, <3>4, <1>0, <1>2, <1>3 DEF HeaderAt
  <2> QED BY <2>1, <2>2, <1>0, <1>2, Facts DEF HeaderInv
<1>9. LapInv'
  <2>1. \A n \in 0..parsed : stage[NthCtb(n)] # Complete => Lap(Slice(n)') = Lap(curSlice)
    <3>1. \A n \in 0..(parsed - 1) : stage[NthCtb(n)] # Complete => Lap(Slice(n)) = Lap(curSlice)
      BY Facts DEF LapInv
    <3> QED BY <3>1, <1>0, <1>5
  <2>2. \A n \in Numbers : n >= parsed' => stage[NthCtb(n)] = 0
    <3>1. \A n \in Numbers : n \in Int
      BY DEF Numbers
    <3> QED BY <3>1, <1>0, Facts DEF LapInv
  <2>3. parsed' - 1 = parsed
    BY <1>0
  <2>4. \A n : NthCtb(n)' = NthCtb(n)
    BY <1>3
  <2>5. \A n : Lap(Slice(n))' = Lap(Slice(n)')
    BY <1>0 DEF Lap, Ring
  <2> QED BY <2>1, <2>2, <2>3, <2>4, <2>5, <1>0, <1>2, Facts DEF LapInv
<1>10. RowInv' /\ TrackInv' /\ OrderInv'
  BY <1>0, <1>4, ParserFrame, Facts
<1> QED BY <1>6, <1>7, <1>8, <1>9, <1>10 DEF IInv

\* When the slots go round, nothing is left to be processed; otherwise the lap stays.
LEMMA NextLap ==
  ASSUME IInv
  PROVE  /\ Slot(curSlice + 1) # 0 => Lap(curSlice + 1) = Lap(curSlice)
         /\ \A s \in 0..curSlice : Lap(s) = Lap(curSlice + 1) => Lap(s) = Lap(curSlice)
<1>1. Ring \in Nat \ {0} /\ curSlice \in Nat
  BY Facts DEF ParserInv
<1> DEFINE r == Ring
           c == curSlice
<1> HIDE DEF r, c
<1>2. r \in Nat \ {0} /\ c \in Nat
  BY <1>1 DEF r, c
<1> SUFFICES /\ (c + 1) % r # 0 => (c + 1) \div r = c \div r
             /\ \A s \in 0..c : s \div r = (c + 1) \div r => s \div r = c \div r
  BY DEF r, c, Slot, Lap
<1>3. (c + 1) % r # 0 => (c + 1) \div r = c \div r
  BY <1>2
<1>4. ASSUME NEW s \in 0..c PROVE s \div r <= c \div r
  <2>1. s \in Nat /\ s <= c
    BY <1>2
  <2> QED BY <2>1, <1>2
<1>5. c \div r <= (c + 1) \div r /\ c \div r \in Int
  BY <1>2
<1>6. \A s \in 0..c : s \div r \in Int
  BY <1>2
<1> QED BY <1>3, <1>4, <1>5, <1>6

LEMMA SliceEndStep ==
  ASSUME IInv, SliceEnd
  PROVE  IInv'
<1>0. /\ parser = "sliceEnd" /\ parser' = "header" /\ RingFree
      /\ curSlice' = curSlice + 1
      /\ UNCHANGED <<tileWd, hdr, parsed, sliceOf, rowSlice, taken, ctx, stage>>
      /\ curSlice \in Nat /\ curSlice' \in Nat
  BY Facts, SMTT(30) DEF SliceEnd, ParserInv
<1>1. Ring' = Ring /\ \A s : Slot(s)' = Slot(s) /\ Lap(s)' = Lap(s)
  BY <1>0, SameRing
<1>2. \A n : Slice(n)' = Slice(n) /\ NthCtb(n)' = NthCtb(n)
  BY <1>0, SamePicture DEF Slice
<1>3. ParserInv'
  BY <1>0, <1>1, Facts DEF ParserInv, Headers
<1>4. SliceInv'
  <2>1. parsed > 0 /\ Slice(parsed - 1) = curSlice
    BY <1>0, Facts DEF SliceInv
  <2>2. \A n \in 0..(parsed - 1) : Slice(n) \in 0..curSlice' /\ (n = 0 => Slice(n) = 0)
    BY <1>0, Facts DEF SliceInv
  <2>3. ASSUME NEW k \in 1..Len(rowSlice) PROVE tileWd * (k - 1) < parsed
    <3>1. Len(rowSlice) \in Nat /\ tileWd * Len(rowSlice) \in parsed..(parsed + tileWd - 1)
      BY <1>0, Facts DEF ParserInv
    <3> QED BY <3>1, RowCount, Facts
  <2>4. \A k \in 1..Len(rowSlice) : /\ rowSlice[k] = Slice(tileWd * (k - 1))
                                    /\ ~(tileWd * (k - 1) >= parsed)
    <3>1. \A k \in 1..Len(rowSlice) : tileWd * (k - 1) \in Int
      BY Facts
    <3> QED BY <3>1, <2>3, Facts DEF SliceInv
  <2> QED BY <2>1, <2>2, <2>4, <1>0, <1>2, Facts DEF SliceInv
<1>5. HeaderInv'
  <2>1. ASSUME NEW s \in Nat, Written(s)', Lap(s) = Lap(curSlice + 1)
        PROVE  hdr[Slot(s)].slice = s
    <3>1. s \in 0..curSlice /\ Written(s)
      BY <2>1, <1>0 DEF Written
    <3>2. Lap(s) = Lap(curSlice)
      BY <2>1, <3>1, NextLap
    <3> QED BY <3>1, <3>2, Facts DEF HeaderInv
  <2>2. \A s, n : n \in 0..parsed /\ FirstOf(s, n) => FirstOf(s, n)'
    BY <1>0, <1>2, Facts DEF FirstOf
  <2>3. \A j \in 0..(Ring - 1) : HeaderAt(j)'
    BY <2>2, <1>0, <1>1, <1>2, Facts DEF HeaderInv, HeaderAt
  <2>4. Lap(curSlice)' = Lap(curSlice + 1)
    BY <1>0 DEF Lap, Ring
  <2> QED BY <2>1, <2>3, <2>4, <1>0, <1>1 DEF HeaderInv
<1>6. LapInv'
  <2>1. ASSUME NEW n \in 0..(parsed - 1), stage[NthCtb(n)] # Complete
        PROVE  Lap(Slice(n)) = Lap(curSlice + 1)
    <3>1. NthCtb(n) \in ParsedCtbs
      BY DEF ParsedCtbs
    <3>2. Slot(curSlice + 1) # 0
      BY <3>1, <2>1, <1>0 DEF RingFree
    <3> QED BY <3>2, <2>1, NextLap, Facts DEF LapInv
  <2>2. Lap(curSlice)' = Lap(curSlice + 1)
    BY <1>0 DEF Lap, Ring
  <2>3. \A n : Lap(Slice(n))' = Lap(Slice(n))
    BY <1>0, <1>2 DEF Lap, Ring
  <2> QED BY <2>1, <2>2, <2>3, <1>0, <1>2, Facts DEF LapInv
<1>7. RowInv' /\ TrackInv' /\ OrderInv'
  BY <1>0, ParserFrame, Facts
<1> QED BY <1>3, <1>4, <1>5, <1>6, <1>7 DEF IInv

LEMMA Unchanged ==
  ASSUME IInv, UNCHANGED vars
  PROVE  IInv'
<1> USE DEF vars
<1>1. Ring' = Ring /\ \A s : Slot(s)' = Slot(s) /\ Lap(s)' = Lap(s)
  BY SameRing
<1>2. \A n : Slice(n)' = Slice(n) /\ NthCtb(n)' = NthCtb(n)
  BY SamePicture DEF Slice
<1>3. ParserInv' /\ SliceInv' /\ HeaderInv'
  BY ProcessFrame DEF parserVars
<1>4. LapInv'
  BY <1>1, <1>2, Facts DEF LapInv
<1>5. RowInv' /\ TrackInv' /\ OrderInv'
  <2>1. parsed' \in Nat /\ parsed' >= parsed /\ Len(rowSlice') \in Nat
        /\ Len(rowSlice') >= Len(rowSlice)
    BY Facts
  <2> QED BY <2>1, ParserFrame
<1> QED BY <1>3, <1>4, <1>5 DEF IInv

-----------------------------------------------------------------------------
(* The processes' actions.                                                     *)

\* No more rows are queued than the picture has.
LEMMA RowsQueued ==
  ASSUME IInv
  PROVE  Len(rowSlice) <= Tiles * Ht /\ \A k \in Nat : k < Len(rowSlice) => k \in TileRows
<1> DEFINE rows == Tiles * Ht
           l == Len(rowSlice)
<1>1. rows \in Nat \ {0} /\ Wd * Ht = rows * tileWd /\ l \in Nat
  BY Facts, TileRowsSize
<1>2. tileWd * l < Wd * Ht + tileWd
  <2> DEFINE a == tileWd * l
             n == Wd * Ht
  <2>1. /\ parser = "ctb" => a \in (parsed + 1)..(parsed + tileWd)
        /\ parser # "ctb" => a \in parsed..(parsed + tileWd - 1)
        /\ parser = "ctb" => parsed # n
        /\ parsed \in 0..n
    BY Facts DEF ParserInv
  <2>2. n \in Nat
    BY <1>1, Facts
  <2> HIDE DEF a, n
  <2>3. a < n + tileWd
    BY <2>1, <2>2, Facts
  <2> QED BY <2>3 DEF a, n
<1> HIDE DEF rows, l
<1>3. l <= rows
  <2>1. \A w \in Nat \ {0}, a, b \in Nat : a > b => w * a >= w * (b + 1) /\ w * (b + 1) = b * w + w
    OBVIOUS
  <2>2. tileWd * l \in Int /\ rows * tileWd \in Int
    BY <1>1, Facts
  <2> QED BY <1>1, <1>2, <2>1, <2>2, Facts, SMTT(30)
<1>4. TileRows = 0..(rows - 1)
  BY Facts, TileRowsSize DEF rows
<1> QED BY <1>1, <1>3, <1>4 DEF rows, l

\* Steps that change one context and no map.
LEMMA ContextFrame ==
  ASSUME IInv, UNCHANGED <<parserVars, stage>>, NEW p \in Procs, NEW c,
         ctx' = [ctx EXCEPT ![p] = c], c \in RowContext,
         taken' \in taken..Len(rowSlice), c.row < taken',
         \A q \in Procs \ {p} : Processing(q) => ctx[q].row # c.row,
         c.first <= c.x, c.x < c.first + c.num, c.first + c.num <= tileWd, c.at # "complete",
         \A x \in Places : stage[Cell(c.row, x)] = StageAt(c, x),
         c.saved = SliceBefore(c.row, c.first),
         c.at = "check" => c.slice = SliceBefore(c.row, c.x),
         c.at = "work" => /\ Number(c.row, c.x) < parsed
                          /\ c.slice = sliceOf[Cell(c.row, c.x)]
                          /\ \A d \in Neighbours(Cell(c.row, c.x)) : stage[d] >= c.stage
  PROVE  IInv'
<1> USE DEF parserVars
<1>1. ParserInv' /\ SliceInv' /\ HeaderInv'
  BY ProcessFrame
<1>2. LapInv'
  <2>1. \A n : Slice(n)' = Slice(n) /\ NthCtb(n)' = NthCtb(n)
    BY SamePicture DEF Slice
  <2> QED BY <2>1, SameRing, Facts DEF LapInv
<1>3. /\ ctx'[p] = c /\ \A q \in Procs \ {p} : ctx'[q] = ctx[q]
      /\ ctx' \in [Procs -> RowContext \union {Idle}] /\ c # Idle
  BY Facts DEF RowInv, RowContext, Idle
<1>4. /\ TileRows' = TileRows /\ Places' = Places /\ RowContext' = RowContext
      /\ \A k, x : Cell(k, x)' = Cell(k, x) /\ Number(k, x)' = Number(k, x)
      /\ \A d : Neighbours(d)' = Neighbours(d)
      /\ \A k, x : SliceBefore(k, x)' = SliceBefore(k, x)
  BY SamePicture DEF RowContext, SliceBefore
<1>5. /\ Processing(p)' /\ \A q \in Procs \ {p} : Processing(q)' <=> Processing(q)
  BY <1>3 DEF Processing
<1>6. ctx'[p].row \in TileRows /\ ctx'[p].x \in Places /\ Ctb(p)' = Cell(c.row, c.x)
      /\ \A q \in Procs \ {p} : Ctb(q)' = Ctb(q)
  BY <1>3 DEF RowContext, Ctb, Cell, RowStart, CtbAt
<1>7. RowInv'
  <2>1. taken' \in 0..Len(rowSlice)
    BY Facts
  <2>2. ASSUME NEW q \in Procs, Processing(q)'
        PROVE  /\ ctx'[q].row < taken'
               /\ ctx'[q].first <= ctx'[q].x /\ ctx'[q].x < ctx'[q].first + ctx'[q].num
               /\ ctx'[q].first + ctx'[q].num <= tileWd
               /\ ctx'[q].at = "complete" => ctx'[q].stage = Sao
               /\ \A x \in Places : stage[Cell(ctx'[q].row, x)] = StageAt(ctx'[q], x)
    <3>1. CASE q = p
      BY <3>1, <1>3
    <3>2. CASE q # p
      <4>1. ctx'[q] = ctx[q] /\ Processing(q)
        BY <3>2, <2>2, <1>3, <1>5
      <4>2. ctx[q].row < taken'
        BY <4>1, AtPlace, Facts
      <4> QED BY <4>1, <4>2, Facts DEF RowInv
    <3> QED BY <3>1, <3>2
  <2>3. \A q, r \in Procs : Processing(q)' /\ Processing(r)' /\ q # r => ctx'[q].row # ctx'[r].row
    BY <1>3, <1>5, Facts DEF RowInv
  <2>4. ASSUME NEW k \in TileRows, NEW x \in Places, k >= taken' PROVE stage[Cell(k, x)] = 0
    <3>1. k >= taken
      BY <2>4, Facts, TileRowsSize
    <3> QED BY <3>1, Facts DEF RowInv
  <2>5. \A d, x : StageAt(d, x)' = StageAt(d', x)
    BY DEF StageAt
  <2> QED BY <1>3, <1>4, <2>1, <2>2, <2>3, <2>4, <2>5 DEF RowInv, StageAt
<1>8. TrackInv'
  <2>1. ASSUME NEW q \in Procs, Processing(q)'
        PROVE  /\ ctx'[q].saved = SliceBefore(ctx'[q].row, ctx'[q].first)
               /\ ctx'[q].at = "check" => ctx'[q].slice = SliceBefore(ctx'[q].row, ctx'[q].x)
               /\ ctx'[q].at # "check" => /\ Number(ctx'[q].row, ctx'[q].x) < parsed
                                          /\ ctx'[q].slice = sliceOf[Ctb(q)']
    <3>1. CASE q = p
      <4>1. c.at \in {"check", "work"}
        BY DEF RowContext
      <4> QED BY <3>1, <4>1, <1>3, <1>6
    <3>2. CASE q # p
      <4>1. ctx'[q] = ctx[q] /\ Processing(q) /\ Ctb(q)' = Ctb(q)
        BY <3>2, <2>1, <1>3, <1>5, <1>6
      <4> QED BY <4>1, Facts DEF TrackInv
    <3> QED BY <3>1, <3>2
  <2> QED BY <1>4, <2>1 DEF TrackInv, SliceBefore
<1>9. OrderInv'
  <2>1. ASSUME NEW q \in Procs, Works(q)', NEW d \in Neighbours(Ctb(q)') PROVE stage[d] >= ctx'[q].stage
    <3>1. CASE q = p
      BY <3>1, <2>1, <1>3, <1>6 DEF Works
    <3>2. CASE q # p
      BY <3>2, <2>1, <1>3, <1>6, Facts DEF Works, OrderInv
    <3> QED BY <3>1, <3>2
  <2>2. \A a, b : NotAhead(a, b)' <=> NotAhead(a, b)
    BY DEF NotAhead
  <2>3. /\ \A a \in Ctbs : \A b \in Neighbours(a) : NotAhead(a, b)
        /\ \A a, b \in Ctbs : X(b) = X(a) /\ Y(b) <= Y(a) => NotAhead(a, b)
    BY Facts DEF OrderInv
  <2>4. \A q \in Procs : Neighbours(Ctb(q))' = Neighbours(Ctb(q)')
    BY <1>4 DEF Neighbours, FilteredWith, Tile
  <2> QED BY <1>4, <2>1, <2>2, <2>3, <2>4 DEF OrderInv
<1> QED BY <1>1, <1>2, <1>7, <1>8, <1>9 DEF IInv

LEMMA TakeRowStep ==
  ASSUME IInv, NEW p \in Procs, TakeRow(p)
  PROVE  IInv'
<1> DEFINE n == Clipped(ChunkOf(rowSlice[taken + 1]), tileWd)
           c == [at |-> "check", row |-> taken, first |-> 0, x |-> 0, num |-> n,
                 stage |-> Inter, slice |-> rowSlice[taken + 1], saved |-> rowSlice[taken + 1]]
<1>1. /\ taken < Len(rowSlice) /\ ctx[p] = Idle /\ taken' = taken + 1
      /\ UNCHANGED <<parserVars, stage>> /\ ctx' = [ctx EXCEPT ![p] = c]
  BY DEF TakeRow
<1>2. n \in 1..tileWd
  <2>1. tileWd \in Nat \ {0} /\ Chunk \in Nat \ {0}
    BY Facts, RingAssumption
  <2>2. ChunkOf(rowSlice[taken + 1]) \in {1, Chunk, tileWd}
    BY Zenon DEF ChunkOf
  <2> QED BY <2>1, <2>2 DEF Clipped
<1>3. rowSlice[taken + 1] \in Nat
  <2>1. rowSlice \in Seq(Nat)
    BY Facts DEF ParserInv
  <2>2. taken + 1 \in 1..Len(rowSlice)
    BY <1>1, Facts
  <2> QED BY <2>1, <2>2
<1>4. taken \in TileRows
  BY <1>1, RowsQueued, Facts
<1>5. 0 \in Places
  BY Facts DEF Places
<1>6. c \in RowContext
  BY <1>2, <1>3, <1>4, <1>5 DEF RowContext, Inter, Sao
<1>7. \A q \in Procs \ {p} : Processing(q) => ctx[q].row # c.row
  BY AtPlace, Facts
<1>8. \A x \in Places : stage[Cell(c.row, x)] = StageAt(c, x)
  <2>1. \A x \in Places : stage[Cell(taken, x)] = 0
    BY <1>4, Facts DEF RowInv
  <2>2. \A x \in Places : StageAt(c, x) = 0
    BY DEF Places, StageAt, Inter
  <2> QED BY <2>1, <2>2
<1>9. c.saved = SliceBefore(c.row, c.first) /\ c.slice = SliceBefore(c.row, c.x)
  BY DEF SliceBefore
<1>10. /\ taken' \in taken..Len(rowSlice) /\ c.row < taken' /\ c.at = "check"
       /\ c.first <= c.x /\ c.x < c.first + c.num /\ c.first + c.num <= tileWd
  BY <1>1, <1>2, Facts
<1> HIDE DEF c
<1> QED BY <1>1, <1>6, <1>7, <1>8, <1>9, <1>10, ContextFrame

\* The column and the row of a CTB, and the CTB at a column and a row.
LEMMA Columns ==
  ASSUME tileWd \in TileWds
  PROVE  /\ \A c \in Ctbs : /\ X(c) \in 0..(Wd - 1) /\ Y(c) \in 0..(Ht - 1)
                            /\ c = CtbAt(X(c), Y(c)) /\ c \in Nat
         /\ \A x \in 0..(Wd - 1), y \in 0..(Ht - 1) :
              CtbAt(x, y) \in Ctbs /\ X(CtbAt(x, y)) = x /\ Y(CtbAt(x, y)) = y
         /\ \A x, y \in Int : /\ CtbAt(x + 1, y) = CtbAt(x, y) + 1
                              /\ CtbAt(x - 1, y) = CtbAt(x, y) - 1
                              /\ CtbAt(x, y - 1) = CtbAt(x, y) - Wd
                              /\ CtbAt(x + 1, y - 1) = CtbAt(x, y) - Wd + 1
                              /\ CtbAt(x - 1, y - 1) = CtbAt(x, y) - Wd - 1
<1>1. Wd \in Nat \ {0} /\ Ht \in Nat \ {0} /\ Wd * Ht = Ht * Wd
  BY Sizes, TileRowsSize
<1>2. ASSUME NEW c \in Ctbs
      PROVE  /\ X(c) \in 0..(Wd - 1) /\ Y(c) \in 0..(Ht - 1)
             /\ c = CtbAt(X(c), Y(c)) /\ c \in Nat
  <2>1. c \in 0..(Ht * Wd - 1)
    BY <1>1 DEF Ctbs
  <2>2. c % Wd \in 0..(Wd - 1) /\ c \div Wd \in 0..(Ht - 1) /\ c = Wd * (c \div Wd) + (c % Wd)
    BY <1>1, <2>1, Divided
  <2>3. \A a, b, d \in Int : a * b + d = b * a + d
    OBVIOUS
  <2>4. c \div Wd \in Int /\ c % Wd \in Int /\ Wd \in Int
    BY <2>2, <1>1
  <2>5. c = (c \div Wd) * Wd + (c % Wd)
    BY <2>2, <2>3, <2>4
  <2>6. c \in Nat
    BY <2>1
  <2> QED BY <2>2, <2>5, <2>6 DEF X, Y, CtbAt
<1>3. ASSUME NEW x \in 0..(Wd - 1), NEW y \in 0..(Ht - 1)
      PROVE  CtbAt(x, y) \in Ctbs /\ X(CtbAt(x, y)) = x /\ Y(CtbAt(x, y)) = y
  <2>1. (y * Wd + x) % Wd = x /\ (y * Wd + x) \div Wd = y /\ y * Wd + x \in 0..(Ht * Wd - 1)
    BY <1>1, Composed
  <2> QED BY <2>1, <1>1 DEF X, Y, CtbAt, Ctbs
<1>4. \A w \in Nat : \A y \in Int : (y - 1) * w = y * w - w /\ y * w \in Int
  OBVIOUS
<1>5. ASSUME NEW x \in Int, NEW y \in Int
      PROVE  /\ CtbAt(x + 1, y) = CtbAt(x, y) + 1
             /\ CtbAt(x - 1, y) = CtbAt(x, y) - 1
             /\ CtbAt(x, y - 1) = CtbAt(x, y) - Wd
             /\ CtbAt(x + 1, y - 1) = CtbAt(x, y) - Wd + 1
             /\ CtbAt(x - 1, y - 1) = CtbAt(x, y) - Wd - 1
  <2> DEFINE a == y * Wd
             b == (y - 1) * Wd
  <2>1. a \in Int /\ b = a - Wd /\ Wd \in Int
    BY <1>1, <1>4
  <2> HIDE DEF a, b
  <2>2. /\ CtbAt(x, y) = a + x /\ CtbAt(x + 1, y) = a + (x + 1) /\ CtbAt(x - 1, y) = a + (x - 1)
        /\ CtbAt(x, y - 1) = b + x /\ CtbAt(x + 1, y - 1) = b + (x + 1)
        /\ CtbAt(x - 1, y - 1) = b + (x - 1)
    BY Zenon DEF CtbAt, a, b
  <2> QED BY <2>1, <2>2
<1> QED BY <1>2, <1>3, <1>5

\* A process whose waits are over has its CTB parsed.
LEMMA ReadyParsed ==
  ASSUME IInv, NEW p \in Procs, Processing(p), ctx[p].at = "check", Ready(p)
  PROVE  Number(ctx[p].row, ctx[p].x) \in 0..(parsed - 1)
<1> DEFINE n == Number(ctx[p].row, ctx[p].x)
<1>1. n \in Numbers /\ NthCtb(n) = Ctb(p) /\ n \in Nat
  BY AtPlace, CellPlace, Facts DEF Numbers
<1>2. CASE ctx[p].stage = Inter
  <2>1. PICK m \in 0..(parsed - 1) : NthCtb(m) = Ctb(p)
    BY <1>2 DEF Ready, ParsedCtbs
  <2>2. m \in Numbers
    <3>1. Wd * Ht \in Nat /\ parsed <= Wd * Ht /\ parsed \in Nat
      BY Facts, TileRowsSize DEF ParserInv
    <3> QED BY <3>1 DEF Numbers
  <2> QED BY <1>1, <2>1, <2>2, NumbersDiffer, Facts
<1>3. CASE ctx[p].stage # Inter
  <2>1. ctx[p].stage - 1 # 0
    BY <1>3, AtPlace DEF RowContext, Inter, Sao
  <2>2. stage[Cell(ctx[p].row, ctx[p].x)] # 0
    BY <2>1, AtPlace
  <2> QED BY <2>2, AtPlace, StartedParsed
<1> QED BY <1>2, <1>3

\* The slice of a CTB is that of the CTB before it in its row, or the next one.
LEMMA SliceGrows ==
  ASSUME IInv, NEW k \in TileRows, NEW x \in Places, k < Len(rowSlice),
         Number(k, x) \in 0..(parsed - 1)
  PROVE  /\ SliceBefore(k, x) \in Nat /\ Slice(Number(k, x)) \in Nat
         /\ \/ Slice(Number(k, x)) = SliceBefore(k, x)
            \/ /\ Slice(Number(k, x)) = SliceBefore(k, x) + 1 /\ Number(k, x) > 0
               /\ SliceBefore(k, x) = Slice(Number(k, x) - 1)
<1>0. k \in Nat /\ Number(k, x) = k * tileWd + x /\ k * tileWd \in Nat /\ k * tileWd = tileWd * k
      /\ parsed \in Nat
  <2>1. k \in Nat /\ tileWd \in Nat
    BY TileRowsSize, Facts
  <2> QED BY <2>1, Facts DEF Number
<1>1. Slice(Number(k, x)) \in Nat
  BY Facts DEF SliceInv, ParserInv
<1>2. CASE x = 0
  <2>1. tileWd * ((k + 1) - 1) = Number(k, x) /\ Number(k, x) < parsed
    <3>1. (k + 1) - 1 = k
      BY <1>0
    <3> QED BY <3>1, <1>0, <1>2
  <2>2. rowSlice[k + 1] = Slice(tileWd * ((k + 1) - 1))
    <3>1. k + 1 \in 1..Len(rowSlice)
      BY <1>0, Facts
    <3> QED BY <3>1, <2>1, Facts DEF SliceInv
  <2> QED BY <1>1, <1>2, <2>1, <2>2 DEF SliceBefore
<1>3. CASE x # 0
  <2>1. x - 1 \in Places /\ x \in Nat
    BY <1>3, Facts DEF Places
  <2>2. Number(k, x - 1) = Number(k, x) - 1 /\ Number(k, x) > 0
    BY <1>0, <2>1, <1>3 DEF Number
  <2>3. NthCtb(Number(k, x) - 1) = Cell(k, x - 1)
    BY <2>1, <2>2, CellPlace, Facts
  <2>4. SliceBefore(k, x) = Slice(Number(k, x) - 1)
    BY <1>3, <2>3 DEF SliceBefore, Slice
  <2> DEFINE n == Number(k, x)
  <2> HIDE DEF n
  <2>5. n \in 1..(parsed - 1) /\ n - 1 \in 0..(parsed - 1)
    BY <2>2, <1>0 DEF n
  <2>6. Slice(n) <= Slice(n - 1) + 1 /\ Slice(n - 1) <= Slice(n) /\ Slice(n - 1) \in Nat
    <3>1. Slice(n) <= Slice(n - 1) + 1
      BY <2>5, Facts DEF SliceInv
    <3>2. n \in 0..(parsed - 1) /\ n - 1 <= n
      BY <2>5, <1>0
    <3>3. Slice(n - 1) <= Slice(n)
      BY <2>5, <3>2, Facts DEF SliceInv
    <3>4. Slice(n - 1) \in 0..curSlice /\ curSlice \in Nat
      BY <2>5, Facts DEF SliceInv, ParserInv
    <3> QED BY <3>1, <3>3, <3>4
  <2>7. Slice(n) \in Nat
    BY <1>1 DEF n
  <2>8. Slice(n) = Slice(n - 1) \/ Slice(n) = Slice(n - 1) + 1
    BY <2>6, <2>7
  <2> QED BY <1>1, <2>2, <2>4, <2>6, <2>8 DEF n
<1> QED BY <1>2, <1>3

\* The header of a slice that has a CTB parsed has been written.
LEMMA ParsedWritten ==
  ASSUME IInv, NEW n \in 0..(parsed - 1)
  PROVE  Written(Slice(n))
<1>1. Slice(n) \in 0..curSlice /\ curSlice \in Nat /\ parsed \in Nat
  BY Facts DEF SliceInv, ParserInv
<1>2. ASSUME Slice(n) = curSlice PROVE parser # "header"
  <2>1. n <= parsed - 1 /\ parsed - 1 \in 0..(parsed - 1) /\ parsed > 0
    BY <1>1
  <2>2. Slice(n) <= Slice(parsed - 1) /\ Slice(parsed - 1) \in 0..curSlice
    BY <2>1, Facts DEF SliceInv
  <2>3. Slice(parsed - 1) + 1 # curSlice
    BY <1>1, <1>2, <2>2
  <2> QED BY <2>1, <2>3, Facts DEF SliceInv
<1> QED BY <1>1, <1>2 DEF Written

\* The header of the slice of a CTB that is not complete is in its slot.
LEMMA HeaderThere ==
  ASSUME IInv, NEW n \in 0..(parsed - 1), stage[NthCtb(n)] # Complete
  PROVE  hdr[Slot(Slice(n))].slice = Slice(n)
<1>1. Slice(n) \in 0..curSlice /\ curSlice \in Nat /\ parsed \in Nat
  BY Facts DEF SliceInv, ParserInv
<1>3. Written(Slice(n)) /\ Slice(n) \in Nat
  BY <1>1, ParsedWritten
<1>4. Lap(Slice(n)) = Lap(curSlice)
  BY Facts DEF LapInv
<1> QED BY <1>3, <1>4, Facts DEF HeaderInv

\* A header in the ring is at the first CTB of its slice.
LEMMA HeaderFirst ==
  ASSUME IInv, NEW j \in 0..(Ring - 1), hdr[j] # NoHeader
  PROVE  /\ hdr[j].slice \in Nat /\ Slot(hdr[j].slice) = j
         /\ \E m \in Numbers \cap (0..parsed) : hdr[j].at = NthCtb(m) /\ FirstOf(hdr[j].slice, m)
<1>1. HeaderAt(j)
  BY Facts DEF HeaderInv
<1>2. PICK m \in 0..parsed : hdr[j].at = NthCtb(m) /\ FirstOf(hdr[j].slice, m)
  BY <1>1 DEF HeaderAt
<1>3. m \in Numbers
  <2>1. m = parsed => parser # "done"
    BY <1>2 DEF FirstOf
  <2>2. m = parsed => parsed # Wd * Ht
    BY <2>1, Facts DEF ParserInv
  <2>3. Wd * Ht \in Nat /\ parsed \in 0..(Wd * Ht)
    BY Facts, TileRowsSize DEF ParserInv
  <2> QED BY <2>2, <2>3 DEF Numbers
<1> QED BY <1>1, <1>2, <1>3 DEF HeaderAt

\* The next slot tells a process whether its CTB begins the next slice.
LEMMA NextSlotTells ==
  ASSUME IInv, NEW p \in Procs, Processing(p), ctx[p].at = "check", Ready(p)
  PROVE  LET next == ctx[p].slice + 1
             isNext == Ctb(p) # 0 /\ hdr[Slot(next)].at = Ctb(p)
         IN (IF isNext THEN next ELSE ctx[p].slice) = sliceOf[Ctb(p)]
<1> DEFINE o == ctx[p].slice
           n == Number(ctx[p].row, ctx[p].x)
           s == Slice(n)
<1>1. n \in 0..(parsed - 1) /\ n \in Numbers /\ NthCtb(n) = Ctb(p) /\ s = sliceOf[Ctb(p)]
  BY ReadyParsed, AtPlace, CellPlace, Facts DEF Slice
<1>2. /\ o \in Nat /\ s \in Nat
      /\ \/ s = o
         \/ s = o + 1 /\ n > 0 /\ o = Slice(n - 1)
  <2>1. o = SliceBefore(ctx[p].row, ctx[p].x)
    BY Facts DEF TrackInv
  <2>2. ctx[p].row < Len(rowSlice)
    BY AtPlace, Facts
  <2>3. ctx[p].row \in TileRows /\ ctx[p].x \in Places
    BY AtPlace
  <2> QED BY <1>1, <2>1, <2>2, <2>3, SliceGrows
<1>3. hdr[Slot(s)].slice = s
  <2>1. stage[Ctb(p)] # Complete
    BY AtPlace DEF RowContext, Inter, Sao, Complete
  <2> QED BY <1>1, <2>1, HeaderThere
<1> HIDE DEF o, n, s
<1>4. Slot(s) \in 0..(Ring - 1) /\ Slot(o + 1) \in 0..(Ring - 1)
  BY <1>2, Facts DEF Slot
<1>5. CASE s = o
  <2> SUFFICES ASSUME hdr[Slot(o + 1)].at = Ctb(p) PROVE FALSE
    BY <1>1, <1>5 DEF o
  <2>1. hdr[Slot(o + 1)] # NoHeader
    <3>1. Ctb(p) \in Nat
      BY AtPlace, Columns, Facts
    <3> QED BY <3>1 DEF NoHeader, NoCtb
  <2>2. PICK m \in Numbers \cap (0..parsed) :
           hdr[Slot(o + 1)].at = NthCtb(m) /\ FirstOf(hdr[Slot(o + 1)].slice, m)
    BY <2>1, <1>4, HeaderFirst
  <2>3. m = n
    BY <1>1, <2>2, NumbersDiffer, Facts
  <2>4. hdr[Slot(o + 1)].slice = s
    BY <2>2, <2>3, <1>1, Facts DEF FirstOf, s
  <2>5. Slot(s) = Slot(o + 1)
    BY <2>1, <2>4, <1>4, HeaderFirst
  <2>6. \A r, i \in Nat : r >= 2 => i % r # (i + 1) % r
    OBVIOUS
  <2> QED BY <2>5, <2>6, <1>5, <1>2, Facts DEF Slot
<1>6. CASE s # o
  <2>1. s = o + 1 /\ n > 0 /\ o = Slice(n - 1)
    BY <1>2, <1>6
  <2>2. Ctb(p) # 0
    <3>1. 0 \in Numbers /\ NthCtb(0) = 0
      BY FirstNumber, Facts
    <3>2. NthCtb(n) # NthCtb(0)
      BY <3>1, <2>1, <1>1, NumbersDiffer, Facts
    <3> QED BY <3>1, <3>2, <1>1
  <2>3. hdr[Slot(s)] # NoHeader
    BY <1>2, <1>3 DEF NoHeader, NoCtb
  <2>4. PICK m \in Numbers \cap (0..parsed) : hdr[Slot(s)].at = NthCtb(m) /\ FirstOf(s, m)
    BY <2>3, <1>3, <1>4, HeaderFirst
  <2>5. n \in Nat /\ m \in Nat /\ parsed \in Nat /\ n <= parsed - 1 /\ m <= parsed
    BY <1>1, <2>4, Facts
  <2>6. \A a, b \in 0..(parsed - 1) : a <= b => Slice(a) <= Slice(b)
    BY Facts DEF SliceInv
  <2>7. \A a \in 0..(parsed - 1) : Slice(a) \in Nat
    BY Facts DEF SliceInv, ParserInv
  <2>8. ~(m < n)
    <3> SUFFICES ASSUME m < n PROVE FALSE
      OBVIOUS
    <3>1. m \in 0..(parsed - 1) /\ n - 1 \in 0..(parsed - 1) /\ m <= n - 1 /\ m < parsed
      BY <2>5
    <3>2. Slice(m) <= Slice(n - 1) /\ Slice(m) = s
      BY <3>1, <2>4, <2>6 DEF FirstOf
    <3> QED BY <3>2, <2>1, <1>2
  <2>9. ~(m > n)
    <3> SUFFICES ASSUME m > n PROVE FALSE
      OBVIOUS
    <3>1. m - 1 \in 0..(parsed - 1) /\ n \in 0..(parsed - 1) /\ n <= m - 1 /\ m > 0
      BY <2>5
    <3>2. Slice(n) <= Slice(m - 1) /\ s = Slice(m - 1) + 1 /\ Slice(m - 1) \in Nat
      BY <3>1, <2>4, <2>6, <2>7 DEF FirstOf
    <3> QED BY <3>2, <1>2 DEF s
  <2>10. hdr[Slot(o + 1)].at = Ctb(p)
    BY <2>1, <2>4, <2>5, <2>8, <2>9, <1>1
  <2> QED BY <2>1, <2>2, <2>10, <1>1 DEF o
<1> QED BY <1>5, <1>6

\* The top right CTB, when the tile has one.
LEMMA TopRightPlace ==
  ASSUME tileWd \in TileWds, NEW c \in Ctbs
  PROVE  /\ \A d \in Ctbs : X(d) = X(c) + 1 /\ Tile(d) = Tile(c) => (X(c) + 1) % tileWd # 0
         /\ (X(c) + 1) % tileWd # 0 => X(c) + 1 \in 0..(Wd - 1)
<1>1. X(c) \in 0..(Wd - 1) /\ X(c) \in Nat /\ tileWd \in Nat \ {0} /\ Wd \in Nat \ {0} /\ Wd % tileWd = 0
  BY Columns, Sizes, PictureAssumption
<1>2. \A x \in Nat, w \in Nat \ {0} : (x + 1) \div w = x \div w => (x + 1) % w # 0
  <2> SUFFICES ASSUME NEW x \in Nat, NEW w \in Nat \ {0}, (x + 1) \div w = x \div w, (x + 1) % w = 0
               PROVE  FALSE
    OBVIOUS
  <2>1. x + 1 = w * ((x + 1) \div w) + ((x + 1) % w) /\ x = w * (x \div w) + (x % w)
        /\ x % w \in 0..(w - 1)
    OBVIOUS
  <2>2. PICK a \in Int : a = w * (x \div w)
    OBVIOUS
  <2> QED BY <2>1, <2>2
<1>3. ASSUME NEW d \in Ctbs, X(d) = X(c) + 1, Tile(d) = Tile(c) PROVE (X(c) + 1) % tileWd # 0
  <2>1. (X(c) + 1) \div tileWd = X(c) \div tileWd
    BY <1>3, Zenon DEF Tile
  <2> QED BY <2>1, <1>1, <1>2
<1>4. ASSUME (X(c) + 1) % tileWd # 0 PROVE X(c) + 1 \in 0..(Wd - 1)
  <2>1. X(c) + 1 # Wd
    BY <1>1, <1>4
  <2> QED BY <1>1, <2>1
<1> QED BY <1>3, <1>4

\* When the waits are over all the neighbours have gone through the stage.
LEMMA ReadyNeighbours ==
  ASSUME IInv, NEW p \in Procs, Processing(p), ctx[p].at = "check", Ready(p),
         NEW d \in Neighbours(Ctb(p))
  PROVE  stage[d] >= ctx[p].stage
<1> DEFINE c == Ctb(p)
           st == ctx[p].stage
<1>1. /\ st \in 1..4 /\ c \in Ctbs /\ stage \in [Ctbs -> 0..5]
      /\ \A e \in Needs(c) : stage[e] >= st
  BY AtPlace, Facts DEF RowContext, Inter, Sao, LapInv, Complete, Ready
<1>2. ASSUME NEW a \in Ctbs, NEW b \in Ctbs, stage[a] >= st, b \in FilteredWith(a)
      PROVE  stage[b] >= st
  <2>1. NotAhead(a, b)
    BY <1>2, Facts DEF OrderInv, Neighbours
  <2> QED BY <1>1, <1>2, <2>1 DEF NotAhead, Sao
<1>3. /\ d \in Ctbs /\ d # c
      /\ \/ X(d) = X(c) + 1 /\ Y(d) = Y(c) - 1 /\ Tile(d) = Tile(c)
         \/ X(d) = X(c) /\ Y(d) = Y(c) - 1
         \/ X(d) = X(c) - 1 /\ Y(d) = Y(c) - 1
         \/ X(d) = X(c) - 1 /\ Y(d) = Y(c)
  <2>1. /\ X(c) \in Int /\ Y(c) \in Int /\ c = CtbAt(X(c), Y(c)) /\ d \in Ctbs
        /\ d = CtbAt(X(d), Y(d))
    BY <1>1, Columns, Facts DEF Neighbours, FilteredWith
  <2>2. d = c => d \in FilteredWith(c)
    BY <2>1 DEF Neighbours
  <2> QED BY <2>1, <2>2 DEF Neighbours, FilteredWith
<1> DEFINE x == X(c)
           y == Y(c)
<1>4. /\ x \in 0..(Wd - 1) /\ y \in 0..(Ht - 1) /\ c = CtbAt(x, y) /\ x \in Nat /\ y \in Nat
      /\ X(d) \in 0..(Wd - 1) /\ Y(d) \in 0..(Ht - 1) /\ d = CtbAt(X(d), Y(d))
  BY <1>1, <1>3, Columns, Facts
<1>5. /\ CtbAt(x + 1, y - 1) = c - Wd + 1 /\ CtbAt(x, y - 1) = c - Wd
      /\ CtbAt(x - 1, y - 1) = c - Wd - 1 /\ CtbAt(x - 1, y) = c - 1
  <2> HIDE DEF c, x, y
  <2>1. x \in Int /\ y \in Int /\ c = CtbAt(x, y)
    BY <1>4
  <2> QED BY <2>1, Columns, Facts
<1>6. c \in Int /\ Wd \in Int /\ c - 1 - Wd = c - Wd - 1
  BY <1>4, <1>1, Columns, Facts, SMTT(30)
<1>7. \A a, b \in Ctbs : X(b) = X(a) - 1 /\ Y(b) = Y(a) => b \in FilteredWith(a)
  <2>1. \A a \in Ctbs : X(a) \in Int
    BY Columns, Facts
  <2> QED BY <2>1 DEF FilteredWith
<1>8. CASE X(d) = x + 1 /\ Y(d) = y - 1 /\ Tile(d) = Tile(c)
  <2>1. (x + 1) % tileWd # 0
    BY <1>1, <1>3, <1>8, TopRightPlace, Facts
  <2>2. d = TopRight(c)
    BY <2>1, <1>4, <1>5, <1>8 DEF TopRight
  <2> QED BY <2>2, <1>1, <1>3 DEF Needs
<1>9. \A e \in Ctbs : X(e) = x /\ Y(e) = y - 1 => stage[e] >= st
  <2> SUFFICES ASSUME NEW e \in Ctbs, X(e) = x, Y(e) = y - 1 PROVE stage[e] >= st
    OBVIOUS
  <2>1. e = c - Wd /\ y - 1 \in 0..(Ht - 1)
    BY <1>5, Columns, Facts
  <2>2. CASE (x + 1) % tileWd = 0
    <3>1. e = TopRight(c)
      BY <2>1, <2>2 DEF TopRight
    <3> QED BY <3>1, <1>1 DEF Needs
  <2>3. CASE (x + 1) % tileWd # 0
    <3>1. x + 1 \in 0..(Wd - 1)
      BY <1>1, <2>3, TopRightPlace, Facts
    <3> DEFINE a == CtbAt(x + 1, y - 1)
    <3>2. a \in Ctbs /\ X(a) = x + 1 /\ Y(a) = y - 1
      BY <2>1, <3>1, Columns, Facts
    <3>3. a = TopRight(c)
      BY <1>5, <2>3 DEF TopRight
    <3>4. stage[a] >= st
      BY <1>1, <3>2, <3>3 DEF Needs
    <3>5. X(e) = X(a) - 1 /\ Y(e) = Y(a)
      BY <3>2, <1>4
    <3> QED BY <1>2, <1>7, <3>2, <3>4, <3>5
  <2> QED BY <2>2, <2>3
<1>10. CASE X(d) = x - 1 /\ Y(d) = y - 1
  <2>1. CASE tileWd < Wd
    <3>1. d = c - Wd - 1 /\ x > 0
      BY <1>4, <1>5, <1>10
    <3> QED BY <3>1, <2>1, <1>1, <1>3 DEF Needs
  <2>2. CASE ~(tileWd < Wd)
    <3> DEFINE a == CtbAt(x, y - 1)
    <3>1. a \in Ctbs /\ X(a) = x /\ Y(a) = y - 1
      BY <1>4, <1>10, Columns, Facts
    <3>2. stage[a] >= st
      BY <3>1, <1>9
    <3> QED BY <3>1, <3>2, <1>2, <1>3, <1>7, <1>10
  <2> QED BY <2>1, <2>2
<1>11. CASE X(d) = x - 1 /\ Y(d) = y
  <2>1. d = c - 1 /\ x > 0
    BY <1>4, <1>5, <1>11
  <2>2. CASE tileWd < Wd
    BY <2>1, <2>2, <1>1, <1>3 DEF Needs
  <2>3. CASE ~(tileWd < Wd)
    <3>1. /\ ctx[p].row \in TileRows /\ ctx[p].x \in Places /\ c = Cell(ctx[p].row, ctx[p].x)
          /\ ctx[p] \in RowContext
      BY AtPlace
    <3>2. ctx[p].row \div Ht = 0
      <4>1. Tiles = 1
        <5>1. tileWd = Wd /\ Wd = tileWd * Tiles /\ Tiles \in Nat \ {0} /\ tileWd \in Nat \ {0}
          BY <2>3, Sizes, Facts
        <5>2. \A w, t \in Nat \ {0} : w = w * t => t = 1
          OBVIOUS
        <5> QED BY <5>1, <5>2
      <4> QED BY <4>1, <3>1, CellPlace, Facts
    <3>3. x = ctx[p].x
      <4>1. X(Cell(ctx[p].row, ctx[p].x)) = 0 * tileWd + ctx[p].x
        BY <3>1, <3>2, CellPlace, Facts
      <4>2. ctx[p].x \in Nat /\ 0 * tileWd = 0
        BY <3>1, Facts DEF Places
      <4> QED BY <4>1, <4>2, <3>1
    <3>4. ctx[p].x - 1 \in Places /\ d = Cell(ctx[p].row, ctx[p].x - 1)
      <4>1. RowStart(ctx[p].row) \in Int
        BY <3>1, RowStartType, Facts
      <4>2. ctx[p].x \in 0..(tileWd - 1) /\ ctx[p].x > 0 /\ tileWd \in Nat
        <5>1. tileWd \in Nat /\ ctx[p].x \in 0..(tileWd - 1)
          BY <3>1, Facts DEF Places
        <5>2. x > 0
          BY <2>1
        <5> HIDE DEF x
        <5> QED BY <5>1, <5>2, <3>3
      <4>3. ctx[p].x - 1 \in Places
        BY <4>2 DEF Places
      <4>4. c = RowStart(ctx[p].row) + ctx[p].x
        BY <3>1 DEF Cell
      <4>5. c - 1 = RowStart(ctx[p].row) + (ctx[p].x - 1)
        <5> HIDE DEF c
        <5> QED BY <4>1, <4>2, <4>4
      <4> QED BY <4>3, <4>5, <2>1 DEF Cell
    <3>5. stage[d] = StageAt(ctx[p], ctx[p].x - 1)
      BY <3>1, <3>4, Facts DEF RowInv
    <3>6. StageAt(ctx[p], ctx[p].x - 1) >= st
      <4> DEFINE c0 == ctx[p]
      <4>1. c0.first \in Int /\ c0.x \in Int /\ c0.stage \in 1..4 /\ c0.stage = st
        BY <3>1, <1>1, Facts DEF RowContext, Places, Inter, Sao
      <4> HIDE DEF c0
      <4>2. c0.x - 1 < c0.x
        BY <4>1
      <4>3. StageAt(c0, c0.x - 1) = Complete \/ StageAt(c0, c0.x - 1) = c0.stage
        BY <4>2 DEF StageAt
      <4> QED BY <4>1, <4>3 DEF Complete, c0
    <3> QED BY <3>5, <3>6
  <2> QED BY <2>2, <2>3
<1> QED BY <1>3, <1>8, <1>9, <1>10, <1>11

LEMMA BeginStep ==
  ASSUME IInv, NEW p \in Procs, Begin(p)
  PROVE  IInv'
<1> DEFINE next == ctx[p].slice + 1
           isNext == Ctb(p) # 0 /\ hdr[Slot(next)].at = Ctb(p)
           found == IF isNext THEN next ELSE ctx[p].slice
           c == [ctx[p] EXCEPT !.at = "work", !.slice = found]
<1>0. /\ ctx[p].at = "check" /\ Ready(p) /\ Processing(p) /\ ctx[p] \in RowContext
      /\ ctx[p].row \in TileRows /\ ctx[p].x \in Places
      /\ UNCHANGED <<parserVars, taken, stage>>
  <2>1. ctx[p].at = "check" /\ Ready(p) /\ UNCHANGED <<parserVars, taken, stage>>
    BY DEF Begin
  <2>2. Processing(p)
    BY <2>1 DEF Processing, Idle
  <2> QED BY <2>1, <2>2, AtPlace
<1>1. ctx' = [ctx EXCEPT ![p] = c]
  BY DEF Begin
<1>2. found = sliceOf[Ctb(p)] /\ found \in Nat
  <2>1. found = sliceOf[Ctb(p)]
    BY <1>0, NextSlotTells
  <2>2. ctx[p].slice \in Nat
    BY <1>0 DEF RowContext
  <2> QED BY <2>1, <2>2
<1> HIDE DEF found
<1>3. /\ c.at = "work" /\ c.slice = found /\ c.row = ctx[p].row /\ c.first = ctx[p].first
      /\ c.x = ctx[p].x /\ c.num = ctx[p].num /\ c.stage = ctx[p].stage /\ c.saved = ctx[p].saved
      /\ c \in RowContext
  BY <1>0, <1>2 DEF RowContext
<1> HIDE DEF c
<1>4. /\ c.row < taken' /\ taken' \in taken..Len(rowSlice)
      /\ \A q \in Procs \ {p} : Processing(q) => ctx[q].row # c.row
  BY <1>0, <1>3, Facts DEF RowInv
<1>5. /\ c.first <= c.x /\ c.x < c.first + c.num /\ c.first + c.num <= tileWd
      /\ c.saved = SliceBefore(c.row, c.first)
  BY <1>0, <1>3, Facts DEF RowInv, TrackInv
<1>6. \A x \in Places : stage[Cell(c.row, x)] = StageAt(c, x)
  <2>1. \A x \in Places : stage[Cell(ctx[p].row, x)] = StageAt(ctx[p], x)
    BY <1>0, Facts DEF RowInv
  <2>2. \A x \in Places : StageAt(c, x) = StageAt(ctx[p], x)
    BY <1>0, <1>3 DEF StageAt
  <2> QED BY <2>1, <2>2, <1>3
<1>7. /\ Number(c.row, c.x) < parsed /\ c.slice = sliceOf[Cell(c.row, c.x)]
      /\ \A d \in Neighbours(Cell(c.row, c.x)) : stage[d] >= c.stage
  <2>1. Number(ctx[p].row, ctx[p].x) < parsed
    BY <1>0, ReadyParsed, Facts
  <2>2. Ctb(p) = Cell(ctx[p].row, ctx[p].x)
    BY <1>0, AtPlace
  <2>3. \A d \in Neighbours(Ctb(p)) : stage[d] >= ctx[p].stage
    BY <1>0, ReadyNeighbours
  <2> QED BY <2>1, <2>2, <2>3, <1>2, <1>3
<1> QED BY <1>0, <1>1, <1>3, <1>4, <1>5, <1>6, <1>7, ContextFrame, ZenonT(60)

\* Steps that take the CTB of a process through a stage.
LEMMA StageFrame ==
  ASSUME IInv, UNCHANGED <<parserVars, taken>>, NEW p \in Procs, Processing(p),
         ctx[p].at # "check", NEW c \in RowContext \union {Idle}, NEW v \in 0..Complete,
         stage' = [stage EXCEPT ![Ctb(p)] = v], ctx' = [ctx EXCEPT ![p] = c],
         v >= stage[Ctb(p)],
         \A d \in Neighbours(Ctb(p)) : stage[d] >= v \/ stage[d] >= Sao,
         c # Idle =>
           /\ c.row = ctx[p].row
           /\ c.first <= c.x /\ c.x < c.first + c.num /\ c.first + c.num <= tileWd
           /\ c.at = "complete" => c.stage = Sao
           /\ \A x \in Places : stage'[Cell(c.row, x)] = StageAt(c, x)
           /\ c.saved = SliceBefore(c.row, c.first)
           /\ c.at = "check" => c.slice = SliceBefore(c.row, c.x)
           /\ c.at # "check" => c.x = ctx[p].x /\ c.slice = ctx[p].slice
           /\ c.at # "work"
  PROVE  IInv'
<1> USE DEF parserVars
<1> DEFINE C == Ctb(p)
<1>0. /\ ctx[p] \in RowContext /\ ctx[p].row \in TileRows /\ ctx[p].x \in Places
      /\ C = Cell(ctx[p].row, ctx[p].x) /\ C \in Ctbs /\ stage \in [Ctbs -> 0..Complete]
      /\ ctx[p].row < taken /\ stage[C] # Complete
  BY AtPlace, Facts, SMTT(30) DEF LapInv, RowContext, Inter, Sao, Complete
<1>1. ParserInv' /\ SliceInv' /\ HeaderInv'
  BY ProcessFrame
<1>2. /\ stage' \in [Ctbs -> 0..Complete] /\ stage'[C] = v
      /\ \A d \in Ctbs : d # C => stage'[d] = stage[d]
      /\ \A d \in Ctbs : stage'[d] >= stage[d]
  BY <1>0, Facts DEF Complete
<1>3. /\ ctx'[p] = c /\ \A q \in Procs \ {p} : ctx'[q] = ctx[q]
      /\ ctx' \in [Procs -> RowContext \union {Idle}]
  BY Facts DEF RowInv
<1>4. /\ TileRows' = TileRows /\ Places' = Places /\ RowContext' = RowContext
      /\ \A k, x : Cell(k, x)' = Cell(k, x) /\ Number(k, x)' = Number(k, x)
      /\ \A d : Neighbours(d)' = Neighbours(d)
      /\ \A k, x : SliceBefore(k, x)' = SliceBefore(k, x)
      /\ \A n : Slice(n)' = Slice(n) /\ NthCtb(n)' = NthCtb(n)
      /\ \A s : Lap(s)' = Lap(s)
  BY SamePicture, SameRing DEF RowContext, SliceBefore, Slice
<1>5. /\ Processing(p)' <=> c # Idle
      /\ \A q \in Procs \ {p} : Processing(q)' <=> Processing(q)
  BY <1>3 DEF Processing
<1>6. /\ \A q \in Procs \ {p} : Ctb(q)' = Ctb(q)
      /\ c # Idle /\ c.at # "check" => Ctb(p)' = C
  BY <1>3 DEF Ctb, RowStart, CtbAt
<1>7. LapInv'
  <2>1. \A n \in 0..(parsed - 1) : n \in Numbers
    <3>1. Wd * Ht \in Nat /\ parsed \in 0..(Wd * Ht)
      BY Facts, TileRowsSize DEF ParserInv
    <3> QED BY <3>1 DEF Numbers
  <2>2. \A n \in Numbers : NthCtb(n) \in Ctbs
    BY NumberPlace, Facts
  <2>3. ASSUME NEW n \in Numbers, n >= parsed PROVE NthCtb(n) # C
    <3>1. Number(ctx[p].row, ctx[p].x) \in Numbers /\ Number(ctx[p].row, ctx[p].x) < parsed
          /\ NthCtb(Number(ctx[p].row, ctx[p].x)) = C
      BY <1>0, CellPlace, Facts DEF TrackInv
    <3>2. \A m \in Numbers : m \in Nat
      BY DEF Numbers
    <3>3. n # Number(ctx[p].row, ctx[p].x)
      BY <3>1, <3>2, <2>3, Facts
    <3> QED BY <3>1, <3>3, NumbersDiffer, Facts
  <2>4. \A n \in 0..(parsed - 1) : stage'[NthCtb(n)] # Complete => Lap(Slice(n)) = Lap(curSlice)
    <3>1. \A n \in 0..(parsed - 1) : stage[NthCtb(n)] # Complete => Lap(Slice(n)) = Lap(curSlice)
      BY Facts DEF LapInv
    <3>2. ASSUME NEW n \in 0..(parsed - 1), stage'[NthCtb(n)] # Complete
          PROVE  stage[NthCtb(n)] # Complete
      BY <3>2, <2>1, <2>2, <1>0, <1>2
    <3> QED BY <3>1, <3>2
  <2>5. \A n \in Numbers : n >= parsed => stage'[NthCtb(n)] = 0
    <3>1. \A n \in Numbers : n >= parsed => stage[NthCtb(n)] = 0
      BY Facts DEF LapInv
    <3> QED BY <3>1, <2>2, <2>3, <1>2
  <2>6. \A n : Lap(Slice(n))' = Lap(Slice(n)) /\ Lap(curSlice)' = Lap(curSlice)
    BY <1>4 DEF Lap, Ring
  <2> QED BY <1>2, <1>4, <2>4, <2>5, <2>6 DEF LapInv
<1>8. ASSUME NEW k \in TileRows, k # ctx[p].row, NEW x \in Places
      PROVE  stage'[Cell(k, x)] = stage[Cell(k, x)]
  <2>1. Cell(k, x) \in Ctbs /\ Cell(k, x) # C
    <3>1. \A m \in TileRows, y \in Places : Cell(k, x) = Cell(m, y) => k = m
      BY CellsDiffer, Facts
    <3>2. Cell(k, x) \in Ctbs
      BY CellPlace, Facts
    <3> QED BY <3>1, <3>2, <1>0, <1>8
  <2> QED BY <2>1, <1>2
<1>9. RowInv'
  <2>1. ASSUME NEW q \in Procs, Processing(q)'
        PROVE  /\ ctx'[q].row < taken
               /\ ctx'[q].first <= ctx'[q].x /\ ctx'[q].x < ctx'[q].first + ctx'[q].num
               /\ ctx'[q].first + ctx'[q].num <= tileWd
               /\ ctx'[q].at = "complete" => ctx'[q].stage = Sao
               /\ \A x \in Places : stage'[Cell(ctx'[q].row, x)] = StageAt(ctx'[q], x)
    <3>1. CASE q = p
      BY <3>1, <2>1, <1>0, <1>3, <1>5
    <3>2. CASE q # p
      <4>1. ctx'[q] = ctx[q] /\ Processing(q)
        BY <3>2, <2>1, <1>3, <1>5
      <4>2. ctx[q].row \in TileRows /\ ctx[q].row # ctx[p].row /\ ctx[q].row < taken
        BY <4>1, <3>2, AtPlace, Facts DEF RowInv
      <4>3. \A x \in Places : stage'[Cell(ctx[q].row, x)] = StageAt(ctx[q], x)
        BY <4>1, <4>2, <1>8, Facts DEF RowInv
      <4> QED BY <4>1, <4>2, <4>3, Facts DEF RowInv
    <3> QED BY <3>1, <3>2
  <2>2. \A q, r \in Procs : Processing(q)' /\ Processing(r)' /\ q # r => ctx'[q].row # ctx'[r].row
    BY <1>3, <1>5, Facts DEF RowInv
  <2>3. ASSUME NEW k \in TileRows, NEW x \in Places, k >= taken PROVE stage'[Cell(k, x)] = 0
    <3>1. k # ctx[p].row
      BY <2>3, <1>0, AtPlace, Facts
    <3> QED BY <3>1, <2>3, <1>8, Facts DEF RowInv
  <2>4. taken \in 0..Len(rowSlice)
    BY Facts
  <2> QED BY <1>3, <1>4, <2>1, <2>2, <2>3, <2>4 DEF RowInv, StageAt
<1>10. TrackInv'
  <2>1. ASSUME NEW q \in Procs, Processing(q)'
        PROVE  /\ ctx'[q].saved = SliceBefore(ctx'[q].row, ctx'[q].first)
               /\ ctx'[q].at = "check" => ctx'[q].slice = SliceBefore(ctx'[q].row, ctx'[q].x)
               /\ ctx'[q].at # "check" => /\ Number(ctx'[q].row, ctx'[q].x) < parsed
                                          /\ ctx'[q].slice = sliceOf[Ctb(q)']
    <3>1. CASE q = p
      <4>1. c # Idle
        BY <3>1, <2>1, <1>5
      <4>2. Number(ctx[p].row, ctx[p].x) < parsed /\ ctx[p].slice = sliceOf[C]
        BY Facts DEF TrackInv
      <4> QED BY <3>1, <4>1, <4>2, <1>3, <1>6
    <3>2. CASE q # p
      <4>1. ctx'[q] = ctx[q] /\ Processing(q) /\ Ctb(q)' = Ctb(q)
        BY <3>2, <2>1, <1>3, <1>5, <1>6
      <4> QED BY <4>1, Facts DEF TrackInv
    <3> QED BY <3>1, <3>2
  <2> QED BY <1>4, <2>1 DEF TrackInv, SliceBefore
<1>11. OrderInv'
  <2>0. \A d \in Ctbs : stage[d] \in Int /\ stage'[d] \in Int
    BY <1>0, <1>2 DEF Complete
  <2>1. \A a \in Ctbs : \A b \in Neighbours(a) : NotAhead(a, b)
    BY Facts DEF OrderInv
  <2>2. \A a, b \in Ctbs : X(b) = X(a) /\ Y(b) <= Y(a) => NotAhead(a, b)
    BY Facts DEF OrderInv
  <2>3. \A a : \A b \in Neighbours(a) : b \in Ctbs
    BY DEF Neighbours, FilteredWith
  <2>4. C \notin Neighbours(C)
    <3>1. X(C) \in Int
      BY <1>0, Columns, Facts
    <3>2. X(C) # X(C) + 1
      BY <3>1
    <3> QED BY <3>2 DEF Neighbours, FilteredWith
  <2>5. ASSUME NEW a \in Ctbs, NEW b \in Neighbours(a)
        PROVE  stage'[b] >= stage'[a] \/ stage'[b] >= Sao
    <3>1. CASE a = C
      <4>1. b # C /\ b \in Ctbs /\ stage'[b] = stage[b]
        BY <3>1, <2>3, <2>4, <2>5, <1>2
      <4> QED BY <3>1, <4>1, <2>5, <1>2
    <3>2. CASE a # C
      <4>1. b \in Ctbs /\ stage'[a] = stage[a] /\ stage'[b] >= stage[b]
        BY <3>2, <2>3, <2>5, <1>2
      <4>2. stage[b] >= stage[a] \/ stage[b] >= Sao
        BY <2>1, <2>5 DEF NotAhead
      <4> QED BY <4>1, <4>2, <2>0 DEF Sao
    <3> QED BY <3>1, <3>2
  <2>6. ASSUME NEW a \in Ctbs, NEW b \in Ctbs, X(b) = X(a), Y(b) <= Y(a)
        PROVE  stage'[b] >= stage'[a] \/ stage'[b] >= Sao
    <3>1. CASE a = C /\ b = C
      BY <3>1, <2>0
    <3>2. CASE a = C /\ b # C
      <4>1. /\ X(C) \in 0..(Wd - 1) /\ Y(C) \in 0..(Ht - 1) /\ C = CtbAt(X(C), Y(C))
            /\ Y(b) \in 0..(Ht - 1) /\ b = CtbAt(X(b), Y(b))
        BY <1>0, Columns, Facts
      <4>2. Y(b) # Y(C)
        BY <4>1, <3>2, <2>6
      <4>3. Y(C) - 1 \in 0..(Ht - 1) /\ Y(b) <= Y(C) - 1
        BY <4>1, <4>2, <3>2, <2>6, Facts
      <4> DEFINE e == CtbAt(X(C), Y(C) - 1)
      <4>4. e \in Ctbs /\ X(e) = X(C) /\ Y(e) = Y(C) - 1
        BY <4>1, <4>3, Columns, Facts
      <4>5. e # C
        BY <4>1, <4>4
      <4>6. e \in Neighbours(C)
        BY <4>4, <4>5 DEF Neighbours, FilteredWith
      <4>7. stage[e] >= v \/ stage[e] >= Sao
        BY <4>6
      <4>8. stage[b] >= stage[e] \/ stage[b] >= Sao
        BY <4>3, <4>4, <3>2, <2>2, <2>6 DEF NotAhead
      <4>9. stage'[b] = stage[b] /\ stage'[a] = v /\ v \in Int
        BY <3>2, <1>2
      <4> QED BY <4>4, <4>7, <4>8, <4>9, <2>0 DEF Sao
    <3>3. CASE a # C
      <4>1. stage'[a] = stage[a] /\ stage'[b] >= stage[b]
        BY <3>3, <1>2
      <4>2. stage[b] >= stage[a] \/ stage[b] >= Sao
        BY <2>2, <2>6 DEF NotAhead
      <4> QED BY <4>1, <4>2, <2>0 DEF Sao
    <3> QED BY <3>1, <3>2, <3>3
  <2>7. ASSUME NEW q \in Procs, Works(q)', NEW d \in Neighbours(Ctb(q)') PROVE stage'[d] >= ctx'[q].stage
    <3>1. q # p
      BY <2>7, <1>3 DEF Works, Idle
    <3>2. ctx'[q] = ctx[q] /\ Ctb(q)' = Ctb(q) /\ Works(q) /\ d \in Ctbs
      BY <3>1, <2>3, <2>7, <1>3, <1>6 DEF Works
    <3>3. stage[d] >= ctx[q].stage
      BY <3>2, <2>7, Facts DEF OrderInv
    <3>4. ctx[q].stage \in Int
      <4>1. Processing(q)
        BY <3>2 DEF Works, Processing, Idle
      <4> QED BY <4>1, AtPlace DEF RowContext, Inter, Sao
    <3> QED BY <3>2, <3>3, <3>4, <2>0, <1>2
  <2>8. \A q \in Procs : Neighbours(Ctb(q))' = Neighbours(Ctb(q)')
    BY <1>4 DEF Neighbours, FilteredWith, Tile
  <2> QED BY <1>4, <2>5, <2>6, <2>7, <2>8 DEF OrderInv, NotAhead
<1> QED BY <1>1, <1>7, <1>9, <1>10, <1>11 DEF IInv

\* How far a row has come when a CTB has gone through a stage, and the next place.
StageDone(c, x) == IF x # c.x THEN StageAt(c, x) ELSE IF c.stage = Sao THEN Complete ELSE c.stage

LEMMA AdvancedRow ==
  ASSUME tileWd \in TileWds, NEW c \in RowContext,
         c.first <= c.x, c.x < c.first + c.num, c.first + c.num <= tileWd,
         \/ c.at = "work" /\ c.stage < Sao
         \/ c.at = "complete" /\ c.stage = Sao,
         Advanced(c) # Idle
  PROVE  LET a == Advanced(c)
         IN /\ a \in RowContext /\ a.row = c.row /\ a.at = "check"
            /\ a.first <= a.x /\ a.x < a.first + a.num /\ a.first + a.num <= tileWd
            /\ \A x \in Places : StageAt(a, x) = StageDone(c, x)
            /\ \/ a.first = c.first /\ a.saved = c.saved
               \/ a.first = c.x + 1 /\ a.saved = c.slice
            /\ \/ a.x = c.x + 1 /\ a.slice = c.slice
               \/ a.x = c.first /\ a.slice = c.saved
<1>1. /\ tileWd \in Nat \ {0} /\ c.first \in 0..(tileWd - 1) /\ c.x \in 0..(tileWd - 1)
      /\ c.num \in 1..tileWd /\ c.stage \in 1..4 /\ c.slice \in Nat /\ c.saved \in Nat
      /\ c.row \in TileRows
  BY Sizes DEF RowContext, Places, Inter, Sao
<1> DEFINE a == Advanced(c)
<1>2. CASE c.x + 1 < c.first + c.num
  <2>1. a = [c EXCEPT !.at = "check", !.x = @ + 1]
    BY <1>2 DEF Advanced
  <2>2. /\ a.at = "check" /\ a.row = c.row /\ a.first = c.first /\ a.x = c.x + 1
        /\ a.num = c.num /\ a.stage = c.stage /\ a.slice = c.slice /\ a.saved = c.saved
        /\ a \in RowContext
    <3>1. c.x + 1 \in Places
      BY <1>1, <1>2 DEF Places
    <3> QED BY <2>1, <3>1 DEF RowContext
  <2> HIDE DEF a
  <2>3. \A x \in Places : StageAt(a, x) = StageDone(c, x)
    BY <2>2, <1>1, <1>2 DEF StageAt, StageDone, Places, Complete, Sao
  <2> QED BY <2>2, <2>3, <1>1, <1>2 DEF a
<1>3. CASE ~(c.x + 1 < c.first + c.num) /\ c.stage < Sao
  <2>1. a = [c EXCEPT !.at = "check", !.stage = @ + 1, !.x = c.first, !.slice = c.saved]
    BY <1>3 DEF Advanced, NextStage
  <2>2. /\ a.at = "check" /\ a.row = c.row /\ a.first = c.first /\ a.x = c.first
        /\ a.num = c.num /\ a.stage = c.stage + 1 /\ a.slice = c.saved /\ a.saved = c.saved
        /\ a \in RowContext
    <3>1. c.stage + 1 \in Inter..Sao
      BY <1>1, <1>3 DEF Inter, Sao
    <3> QED BY <2>1, <3>1 DEF RowContext
  <2> HIDE DEF a
  <2>3. \A x \in Places : StageAt(a, x) = StageDone(c, x)
    BY <2>2, <1>1, <1>3 DEF StageAt, StageDone, Places, Complete, Sao
  <2> QED BY <2>2, <2>3, <1>1, <1>3 DEF a
<1>4. CASE ~(c.x + 1 < c.first + c.num) /\ ~(c.stage < Sao)
  <2>0. c.stage = Sao /\ c.at = "complete" /\ c.x + 1 = c.first + c.num
    BY <1>1, <1>4 DEF Sao
  <2>1. /\ c.x + 1 # tileWd
        /\ a = [c EXCEPT !.at = "check", !.stage = Inter, !.x = @ + 1, !.first = c.x + 1,
                         !.num = Clipped(@, tileWd - (c.x + 1)), !.saved = c.slice]
    BY <1>4 DEF Advanced, NextChunk
  <2>2. /\ Clipped(c.num, tileWd - (c.x + 1)) \in 1..tileWd
        /\ Clipped(c.num, tileWd - (c.x + 1)) <= tileWd - (c.x + 1)
    BY <2>1, <1>1 DEF Clipped
  <2>3. /\ a.at = "check" /\ a.row = c.row /\ a.first = c.x + 1 /\ a.x = c.x + 1
        /\ a.num = Clipped(c.num, tileWd - (c.x + 1)) /\ a.stage = Inter
        /\ a.slice = c.slice /\ a.saved = c.slice /\ a \in RowContext
    <3>1. c.x + 1 \in Places /\ Inter \in Inter..Sao
      BY <2>1, <1>1 DEF Places, Inter, Sao
    <3> DEFINE n == Clipped(c.num, tileWd - (c.x + 1))
    <3>2. n \in 1..tileWd
      BY <2>2
    <3> HIDE DEF n
    <3>3. a = [c EXCEPT !.at = "check", !.stage = Inter, !.x = @ + 1, !.first = c.x + 1,
                        !.num = n, !.saved = c.slice]
      BY <2>1 DEF n
    <3>4. /\ a.at = "check" /\ a.row = c.row /\ a.first = c.x + 1 /\ a.x = c.x + 1
          /\ a.num = n /\ a.stage = Inter
          /\ a.slice = c.slice /\ a.saved = c.slice /\ a \in RowContext
      BY <3>1, <3>2, <3>3, <1>1, ZenonT(60) DEF RowContext
    <3> QED BY <3>4 DEF n
  <2> HIDE DEF a
  <2>4. \A x \in Places : StageAt(a, x) = StageDone(c, x)
    BY <2>0, <2>2, <2>3, <1>1 DEF StageAt, StageDone, Places, Complete, Sao, Inter
  <2> QED BY <2>2, <2>3, <2>4, <1>1 DEF a
<1> QED BY <1>2, <1>3, <1>4

\* The steps after which a process goes on to another place.
LEMMA AdvanceKeeps ==
  ASSUME IInv, UNCHANGED <<parserVars, taken>>, NEW p \in Procs,
         \/ ctx[p].at = "work" /\ ctx[p].stage < Sao
         \/ ctx[p].at = "complete" /\ ctx[p].stage = Sao,
         stage' = [stage EXCEPT ![Ctb(p)] = IF ctx[p].stage = Sao THEN Complete ELSE ctx[p].stage],
         ctx' = [ctx EXCEPT ![p] = Advanced(ctx[p])]
  PROVE  IInv'
<1> DEFINE c == ctx[p]
           a == Advanced(c)
           v == IF c.stage = Sao THEN Complete ELSE c.stage
<1>1. Processing(p) /\ c.at # "check"
  BY DEF Processing, Idle
<1>2. /\ c \in RowContext /\ c.row \in TileRows /\ c.x \in Places /\ c.stage \in 1..4
      /\ Ctb(p) = Cell(c.row, c.x) /\ Ctb(p) \in Ctbs
      /\ stage[Ctb(p)] = IF c.at = "complete" THEN Sao ELSE c.stage - 1
  BY <1>1, AtPlace DEF RowContext, Inter, Sao
<1>3. v \in 0..Complete /\ v >= stage[Ctb(p)]
  BY <1>2 DEF Complete, Sao
<1>4. \A d \in Neighbours(Ctb(p)) : stage[d] >= v \/ stage[d] >= Sao
  <2>1. CASE c.at = "work"
    <3>1. v = c.stage
      BY <2>1, <1>2 DEF Sao
    <3> QED BY <2>1, <3>1, Facts DEF OrderInv, Works
  <2>2. CASE c.at = "complete"
    <3>1. stage[Ctb(p)] = Sao
      BY <2>2, <1>2
    <3>2. \A d \in Neighbours(Ctb(p)) : NotAhead(Ctb(p), d)
      BY <1>2, Facts DEF OrderInv
    <3> QED BY <3>1, <3>2 DEF NotAhead
  <2> QED BY <2>1, <2>2
<1>5. c.first <= c.x /\ c.x < c.first + c.num /\ c.first + c.num <= tileWd
  BY <1>1, Facts DEF RowInv
<1>6. a \in RowContext \union {Idle}
  BY <1>2, <1>5, AdvancedRow, Facts
<1>7. ASSUME a # Idle
      PROVE  /\ a.row = c.row
             /\ a.first <= a.x /\ a.x < a.first + a.num /\ a.first + a.num <= tileWd
             /\ a.at = "check"
             /\ \A x \in Places : stage'[Cell(a.row, x)] = StageAt(a, x)
             /\ a.saved = SliceBefore(a.row, a.first)
             /\ a.slice = SliceBefore(a.row, a.x)
  <2>1. /\ a \in RowContext /\ a.row = c.row /\ a.at = "check"
        /\ a.first <= a.x /\ a.x < a.first + a.num /\ a.first + a.num <= tileWd
        /\ \A x \in Places : StageAt(a, x) = StageDone(c, x)
        /\ \/ a.first = c.first /\ a.saved = c.saved
           \/ a.first = c.x + 1 /\ a.saved = c.slice
        /\ \/ a.x = c.x + 1 /\ a.slice = c.slice
           \/ a.x = c.first /\ a.slice = c.saved
    BY <1>2, <1>5, <1>7, AdvancedRow, Facts
  <2> HIDE DEF a
  <2>2. ASSUME NEW x \in Places PROVE stage'[Cell(c.row, x)] = StageDone(c, x)
    <3>1. stage[Cell(c.row, x)] = StageAt(c, x) /\ Cell(c.row, x) \in Ctbs
      BY <1>1, <1>2, CellPlace, Facts DEF RowInv
    <3>2. x # c.x => Cell(c.row, x) # Ctb(p)
      BY <1>2, CellsDiffer, Facts
    <3>3. stage \in [Ctbs -> 0..Complete]
      BY Facts DEF LapInv
    <3> QED BY <3>1, <3>2, <3>3, <1>2 DEF StageDone
  <2>3. /\ c.saved = SliceBefore(c.row, c.first)
        /\ c.slice = sliceOf[Cell(c.row, c.x)]
    BY <1>1, <1>2, Facts DEF TrackInv
  <2>4. SliceBefore(c.row, c.x + 1) = c.slice
    <3>1. c.x + 1 # 0 /\ (c.x + 1) - 1 = c.x
      BY <1>2, Facts DEF Places
    <3> QED BY <3>1, <2>3 DEF SliceBefore
  <2> QED BY <2>1, <2>2, <2>3, <2>4
<1> HIDE DEF a, v
<1>8. stage' = [stage EXCEPT ![Ctb(p)] = v] /\ ctx' = [ctx EXCEPT ![p] = a]
  BY DEF a, v
<1> QED BY <1>1, <1>3, <1>4, <1>6, <1>7, <1>8, StageFrame

LEMMA FinishStep ==
  ASSUME IInv, NEW p \in Procs, Finish(p)
  PROVE  IInv'
<1>0. /\ ctx[p].at = "work" /\ UNCHANGED <<parserVars, taken>>
      /\ stage' = [stage EXCEPT ![Ctb(p)] = ctx[p].stage]
  BY DEF Finish
<1>1. /\ Processing(p) /\ ctx[p] \in RowContext /\ ctx[p].stage \in 1..4
      /\ ctx[p].row \in TileRows /\ ctx[p].x \in Places
  <2>1. Processing(p)
    BY <1>0 DEF Processing, Idle
  <2> QED BY <2>1, AtPlace DEF RowContext, Inter, Sao
<1>2. CASE ctx[p].stage # Sao
  <2>1. ctx[p].stage < Sao
    BY <1>1, <1>2 DEF Sao
  <2>2. ctx' = [ctx EXCEPT ![p] = Advanced(ctx[p])]
    BY <1>2 DEF Finish
  <2>3. stage' = [stage EXCEPT ![Ctb(p)] = IF ctx[p].stage = Sao THEN Complete ELSE ctx[p].stage]
    BY <1>0, <1>2
  <2> QED BY <1>0, <2>1, <2>2, <2>3, AdvanceKeeps
<1>3. CASE ctx[p].stage = Sao
  <2> DEFINE c == [ctx[p] EXCEPT !.at = "complete"]
  <2>1. ctx' = [ctx EXCEPT ![p] = c]
    BY <1>3 DEF Finish
  <2>2. /\ c \in RowContext /\ c.at = "complete" /\ c.row = ctx[p].row /\ c.first = ctx[p].first
        /\ c.x = ctx[p].x /\ c.num = ctx[p].num /\ c.stage = Sao
        /\ c.slice = ctx[p].slice /\ c.saved = ctx[p].saved
    BY <1>1, <1>3 DEF RowContext
  <2> HIDE DEF c
  <2>3. /\ ctx[p].first <= ctx[p].x /\ ctx[p].x < ctx[p].first + ctx[p].num
        /\ ctx[p].first + ctx[p].num <= tileWd
        /\ \A x \in Places : stage[Cell(ctx[p].row, x)] = StageAt(ctx[p], x)
        /\ ctx[p].saved = SliceBefore(ctx[p].row, ctx[p].first)
    BY <1>1, Facts DEF RowInv, TrackInv
  <2>4. /\ Ctb(p) = Cell(ctx[p].row, ctx[p].x) /\ stage[Ctb(p)] = Sao - 1
        /\ \A d \in Neighbours(Ctb(p)) : stage[d] >= Sao
        /\ stage \in [Ctbs -> 0..Complete]
    BY <1>0, <1>1, <1>3, AtPlace, Facts DEF OrderInv, Works, LapInv
  <2>5. ASSUME NEW x \in Places PROVE stage'[Cell(ctx[p].row, x)] = StageAt(c, x)
    <3>1. Cell(ctx[p].row, x) \in Ctbs
      BY <1>1, CellPlace, Facts
    <3>2. x # ctx[p].x => Cell(ctx[p].row, x) # Ctb(p)
      BY <1>1, <2>4, CellsDiffer, Facts
    <3>3. CASE x = ctx[p].x
      <4>1. stage'[Cell(ctx[p].row, x)] = Sao
        BY <3>1, <3>3, <2>4, <1>0, <1>3
      <4>2. StageAt(c, x) = Sao
        <5>1. ~(x < c.first) /\ ~(x < c.x) /\ x = c.x /\ c.at = "complete"
          <6>1. x \in Int /\ ctx[p].first \in Int
            BY <1>1, Facts DEF Places, RowContext
          <6> QED BY <6>1, <2>2, <2>3, <3>3
        <5> QED BY <5>1, Zenon DEF StageAt
      <4> QED BY <4>1, <4>2
    <3>4. CASE x # ctx[p].x
      <4>1. stage'[Cell(ctx[p].row, x)] = StageAt(ctx[p], x)
        BY <3>1, <3>2, <3>4, <2>3, <2>4, <1>0
      <4>2. StageAt(c, x) = StageAt(ctx[p], x)
        BY <2>2, <3>4, <1>0, <1>3 DEF StageAt
      <4> QED BY <4>1, <4>2
    <3> QED BY <3>3, <3>4
  <2>6. Sao \in 0..Complete /\ Sao >= stage[Ctb(p)]
    BY <2>4 DEF Sao, Complete
  <2>7. ctx[p].at # "check" /\ stage' = [stage EXCEPT ![Ctb(p)] = Sao]
    BY <1>0, <1>3
  <2>8. c # Idle =>
          /\ c.row = ctx[p].row
          /\ c.first <= c.x /\ c.x < c.first + c.num /\ c.first + c.num <= tileWd
          /\ c.at = "complete" => c.stage = Sao
          /\ \A x \in Places : stage'[Cell(c.row, x)] = StageAt(c, x)
          /\ c.saved = SliceBefore(c.row, c.first)
          /\ c.at = "check" => c.slice = SliceBefore(c.row, c.x)
          /\ c.at # "check" => c.x = ctx[p].x /\ c.slice = ctx[p].slice
          /\ c.at # "work"
    BY <2>2, <2>3, <2>5
  <2>9. /\ UNCHANGED <<parserVars, taken>> /\ Processing(p) /\ c \in RowContext \union {Idle}
        /\ \A d \in Neighbours(Ctb(p)) : stage[d] >= Sao \/ stage[d] >= Sao
    BY <1>0, <1>1, <2>2, <2>4
  <2> QED BY <2>1, <2>6, <2>7, <2>8, <2>9, StageFrame, Zenon
<1> QED BY <1>2, <1>3

LEMMA CompleteCtbStep ==
  ASSUME IInv, NEW p \in Procs, CompleteCtb(p)
  PROVE  IInv'
<1>1. /\ ctx[p].at = "complete" /\ UNCHANGED <<parserVars, taken>>
      /\ stage' = [stage EXCEPT ![Ctb(p)] = Complete]
      /\ ctx' = [ctx EXCEPT ![p] = Advanced(ctx[p])]
  BY DEF CompleteCtb
<1>2. ctx[p].stage = Sao
  BY <1>1, Facts DEF RowInv, Processing, Idle
<1> QED BY <1>1, <1>2, AdvanceKeeps

-----------------------------------------------------------------------------
(* The theorems.                                                               *)

LEMMA NextKeeps == IInv /\ [Next]_vars => IInv'
<1> SUFFICES ASSUME IInv, [Next]_vars PROVE IInv'
  OBVIOUS
<1>1. CASE NextPicture
  BY <1>1, NextPictureStep
<1>2. CASE Parse
  <2>1. CASE SliceHeader
    BY <2>1, SliceHeaderStep
  <2>2. CASE QueueRow
    BY <2>2, QueueRowStep
  <2>3. CASE ParseCtb
    BY <2>3, ParseCtbStep
  <2>4. CASE SliceEnd
    BY <2>4, SliceEndStep
  <2>5. CASE ParserSpin
    BY <2>5, Unchanged DEF ParserSpin
  <2> QED BY <1>2, <2>1, <2>2, <2>3, <2>4, <2>5 DEF Parse
<1>3. ASSUME NEW p \in Procs, Process(p) PROVE IInv'
  <2>1. CASE TakeRow(p)
    BY <2>1, TakeRowStep
  <2>2. CASE Spin(p)
    BY <2>2, Unchanged DEF Spin
  <2>3. CASE Begin(p)
    BY <2>3, BeginStep
  <2>4. CASE Finish(p)
    BY <2>4, FinishStep
  <2>5. CASE CompleteCtb(p)
    BY <2>5, CompleteCtbStep
  <2> QED BY <1>3, <2>1, <2>2, <2>3, <2>4, <2>5 DEF Process
<1>4. CASE UNCHANGED vars
  BY <1>4, Unchanged
<1> QED BY <1>1, <1>2, <1>3, <1>4 DEF Next

LEMMA Invariant == Spec => []IInv
BY InitKeeps, NextKeeps, PTL DEF Spec

\* The CTBs parsed are those with a number below parsed.
LEMMA ParsedNumber ==
  ASSUME IInv, NEW c \in ParsedCtbs
  PROVE  \E n \in 0..(parsed - 1) : c = NthCtb(n)
BY DEF ParsedCtbs

\* A slice's header stays in its slot of the ring until the last of the slice's CTBs is
\* processed: the wait at the end of ihevcd_parse_slice_data suffices, whatever the
\* size of the ring.
THEOREM RingKeepsHeaders == Spec => []HeaderKept
<1>1. IInv => HeaderKept
  <2> SUFFICES ASSUME IInv, NEW c \in ParsedCtbs, stage[c] < Complete
               PROVE  hdr[Slot(sliceOf[c])].slice = sliceOf[c]
    BY DEF HeaderKept
  <2>1. PICK n \in 0..(parsed - 1) : c = NthCtb(n)
    BY ParsedNumber
  <2>2. stage[NthCtb(n)] # Complete
    BY <2>1 DEF Complete
  <2> QED BY <2>1, <2>2, HeaderThere DEF Slice
<1> QED BY <1>1, Invariant, PTL

\* Every stage of a CTB uses the header of the CTB's own slice: looking at the next slot
\* only, as ihevcd_slice_hdr_update does, finds the first CTB of every slice.
THEOREM OwnHeaderUsed == Spec => []SliceHeaderRight
<1>1. IInv => SliceHeaderRight
  BY Facts DEF SliceHeaderRight, TrackInv, Works, Processing, Idle
<1> QED BY <1>1, Invariant, PTL

\* No stage of a CTB starts before its neighbours have gone through that stage, with and
\* without tiles and for every length of the chunks: what ihevcd_proc_map_check looks
\* at is enough.
THEOREM WavefrontHolds == Spec => []NeighboursFirst
<1>1. IInv => NeighboursFirst
  BY Facts DEF NeighboursFirst, OrderInv
<1> QED BY <1>1, Invariant, PTL

\* A row of CTBs that is complete has the final samples of the rows above with it: the
\* format conversion may look at that row alone.
THEOREM ConversionSafe == Spec => []RowsAboveFinal
<1>1. IInv => RowsAboveFinal
  <2> SUFFICES ASSUME IInv, NEW y \in 0..(Ht - 1),
                      \A x \in 0..(Wd - 1) : stage[CtbAt(x, y)] = Complete,
                      NEW c \in Ctbs, Y(c) <= y
               PROVE  stage[c] >= Sao
    BY DEF RowsAboveFinal
  <2>1. X(c) \in 0..(Wd - 1)
    BY Columns, Facts
  <2>2. /\ CtbAt(X(c), y) \in Ctbs /\ X(CtbAt(X(c), y)) = X(c) /\ Y(CtbAt(X(c), y)) = y
        /\ stage[CtbAt(X(c), y)] = Complete
    BY <2>1, Columns, Facts
  <2>3. NotAhead(CtbAt(X(c), y), c)
    BY <2>2, Facts DEF OrderInv
  <2>4. stage[c] \in Int
    BY Facts DEF LapInv, Complete
  <2> QED BY <2>2, <2>3, <2>4 DEF NotAhead, Complete, Sao
<1> QED BY <1>1, Invariant, PTL

-----------------------------------------------------------------------------
(* Type correctness: the bound on the slices.  A slice that does not end inside *)
(* a tile ends with one, so that at most one slice for each tile still to come  *)
(* is added to those that MaxSlices leaves room for.                            *)

\* The tiles from that of a CTB on.
TilesFrom(c) == Tiles - Tile(c)

BoundInv ==
  /\ \A c \in Ctbs : sliceOf[c] < MaxSlices
  /\ parser = "header" => curSlice + TilesFrom(NextCtb) <= MaxSlices
  /\ parser # "header" => curSlice + TilesFrom(SliceFirst) <= MaxSlices
  /\ parser = "sliceEnd" => curSlice + 1 + TilesFrom(NextCtb) <= MaxSlices

\* CTBs are parsed tile after tile.
LEMMA TileOf ==
  ASSUME tileWd \in TileWds, NEW n \in Numbers
  PROVE  /\ Tile(NthCtb(n)) = (n \div tileWd) \div Ht
         /\ Tile(NthCtb(n)) \in 0..(Tiles - 1) /\ TilesFrom(NthCtb(n)) \in 1..Tiles
<1> DEFINE k == n \div tileWd
<1>1. k \in TileRows /\ n % tileWd \in Places /\ NthCtb(n) = Cell(k, n % tileWd)
  BY NumberPlace
<1>2. Tile(NthCtb(n)) = k \div Ht /\ k \div Ht \in 0..(Tiles - 1)
  BY <1>1, CellPlace
<1> QED BY <1>2, Sizes DEF TilesFrom

LEMMA QuotientsGrow ==
  ASSUME NEW w \in Nat \ {0}, NEW a \in Nat, NEW b \in Nat, a <= b
  PROVE  a \div w <= b \div w /\ a \div w \in Nat /\ b \div w \in Nat
OBVIOUS

LEMMA TilesInOrder ==
  ASSUME tileWd \in TileWds, NEW m \in Numbers, NEW n \in Numbers, m <= n
  PROVE  Tile(NthCtb(m)) <= Tile(NthCtb(n))
<1>1. m \in Nat /\ n \in Nat /\ tileWd \in Nat \ {0} /\ Ht \in Nat \ {0}
  BY Sizes DEF Numbers
<1>2. /\ m \div tileWd <= n \div tileWd
      /\ m \div tileWd \in Nat /\ n \div tileWd \in Nat
  BY <1>1, QuotientsGrow
<1>3. (m \div tileWd) \div Ht <= (n \div tileWd) \div Ht
  BY <1>1, <1>2, QuotientsGrow
<1> QED BY <1>3, TileOf

\* After the last CTB of a tile comes the first of the next.
LEMMA TileAfter ==
  ASSUME tileWd \in TileWds, NEW n \in Numbers, n + 1 \in Numbers, TileEnd(NthCtb(n))
  PROVE  Tile(NthCtb(n + 1)) = Tile(NthCtb(n)) + 1
<1> DEFINE k == n \div tileWd
           x == n % tileWd
           t == k \div Ht
<1>1. /\ k \in TileRows /\ x \in Places /\ NthCtb(n) = Cell(k, x) /\ n = k * tileWd + x
      /\ tileWd \in Nat \ {0} /\ Ht \in Nat \ {0}
  BY NumberPlace, Sizes DEF Number
<1>2. /\ X(NthCtb(n)) = t * tileWd + x /\ Y(NthCtb(n)) = k % Ht
      /\ t \in Nat /\ k \in Nat /\ k = Ht * t + (k % Ht)
  <2>1. TileRows \subseteq Nat
    BY TileRowsSize
  <2> HIDE DEF k, x
  <2>2. /\ X(Cell(k, x)) = t * tileWd + x /\ Y(Cell(k, x)) = k % Ht
        /\ t \in 0..(Tiles - 1) /\ k = Ht * t + (k % Ht)
    BY <1>1, CellPlace
  <2>3. k \in Nat
    BY <1>1, <2>1
  <2> QED BY <1>1, <2>2, <2>3
<1>3. k % Ht = Ht - 1 /\ (t * tileWd + x + 1) % tileWd = 0
  BY <1>2 DEF TileEnd
<1> HIDE DEF k, x, t
<1>4. x = tileWd - 1
  <2>1. ASSUME x + 1 < tileWd PROVE FALSE
    <3>1. x + 1 \in 0..(tileWd - 1)
      BY <1>1, <2>1 DEF Places
    <3>2. (t * tileWd + (x + 1)) % tileWd = x + 1
      <4>1. t + 1 \in Nat \ {0} /\ t \in 0..((t + 1) - 1)
        BY <1>2
      <4> QED BY <3>1, <4>1, <1>1, Composed
    <3>3. t * tileWd + (x + 1) = t * tileWd + x + 1
      <4>1. t * tileWd \in Int /\ x \in Int
        BY <1>1, <1>2 DEF Places
      <4> QED BY <4>1
    <3> QED BY <3>2, <3>3, <1>3, <1>1 DEF Places
  <2> QED BY <1>1, <2>1 DEF Places
<1>5. (n + 1) \div tileWd = k + 1
  <2>1. n + 1 = (k + 1) * tileWd + 0
    <3>1. \A a, w \in Int : (a + 1) * w = a * w + w
      OBVIOUS
    <3>2. k * tileWd \in Int /\ (k + 1) * tileWd = k * tileWd + tileWd
      BY <3>1, <1>1, <1>2
    <3> QED BY <3>2, <1>1, <1>4
  <2>2. k + 2 \in Nat \ {0} /\ k + 1 \in 0..((k + 2) - 1) /\ 0 \in 0..(tileWd - 1)
    BY <1>1, <1>2
  <2> QED BY <2>1, <2>2, <1>1, Composed
<1>6. (k + 1) \div Ht = t + 1
  <2>1. k + 1 = (t + 1) * Ht + 0
    <3>1. \A a, w \in Int : (a + 1) * w = w * a + w
      OBVIOUS
    <3>2. Ht * t \in Int /\ (t + 1) * Ht = Ht * t + Ht
      BY <3>1, <1>1, <1>2
    <3>3. k + 1 = Ht * t + (Ht - 1) + 1
      BY <1>2, <1>3
    <3> QED BY <3>2, <3>3, <1>1
  <2>2. t + 2 \in Nat \ {0} /\ t + 1 \in 0..((t + 2) - 1) /\ 0 \in 0..(Ht - 1)
    BY <1>1, <1>2
  <2> QED BY <2>1, <2>2, <1>1, Composed
<1>7. Tile(NthCtb(n)) = t
  BY TileOf DEF t, k
<1> QED BY <1>5, <1>6, <1>7, TileOf

\* The first CTB of the slice that is parsed.
LEMMA SliceFirstPlace ==
  ASSUME IInv, parser # "header"
  PROVE  \E m \in Numbers : m <= parsed /\ SliceFirst = NthCtb(m)
<1>1. curSlice \in Nat /\ Written(curSlice) /\ Lap(curSlice) = Lap(curSlice)
  BY Facts DEF ParserInv, Written
<1>2. hdr[Slot(curSlice)].slice = curSlice /\ Slot(curSlice) \in 0..(Ring - 1)
  BY <1>1, Facts DEF HeaderInv, Slot
<1>3. hdr[Slot(curSlice)] # NoHeader
  BY <1>1, <1>2 DEF NoHeader, NoCtb
<1>4. PICK m \in Numbers \cap (0..parsed) : hdr[Slot(curSlice)].at = NthCtb(m)
  BY <1>2, <1>3, HeaderFirst
<1> QED BY <1>4 DEF SliceFirst

LEMMA CurBound ==
  ASSUME IInv, BoundInv
  PROVE  curSlice < MaxSlices
<1>1. curSlice \in Nat /\ MaxSlices \in Nat /\ Tiles \in Nat
  BY Facts, Sizes, RingAssumption DEF ParserInv
<1>2. CASE parser = "header"
  <2>1. TilesFrom(NextCtb) \in 1..Tiles
    BY <1>2, NextCtbPlace, TileOf, Facts
  <2> QED BY <1>1, <1>2, <2>1 DEF BoundInv
<1>3. CASE parser # "header"
  <2>1. PICK m \in Numbers : m <= parsed /\ SliceFirst = NthCtb(m)
    BY <1>3, SliceFirstPlace
  <2>2. TilesFrom(SliceFirst) \in 1..Tiles
    BY <2>1, TileOf, Facts
  <2> QED BY <1>1, <1>3, <2>2 DEF BoundInv
<1> QED BY <1>2, <1>3

\* At the beginning of a picture.
LEMMA FreshBound ==
  ASSUME Fresh
  PROVE  BoundInv
<1>1. /\ tileWd \in TileWds /\ parser = "header" /\ curSlice = 0 /\ parsed = 0
      /\ sliceOf = [c \in Ctbs |-> NoCtb]
  BY DEF Fresh
<1>2. Tiles <= Wd /\ Tiles \in Nat /\ MaxSlices \in Nat /\ MaxSlices >= Wd /\ Wd \in Nat \ {0}
  <2>1. \A a, b \in Nat \ {0} : b <= a * b
    OBVIOUS
  <2>2. Tiles \in Nat \ {0} /\ tileWd \in Nat \ {0} /\ Wd = tileWd * Tiles
    BY <1>1, Sizes
  <2>3. Tiles <= tileWd * Tiles
    BY <2>1, <2>2
  <2> QED BY <2>2, <2>3, <1>1, Sizes, RingAssumption
<1>3. TilesFrom(NextCtb) \in 1..Tiles
  BY <1>1, FirstNumber, TileOf DEF NextCtb
<1>4. curSlice + TilesFrom(NextCtb) <= MaxSlices
  BY <1>1, <1>2, <1>3
<1>5. \A c \in Ctbs : sliceOf[c] < MaxSlices
  BY <1>1, <1>2 DEF NoCtb
<1> QED BY <1>1, <1>4, <1>5 DEF BoundInv

LEMMA FreshBoundNext == Fresh' => BoundInv'
BY FreshBound, PTL

LEMMA InitBound == Init => BoundInv
<1> SUFFICES ASSUME Init PROVE Fresh
  BY FreshBound
<1>1. PICK r \in Rings : hdr = [s \in 0..(r - 1) |-> NoHeader]
  BY DEF Init
<1>2. r \in Nat /\ DOMAIN hdr = 0..(r - 1)
  BY <1>1, RingAssumption
<1>3. Ring = r
  BY <1>2, FS_Interval DEF Ring
<1> QED BY <1>1, <1>3 DEF Init, Fresh

\* Steps of the same picture that leave the parser's part alone.
LEMMA SameBound ==
  ASSUME BoundInv, UNCHANGED parserVars
  PROVE  BoundInv'
<1>1. UNCHANGED <<tileWd, hdr, curSlice, parsed, sliceOf, parser>>
  BY DEF parserVars
<1>2. /\ SliceFirst' = SliceFirst /\ NextCtb' = NextCtb
      /\ \A c : TilesFrom(c)' = TilesFrom(c)
  BY <1>1 DEF SliceFirst, Slot, Ring, NextCtb, NthCtb, RowStart, CtbAt, TilesFrom, Tiles, Tile
<1>3. TilesFrom(SliceFirst)' = TilesFrom(SliceFirst) /\ TilesFrom(NextCtb)' = TilesFrom(NextCtb)
  BY <1>1, <1>2 DEF TilesFrom, Tiles, Tile
<1> QED BY <1>1, <1>3 DEF BoundInv

LEMMA SliceHeaderBound ==
  ASSUME IInv, BoundInv, SliceHeader
  PROVE  BoundInv'
<1>1. /\ parser = "header" /\ parser' = "row"
      /\ hdr' = [hdr EXCEPT ![Slot(curSlice)] = [at |-> NextCtb, slice |-> curSlice]]
      /\ UNCHANGED <<tileWd, curSlice, sliceOf>>
  BY DEF SliceHeader
<1>2. Slot(curSlice) \in 0..(Ring - 1) /\ DOMAIN hdr = 0..(Ring - 1)
  BY Facts DEF Slot, ParserInv
<1>3. Slot(curSlice)' = Slot(curSlice)
  BY <1>1, SameRing
<1>4. SliceFirst' = NextCtb
  BY <1>1, <1>2, <1>3 DEF SliceFirst
<1>5. TilesFrom(SliceFirst)' = TilesFrom(NextCtb)
  BY <1>1, <1>4 DEF TilesFrom, Tiles, Tile
<1> QED BY <1>1, <1>5 DEF BoundInv

LEMMA QueueRowBound ==
  ASSUME BoundInv, QueueRow
  PROVE  BoundInv'
<1>1. /\ parser = "row" /\ parser' = "ctb"
      /\ UNCHANGED <<tileWd, hdr, curSlice, sliceOf>>
  BY DEF QueueRow
<1>2. TilesFrom(SliceFirst)' = TilesFrom(SliceFirst)
  BY <1>1 DEF SliceFirst, Slot, Ring, TilesFrom, Tiles, Tile
<1> QED BY <1>1, <1>2 DEF BoundInv

LEMMA ParseCtbBound ==
  ASSUME IInv, BoundInv, ParseCtb
  PROVE  BoundInv'
<1>1. /\ parser = "ctb" /\ parsed' = parsed + 1 /\ parser' \in {"done", "row", "sliceEnd"}
      /\ sliceOf' = [sliceOf EXCEPT ![NextCtb] = curSlice]
      /\ UNCHANGED <<tileWd, hdr, curSlice>>
      /\ parser' = "sliceEnd" => parsed + 1 < Wd * Ht /\ MayEnd(NextCtb)
  BY DEF ParseCtb
<1>2. \A c \in Ctbs : sliceOf'[c] < MaxSlices
  <2>1. sliceOf \in [Ctbs -> Nat \union {NoCtb}] /\ curSlice < MaxSlices
    BY CurBound, Facts DEF ParserInv
  <2> QED BY <1>1, <2>1 DEF BoundInv
<1>3. SliceFirst' = SliceFirst /\ TilesFrom(SliceFirst)' = TilesFrom(SliceFirst)
  BY <1>1 DEF SliceFirst, Slot, Ring, TilesFrom, Tiles, Tile
<1>4. curSlice + TilesFrom(SliceFirst) <= MaxSlices
  BY <1>1 DEF BoundInv
<1>5. ASSUME parser' = "sliceEnd" PROVE curSlice + 1 + TilesFrom(NextCtb)' <= MaxSlices
  <2>1. parsed \in Numbers /\ parsed + 1 \in Numbers /\ NextCtb = NthCtb(parsed)
    <3>1. parsed \in Numbers /\ NextCtb = NthCtb(parsed) /\ Wd * Ht \in Nat
      BY <1>1, NextCtbPlace, TileRowsSize, Facts
    <3> QED BY <3>1, <1>1, <1>5 DEF Numbers
  <2>2. TilesFrom(NextCtb)' = TilesFrom(NthCtb(parsed + 1))
    <3>1. NextCtb' = NthCtb(parsed + 1)
      BY <1>1 DEF NextCtb, NthCtb, RowStart, CtbAt
    <3> QED BY <3>1, <1>1 DEF TilesFrom, Tiles, Tile
  <2>3. PICK m \in Numbers : m <= parsed /\ SliceFirst = NthCtb(m)
    BY <1>1, SliceFirstPlace
  <2>4. /\ Tile(SliceFirst) \in 0..(Tiles - 1) /\ Tile(NextCtb) \in 0..(Tiles - 1)
        /\ Tile(SliceFirst) <= Tile(NextCtb)
        /\ Tile(NthCtb(parsed + 1)) \in 0..(Tiles - 1)
    BY <2>1, <2>3, TileOf, TilesInOrder, Facts
  <2>5. curSlice \in Nat /\ MaxSlices \in Nat /\ Tiles \in Nat
    BY Facts, Sizes, RingAssumption DEF ParserInv
  <2>6. CASE TileEnd(NextCtb)
    <3>1. Tile(NthCtb(parsed + 1)) = Tile(NextCtb) + 1
      BY <2>1, <2>6, TileAfter, Facts
    <3> QED BY <3>1, <2>2, <2>4, <2>5, <1>4 DEF TilesFrom
  <2>7. CASE curSlice + Tiles < MaxSlices
    BY <2>7, <2>2, <2>4, <2>5 DEF TilesFrom
  <2> QED BY <1>1, <1>5, <2>6, <2>7 DEF MayEnd, Tiles
<1> QED BY <1>1, <1>2, <1>3, <1>4, <1>5 DEF BoundInv

LEMMA SliceEndBound ==
  ASSUME IInv, BoundInv, SliceEnd
  PROVE  BoundInv'
<1>1. /\ parser = "sliceEnd" /\ parser' = "header" /\ curSlice' = curSlice + 1
      /\ UNCHANGED <<tileWd, parsed, sliceOf>>
  BY DEF SliceEnd
<1>2. TilesFrom(NextCtb)' = TilesFrom(NextCtb)
  BY <1>1 DEF NextCtb, NthCtb, RowStart, CtbAt, TilesFrom, Tiles, Tile
<1> QED BY <1>1, <1>2 DEF BoundInv

LEMMA NextBound == IInv /\ BoundInv /\ [Next]_vars => BoundInv'
<1> SUFFICES ASSUME IInv, BoundInv, [Next]_vars PROVE BoundInv'
  OBVIOUS
<1>1. CASE NextPicture
  <2>1. ctx = [p \in Procs |-> Idle]
    BY <1>1, Facts DEF NextPicture, PictureDone, RowInv
  <2>2. hdr' = [s \in 0..(Ring - 1) |-> NoHeader] /\ Ring' = Ring
    BY <1>1, SameRing, Facts DEF NextPicture, ParserInv
  <2> QED BY <1>1, <2>1, <2>2, FreshBoundNext, Facts DEF NextPicture, Fresh, ParserInv
<1>2. CASE Parse
  <2>1. CASE SliceHeader
    BY <2>1, SliceHeaderBound
  <2>2. CASE QueueRow
    BY <2>2, QueueRowBound
  <2>3. CASE ParseCtb
    BY <2>3, ParseCtbBound
  <2>4. CASE SliceEnd
    BY <2>4, SliceEndBound
  <2>5. CASE ParserSpin
    BY <2>5, SameBound DEF ParserSpin, vars, parserVars
  <2> QED BY <1>2, <2>1, <2>2, <2>3, <2>4, <2>5 DEF Parse
<1>3. ASSUME NEW p \in Procs, Process(p) PROVE UNCHANGED parserVars
  BY <1>3 DEF Process, TakeRow, Spin, Begin, Finish, CompleteCtb, vars, parserVars
<1>4. CASE UNCHANGED vars
  BY <1>4, SameBound DEF vars, parserVars
<1> QED BY <1>1, <1>2, <1>3, <1>4, SameBound DEF Next

LEMMA Bounded == Spec => [](IInv /\ BoundInv)
BY InitKeeps, NextKeeps, InitBound, NextBound, PTL DEF Spec

LEMMA SeqOfElements ==
  ASSUME NEW S, NEW T, NEW s \in Seq(S), \A k \in 1..Len(s) : s[k] \in T
  PROVE  s \in Seq(T)
<1>1. Len(s) \in Nat /\ s \in [1..Len(s) -> S]
  OBVIOUS
<1>2. s \in [1..Len(s) -> T]
  BY <1>1
<1>3. \A n \in Nat : [1..n -> T] \subseteq Seq(T)
  OBVIOUS
<1> QED BY <1>1, <1>2, <1>3

\* Every slice index that is kept anywhere is one of a slice of the picture.
LEMMA IndicesBounded ==
  ASSUME IInv, BoundInv
  PROVE  /\ curSlice \in 0..(MaxSlices - 1)
         /\ sliceOf \in [Ctbs -> -1..(MaxSlices - 1)]
         /\ hdr \in [0..(Ring - 1) -> [at : Ctbs \union {NoCtb}, slice : -1..(MaxSlices - 1)]]
         /\ rowSlice \in Seq(0..(MaxSlices - 1))
<1>1. curSlice \in Nat /\ curSlice < MaxSlices /\ MaxSlices \in Nat /\ parsed \in Nat
  BY CurBound, Facts, RingAssumption DEF ParserInv
<1>2. \A c \in Ctbs : sliceOf[c] \in -1..(MaxSlices - 1)
  <2>1. \A c \in Ctbs : sliceOf[c] \in Nat \union {NoCtb}
    BY Facts DEF ParserInv
  <2>2. \A c \in Ctbs : sliceOf[c] < MaxSlices
    BY DEF BoundInv
  <2> QED BY <1>1, <2>1, <2>2 DEF NoCtb
<1>3. \A n \in 0..(parsed - 1) : Slice(n) \in 0..(MaxSlices - 1)
  BY <1>1, Facts DEF SliceInv
<1>4. ASSUME NEW j \in 0..(Ring - 1)
      PROVE  hdr[j] \in [at : Ctbs \union {NoCtb}, slice : -1..(MaxSlices - 1)]
  <2>1. hdr[j] \in Headers
    BY Facts DEF ParserInv
  <2>2. CASE hdr[j] = NoHeader
    <3>1. hdr[j].slice = -1
      BY <2>2 DEF NoHeader, NoCtb
    <3> QED BY <2>1, <3>1, <1>1 DEF Headers
  <2>3. CASE hdr[j] # NoHeader
    <3>1. hdr[j].slice \in Nat
      BY <2>3, HeaderFirst
    <3>2. PICK m \in Numbers \cap (0..parsed) : FirstOf(hdr[j].slice, m)
      BY <2>3, HeaderFirst
    <3>3. hdr[j].slice <= curSlice
      <4>1. CASE m < parsed
        BY <4>1, <3>2, <1>1, Facts, SMTT(30) DEF FirstOf, SliceInv
      <4>2. CASE m = parsed
        BY <4>2, <3>2, <1>1 DEF FirstOf
      <4> QED BY <4>1, <4>2, <3>2, <1>1
    <3> QED BY <2>1, <3>1, <3>3, <1>1 DEF Headers
  <2> QED BY <2>2, <2>3
<1>5. ASSUME NEW k \in 1..Len(rowSlice) PROVE rowSlice[k] \in 0..(MaxSlices - 1)
  <2> DEFINE n == tileWd * (k - 1)
  <2>1. n \in Nat
    <3>1. \A a, b \in Nat : a * b \in Nat
      OBVIOUS
    <3> QED BY <3>1, Facts
  <2>2. CASE n < parsed
    <3>1. rowSlice[k] = Slice(n) /\ n \in 0..(parsed - 1)
      BY <2>1, <2>2, <1>1, Facts DEF SliceInv
    <3> QED BY <3>1, <1>3
  <2>3. CASE n >= parsed
    BY <2>3, <1>1, Facts DEF SliceInv
  <2> HIDE DEF n
  <2> QED BY <2>1, <2>2, <2>3, <1>1
<1>6. rowSlice \in Seq(Nat) /\ Len(rowSlice) \in Nat
  BY Facts DEF ParserInv
<1>7. sliceOf \in [Ctbs -> Nat \union {NoCtb}] /\ hdr \in [0..(Ring - 1) -> Headers]
  BY Facts DEF ParserInv
<1>8. rowSlice \in Seq(0..(MaxSlices - 1))
  BY <1>5, <1>6, SeqOfElements
<1> QED BY <1>1, <1>2, <1>4, <1>7, <1>8

LEMMA ContextsBounded ==
  ASSUME IInv, BoundInv, NEW p \in Procs, Processing(p)
  PROVE  ctx[p] \in Context
<1>1. ctx[p] \in RowContext /\ ctx[p].row \in TileRows /\ ctx[p].row \in Nat
      /\ ctx[p].row < Len(rowSlice)
  BY AtPlace, Facts
<1>2. \A y \in {ctx[p].first, ctx[p].x} : SliceBefore(ctx[p].row, y) < MaxSlices
  <2> SUFFICES ASSUME NEW y \in {ctx[p].first, ctx[p].x}
               PROVE  SliceBefore(ctx[p].row, y) < MaxSlices
    OBVIOUS
  <2>1. CASE y = 0
    <3>1. ctx[p].row + 1 \in 1..Len(rowSlice)
      BY <1>1, Facts, SMTT(30)
    <3>2. rowSlice \in Seq(0..(MaxSlices - 1))
      BY IndicesBounded
    <3>3. rowSlice[ctx[p].row + 1] \in 0..(MaxSlices - 1)
      <4>1. \A S : \A s \in Seq(S) : \A i \in 1..Len(s) : s[i] \in S
        OBVIOUS
      <4> QED BY <3>1, <3>2, <4>1, Zenon
    <3>4. MaxSlices \in Nat
      BY RingAssumption
    <3> QED BY <2>1, <3>3, <3>4 DEF SliceBefore
  <2>2. CASE y # 0
    <3>1. y - 1 \in Places
      BY <2>2, BeforeParsed
    <3>2. Cell(ctx[p].row, y - 1) \in Ctbs
      BY <3>1, <1>1, CellPlace, Facts
    <3> QED BY <2>2, <3>2 DEF SliceBefore, BoundInv
  <2> QED BY <2>1, <2>2
<1>3. ctx[p].saved < MaxSlices
  BY <1>2, Facts DEF TrackInv
<1>4. ctx[p].slice < MaxSlices
  <2>1. CASE ctx[p].at = "check"
    BY <2>1, <1>2, Facts DEF TrackInv
  <2>2. CASE ctx[p].at # "check"
    BY <2>2, AtPlace, Facts DEF TrackInv, BoundInv
  <2> QED BY <2>1, <2>2
<1>5. ctx[p].saved \in 0..(MaxSlices - 1) /\ ctx[p].slice \in 0..(MaxSlices - 1)
  BY <1>1, <1>3, <1>4, RingAssumption DEF RowContext
<1> QED BY <1>1, <1>5 DEF RowContext, Context, Places

\* Every variable keeps its type: no context leaves its tile row, and the slices never
\* exceed the number the picture has room for.
THEOREM TypeCorrect == Spec => []TypeOK
<1>1. IInv /\ BoundInv => TypeOK
  <2> SUFFICES ASSUME IInv, BoundInv PROVE TypeOK
    OBVIOUS
  <2>1. /\ tileWd \in TileWds /\ Ring \in Rings /\ parsed \in 0..(Wd * Ht)
        /\ parser \in {"header", "row", "ctb", "sliceEnd", "done"}
        /\ taken \in 0..Len(rowSlice) /\ stage \in [Ctbs -> 0..Complete]
    BY Facts DEF ParserInv, RowInv, LapInv
  <2>2. ctx \in [Procs -> Context \union {Idle}]
    <3>1. ctx \in [Procs -> RowContext \union {Idle}]
      BY Facts DEF RowInv
    <3>2. \A p \in Procs : ctx[p] \in Context \union {Idle}
      BY ContextsBounded DEF Processing
    <3> QED BY <3>1, <3>2
  <2> QED BY <2>1, <2>2, IndicesBounded DEF TypeOK
<1> QED BY <1>1, Bounded, PTL
-----------------------------------------------------------------------------
(* Where the ring has room for the slices of a picture, as it has below level 6, *)
(* no slot is used twice in a picture, and the headers of neighbours stay too.    *)

FewSlices == \A r \in Rings : MaxSlices <= r

\* All the slices of the picture are in the first lap of the ring.
LEMMA OneLap ==
  ASSUME IInv, BoundInv, FewSlices, NEW s \in 0..curSlice
  PROVE  Lap(s) = Lap(curSlice)
<1>1. curSlice \in Nat /\ curSlice < Ring /\ Ring \in Nat \ {0}
  <2>1. Ring \in Rings /\ Ring \in Nat \ {0} /\ MaxSlices <= Ring
    <3>1. Ring \in Rings
      BY Facts DEF ParserInv
    <3> HIDE DEF Ring
    <3> QED BY <3>1, RingAssumption DEF FewSlices
  <2>2. curSlice \in Nat /\ MaxSlices \in Nat
    BY Facts, RingAssumption DEF ParserInv
  <2> QED BY <2>1, <2>2, CurBound
<1>2. \A r \in Nat \ {0} : \A i \in 0..(r - 1) : i \div r = 0
  OBVIOUS
<1>3. s \in 0..(Ring - 1) /\ curSlice \in 0..(Ring - 1)
  BY <1>1
<1> HIDE DEF Ring
<1> QED BY <1>1, <1>2, <1>3 DEF Lap

\* The header of every slice that has a CTB parsed is in its slot.
LEMMA AllHeadersThere ==
  ASSUME IInv, BoundInv, FewSlices, NEW n \in 0..(parsed - 1)
  PROVE  hdr[Slot(Slice(n))].slice = Slice(n)
<1>1. Slice(n) \in 0..curSlice /\ curSlice \in Nat /\ parsed \in Nat
  BY Facts DEF SliceInv, ParserInv
<1>2. Written(Slice(n)) /\ Slice(n) \in Nat
  BY <1>1, ParsedWritten
<1> QED BY <1>1, <1>2, OneLap, Facts DEF HeaderInv

\* Every CTB has its number in parsing order.
LEMMA CtbNumber ==
  ASSUME tileWd \in TileWds, NEW c \in Ctbs
  PROVE  \E n \in Numbers : c = NthCtb(n)
<1> DEFINE t == X(c) \div tileWd
           u == X(c) % tileWd
           k == t * Ht + Y(c)
<1>1. X(c) \in 0..(Wd - 1) /\ Y(c) \in 0..(Ht - 1) /\ c = CtbAt(X(c), Y(c))
  BY Columns
<1>2. u \in Places /\ t \in 0..(Tiles - 1) /\ X(c) = tileWd * t + u
  <2>1. X(c) \in 0..(Tiles * tileWd - 1)
    <3>1. \A a, b \in Nat : a * b = b * a
      OBVIOUS
    <3> QED BY <1>1, <3>1, Sizes
  <2> QED BY <2>1, Sizes, Divided DEF Places
<1>3. k \in TileRows /\ k \div Ht = t /\ k % Ht = Y(c)
  <2>1. Tiles \in Nat \ {0} /\ Ht \in Nat \ {0}
    BY Sizes
  <2> HIDE DEF t
  <2>2. /\ (t * Ht + Y(c)) % Ht = Y(c) /\ (t * Ht + Y(c)) \div Ht = t
        /\ t * Ht + Y(c) \in 0..(Tiles * Ht - 1)
    BY <1>1, <1>2, <2>1, Composed, Zenon
  <2> QED BY <2>2, TileRowsSize, Zenon
<1> HIDE DEF k
<1>4. /\ X(Cell(k, u)) = t * tileWd + u /\ Y(Cell(k, u)) = Y(c) /\ Cell(k, u) \in Ctbs
      /\ Number(k, u) \in Numbers /\ NthCtb(Number(k, u)) = Cell(k, u)
  BY <1>2, <1>3, CellPlace
<1>5. X(Cell(k, u)) = X(c)
  <2> HIDE DEF t, u
  <2>1. t \in Nat /\ tileWd \in Nat
    BY <1>2, Sizes
  <2> QED BY <1>2, <1>4, <2>1
<1>6. Cell(k, u) = CtbAt(X(c), Y(c))
  BY <1>4, <1>5, Columns
<1> QED BY <1>1, <1>4, <1>6

\* A CTB a filter looks at is parsed: it has gone through the stage itself.
LEMMA FilteredParsed ==
  ASSUME IInv, NEW p \in Procs, Works(p), NEW d \in FilteredWith(Ctb(p))
  PROVE  \E n \in 0..(parsed - 1) : d = NthCtb(n)
<1>1. d \in Ctbs /\ d \in Neighbours(Ctb(p))
  BY DEF FilteredWith, Neighbours
<1>2. ctx[p] \in RowContext
  BY AtPlace DEF Works, Processing, Idle
<1>3. stage[d] >= ctx[p].stage
  BY <1>1, Facts DEF OrderInv
<1>4. stage[d] # 0
  BY <1>2, <1>3 DEF RowContext, Inter, Sao
<1>5. PICK n \in Numbers : d = NthCtb(n)
  BY <1>1, CtbNumber, Facts
<1>6. ~(n >= parsed)
  <2>1. n >= parsed => stage[NthCtb(n)] = 0
    BY Facts DEF LapInv
  <2> QED BY <1>4, <1>5, <2>1
<1>7. n \in Nat /\ parsed \in Nat
  BY Facts DEF Numbers
<1>8. n \in 0..(parsed - 1)
  BY <1>6, <1>7
<1> QED BY <1>5, <1>8

\* With room in the ring for all the slices of a picture, deblocking and SAO find the
\* headers of all the neighbours they look at: what goes wrong with more slices is the
\* reuse of a slot alone, never the order of the stages.
THEOREM NeighbourHeadersKept == FewSlices => (Spec => []NeighbourHeaderKept)
<1>0. SUFFICES ASSUME FewSlices PROVE Spec => []NeighbourHeaderKept
  OBVIOUS
<1>1. IInv /\ BoundInv => NeighbourHeaderKept
  <2> SUFFICES ASSUME IInv, BoundInv, NEW p \in Procs, Works(p),
                      NEW d \in FilteredWith(Ctb(p))
               PROVE  hdr[Slot(sliceOf[d])].slice = sliceOf[d]
    BY DEF NeighbourHeaderKept
  <2>1. PICK n \in 0..(parsed - 1) : d = NthCtb(n)
    BY FilteredParsed
  <2> QED BY <1>0, <2>1, AllHeadersThere DEF Slice
<1> QED BY <1>0, <1>1, Bounded, PTL
=============================================================================
