-------------------------- MODULE EncWavefront_proofs --------------------------
(***************************************************************************)
(* Proofs about EncWavefront for every picture size, reach of the vectors, *)
(* number of frames and of threads: rows of CTBs are coded and filtered in *)
(* order, and ME reads only final samples of the reference frame.          *)
(***************************************************************************)
EXTENDS EncWavefront, FiniteSetTheorems, TLAPS

-----------------------------------------------------------------------------
(* Types.                                                                  *)

AheadPlaces == {"meGate", "meInit"}
MePlaces == {"meTake", "meDep", "meRef", "search", "meSet", "encGate", "encInit"}
CodePlaces == {"meWait", "top", "bottom", "rowEnd"}
DonePlaces == {"publish", "lastPlanes", "publishLast"}
RowPlaces == CodePlaces \cup {"dblk", "sao", "planes"} \cup DonePlaces
Places == AheadPlaces \cup MePlaces \cup {"encTake", "end"} \cup RowPlaces

Context == [at : Places, f : FrameSet, r : RowSet, x : ColSet, cu : 0 .. 3, split : BOOLEAN,
            step : {"begin", "register", "sleep", "post", "clear", "end"}]

TypeInv ==
  /\ ctx \in [Threads -> Context]
  /\ units \in [SleepManagers \cup SpinManagers -> [RowSet -> Nat]]
  /\ nextMe \in [FrameSet -> 0 .. Rows]
  /\ nextEnc \in [FrameSet -> 0 .. Rows]
  /\ meFrame \in 0 .. Frames
  /\ encFrame \in 0 .. Frames
  /\ meEncFree \in Nat
  /\ encLeft \in [FrameSet -> Nat]
  /\ planes \in [FrameSet -> SUBSET RowSet]

-----------------------------------------------------------------------------
(* The inductive invariant.                                                *)

(* A thread that has left the encode loop of a frame.                      *)
Over(c, f) == c.f > f \/ c.at = "end"

(* The only buffer keeps the threads together: all are in the frame whose  *)
(* ME was set up last, but for those that have left its encode loop and    *)
(* wait for the ME of the next one.                                        *)
Standing(c) ==
  /\ c.at \in AheadPlaces => c.f = meFrame \/ c.f = meFrame + 1
  /\ c.at \notin AheadPlaces => c.f = meFrame
  /\ c.at \in RowPlaces \cup {"encTake"} => c.f = encFrame
  /\ c.at = "end" => c.f = Frames
  /\ c.step \in {"register", "sleep"} => c.at \in CheckPlaces

FrameInv ==
  /\ \A t \in Threads : Standing(ctx[t])
  /\ encFrame <= meFrame
  /\ meEncFree = IF \A t \in Threads : Over(ctx[t], meFrame) THEN 1 ELSE 0
  /\ \A f \in FrameSet : encLeft[f] = Cardinality({t \in Threads : Over(ctx[t], f)})

(* A row of the encode loop is in the hands of one thread, and then its    *)
(* samples and planes are complete, but for the last lines.                *)
Holds(c, f, r) == c.at \in RowPlaces /\ c.f = f /\ c.r = r

RowDone(f, r) == /\ DoneRow(r) >= 0 => DoneRow(r) \in planes[f]
                 /\ r = LastRow => r \in planes[f]

PlanesMade(c) ==
  /\ c.at \in DonePlaces => DoneRow(c.r) \in planes[c.f]
  /\ c.at = "publishLast" => c.r \in planes[c.f]

RowInv ==
  /\ \A t \in Threads : PlanesMade(ctx[t])
  /\ \A t \in Threads : ctx[t].at \in RowPlaces => ctx[t].r < nextEnc[ctx[t].f]
  /\ \A t, u \in Threads : ctx[t].at \in RowPlaces /\ Holds(ctx[u], ctx[t].f, ctx[t].r) => t = u
  /\ \A f \in FrameSet, r \in RowSet :
       r < nextEnc[f] => RowDone(f, r) \/ \E t \in Threads : Holds(ctx[t], f, r)
  /\ \A f \in FrameSet, t \in Threads : Over(ctx[t], f) => nextEnc[f] = Rows

(* The most a manager's counter may show at a place of the row's thread.   *)
TopMost(c) ==
  CASE c.at \in {"meWait", "top"} -> 2 * c.x
    [] c.at = "bottom" -> IF c.step = "begin" THEN (IF c.cu = 2 THEN 2 * c.x ELSE 2 * c.x + 1)
                          ELSE SetValue(c)
    [] c.at = "rowEnd" /\ c.step = "begin" -> 2 * Cols
    [] OTHER -> 2 * Cols + 2
DblkMost(c) == IF c.at \in CodePlaces THEN 0 ELSE IF c.at = "dblk" THEN c.x ELSE Cols
SaoMost(c) == IF c.at \in CodePlaces \cup {"dblk"} THEN 0 ELSE IF c.at = "sao" THEN c.x ELSE Cols

(* What a thread knows of the counters of its row and of the one above.    *)
Hold(c) ==
  /\ units[Top][c.r] <= TopMost(c)
  /\ c.at = "bottom" /\ c.r > 0 => units[Top][c.r - 1] >= 2 * c.x + 3
  /\ units[Dblk][c.r] <= DblkMost(c)
  /\ c.r > 0 => units[Sao][c.r - 1] <= SaoMost(c)
  /\ c.at = "sao" => c.r > 0

(* A row that is not taken yet.                                            *)
Untouched(r) == /\ units[Top][r] = 0 /\ units[Dblk][r] = 0
                /\ r > 0 => units[Sao][r - 1] = 0

UnitInv ==
  /\ \A t \in Threads : ctx[t].at \in RowPlaces => Hold(ctx[t])
  /\ encFrame > 0 => \A r \in RowSet : r >= nextEnc[encFrame] => Untouched(r)
  /\ RowsInOrder

IInv == TypeInv /\ FrameInv /\ RowInv /\ UnitInv

-----------------------------------------------------------------------------
(* Numbers, managers and places.                                           *)

LEMMA Sizes == /\ Rows \in Nat /\ Rows > 1 /\ Cols \in Nat /\ Cols > 0
               /\ Frames \in Nat /\ Frames > 0 /\ MaxMv \in Nat
               /\ LastRow \in RowSet /\ LastRow \in Nat /\ LastRow > 0
               /\ 0 \in RowSet /\ 0 \in ColSet /\ 1 \in FrameSet
BY PictureAssumption, ThreadsAssumption DEF LastRow, RowSet, ColSet, FrameSet

LEMMA Managers ==
  /\ Top \in SleepManagers \cup SpinManagers /\ Dblk \in SpinManagers /\ Sao \in SpinManagers
  /\ Top # Dblk /\ Top # Sao /\ Dblk # Sao
  /\ \A f \in FrameSet : /\ Me(f) \in SleepManagers
                         /\ Me(f) # Top /\ Me(f) # Dblk /\ Me(f) # Sao
BY DEF Top, Dblk, Sao, Me, SleepManagers, SpinManagers

LEMMA AtType ==
  ASSUME NEW p \in Places, NEW f \in FrameSet, NEW r \in RowSet, NEW x \in ColSet
  PROVE  At(p, f, r, x) \in Context
BY DEF At, Context

LEMMA AtIs ==
  ASSUME NEW p, NEW f, NEW r, NEW x
  PROVE  /\ At(p, f, r, x).at = p /\ At(p, f, r, x).f = f /\ At(p, f, r, x).r = r
         /\ At(p, f, r, x).x = x /\ At(p, f, r, x).cu = 0 /\ At(p, f, r, x).split = FALSE
         /\ At(p, f, r, x).step = "begin"
BY DEF At

(* A thread that moves is alone to do so.                                  *)
Other(t) == \A u \in Threads \ {t} : ctx'[u] = ctx[u]

LEMMA Went ==
  ASSUME TypeInv, NEW t \in Threads, NEW d, Goto(t, d)
  PROVE  /\ ctx'[t] = d /\ Other(t)
         /\ d \in Context => ctx' \in [Threads -> Context]
BY DEF TypeInv, Goto, Other

LEMMA CtxType ==
  ASSUME TypeInv, NEW t \in Threads
  PROVE  /\ ctx[t] \in Context
         /\ ctx[t].at \in Places /\ ctx[t].f \in FrameSet /\ ctx[t].r \in RowSet
         /\ ctx[t].x \in ColSet /\ ctx[t].cu \in 0 .. 3 /\ ctx[t].split \in BOOLEAN
BY DEF TypeInv, Context

LEMMA StepType ==
  ASSUME NEW c \in Context,
         NEW s \in {"begin", "register", "sleep", "post", "clear", "end"}
  PROVE  /\ [c EXCEPT !.step = s] \in Context
         /\ [c EXCEPT !.step = s].at = c.at /\ [c EXCEPT !.step = s].f = c.f
         /\ [c EXCEPT !.step = s].r = c.r /\ [c EXCEPT !.step = s].x = c.x
         /\ [c EXCEPT !.step = s].cu = c.cu /\ [c EXCEPT !.step = s].step = s
BY DEF Context

-----------------------------------------------------------------------------
(* What a step leaves alone.                                               *)

(* A thread that stays in its frame leaves the frames' order alone.        *)
LEMMA FrameKept ==
  ASSUME TypeInv, FrameInv, NEW t \in Threads, Other(t), Standing(ctx[t])',
         UNCHANGED <<meFrame, encFrame, meEncFree, encLeft>>,
         ctx'[t].f = ctx[t].f, ctx'[t].at = "end" <=> ctx[t].at = "end"
  PROVE  FrameInv'
<1>1. ASSUME NEW u \in Threads
      PROVE  Standing(ctx[u])'
  <2>1. CASE u = t
    BY <2>1
  <2>2. CASE u # t
    <3>1. ctx'[u] = ctx[u]
      BY <2>2 DEF Other
    <3> QED BY <3>1 DEF FrameInv, Standing
  <2> QED BY <2>1, <2>2
<1>2. ASSUME NEW u \in Threads, NEW f
      PROVE  Over(ctx'[u], f) <=> Over(ctx[u], f)
  <2>1. CASE u = t
    BY <2>1 DEF Over
  <2>2. CASE u # t
    BY <2>2 DEF Over, Other
  <2> QED BY <2>1, <2>2
<1>3. (encFrame <= meFrame)'
  BY DEF FrameInv
<1>4. (meEncFree = IF \A u \in Threads : Over(ctx[u], meFrame) THEN 1 ELSE 0)'
  BY <1>2 DEF FrameInv
<1>5. ASSUME NEW f \in FrameSet
      PROVE  encLeft'[f] = Cardinality({u \in Threads : Over(ctx'[u], f)})
  <2>1. {u \in Threads : Over(ctx'[u], f)} = {u \in Threads : Over(ctx[u], f)}
    BY <1>2
  <2> QED BY <2>1 DEF FrameInv
<1> QED BY <1>1, <1>3, <1>4, <1>5 DEF FrameInv

(* A thread keeps its row or has none, and takes none.                     *)
LEMMA RowKept ==
  ASSUME TypeInv, RowInv, NEW t \in Threads, Other(t), PlanesMade(ctx[t])',
         UNCHANGED <<nextEnc, saoOn>>,
         \A f \in FrameSet : planes[f] \subseteq planes'[f],
         ctx'[t].f = ctx[t].f, ctx'[t].at = "end" <=> ctx[t].at = "end",
         ctx'[t].at \in RowPlaces <=> ctx[t].at \in RowPlaces,
         ctx[t].at \in RowPlaces => ctx'[t].r = ctx[t].r
  PROVE  RowInv'
<1>1. ASSUME NEW u \in Threads
      PROVE  PlanesMade(ctx[u])'
  <2>1. CASE u = t
    BY <2>1
  <2>2. CASE u # t
    <3>1. ctx'[u] = ctx[u]
      BY <2>2 DEF Other
    <3> QED BY <3>1, CtxType DEF RowInv, PlanesMade, DoneRow
  <2> QED BY <2>1, <2>2
<1>2. ASSUME NEW u \in Threads
      PROVE  /\ Over(ctx'[u], ctx'[u].f) <=> Over(ctx[u], ctx[u].f)
             /\ \A f \in FrameSet : Over(ctx'[u], f) <=> Over(ctx[u], f)
             /\ ctx'[u].at \in RowPlaces <=> ctx[u].at \in RowPlaces
             /\ ctx'[u].at \in RowPlaces => ctx'[u].f = ctx[u].f /\ ctx'[u].r = ctx[u].r
             /\ \A f \in FrameSet, r \in RowSet : Holds(ctx'[u], f, r) <=> Holds(ctx[u], f, r)
  <2>1. CASE u = t
    BY <2>1 DEF Over, Holds
  <2>2. CASE u # t
    BY <2>2 DEF Other
  <2> QED BY <2>1, <2>2
<1>3. \A u \in Threads : ctx'[u].at \in RowPlaces => ctx'[u].r < nextEnc'[ctx'[u].f]
  BY <1>2 DEF RowInv
<1>4. \A u, v \in Threads : ctx'[u].at \in RowPlaces /\ Holds(ctx'[v], ctx'[u].f, ctx'[u].r)
        => u = v
  BY <1>2, CtxType DEF RowInv
<1>5. ASSUME NEW f \in FrameSet, NEW r \in RowSet, r < nextEnc'[f]
      PROVE  RowDone(f, r)' \/ \E u \in Threads : Holds(ctx'[u], f, r)
  <2>1. RowDone(f, r) => RowDone(f, r)'
    BY DEF RowDone, DoneRow
  <2> QED BY <1>2, <1>5, <2>1 DEF RowInv
<1>6. \A f \in FrameSet, u \in Threads : Over(ctx'[u], f) => nextEnc'[f] = Rows
  BY <1>2 DEF RowInv
<1> QED BY <1>1, <1>3, <1>4, <1>5, <1>6 DEF RowInv

(* A thread is done with its row and goes for the next one.                *)
LEMMA RowLeft ==
  ASSUME TypeInv, RowInv, NEW t \in Threads, Other(t),
         UNCHANGED <<nextEnc, saoOn, planes>>,
         ctx[t].at \in RowPlaces, RowDone(ctx[t].f, ctx[t].r),
         ctx'[t].at = "encTake", ctx'[t].f = ctx[t].f
  PROVE  RowInv'
<1>1. ctx'[t].at \notin RowPlaces /\ ctx'[t].at \notin DonePlaces /\ ctx[t].at # "end"
  BY DEF RowPlaces, CodePlaces, DonePlaces
<1>2. ASSUME NEW u \in Threads
      PROVE  PlanesMade(ctx[u])'
  <2>1. CASE u = t
    BY <1>1, <2>1 DEF PlanesMade
  <2>2. CASE u # t
    <3>1. ctx'[u] = ctx[u]
      BY <2>2 DEF Other
    <3> QED BY <3>1, CtxType DEF RowInv, PlanesMade, DoneRow
  <2> QED BY <2>1, <2>2
<1>3. ASSUME NEW u \in Threads
      PROVE  /\ \A f \in FrameSet : Over(ctx'[u], f) <=> Over(ctx[u], f)
             /\ ctx'[u].at \in RowPlaces => u # t /\ ctx'[u] = ctx[u]
             /\ \A f \in FrameSet, r \in RowSet :
                  /\ Holds(ctx'[u], f, r) => Holds(ctx[u], f, r)
                  /\ Holds(ctx[u], f, r) => \/ Holds(ctx'[u], f, r)
                                            \/ f = ctx[t].f /\ r = ctx[t].r
  <2>1. CASE u = t
    BY <1>1, <2>1 DEF Over, Holds
  <2>2. CASE u # t
    BY <2>2 DEF Other
  <2> QED BY <2>1, <2>2
<1>4. \A u \in Threads : ctx'[u].at \in RowPlaces => ctx'[u].r < nextEnc'[ctx'[u].f]
  BY <1>3 DEF RowInv
<1>5. \A u, v \in Threads : ctx'[u].at \in RowPlaces /\ Holds(ctx'[v], ctx'[u].f, ctx'[u].r)
        => u = v
  BY <1>3, CtxType DEF RowInv
<1>6. ASSUME NEW f \in FrameSet, NEW r \in RowSet, r < nextEnc'[f]
      PROVE  RowDone(f, r)' \/ \E u \in Threads : Holds(ctx'[u], f, r)
  <2>1. RowDone(f, r) => RowDone(f, r)'
    BY DEF RowDone, DoneRow
  <2>2. RowDone(f, r) \/ \E u \in Threads : Holds(ctx[u], f, r)
    BY <1>6 DEF RowInv
  <2> QED BY <1>3, <2>1, <2>2
<1>7. \A f \in FrameSet, u \in Threads : Over(ctx'[u], f) => nextEnc'[f] = Rows
  BY <1>3 DEF RowInv
<1> QED BY <1>2, <1>4, <1>5, <1>6, <1>7 DEF RowInv

(* Two threads of the encode loop have different rows.                     *)
LEMMA OwnRow ==
  ASSUME TypeInv, FrameInv, RowInv, NEW t \in Threads, NEW u \in Threads, t # u,
         ctx[t].at \in RowPlaces, ctx[u].at \in RowPlaces
  PROVE  ctx[t].r # ctx[u].r /\ ctx[t].f = encFrame /\ ctx[t].r < nextEnc[encFrame]
<1>1. ctx[t].f = encFrame /\ ctx[u].f = encFrame
  BY DEF FrameInv, Standing
<1>2. ~Holds(ctx[u], ctx[t].f, ctx[t].r)
  BY DEF RowInv
<1> QED BY <1>1, <1>2 DEF Holds, RowInv

(* The encode loop's counters are left alone.                              *)
LEMMA UnitKept ==
  ASSUME TypeInv, UnitInv, NEW t \in Threads, Other(t),
         ctx'[t].at \in RowPlaces => Hold(ctx[t])',
         UNCHANGED <<nextEnc, encFrame>>,
         \A m \in EncManagers : units'[m] = units[m]
  PROVE  UnitInv'
<1>1. units'[Top] = units[Top] /\ units'[Dblk] = units[Dblk] /\ units'[Sao] = units[Sao]
  BY DEF EncManagers, SpinManagers
<1>2. ASSUME NEW u \in Threads, ctx'[u].at \in RowPlaces
      PROVE  Hold(ctx[u])'
  <2>1. CASE u = t
    BY <1>2, <2>1
  <2>2. CASE u # t
    <3>1. ctx'[u] = ctx[u]
      BY <2>2 DEF Other
    <3>2. Hold(ctx[u])
      BY <1>2, <3>1 DEF UnitInv
    <3> QED BY <1>1, <3>1, <3>2 DEF Hold
  <2> QED BY <2>1, <2>2
<1>3. (encFrame > 0 => \A r \in RowSet : r >= nextEnc[encFrame] => Untouched(r))'
  BY <1>1 DEF UnitInv, Untouched
<1>4. RowsInOrder'
  BY <1>1 DEF UnitInv, RowsInOrder
<1> QED BY <1>2, <1>3, <1>4 DEF UnitInv

(* A thread advances counters of its row, and of the row above for SAO.    *)
LEMMA UnitMoved ==
  ASSUME TypeInv, FrameInv, RowInv, UnitInv, NEW t \in Threads, Other(t), TypeInv',
         ctx[t].at \in RowPlaces, Hold(ctx[t])',
         UNCHANGED <<nextEnc, encFrame>>,
         \A q \in RowSet : /\ units[Top][q] <= units'[Top][q]
                           /\ q # ctx[t].r => units'[Top][q] = units[Top][q]
                           /\ q # ctx[t].r => units'[Dblk][q] = units[Dblk][q]
                           /\ q + 1 # ctx[t].r => units'[Sao][q] = units[Sao][q],
         RowsInOrder'
  PROVE  UnitInv'
<1> USE Sizes DEF RowSet
<1>1. ASSUME NEW u \in Threads, ctx'[u].at \in RowPlaces
      PROVE  Hold(ctx[u])'
  <2>1. CASE u = t
    BY <2>1
  <2>2. CASE u # t
    <3>1. ctx'[u] = ctx[u]
      BY <2>2 DEF Other
    <3>2. Hold(ctx[u]) /\ ctx[u].at \in RowPlaces
      BY <1>1, <3>1 DEF UnitInv
    <3>3. ctx[u].r # ctx[t].r
      BY <2>2, <3>2, OwnRow
    <3> DEFINE r == ctx[u].r
    <3>4. r \in RowSet /\ (r > 0 => r - 1 \in RowSet) /\ ctx[t].r \in RowSet
      BY CtxType
    <3>5. /\ units'[Top][r] = units[Top][r] /\ units'[Dblk][r] = units[Dblk][r]
          /\ r > 0 => units'[Sao][r - 1] = units[Sao][r - 1]
          /\ r > 0 => units[Top][r - 1] <= units'[Top][r - 1]
      BY <3>3, <3>4
    <3>6. ctx[u].x \in Nat /\ (r > 0 => units[Top][r - 1] \in Nat /\ units'[Top][r - 1] \in Nat)
      <4>1. ctx[u].x \in Nat
        BY CtxType DEF ColSet
      <4>2. \A q \in RowSet : units[Top][q] \in Nat /\ units'[Top][q] \in Nat
        BY Managers DEF TypeInv
      <4> QED BY <3>4, <4>1, <4>2
    <3> QED BY <3>1, <3>2, <3>5, <3>6 DEF Hold
  <2> QED BY <2>1, <2>2
<1>2. ASSUME encFrame > 0, NEW q \in RowSet, q >= nextEnc[encFrame]
      PROVE  Untouched(q)'
  <2>1. ctx[t].r < q
    <3>1. ctx[t].f = encFrame /\ ctx[t].r < nextEnc[ctx[t].f] /\ nextEnc[ctx[t].f] \in Nat
      BY CtxType, SMTT(30) DEF FrameInv, Standing, RowInv, TypeInv
    <3> QED BY <1>2, <3>1, CtxType
  <2>2. Untouched(q)
    BY <1>2 DEF UnitInv
  <2>3. q # ctx[t].r /\ (q > 0 => q - 1 \in RowSet /\ (q - 1) + 1 # ctx[t].r)
    BY <2>1, CtxType
  <2> QED BY <2>2, <2>3 DEF Untouched
<1> QED BY <1>1, <1>2 DEF UnitInv
-----------------------------------------------------------------------------
(* Steps that only move a thread, in its frame and with its row.           *)

LEMMA Stays ==
  ASSUME IInv, NEW t \in Threads, NEW d \in Context, Goto(t, d),
         UNCHANGED <<saoOn, units, nextEnc, meFrame, meEncFree, encLeft, encFrame, planes>>,
         nextMe' = nextMe \/ nextMe' \in [FrameSet -> 0 .. Rows],
         d.f = ctx[t].f, d.at = "end" <=> ctx[t].at = "end",
         d.at \in RowPlaces <=> ctx[t].at \in RowPlaces,
         ctx[t].at \in RowPlaces => d.r = ctx[t].r,
         Standing(d), PlanesMade(d), d.at \in RowPlaces => Hold(d)
  PROVE  IInv'
<1>1. TypeInv /\ FrameInv /\ RowInv /\ UnitInv
  BY DEF IInv
<1>2. ctx'[t] = d /\ Other(t) /\ ctx' \in [Threads -> Context]
  BY <1>1, Went
<1>3. TypeInv'
  <2>1. nextMe' \in [FrameSet -> 0 .. Rows]
    BY <1>1 DEF TypeInv
  <2> QED BY <1>1, <1>2, <2>1 DEF TypeInv
<1>4. Standing(ctx[t])' /\ PlanesMade(ctx[t])'
  BY <1>2 DEF Standing, PlanesMade, DoneRow
<1>5. ctx'[t].at \in RowPlaces => Hold(ctx[t])'
  BY <1>2 DEF Hold
<1>6. FrameInv'
  BY <1>1, <1>2, <1>4, FrameKept
<1>7. RowInv'
  BY <1>1, <1>2, <1>4, RowKept
<1>8. UnitInv'
  BY <1>1, <1>2, <1>5, UnitKept
<1> QED BY <1>3, <1>6, <1>7, <1>8 DEF IInv

(* Before the encode loop there is no more to it than the frame.           *)
LEMMA StaysAhead ==
  ASSUME IInv, NEW t \in Threads, NEW p, NEW r \in RowSet, NEW x \in ColSet,
         Goto(t, At(p, ctx[t].f, r, x)),
         UNCHANGED <<saoOn, units, nextEnc, meFrame, meEncFree, encLeft, encFrame, planes>>,
         nextMe' = nextMe \/ nextMe' \in [FrameSet -> 0 .. Rows],
         \/ ctx[t].at \in AheadPlaces /\ p \in AheadPlaces
         \/ ctx[t].at \in MePlaces /\ p \in MePlaces
  PROVE  IInv'
<1> DEFINE d == At(p, ctx[t].f, r, x)
<1>1. TypeInv /\ Standing(ctx[t])
  BY DEF IInv, FrameInv
<1>2. p \in Places /\ p \notin RowPlaces \cup {"encTake", "end"}
  BY DEF Places, AheadPlaces, MePlaces, RowPlaces, CodePlaces, DonePlaces
<1>3. ctx[t].at \notin RowPlaces \cup {"encTake", "end"}
  BY DEF AheadPlaces, MePlaces, RowPlaces, CodePlaces, DonePlaces
<1>4. d \in Context /\ d.at = p /\ d.f = ctx[t].f /\ d.step = "begin"
  <2>1. ctx[t].f \in FrameSet
    BY <1>1, CtxType
  <2>2. d \in Context
    BY <1>2, <2>1, AtType
  <2> QED BY <2>2 DEF At
<1>5. Standing(d)
  BY <1>1, <1>2, <1>4 DEF Standing, AheadPlaces, MePlaces
<1>6. PlanesMade(d)
  BY <1>2, <1>4 DEF PlanesMade, RowPlaces, DonePlaces
<1> HIDE DEF d
<1> QED BY <1>2, <1>3, <1>4, <1>5, <1>6, Stays DEF d

(* Only how far it has come at its place.                                  *)
LEMMA StaysThere ==
  ASSUME IInv, NEW t \in Threads,
         NEW s \in {"begin", "register", "sleep", "post", "clear", "end"},
         Goto(t, [ctx[t] EXCEPT !.step = s]),
         UNCHANGED <<saoOn, units, nextMe, nextEnc, meFrame, meEncFree, encLeft, encFrame, planes>>,
         s \in {"register", "sleep"} => ctx[t].at \in CheckPlaces,
         ctx[t].at \in SetPlaces => ctx[t].step # "begin" /\ s # "begin"
  PROVE  IInv'
<1> DEFINE c == ctx[t]
           d == [c EXCEPT !.step = s]
<1>1. TypeInv /\ Standing(c) /\ PlanesMade(c) /\ (c.at \in RowPlaces => Hold(c))
  BY DEF IInv, FrameInv, RowInv, UnitInv
<1>2. /\ d \in Context /\ d.at = c.at /\ d.f = c.f /\ d.r = c.r /\ d.x = c.x /\ d.cu = c.cu
      /\ d.step = s
  <2>1. c \in Context
    BY <1>1, CtxType, Zenon
  <2> HIDE DEF c
  <2> QED BY <2>1, StepType, ZenonT(60)
<1>3. Standing(d)
  BY <1>1, <1>2 DEF Standing
<1>4. PlanesMade(d)
  BY <1>1, <1>2 DEF PlanesMade
<1>5. TopMost(d) = TopMost(c)
  BY <1>2 DEF TopMost, SetPlaces, SetValue
<1>6. DblkMost(d) = DblkMost(c) /\ SaoMost(d) = SaoMost(c)
  BY <1>2 DEF DblkMost, SaoMost
<1>7. d.at \in RowPlaces => Hold(d)
  BY <1>1, <1>2, <1>5, <1>6 DEF Hold
<1> HIDE DEF d
<1> QED BY <1>2, <1>3, <1>4, <1>7, Stays DEF d

LEMMA RegisterKeeps ==
  ASSUME IInv, NEW t \in Threads, Register(t)
  PROVE  IInv'
BY StaysThere DEF Register, queueVars, frameVars, CheckPlaces, SetPlaces

LEMMA WakeKeeps ==
  ASSUME IInv, NEW t \in Threads, Wake(t)
  PROVE  IInv'
<1>1. ctx[t].at \in CheckPlaces
  BY DEF Wake, IInv, FrameInv, Standing
<1> QED BY <1>1, StaysThere DEF Wake, queueVars, frameVars, CheckPlaces, SetPlaces

LEMMA PostWaiterKeeps ==
  ASSUME IInv, NEW t \in Threads, PostWaiter(t)
  PROVE  IInv'
BY StaysThere DEF PostWaiter, queueVars, frameVars

LEMMA ClearWaiterKeeps ==
  ASSUME IInv, NEW t \in Threads, ClearWaiter(t)
  PROVE  IInv'
BY StaysThere DEF ClearWaiter, queueVars, frameVars

LEMMA SearchKeeps ==
  ASSUME IInv, NEW t \in Threads, Search(t)
  PROVE  IInv'
<1>1. TypeInv
  BY DEF IInv
<1> QED BY <1>1, CtxType, StaysAhead DEF Search, queueVars, frameVars, MePlaces

LEMMA MeDepKeeps ==
  ASSUME IInv, NEW t \in Threads, MeDep(t)
  PROVE  IInv'
<1>1. TypeInv
  BY DEF IInv
<1>2. ctx[t].r \in RowSet /\ 0 \in ColSet
  BY <1>1, CtxType, Sizes
<1>3. CASE ctx[t].f = 1
  BY <1>2, <1>3, StaysAhead DEF MeDep, frameVars, MePlaces
<1>4. CASE ctx[t].f # 1
  BY <1>2, <1>4, StaysAhead DEF MeDep, frameVars, MePlaces
<1> QED BY <1>3, <1>4

LEMMA MeTakeKeeps ==
  ASSUME IInv, NEW t \in Threads, MeTake(t)
  PROVE  IInv'
<1> DEFINE f == ctx[t].f
           r == nextMe[f]
<1>1. TypeInv
  BY DEF IInv
<1>2. f \in FrameSet /\ r \in 0 .. Rows /\ 0 \in RowSet /\ 0 \in ColSet /\ Rows \in Nat
  BY <1>1, CtxType, Sizes DEF TypeInv
<1>3. ctx[t].at \in MePlaces /\ "meDep" \in MePlaces /\ "encGate" \in MePlaces
  BY DEF MeTake, MePlaces
<1>4. UNCHANGED <<saoOn, units, nextEnc, meFrame, meEncFree, encLeft, encFrame, planes>>
  BY DEF MeTake
<1>5. CASE r < Rows
  <2>1. nextMe' = [nextMe EXCEPT ![f] = r + 1] /\ Goto(t, At("meDep", f, r, 0))
    BY <1>5 DEF MeTake
  <2>2. r \in RowSet /\ r + 1 \in 0 .. Rows
    BY <1>2, <1>5 DEF RowSet
  <2>3. nextMe' \in [FrameSet -> 0 .. Rows]
    BY <1>1, <2>1, <2>2 DEF TypeInv
  <2> QED BY <1>2, <1>3, <1>4, <2>1, <2>2, <2>3, StaysAhead
<1>6. CASE ~(r < Rows)
  <2>1. nextMe' = nextMe /\ Goto(t, At("encGate", f, 0, 0))
    BY <1>6 DEF MeTake
  <2> QED BY <1>2, <1>3, <1>4, <2>1, StaysAhead
<1> QED BY <1>5, <1>6

LEMMA ReadUnitsKeeps ==
  ASSUME IInv, NEW t \in Threads, ReadUnits(t)
  PROVE  IInv'
<1> DEFINE c == ctx[t]
<1>1. /\ TypeInv /\ Standing(c) /\ (c.at \in RowPlaces => Hold(c))
      /\ c \in Context /\ c.f \in FrameSet /\ c.r \in RowSet /\ c.x \in ColSet /\ c.cu \in 0 .. 3
      /\ c.split \in BOOLEAN
  BY CtxType DEF IInv, FrameInv, UnitInv
<1>2. 0 \in RowSet /\ 0 \in ColSet
  BY Sizes
<1>3. /\ c.at \in CheckPlaces /\ c.step = "begin"
      /\ UNCHANGED <<saoOn, units, nextMe, nextEnc, meFrame, meEncFree, encLeft, encFrame, planes>>
  BY DEF ReadUnits, queueVars, frameVars
<1>4. CASE ~Met(c)
  <2>1. PICK s \in {"register", "sleep"} : Goto(t, [c EXCEPT !.step = s])
    BY <1>4 DEF ReadUnits
  <2>2. c.at \notin SetPlaces
    BY <1>3 DEF CheckPlaces, SetPlaces
  <2> QED BY <1>3, <2>1, <2>2, StaysThere
<1>5. CASE Met(c) /\ c.at \in {"meGate", "encGate", "meRef"}
  <2>1. \/ c.at = "meGate" /\ Goto(t, At("meInit", c.f, 0, 0))
        \/ c.at = "encGate" /\ Goto(t, At("encInit", c.f, 0, 0))
        \/ c.at = "meRef" /\ Goto(t, At("search", c.f, c.r, c.x))
    BY <1>5 DEF ReadUnits, AfterCheck
  <2> QED BY <1>1, <1>2, <1>3, <2>1, StaysAhead DEF AheadPlaces, MePlaces
<1>6. CASE Met(c) /\ c.at = "meWait"
  <2>1. PICK s \in BOOLEAN : Goto(t, [At("top", c.f, c.r, c.x) EXCEPT !.split = s])
    BY <1>6 DEF ReadUnits, AfterCheck
  <2> DEFINE d == [At("top", c.f, c.r, c.x) EXCEPT !.split = s]
  <2>2. /\ d \in Context /\ d.at = "top" /\ d.f = c.f /\ d.r = c.r /\ d.x = c.x
        /\ d.step = "begin"
    BY <1>1 DEF Context, At, Places, RowPlaces, CodePlaces
  <2> HIDE DEF d
  <2>3. d.at \in RowPlaces /\ c.at \in RowPlaces
    BY <1>6, <2>2 DEF RowPlaces, CodePlaces
  <2>4. Standing(d) /\ PlanesMade(d)
    BY <1>1, <1>6, <2>2, <2>3
    DEF Standing, PlanesMade, DonePlaces, AheadPlaces, CheckPlaces
  <2>5. TopMost(d) = TopMost(c) /\ DblkMost(d) = DblkMost(c) /\ SaoMost(d) = SaoMost(c)
    BY <1>6, <2>2 DEF TopMost, DblkMost, SaoMost, CodePlaces
  <2>6. Hold(d)
    BY <1>1, <2>2, <2>3, <2>5 DEF Hold
  <2>7. Goto(t, d)
    BY <2>1 DEF d
  <2> QED BY <1>3, <1>6, <2>2, <2>3, <2>4, <2>6, <2>7, Stays
<1>7. CASE Met(c) /\ c.at = "top" /\ c.split /\ c.cu = 0
  <2> DEFINE d == [c EXCEPT !.cu = 1]
  <2>1. /\ d \in Context /\ d.at = "top" /\ d.f = c.f /\ d.r = c.r /\ d.x = c.x
        /\ d.step = "begin"
    BY <1>1, <1>3, <1>7 DEF Context
  <2>2. Goto(t, d)
    BY <1>7 DEF ReadUnits, AfterCheck
  <2> HIDE DEF d
  <2>3. d.at \in RowPlaces /\ c.at \in RowPlaces
    BY <1>7, <2>1 DEF RowPlaces, CodePlaces
  <2>4. Standing(d) /\ PlanesMade(d)
    BY <1>1, <1>7, <2>1, <2>3
    DEF Standing, PlanesMade, DonePlaces, AheadPlaces, CheckPlaces
  <2>5. TopMost(d) = TopMost(c) /\ DblkMost(d) = DblkMost(c) /\ SaoMost(d) = SaoMost(c)
    BY <1>7, <2>1 DEF TopMost, DblkMost, SaoMost, CodePlaces
  <2>6. Hold(d)
    BY <1>1, <1>7, <2>1, <2>3, <2>5 DEF Hold
  <2> QED BY <1>3, <1>7, <2>1, <2>2, <2>3, <2>4, <2>6, Stays
<1>8. CASE Met(c) /\ c.at = "top" /\ ~(c.split /\ c.cu = 0)
  <2> DEFINE d == [c EXCEPT !.at = "bottom", !.cu = IF c.split THEN 2 ELSE 3]
  <2>1. d \in Context
    <3>1. "bottom" \in Places /\ (IF c.split THEN 2 ELSE 3) \in 0 .. 3
      BY DEF Places, RowPlaces, CodePlaces
    <3> QED BY <1>1, <3>1 DEF Context
  <2>2. /\ d.at = "bottom" /\ d.f = c.f /\ d.r = c.r /\ d.x = c.x
        /\ d.step = "begin"
    BY <1>1, <1>3, <1>8 DEF Context
  <2>3. Goto(t, d)
    BY <1>8 DEF ReadUnits, AfterCheck
  <2> HIDE DEF d
  <2>4. d.at \in RowPlaces /\ c.at \in RowPlaces
    BY <1>8, <2>2 DEF RowPlaces, CodePlaces
  <2>5. Standing(d) /\ PlanesMade(d)
    BY <1>1, <1>8, <2>2, <2>4
    DEF Standing, PlanesMade, DonePlaces, AheadPlaces, CheckPlaces
  <2>6. /\ TopMost(c) = 2 * c.x /\ TopMost(d) \in {2 * c.x, 2 * c.x + 1}
        /\ DblkMost(d) = DblkMost(c) /\ SaoMost(d) = SaoMost(c)
    BY <1>8, <2>2 DEF TopMost, DblkMost, SaoMost, CodePlaces
  <2>7. units[Top][c.r] <= TopMost(d)
    <3>1. units[Top][c.r] \in Nat /\ c.x \in Nat
      BY <1>1, Managers DEF TypeInv, ColSet
    <3>2. units[Top][c.r] <= TopMost(c)
      BY <1>1, <2>4 DEF Hold
    <3> QED BY <2>6, <3>1, <3>2
  <2>8. c.r > 0 => units[Top][c.r - 1] >= 2 * c.x + 3
    <3>1. c.r = 0 \/ units[Top][c.r - 1] >= 2 * c.x + 3
      BY <1>8 DEF Met, TopNeed
    <3> QED BY <1>1, <3>1 DEF RowSet
  <2>9. Hold(d)
    BY <1>1, <2>2, <2>4, <2>6, <2>7, <2>8 DEF Hold
  <2> QED BY <1>3, <1>8, <2>1, <2>2, <2>3, <2>4, <2>5, <2>9, Stays
<1> QED BY <1>3, <1>4, <1>5, <1>6, <1>7, <1>8 DEF CheckPlaces
-----------------------------------------------------------------------------
(* Steps of the encode loop in a row.                                      *)

LEMMA UnitNat ==
  ASSUME TypeInv, NEW r \in RowSet
  PROVE  units[Top][r] \in Nat /\ units[Dblk][r] \in Nat /\ units[Sao][r] \in Nat
BY Managers DEF TypeInv

(* At a new place of the row, whose counters' bounds are no lower.         *)
LEMMA StaysInRow ==
  ASSUME IInv, NEW t \in Threads, NEW p \in RowPlaces, NEW x \in ColSet,
         ctx[t].at \in RowPlaces,
         Goto(t, At(p, ctx[t].f, ctx[t].r, x)),
         UNCHANGED <<saoOn, units, nextMe, nextEnc, meFrame, meEncFree, encLeft, encFrame, planes>>,
         p \notin {"bottom", "sao"}, PlanesMade(At(p, ctx[t].f, ctx[t].r, x)),
         TopMost(ctx[t]) <= TopMost(At(p, ctx[t].f, ctx[t].r, x)),
         DblkMost(ctx[t]) <= DblkMost(At(p, ctx[t].f, ctx[t].r, x)),
         SaoMost(ctx[t]) <= SaoMost(At(p, ctx[t].f, ctx[t].r, x)),
         TopMost(ctx[t]) \in Nat, TopMost(At(p, ctx[t].f, ctx[t].r, x)) \in Nat,
         DblkMost(ctx[t]) \in Nat, DblkMost(At(p, ctx[t].f, ctx[t].r, x)) \in Nat,
         SaoMost(ctx[t]) \in Nat, SaoMost(At(p, ctx[t].f, ctx[t].r, x)) \in Nat
  PROVE  IInv'
<1> DEFINE c == ctx[t]
           d == At(p, c.f, c.r, x)
<1>1. /\ TypeInv /\ Standing(c) /\ Hold(c)
      /\ c.f \in FrameSet /\ c.r \in RowSet
  BY CtxType DEF IInv, FrameInv, UnitInv
<1>2. p \in Places /\ p \notin AheadPlaces /\ p # "end" /\ c.at # "end" /\ c.at \notin AheadPlaces
  BY DEF Places, RowPlaces, CodePlaces, DonePlaces, AheadPlaces
<1>3. d \in Context
  BY <1>1, <1>2, AtType
<1>4. d.at = p /\ d.f = c.f /\ d.r = c.r /\ d.x = x /\ d.step = "begin"
  BY DEF At
<1>5. PlanesMade(d)
  OBVIOUS
<1> HIDE DEF d
<1>6. Standing(d)
  BY <1>1, <1>2, <1>4 DEF Standing
<1>7. Hold(d)
  <2>1. /\ units[Top][c.r] \in Nat /\ units[Dblk][c.r] \in Nat
        /\ c.r > 0 => units[Sao][c.r - 1] \in Nat
    <3>1. c.r > 0 => c.r - 1 \in RowSet
      BY <1>1, Sizes DEF RowSet
    <3> QED BY <1>1, <3>1, UnitNat
  <2>2. units[Top][c.r] <= TopMost(d)
    <3>1. /\ units[Top][c.r] <= TopMost(c) /\ TopMost(c) <= TopMost(d)
          /\ TopMost(c) \in Nat /\ TopMost(d) \in Nat
      BY <1>1 DEF Hold, d
    <3> QED BY <2>1, <3>1
  <2>3. units[Dblk][c.r] <= DblkMost(d)
    <3>1. /\ units[Dblk][c.r] <= DblkMost(c) /\ DblkMost(c) <= DblkMost(d)
          /\ DblkMost(c) \in Nat /\ DblkMost(d) \in Nat
      BY <1>1 DEF Hold, d
    <3> QED BY <2>1, <3>1
  <2>4. c.r > 0 => units[Sao][c.r - 1] <= SaoMost(d)
    <3>1. /\ c.r > 0 => units[Sao][c.r - 1] <= SaoMost(c)
          /\ SaoMost(c) <= SaoMost(d) /\ SaoMost(c) \in Nat /\ SaoMost(d) \in Nat
      BY <1>1 DEF Hold, d
    <3> QED BY <2>1, <3>1
  <2> QED BY <1>4, <2>2, <2>3, <2>4 DEF Hold
<1>8. Goto(t, d)
  BY DEF d
<1> QED BY <1>2, <1>3, <1>4, <1>5, <1>6, <1>7, <1>8, Stays

LEMMA EndOfSetKeeps ==
  ASSUME IInv, NEW t \in Threads, EndOfSet(t)
  PROVE  IInv'
<1> DEFINE c == ctx[t]
<1>1. /\ TypeInv /\ Standing(c) /\ (c.at \in RowPlaces => Hold(c))
      /\ c \in Context /\ c.f \in FrameSet /\ c.r \in RowSet /\ c.x \in ColSet /\ c.cu \in 0 .. 3
      /\ c.x \in Nat /\ c.x < Cols
  BY CtxType, Sizes DEF IInv, FrameInv, UnitInv, ColSet
<1>2. 0 \in RowSet /\ 0 \in ColSet /\ Cols \in Nat /\ Cols > 0
  BY Sizes
<1>3. /\ c.at \in SetPlaces /\ c.step = "end"
      /\ Goto(t, AfterSet(c))
      /\ UNCHANGED <<saoOn, units, nextMe, nextEnc, meFrame, meEncFree, encLeft, encFrame, planes>>
  BY DEF EndOfSet, queueVars, frameVars
<1>4. c.x + 1 < Cols => c.x + 1 \in ColSet
  BY <1>1, <1>2 DEF ColSet
<1>5. CASE c.at = "meSet"
  <2>1. \/ c.x + 1 < Cols /\ Goto(t, At("meRef", c.f, c.r, c.x + 1))
        \/ Goto(t, At("meTake", c.f, 0, 0))
    BY <1>3, <1>5 DEF AfterSet
  <2> QED BY <1>1, <1>2, <1>3, <1>4, <1>5, <2>1, StaysAhead DEF MePlaces
<1>6. CASE c.at = "bottom" /\ c.cu = 2
  <2> DEFINE d == [c EXCEPT !.cu = 3, !.step = "begin"]
  <2>1. d \in Context
    <3>1. [c EXCEPT !.cu = 3] \in Context
      BY <1>1 DEF Context
    <3>2. d = [[c EXCEPT !.cu = 3] EXCEPT !.step = "begin"]
      BY <1>1 DEF Context
    <3> QED BY <3>1, <3>2, StepType
  <2>2. /\ d.at = "bottom" /\ d.f = c.f /\ d.r = c.r /\ d.x = c.x
        /\ d.step = "begin" /\ d.cu = 3
    BY <1>1, <1>6 DEF Context
  <2>3. Goto(t, d)
    BY <1>3, <1>6 DEF AfterSet
  <2> HIDE DEF d
  <2>4. d.at \in RowPlaces /\ c.at \in RowPlaces
    BY <1>6, <2>2 DEF RowPlaces, CodePlaces
  <2>5. Standing(d) /\ PlanesMade(d)
    BY <1>1, <1>6, <2>2, <2>4 DEF Standing, PlanesMade, DonePlaces, AheadPlaces
  <2>6. /\ TopMost(d) = TopMost(c) /\ DblkMost(d) = DblkMost(c) /\ SaoMost(d) = SaoMost(c)
    BY <1>3, <1>6, <2>2 DEF TopMost, DblkMost, SaoMost, CodePlaces, SetValue
  <2>7. Hold(d)
    BY <1>1, <1>6, <2>2, <2>4, <2>6 DEF Hold
  <2> QED BY <1>3, <1>6, <2>1, <2>2, <2>3, <2>4, <2>5, <2>7, Stays
<1>7. CASE c.at = "bottom" /\ c.cu # 2 /\ c.x + 1 < Cols
  <2>1. Goto(t, At("meWait", c.f, c.r, c.x + 1))
    BY <1>3, <1>7 DEF AfterSet
  <2> DEFINE d == At("meWait", c.f, c.r, c.x + 1)
  <2>2. d.at = "meWait" /\ d.x = c.x + 1 /\ d.step = "begin"
    BY DEF At
  <2> HIDE DEF d
  <2>3. TopMost(c) = 2 * c.x + 2 /\ TopMost(d) = 2 * (c.x + 1)
    BY <1>3, <1>7, <2>2 DEF TopMost, SetValue
  <2>4. DblkMost(c) = 0 /\ DblkMost(d) = 0 /\ SaoMost(c) = 0 /\ SaoMost(d) = 0
    BY <1>7, <2>2 DEF DblkMost, SaoMost, CodePlaces
  <2>5. PlanesMade(d)
    BY <2>2 DEF PlanesMade, DonePlaces
  <2>6. "meWait" \in RowPlaces /\ c.at \in RowPlaces
    BY <1>7 DEF RowPlaces, CodePlaces
  <2>7. /\ TopMost(c) <= TopMost(d) /\ TopMost(c) \in Nat /\ TopMost(d) \in Nat
    BY <1>1, <2>3
  <2>8. c.x + 1 \in ColSet
    BY <1>4, <1>7
  <2> QED BY <1>3, <2>1, <2>4, <2>5, <2>6, <2>7, <2>8, StaysInRow DEF d
<1>8. CASE c.at = "bottom" /\ c.cu # 2 /\ ~(c.x + 1 < Cols)
  <2>1. Goto(t, At("rowEnd", c.f, c.r, 0))
    BY <1>3, <1>8 DEF AfterSet
  <2> DEFINE d == At("rowEnd", c.f, c.r, 0)
  <2>2. d.at = "rowEnd" /\ d.x = 0 /\ d.step = "begin"
    BY DEF At
  <2> HIDE DEF d
  <2>3. TopMost(c) = 2 * c.x + 2 /\ TopMost(d) = 2 * Cols
    BY <1>3, <1>8, <2>2 DEF TopMost, SetValue
  <2>4. DblkMost(c) = 0 /\ DblkMost(d) = 0 /\ SaoMost(c) = 0 /\ SaoMost(d) = 0
    BY <1>8, <2>2 DEF DblkMost, SaoMost, CodePlaces
  <2>5. PlanesMade(d)
    BY <2>2 DEF PlanesMade, DonePlaces
  <2>6. "rowEnd" \in RowPlaces /\ c.at \in RowPlaces
    BY <1>8 DEF RowPlaces, CodePlaces
  <2>7. /\ TopMost(c) <= TopMost(d) /\ TopMost(c) \in Nat /\ TopMost(d) \in Nat
    BY <1>1, <1>2, <2>3
  <2> QED BY <1>2, <1>3, <2>1, <2>4, <2>5, <2>6, <2>7, StaysInRow DEF d
<1>9. CASE c.at = "rowEnd"
  <2>1. Goto(t, At("dblk", c.f, c.r, 0))
    BY <1>3, <1>9 DEF AfterSet
  <2> DEFINE d == At("dblk", c.f, c.r, 0)
  <2>2. d.at = "dblk" /\ d.x = 0 /\ d.step = "begin"
    BY DEF At
  <2> HIDE DEF d
  <2>3. TopMost(c) = 2 * Cols + 2 /\ TopMost(d) = 2 * Cols + 2
    BY <1>3, <1>9, <2>2 DEF TopMost, SetValue
  <2>4. DblkMost(c) = 0 /\ DblkMost(d) = 0 /\ SaoMost(c) = 0 /\ SaoMost(d) = 0
    BY <1>9, <2>2 DEF DblkMost, SaoMost, CodePlaces
  <2>5. PlanesMade(d)
    BY <2>2 DEF PlanesMade, DonePlaces
  <2>6. "dblk" \in RowPlaces /\ c.at \in RowPlaces
    BY <1>9 DEF RowPlaces, CodePlaces
  <2>7. /\ TopMost(c) <= TopMost(d) /\ TopMost(c) \in Nat /\ TopMost(d) \in Nat
    BY <1>2, <2>3
  <2> QED BY <1>2, <1>3, <2>1, <2>4, <2>5, <2>6, <2>7, StaysInRow DEF d
<1> QED BY <1>3, <1>5, <1>6, <1>7, <1>8, <1>9 DEF SetPlaces

(* A CTB of the row, or the row's end, is coded.                           *)
LEMMA WriteTop ==
  ASSUME IInv, NEW t \in Threads, WriteUnits(t), ctx[t].at # "meSet"
  PROVE  IInv'
<1> DEFINE c == ctx[t]
           v == SetValue(c)
<1>1. /\ TypeInv /\ FrameInv /\ RowInv /\ UnitInv
      /\ c \in Context /\ c.f \in FrameSet /\ c.r \in RowSet /\ c.x \in ColSet
      /\ c.x \in Nat /\ c.x < Cols
  BY CtxType, Sizes DEF IInv, ColSet
<1>2. /\ Rows \in Nat /\ Cols \in Nat /\ Cols > 0 /\ LastRow = Rows - 1 /\ c.r \in 0 .. Rows - 1
  BY <1>1, Sizes DEF RowSet, LastRow
<1>3. /\ c.at \in {"bottom", "rowEnd"} /\ c.step = "begin"
      /\ units' = [units EXCEPT ![Top][c.r] = v]
      /\ Goto(t, [c EXCEPT !.step = "post"])
      /\ UNCHANGED <<saoOn, nextMe, nextEnc, meFrame, meEncFree, encLeft, encFrame, planes>>
  BY DEF WriteUnits, queueVars, frameVars, SetPlaces, SetManager
<1>4. c.at \in RowPlaces
  BY <1>3 DEF RowPlaces, CodePlaces
<1>5. /\ Standing(c) /\ PlanesMade(c) /\ Hold(c)
  BY <1>1, <1>4 DEF FrameInv, RowInv, UnitInv
<1> DEFINE d == [c EXCEPT !.step = "post"]
<1>6. /\ d \in Context /\ d.at = c.at /\ d.f = c.f /\ d.r = c.r /\ d.x = c.x /\ d.cu = c.cu
      /\ d.step = "post"
  BY <1>1, StepType
<1> HIDE DEF d
<1>7. ctx'[t] = d /\ Other(t) /\ ctx' \in [Threads -> Context]
  BY <1>1, <1>3, <1>6, Went DEF d
<1>8. /\ c.at = "bottom" => v \in {2 * c.x + 1, 2 * c.x + 2}
      /\ c.at = "rowEnd" => v = 2 * Cols + 2
  BY DEF SetValue
<1>9. v \in Nat
  BY <1>1, <1>2, <1>3, <1>8
<1> HIDE DEF v
<1>10. /\ units' \in [SleepManagers \cup SpinManagers -> [RowSet -> Nat]]
       /\ \A n \in SleepManagers \cup SpinManagers, q \in RowSet :
            units'[n][q] = IF n = Top /\ q = c.r THEN v ELSE units[n][q]
  <2>1. Top \in SleepManagers \cup SpinManagers
    BY Managers
  <2> QED BY <1>1, <1>3, <1>9, <2>1 DEF TypeInv
<1>11. TypeInv'
  BY <1>1, <1>3, <1>7, <1>10 DEF TypeInv
<1>12. \A q \in RowSet : /\ units'[Top][q] = IF q = c.r THEN v ELSE units[Top][q]
                         /\ units'[Dblk][q] = units[Dblk][q]
                         /\ units'[Sao][q] = units[Sao][q]
  BY <1>10, Managers
<1>13. units[Top][c.r] <= v
  <2>1. /\ c.at = "bottom" => TopMost(c) = IF c.cu = 2 THEN 2 * c.x ELSE 2 * c.x + 1
        /\ c.at = "rowEnd" => TopMost(c) = 2 * Cols
    BY <1>3 DEF TopMost
  <2>2. /\ c.at = "bottom" => v = IF c.cu = 2 THEN 2 * c.x + 1 ELSE 2 * c.x + 2
    BY DEF SetValue, v
  <2>3. units[Top][c.r] <= TopMost(c) /\ units[Top][c.r] \in Nat
    BY <1>1, <1>5, UnitNat DEF Hold
  <2> QED BY <1>1, <1>2, <1>3, <1>8, <2>1, <2>2, <2>3
<1>14. /\ TopMost(d) = v /\ DblkMost(d) = DblkMost(c) /\ SaoMost(d) = SaoMost(c)
  <2>1. SetValue(d) = SetValue(c)
    BY <1>6 DEF SetValue
  <2> QED BY <1>3, <1>6, <1>8, <2>1 DEF TopMost, DblkMost, SaoMost, v
<1>15. Hold(ctx[t])'
  <2>1. c.r > 0 => c.r - 1 \in RowSet /\ c.r - 1 # c.r
    BY <1>2 DEF RowSet
  <2>2. /\ units'[Top][c.r] = v /\ units'[Dblk][c.r] = units[Dblk][c.r]
        /\ c.r > 0 => /\ units'[Sao][c.r - 1] = units[Sao][c.r - 1]
                      /\ units'[Top][c.r - 1] = units[Top][c.r - 1]
    BY <1>1, <1>12, <2>1
  <2>3. v <= v
    BY <1>9
  <2> QED BY <1>5, <1>6, <1>7, <1>14, <2>2, <2>3 DEF Hold
<1>16. RowsInOrder'
  <2> SUFFICES ASSUME NEW q \in 1 .. LastRow
               PROVE  /\ units'[Top][q] \in 1 .. 2 * Cols
                           => units'[Top][q - 1] >= 2 * ((units'[Top][q] - 1) \div 2) + 3
                      /\ units'[Dblk][q] > 0
                           => units'[Dblk][q - 1] >= Least(units'[Dblk][q] + 1, Cols)
                      /\ units'[Sao][q] > 0 => units'[Sao][q - 1] >= Least(units'[Sao][q] + 1, Cols)
    BY DEF RowsInOrder
  <2>1. q \in RowSet /\ q - 1 \in RowSet /\ q # q - 1 /\ q \in Nat
    BY <1>2 DEF RowSet
  <2>2. /\ units[Top][q] \in 1 .. 2 * Cols
             => units[Top][q - 1] >= 2 * ((units[Top][q] - 1) \div 2) + 3
        /\ units[Dblk][q] > 0 => units[Dblk][q - 1] >= Least(units[Dblk][q] + 1, Cols)
        /\ units[Sao][q] > 0 => units[Sao][q - 1] >= Least(units[Sao][q] + 1, Cols)
    BY <1>1 DEF UnitInv, RowsInOrder
  <2>3. /\ units'[Dblk][q] > 0 => units'[Dblk][q - 1] >= Least(units'[Dblk][q] + 1, Cols)
        /\ units'[Sao][q] > 0 => units'[Sao][q - 1] >= Least(units'[Sao][q] + 1, Cols)
    BY <1>12, <2>1, <2>2
  <2>4. ASSUME units'[Top][q] \in 1 .. 2 * Cols
        PROVE  units'[Top][q - 1] >= 2 * ((units'[Top][q] - 1) \div 2) + 3
    <3>1. CASE q = c.r
      <4>1. units'[Top][q] = v /\ units'[Top][q - 1] = units[Top][q - 1]
        BY <1>12, <2>1, <3>1
      <4>2. c.at = "bottom"
        BY <1>2, <1>3, <1>8, <2>4, <4>1
      <4>3. units[Top][q - 1] >= 2 * c.x + 3
        BY <1>5, <2>1, <3>1, <4>2 DEF Hold
      <4>4. (v - 1) \div 2 = c.x
        BY <1>1, <1>8, <4>2
      <4> QED BY <4>1, <4>3, <4>4
    <3>2. CASE q - 1 = c.r
      <4>1. units'[Top][q] = units[Top][q] /\ units'[Top][q - 1] = v
        BY <1>12, <2>1, <3>2
      <4>2. units[Top][q - 1] >= 2 * ((units[Top][q] - 1) \div 2) + 3 /\ units[Top][q - 1] <= v
        BY <1>13, <2>2, <2>4, <3>2, <4>1
      <4>3. units[Top][q - 1] \in Nat /\ units[Top][q] \in Nat
        BY <1>1, <2>1, UnitNat
      <4> QED BY <1>9, <4>1, <4>2, <4>3
    <3>3. CASE q # c.r /\ q - 1 # c.r
      BY <1>12, <2>1, <2>2, <2>4, <3>3
    <3> QED BY <3>1, <3>2, <3>3
  <2> QED BY <2>3, <2>4
<1>17. /\ Standing(ctx[t])' /\ PlanesMade(ctx[t])'
       /\ c.at # "end" /\ ctx'[t].at = c.at /\ ctx'[t].f = c.f /\ ctx'[t].r = c.r
  BY <1>3, <1>5, <1>6, <1>7 DEF Standing, PlanesMade, DoneRow
<1>18. FrameInv'
  BY <1>1, <1>3, <1>7, <1>17, FrameKept
<1>19. RowInv'
  BY <1>1, <1>3, <1>7, <1>17, RowKept
<1>20. UnitInv'
  <2>1. \A q \in RowSet : units[Top][q] <= units'[Top][q]
    BY <1>1, <1>9, <1>12, <1>13, UnitNat
  <2> QED BY <1>1, <1>3, <1>4, <1>7, <1>11, <1>12, <1>15, <1>16, <2>1, UnitMoved
<1> QED BY <1>11, <1>18, <1>19, <1>20 DEF IInv

(* The search of a CTB is counted.                                         *)
LEMMA WriteMe ==
  ASSUME IInv, NEW t \in Threads, WriteUnits(t), ctx[t].at = "meSet"
  PROVE  IInv'
<1> DEFINE c == ctx[t]
           v == c.x + 1
           d == [c EXCEPT !.step = "post"]
<1>1. /\ TypeInv /\ FrameInv /\ RowInv /\ UnitInv /\ Standing(c)
      /\ c \in Context /\ c.f \in FrameSet /\ c.r \in RowSet
  BY CtxType DEF IInv, FrameInv
<1>2. /\ units' = [units EXCEPT ![Me(c.f)][c.r] = v]
      /\ Goto(t, [c EXCEPT !.step = "post"])
      /\ UNCHANGED <<saoOn, nextMe, nextEnc, meFrame, meEncFree, encLeft, encFrame, planes>>
  BY DEF WriteUnits, queueVars, frameVars, SetManager, SetValue
<1>3. d \in Context /\ d.at = "meSet" /\ d.f = c.f /\ d.step = "post"
  BY <1>1, StepType
<1> HIDE DEF d
<1>4. ctx'[t] = d /\ Other(t) /\ ctx' \in [Threads -> Context]
  BY <1>1, <1>2, <1>3, Went DEF d
<1>5. v \in Nat
  BY <1>1, CtxType, Sizes DEF ColSet
<1> HIDE DEF v
<1>6. units' \in [SleepManagers \cup SpinManagers -> [RowSet -> Nat]]
  <2>1. Me(c.f) \in SleepManagers \cup SpinManagers
    BY <1>1, Managers
  <2> QED BY <1>1, <1>2, <1>5, <2>1 DEF TypeInv
<1>7. TypeInv'
  BY <1>1, <1>2, <1>4, <1>6 DEF TypeInv
<1>8. \A m \in EncManagers : units'[m] = units[m]
  <2>1. \A m \in EncManagers : m \in SleepManagers \cup SpinManagers /\ m # Me(c.f)
    BY <1>1, Managers DEF EncManagers, SpinManagers
  <2> QED BY <1>1, <1>2, <2>1 DEF TypeInv
<1>9. ctx'[t].at \notin RowPlaces /\ ctx[t].at \notin RowPlaces
  BY <1>3, <1>4 DEF RowPlaces, CodePlaces, DonePlaces
<1>10. Standing(ctx[t])' /\ PlanesMade(ctx[t])'
  BY <1>1, <1>2, <1>3, <1>4, <1>9 DEF Standing, PlanesMade, RowPlaces, DonePlaces
<1>11. FrameInv'
  BY <1>1, <1>2, <1>3, <1>4, <1>10, FrameKept
<1>12. RowInv'
  BY <1>1, <1>2, <1>3, <1>4, <1>9, <1>10, RowKept
<1>13. UnitInv'
  BY <1>1, <1>2, <1>4, <1>8, <1>9, UnitKept
<1> QED BY <1>7, <1>11, <1>12, <1>13 DEF IInv

LEMMA ColNat == ColSet \subseteq Nat
BY Sizes DEF ColSet

LEMMA DeblockKeeps ==
  ASSUME IInv, NEW t \in Threads, Deblock(t)
  PROVE  IInv'
<1> DEFINE c == ctx[t]
           v == c.x + 1
           d == AfterDblk(c)
<1>1. /\ TypeInv /\ FrameInv /\ RowInv /\ UnitInv
      /\ c.f \in FrameSet /\ c.r \in RowSet /\ c.x \in ColSet /\ c.x \in Nat /\ c.x < Cols
  BY CtxType, Sizes DEF IInv, ColSet
<1>2. /\ Rows \in Nat /\ Cols \in Nat /\ Cols > 0 /\ LastRow = Rows - 1 /\ c.r \in 0 .. Rows - 1
      /\ 0 \in ColSet
  BY <1>1, Sizes DEF RowSet, LastRow
<1>3. /\ c.at = "dblk"
      /\ c.r > 0 => units[Dblk][c.r - 1] >= FilterNeed(c.x)
      /\ units' = [units EXCEPT ![Dblk][c.r] = v]
      /\ Goto(t, AfterDblk(c))
      /\ UNCHANGED <<saoOn, nextMe, nextEnc, meFrame, meEncFree, encLeft, encFrame, planes>>
  BY DEF Deblock, queueVars, frameVars
<1>4. c.at \in RowPlaces
  BY <1>3 DEF RowPlaces
<1>5. /\ Standing(c) /\ Hold(c)
  BY <1>1, <1>4 DEF FrameInv, UnitInv
<1>6. /\ v \in Nat /\ v <= Cols /\ (v < Cols => v \in ColSet)
  BY <1>1, <1>2 DEF ColSet
<1>7. \E p \in {"dblk", "sao", "planes"}, x \in ColSet :
        d = At(p, c.f, c.r, x) /\ (p = "dblk" => x = v)
        /\ (p = "sao" => c.r > 0)
  BY <1>2, <1>6 DEF AfterDblk
<1>8. PICK p \in {"dblk", "sao", "planes"}, x \in ColSet :
        d = At(p, c.f, c.r, x) /\ (p = "dblk" => x = v)
        /\ (p = "sao" => c.r > 0)
  BY <1>7
<1>9. /\ d \in Context /\ d.at = p /\ d.f = c.f /\ d.r = c.r /\ d.x = x /\ d.step = "begin"
  <2>1. p \in Places
    BY DEF Places, RowPlaces
  <2>2. d \in Context
    BY <1>1, <1>8, <2>1, AtType
  <2> QED BY <1>8, <2>2 DEF At
<1> HIDE DEF d
<1>10. ctx'[t] = d /\ Other(t) /\ ctx' \in [Threads -> Context]
  BY <1>1, <1>3, <1>9, Went DEF d
<1> HIDE DEF v
<1>11. /\ units' \in [SleepManagers \cup SpinManagers -> [RowSet -> Nat]]
       /\ \A n \in SleepManagers \cup SpinManagers, q \in RowSet :
            units'[n][q] = IF n = Dblk /\ q = c.r THEN v ELSE units[n][q]
  <2>1. Dblk \in SleepManagers \cup SpinManagers
    BY Managers
  <2> QED BY <1>1, <1>3, <1>6, <2>1 DEF TypeInv
<1>12. TypeInv'
  BY <1>1, <1>3, <1>10, <1>11 DEF TypeInv
<1>13. \A q \in RowSet : /\ units'[Top][q] = units[Top][q]
                         /\ units'[Dblk][q] = IF q = c.r THEN v ELSE units[Dblk][q]
                         /\ units'[Sao][q] = units[Sao][q]
  BY <1>11, Managers
<1>14. units[Dblk][c.r] < v /\ units[Dblk][c.r] \in Nat
  <2>1. DblkMost(c) = c.x
    BY <1>3 DEF DblkMost, CodePlaces
  <2>2. units[Dblk][c.r] <= c.x /\ units[Dblk][c.r] \in Nat
    BY <1>1, <1>5, <2>1, UnitNat DEF Hold
  <2> QED BY <1>1, <2>2 DEF v
<1>15. /\ TopMost(c) = TopMost(d) /\ v <= DblkMost(d) /\ SaoMost(c) = 0
  <2>1. d.at \in {"dblk", "sao", "planes"} /\ (d.at = "dblk" => d.x = v)
    BY <1>8, <1>9
  <2>2. TopMost(c) = 2 * Cols + 2 /\ TopMost(d) = 2 * Cols + 2
    BY <1>3, <2>1 DEF TopMost
  <2>3. v <= DblkMost(d)
    BY <1>2, <1>6, <2>1 DEF DblkMost, CodePlaces
  <2>4. SaoMost(c) = 0
    BY <1>3 DEF SaoMost, CodePlaces
  <2> QED BY <2>1, <2>2, <2>3, <2>4
<1>16. Hold(ctx[t])'
  <2>1. /\ units'[Top][c.r] = units[Top][c.r] /\ units'[Dblk][c.r] = v
        /\ c.r > 0 => units'[Sao][c.r - 1] = units[Sao][c.r - 1]
    <3>1. c.r > 0 => c.r - 1 \in RowSet
      BY <1>2 DEF RowSet
    <3> QED BY <1>1, <1>13, <3>1
  <2>2. d.at # "bottom"
    BY <1>9
  <2>3. c.r > 0 => units'[Sao][c.r - 1] <= SaoMost(d)
    <3>1. c.r > 0 => c.r - 1 \in RowSet
      BY <1>2 DEF RowSet
    <3>2. c.r > 0 => units'[Sao][c.r - 1] <= 0 /\ units'[Sao][c.r - 1] \in Nat
      BY <1>1, <1>5, <1>15, <2>1, <3>1, UnitNat DEF Hold
    <3>3. SaoMost(d) \in Nat
      BY <1>2, <1>9, ColNat DEF SaoMost
    <3> QED BY <3>2, <3>3
  <2>4. d.at = "sao" => c.r > 0
    BY <1>8, <1>9
  <2> QED BY <1>5, <1>9, <1>10, <1>15, <2>1, <2>2, <2>3, <2>4 DEF Hold
<1>17. RowsInOrder'
  <2> SUFFICES ASSUME NEW q \in 1 .. LastRow
               PROVE  /\ units'[Top][q] \in 1 .. 2 * Cols
                           => units'[Top][q - 1] >= 2 * ((units'[Top][q] - 1) \div 2) + 3
                      /\ units'[Dblk][q] > 0
                           => units'[Dblk][q - 1] >= Least(units'[Dblk][q] + 1, Cols)
                      /\ units'[Sao][q] > 0 => units'[Sao][q - 1] >= Least(units'[Sao][q] + 1, Cols)
    BY DEF RowsInOrder
  <2>1. q \in RowSet /\ q - 1 \in RowSet /\ q # q - 1 /\ q \in Nat /\ q > 0
    BY <1>2 DEF RowSet
  <2>2. /\ units[Top][q] \in 1 .. 2 * Cols
             => units[Top][q - 1] >= 2 * ((units[Top][q] - 1) \div 2) + 3
        /\ units[Dblk][q] > 0 => units[Dblk][q - 1] >= Least(units[Dblk][q] + 1, Cols)
        /\ units[Sao][q] > 0 => units[Sao][q - 1] >= Least(units[Sao][q] + 1, Cols)
    BY <1>1 DEF UnitInv, RowsInOrder
  <2>3. /\ units'[Top][q] \in 1 .. 2 * Cols
             => units'[Top][q - 1] >= 2 * ((units'[Top][q] - 1) \div 2) + 3
        /\ units'[Sao][q] > 0 => units'[Sao][q - 1] >= Least(units'[Sao][q] + 1, Cols)
    BY <1>13, <2>1, <2>2
  <2>4. ASSUME units'[Dblk][q] > 0
        PROVE  units'[Dblk][q - 1] >= Least(units'[Dblk][q] + 1, Cols)
    <3>1. CASE q = c.r
      <4>1. units'[Dblk][q] = v /\ units'[Dblk][q - 1] = units[Dblk][q - 1]
        BY <1>13, <2>1, <3>1
      <4>2. units[Dblk][q - 1] >= Least(c.x + 2, Cols)
        BY <1>3, <2>1, <3>1 DEF FilterNeed
      <4>3. v + 1 = c.x + 2
        BY <1>1 DEF v
      <4> QED BY <4>1, <4>2, <4>3
    <3>2. CASE q - 1 = c.r
      <4>1. units'[Dblk][q] = units[Dblk][q] /\ units'[Dblk][q - 1] = v
        BY <1>13, <2>1, <3>2
      <4>2. units[Dblk][c.r] >= Least(units[Dblk][q] + 1, Cols)
        BY <2>2, <2>4, <3>2, <4>1
      <4>3. units[Dblk][q] \in Nat
        BY <1>1, <2>1, UnitNat
      <4> QED BY <1>2, <1>6, <1>14, <4>1, <4>2, <4>3 DEF Least
    <3>3. CASE q # c.r /\ q - 1 # c.r
      BY <1>13, <2>1, <2>2, <2>4, <3>3
    <3> QED BY <3>1, <3>2, <3>3
  <2> QED BY <2>3, <2>4
<1>18. /\ Standing(ctx[t])' /\ PlanesMade(ctx[t])'
       /\ c.at # "end" /\ ctx'[t].at # "end" /\ ctx'[t].at \in RowPlaces
       /\ ctx'[t].f = c.f /\ ctx'[t].r = c.r
  BY <1>3, <1>4, <1>5, <1>9, <1>10
  DEF Standing, PlanesMade, RowPlaces, DonePlaces, AheadPlaces
<1>19. FrameInv'
  BY <1>1, <1>3, <1>10, <1>18, FrameKept
<1>20. RowInv'
  BY <1>1, <1>3, <1>4, <1>10, <1>18, RowKept
<1>21. UnitInv'
  <2>1. \A q \in RowSet : units[Top][q] <= units'[Top][q]
    BY <1>1, <1>13, UnitNat
  <2> QED BY <1>1, <1>3, <1>4, <1>10, <1>12, <1>13, <1>16, <1>17, <2>1, UnitMoved
<1> QED BY <1>12, <1>19, <1>20, <1>21 DEF IInv

LEMMA SaoAboveKeeps ==
  ASSUME IInv, NEW t \in Threads, SaoAbove(t)
  PROVE  IInv'
<1> DEFINE c == ctx[t]
           v == c.x + 1
           s == c.r - 1
           d == IF c.x + 1 < Cols THEN At("sao", c.f, c.r, c.x + 1) ELSE At("planes", c.f, c.r, 0)
<1>1. /\ TypeInv /\ FrameInv /\ RowInv /\ UnitInv
      /\ c.f \in FrameSet /\ c.r \in RowSet /\ c.x \in ColSet /\ c.x \in Nat /\ c.x < Cols
  BY CtxType, Sizes DEF IInv, ColSet
<1>2. /\ Rows \in Nat /\ Cols \in Nat /\ Cols > 0 /\ LastRow = Rows - 1 /\ c.r \in 0 .. Rows - 1
      /\ 0 \in ColSet
  BY <1>1, Sizes DEF RowSet, LastRow
<1>3. /\ c.at = "sao"
      /\ c.r > 1 => units[Sao][c.r - 2] >= FilterNeed(c.x)
      /\ units' = [units EXCEPT ![Sao][s] = v]
      /\ Goto(t, d)
      /\ UNCHANGED <<saoOn, nextMe, nextEnc, meFrame, meEncFree, encLeft, encFrame, planes>>
  BY DEF SaoAbove, queueVars, frameVars
<1>4. c.at \in RowPlaces
  BY <1>3 DEF RowPlaces
<1>5. /\ Standing(c) /\ Hold(c)
      /\ c.r > 0 /\ s \in RowSet /\ s # c.r /\ s >= 0 /\ s <= LastRow /\ s \in Int /\ s + 1 = c.r
  <2>1. Standing(c) /\ Hold(c)
    BY <1>1, <1>4 DEF FrameInv, UnitInv
  <2>2. c.r > 0
    BY <1>3, <2>1 DEF Hold
  <2> QED BY <1>2, <2>1, <2>2 DEF RowSet
<1>6. /\ v \in Nat /\ v <= Cols /\ (v < Cols => v \in ColSet)
  BY <1>1, <1>2 DEF ColSet
<1>7. \E p \in {"sao", "planes"}, x \in ColSet :
        d = At(p, c.f, c.r, x) /\ (p = "sao" => x = v)
  BY <1>2, <1>6
<1>8. PICK p \in {"sao", "planes"}, x \in ColSet :
        d = At(p, c.f, c.r, x) /\ (p = "sao" => x = v)
  BY <1>7
<1>9. /\ d \in Context /\ d.at = p /\ d.f = c.f /\ d.r = c.r /\ d.x = x /\ d.step = "begin"
  <2>1. p \in Places
    BY DEF Places, RowPlaces
  <2>2. d \in Context
    BY <1>1, <1>8, <2>1, AtType
  <2> QED BY <1>8, <2>2 DEF At
<1> HIDE DEF d
<1>10. ctx'[t] = d /\ Other(t) /\ ctx' \in [Threads -> Context]
  BY <1>1, <1>3, <1>9, Went DEF d
<1> HIDE DEF v
<1>11. /\ units' \in [SleepManagers \cup SpinManagers -> [RowSet -> Nat]]
       /\ \A n \in SleepManagers \cup SpinManagers, q \in RowSet :
            units'[n][q] = IF n = Sao /\ q = s THEN v ELSE units[n][q]
  <2>1. Sao \in SleepManagers \cup SpinManagers
    BY Managers
  <2> QED BY <1>1, <1>3, <1>6, <2>1 DEF TypeInv
<1>12. TypeInv'
  BY <1>1, <1>3, <1>10, <1>11 DEF TypeInv
<1>13. \A q \in RowSet : /\ units'[Top][q] = units[Top][q]
                         /\ units'[Dblk][q] = units[Dblk][q]
                         /\ units'[Sao][q] = IF q = s THEN v ELSE units[Sao][q]
  BY <1>11, Managers
<1>14. units[Sao][s] < v /\ units[Sao][s] \in Nat
  <2>1. SaoMost(c) = c.x
    BY <1>3 DEF SaoMost, CodePlaces
  <2>2. units[Sao][s] <= c.x /\ units[Sao][s] \in Nat
    BY <1>1, <1>5, <2>1, UnitNat DEF Hold
  <2> QED BY <1>1, <2>2 DEF v
<1>15. /\ TopMost(c) = TopMost(d) /\ DblkMost(c) = DblkMost(d) /\ v <= SaoMost(d)
  <2>1. d.at \in {"sao", "planes"} /\ (d.at = "sao" => d.x = v)
    BY <1>8, <1>9
  <2>2. TopMost(c) = 2 * Cols + 2 /\ TopMost(d) = 2 * Cols + 2
    BY <1>3, <2>1 DEF TopMost
  <2>3. v <= SaoMost(d)
    BY <1>2, <1>6, <2>1 DEF SaoMost, CodePlaces
  <2>4. DblkMost(c) = Cols /\ DblkMost(d) = Cols
    BY <1>3, <2>1 DEF DblkMost, CodePlaces
  <2> QED BY <2>2, <2>3, <2>4
<1>16. Hold(ctx[t])'
  <2>1. /\ units'[Top][c.r] = units[Top][c.r] /\ units'[Dblk][c.r] = units[Dblk][c.r]
        /\ units'[Sao][c.r - 1] = v
    BY <1>1, <1>5, <1>13
  <2>2. d.at # "bottom"
    BY <1>9
  <2> QED BY <1>5, <1>9, <1>10, <1>15, <2>1, <2>2 DEF Hold
<1>17. RowsInOrder'
  <2> SUFFICES ASSUME NEW q \in 1 .. LastRow
               PROVE  /\ units'[Top][q] \in 1 .. 2 * Cols
                           => units'[Top][q - 1] >= 2 * ((units'[Top][q] - 1) \div 2) + 3
                      /\ units'[Dblk][q] > 0
                           => units'[Dblk][q - 1] >= Least(units'[Dblk][q] + 1, Cols)
                      /\ units'[Sao][q] > 0 => units'[Sao][q - 1] >= Least(units'[Sao][q] + 1, Cols)
    BY DEF RowsInOrder
  <2>1. q \in RowSet /\ q - 1 \in RowSet /\ q # q - 1 /\ q \in Nat /\ q > 0
    BY <1>2 DEF RowSet
  <2>2. /\ units[Top][q] \in 1 .. 2 * Cols
             => units[Top][q - 1] >= 2 * ((units[Top][q] - 1) \div 2) + 3
        /\ units[Dblk][q] > 0 => units[Dblk][q - 1] >= Least(units[Dblk][q] + 1, Cols)
        /\ units[Sao][q] > 0 => units[Sao][q - 1] >= Least(units[Sao][q] + 1, Cols)
    BY <1>1 DEF UnitInv, RowsInOrder
  <2>3. /\ units'[Top][q] \in 1 .. 2 * Cols
             => units'[Top][q - 1] >= 2 * ((units'[Top][q] - 1) \div 2) + 3
        /\ units'[Dblk][q] > 0 => units'[Dblk][q - 1] >= Least(units'[Dblk][q] + 1, Cols)
    BY <1>13, <2>1, <2>2
  <2>4. ASSUME units'[Sao][q] > 0
        PROVE  units'[Sao][q - 1] >= Least(units'[Sao][q] + 1, Cols)
    <3>1. CASE q = s
      <4>1. units'[Sao][q] = v /\ units'[Sao][q - 1] = units[Sao][q - 1]
        BY <1>13, <2>1, <3>1
      <4>2. units[Sao][q - 1] >= Least(c.x + 2, Cols)
        <5>1. c.r > 1 /\ c.r - 2 = q - 1
          BY <1>5, <2>1, <3>1
        <5> QED BY <1>3, <5>1 DEF FilterNeed
      <4>3. v + 1 = c.x + 2
        BY <1>1 DEF v
      <4> QED BY <4>1, <4>2, <4>3
    <3>2. CASE q - 1 = s
      <4>1. units'[Sao][q] = units[Sao][q] /\ units'[Sao][q - 1] = v
        BY <1>13, <2>1, <3>2
      <4>2. units[Sao][s] >= Least(units[Sao][q] + 1, Cols)
        BY <2>2, <2>4, <3>2, <4>1
      <4>3. units[Sao][q] \in Nat
        BY <1>1, <2>1, UnitNat
      <4> QED BY <1>2, <1>6, <1>14, <4>1, <4>2, <4>3 DEF Least
    <3>3. CASE q # s /\ q - 1 # s
      BY <1>13, <2>1, <2>2, <2>4, <3>3
    <3> QED BY <3>1, <3>2, <3>3
  <2> QED BY <2>3, <2>4
<1>18. /\ Standing(ctx[t])' /\ PlanesMade(ctx[t])'
       /\ c.at # "end" /\ ctx'[t].at # "end" /\ ctx'[t].at \in RowPlaces
       /\ ctx'[t].f = c.f /\ ctx'[t].r = c.r
  BY <1>3, <1>4, <1>5, <1>9, <1>10
  DEF Standing, PlanesMade, RowPlaces, DonePlaces, AheadPlaces
<1>19. FrameInv'
  BY <1>1, <1>3, <1>10, <1>18, FrameKept
<1>20. RowInv'
  BY <1>1, <1>3, <1>4, <1>10, <1>18, RowKept
<1>21. UnitInv'
  <2>1. \A q \in RowSet : units[Top][q] <= units'[Top][q]
    BY <1>1, <1>13, UnitNat
  <2>2. \A q \in RowSet : q + 1 # c.r => units'[Sao][q] = units[Sao][q]
    BY <1>5, <1>13
  <2>3. \A q \in RowSet : units'[Top][q] = units[Top][q] /\ units'[Dblk][q] = units[Dblk][q]
    BY <1>13
  <2> QED BY <1>1, <1>3, <1>4, <1>10, <1>12, <1>16, <1>17, <2>1, <2>2, <2>3, UnitMoved
<1> QED BY <1>12, <1>19, <1>20, <1>21 DEF IInv

-----------------------------------------------------------------------------
(* Steps that end a row.                                                   *)

(* The places after the filters know no more of the counters.              *)
LEMMA LastPlaces ==
  ASSUME NEW c, c.at \in {"planes"} \cup DonePlaces
  PROVE  TopMost(c) = 2 * Cols + 2 /\ DblkMost(c) = Cols /\ SaoMost(c) = Cols
BY DEF DonePlaces, TopMost, DblkMost, SaoMost, CodePlaces

(* Planes of a row are made by the thread that goes on with its row.       *)
LEMMA PlanesGrow ==
  ASSUME IInv, NEW t \in Threads, NEW p \in DonePlaces, NEW x \in ColSet, NEW q \in RowSet,
         ctx[t].at \in {"planes"} \cup DonePlaces,
         Goto(t, At(p, ctx[t].f, ctx[t].r, x)),
         planes' = [planes EXCEPT ![ctx[t].f] = @ \cup {q}],
         DoneRow(ctx[t].r) \in planes[ctx[t].f] \cup {q},
         p = "publishLast" => ctx[t].r \in planes[ctx[t].f] \cup {q},
         UNCHANGED <<saoOn, units, nextMe, nextEnc, meFrame, meEncFree, encLeft, encFrame>>
  PROVE  IInv'
<1> DEFINE c == ctx[t]
           d == At(p, c.f, c.r, x)
<1>1. /\ TypeInv /\ FrameInv /\ RowInv /\ UnitInv
      /\ c.f \in FrameSet /\ c.r \in RowSet
  BY CtxType DEF IInv
<1>2. /\ c.at \in RowPlaces /\ p \in RowPlaces /\ p \in Places /\ p \notin {"bottom", "sao", "end"}
      /\ p \notin AheadPlaces /\ c.at \notin {"end"} \cup AheadPlaces
  BY DEF Places, RowPlaces, DonePlaces, AheadPlaces
<1>3. Standing(c) /\ Hold(c)
  BY <1>1, <1>2 DEF FrameInv, UnitInv
<1>4. /\ d \in Context /\ d.at = p /\ d.f = c.f /\ d.r = c.r /\ d.step = "begin"
  <2>1. d \in Context
    BY <1>1, <1>2, AtType
  <2> QED BY <2>1 DEF At
<1> HIDE DEF d
<1>5. ctx'[t] = d /\ Other(t) /\ ctx' \in [Threads -> Context]
  BY <1>1, <1>4, Went DEF d
<1>6. /\ planes' \in [FrameSet -> SUBSET RowSet]
      /\ planes'[c.f] = planes[c.f] \cup {q}
      /\ \A f \in FrameSet : planes[f] \subseteq planes'[f]
  BY <1>1 DEF TypeInv
<1>7. TypeInv'
  BY <1>1, <1>5, <1>6 DEF TypeInv
<1>8. Standing(ctx[t])' /\ PlanesMade(ctx[t])'
  BY <1>2, <1>3, <1>4, <1>5, <1>6 DEF Standing, PlanesMade, DoneRow
<1>9. Hold(ctx[t])'
  BY <1>2, <1>3, <1>4, <1>5, LastPlaces DEF Hold
<1>10. FrameInv'
  BY <1>1, <1>2, <1>4, <1>5, <1>8, FrameKept
<1>11. RowInv'
  BY <1>1, <1>2, <1>4, <1>5, <1>6, <1>8, RowKept
<1>12. UnitInv'
  BY <1>1, <1>2, <1>4, <1>5, <1>9, UnitKept
<1> QED BY <1>7, <1>10, <1>11, <1>12 DEF IInv

(* A thread has done all of its row.                                       *)
LEMMA Leaves ==
  ASSUME IInv, NEW t \in Threads, ctx[t].at \in RowPlaces, RowDone(ctx[t].f, ctx[t].r),
         Goto(t, At("encTake", ctx[t].f, 0, 0)),
         UNCHANGED <<saoOn, units, nextMe, nextEnc, meFrame, meEncFree, encLeft, encFrame, planes>>
  PROVE  IInv'
<1> DEFINE c == ctx[t]
           d == At("encTake", c.f, 0, 0)
<1>1. /\ TypeInv /\ FrameInv /\ RowInv /\ UnitInv /\ Standing(c)
      /\ c.f \in FrameSet /\ 0 \in RowSet /\ 0 \in ColSet
  BY CtxType, Sizes DEF IInv, FrameInv
<1>2. /\ "encTake" \in Places /\ "encTake" \notin RowPlaces /\ "encTake" \notin AheadPlaces
      /\ c.at \notin {"end"} \cup AheadPlaces
  BY DEF Places, RowPlaces, CodePlaces, DonePlaces, AheadPlaces
<1>3. d \in Context /\ d.at = "encTake" /\ d.f = c.f /\ d.step = "begin"
  <2>1. d \in Context
    BY <1>1, <1>2, AtType
  <2> QED BY <2>1 DEF At
<1> HIDE DEF d
<1>4. ctx'[t] = d /\ Other(t) /\ ctx' \in [Threads -> Context]
  BY <1>1, <1>3, Went DEF d
<1>5. TypeInv'
  BY <1>1, <1>4 DEF TypeInv
<1>6. Standing(ctx[t])'
  BY <1>1, <1>2, <1>3, <1>4 DEF Standing
<1>7. FrameInv'
  BY <1>1, <1>2, <1>3, <1>4, <1>6, FrameKept
<1>8. RowInv'
  BY <1>1, <1>3, <1>4, RowLeft
<1>9. UnitInv'
  BY <1>1, <1>2, <1>3, <1>4, UnitKept
<1> QED BY <1>5, <1>7, <1>8, <1>9 DEF IInv

LEMMA PlanesKeeps ==
  ASSUME IInv, NEW t \in Threads, Planes(t)
  PROVE  IInv'
<1> DEFINE c == ctx[t]
           q == DoneRow(c.r)
<1>1. TypeInv /\ c.f \in FrameSet /\ c.r \in RowSet /\ 0 \in ColSet
  BY CtxType, Sizes DEF IInv
<1>2. /\ c.at = "planes" /\ c.at \in RowPlaces
      /\ UNCHANGED <<saoOn, units, nextMe, nextEnc, meFrame, meEncFree, encLeft, encFrame>>
  BY DEF Planes, queueVars, frameVars, RowPlaces
<1>3. CASE q >= 0
  <2>1. /\ planes' = [planes EXCEPT ![c.f] = @ \cup {q}]
        /\ Goto(t, At("publish", c.f, c.r, 0))
    BY <1>3 DEF Planes
  <2>2. q \in RowSet
    BY <1>1, <1>3, Sizes DEF RowSet, DoneRow
  <2> HIDE DEF q
  <2>3. q = DoneRow(c.r)
    BY DEF q
  <2> QED BY <1>1, <1>2, <2>1, <2>2, <2>3, PlanesGrow DEF DonePlaces
<1>4. CASE ~(q >= 0)
  <2>1. planes' = planes /\ Goto(t, At("encTake", c.f, 0, 0))
    BY <1>4 DEF Planes
  <2>2. c.r # LastRow
    <3>1. c.r - 1 < 0 \/ c.r < 0
      BY <1>1, <1>4, Sizes DEF DoneRow, RowSet
    <3> QED BY <1>1, <3>1, Sizes DEF RowSet
  <2>3. RowDone(c.f, c.r)
    BY <1>4, <2>2 DEF RowDone
  <2> QED BY <1>2, <2>1, <2>3, Leaves
<1> QED BY <1>3, <1>4

LEMMA LastPlanesKeeps ==
  ASSUME IInv, NEW t \in Threads, LastPlanes(t)
  PROVE  IInv'
<1> DEFINE c == ctx[t]
<1>1. TypeInv /\ c.f \in FrameSet /\ c.r \in RowSet /\ 0 \in ColSet /\ PlanesMade(c)
  BY CtxType, Sizes DEF IInv, RowInv
<1>2. /\ c.at = "lastPlanes"
      /\ planes' = [planes EXCEPT ![c.f] = @ \cup {c.r}]
      /\ Goto(t, At("publishLast", c.f, c.r, 0))
      /\ UNCHANGED <<saoOn, units, nextMe, nextEnc, meFrame, meEncFree, encLeft, encFrame>>
  BY DEF LastPlanes, queueVars, frameVars
<1>3. DoneRow(c.r) \in planes[c.f] \cup {c.r} /\ c.r \in planes[c.f] \cup {c.r}
  BY <1>1, <1>2 DEF PlanesMade, DonePlaces
<1> QED BY <1>1, <1>2, <1>3, PlanesGrow DEF DonePlaces

LEMMA PublishKeeps ==
  ASSUME IInv, NEW t \in Threads, Publish(t)
  PROVE  IInv'
BY StaysThere DEF Publish, queueVars, frameVars, SetPlaces

LEMMA PublishPostKeeps ==
  ASSUME IInv, NEW t \in Threads, PublishPost(t)
  PROVE  IInv'
<1> DEFINE c == ctx[t]
<1>1. /\ TypeInv /\ PlanesMade(c)
      /\ c.f \in FrameSet /\ c.r \in RowSet /\ c.x \in ColSet /\ c.x \in Nat
      /\ 0 \in ColSet /\ Cols \in Nat
  BY CtxType, Sizes, ColNat DEF IInv, RowInv
<1>2. /\ c.at \in {"publish", "publishLast"} /\ Goto(t, AfterPublish(c))
      /\ UNCHANGED <<saoOn, units, nextMe, nextEnc, meFrame, meEncFree, encLeft, encFrame, planes>>
  BY DEF PublishPost, queueVars, frameVars
<1>3. c.at \in RowPlaces /\ c.at \in DonePlaces
  BY <1>2 DEF RowPlaces, DonePlaces
<1>4. /\ DoneRow(c.r) \in planes[c.f] /\ (c.at = "publishLast" => c.r \in planes[c.f])
  BY <1>1, <1>3 DEF PlanesMade
<1>5. ASSUME NEW p \in DonePlaces, NEW x \in ColSet, Goto(t, At(p, c.f, c.r, x)),
             p = "publishLast" => c.at = "publishLast"
      PROVE  IInv'
  <2> DEFINE d == At(p, c.f, c.r, x)
  <2>1. d.at = p /\ d.f = c.f /\ d.r = c.r
    BY DEF At
  <2>2. PlanesMade(d)
    BY <1>4, <1>5, <2>1 DEF PlanesMade
  <2>3. /\ TopMost(c) = 2 * Cols + 2 /\ DblkMost(c) = Cols /\ SaoMost(c) = Cols
        /\ TopMost(d) = 2 * Cols + 2 /\ DblkMost(d) = Cols /\ SaoMost(d) = Cols
    <3> HIDE DEF d
    <3> QED BY <1>3, <2>1, LastPlaces
  <2>4. p \in RowPlaces /\ p \notin {"bottom", "sao"}
    BY DEF RowPlaces, DonePlaces
  <2>5. Cols <= Cols /\ 2 * Cols + 2 <= 2 * Cols + 2 /\ 2 * Cols + 2 \in Nat
    BY <1>1
  <2> QED BY <1>1, <1>2, <1>3, <1>5, <2>2, <2>3, <2>4, <2>5, StaysInRow
<1>6. CASE c.x + 1 < Cols
  <2>1. c.x + 1 \in ColSet
    BY <1>1, <1>6 DEF ColSet
  <2> QED BY <1>2, <1>3, <1>5, <1>6, <2>1 DEF AfterPublish
<1>7. CASE ~(c.x + 1 < Cols) /\ c.at = "publish" /\ saoOn /\ c.r = LastRow
  BY <1>1, <1>2, <1>5, <1>7 DEF AfterPublish, DonePlaces
<1>8. CASE ~(c.x + 1 < Cols) /\ ~(c.at = "publish" /\ saoOn /\ c.r = LastRow)
  <2>1. Goto(t, At("encTake", c.f, 0, 0))
    BY <1>2, <1>8 DEF AfterPublish
  <2>2. RowDone(c.f, c.r)
    <3>1. ~saoOn => DoneRow(c.r) = c.r
      BY DEF DoneRow
    <3>2. c.r = LastRow => c.r \in planes[c.f]
      BY <1>2, <1>4, <1>8, <3>1
    <3> QED BY <1>4, <3>2 DEF RowDone
  <2> QED BY <1>2, <1>3, <2>1, <2>2, Leaves
<1> QED BY <1>6, <1>7, <1>8

-----------------------------------------------------------------------------
(* Steps between frames.                                                   *)

(* No one is behind the frame whose ME was set up last.                    *)
LEMMA Together ==
  ASSUME TypeInv, FrameInv, NEW t \in Threads
  PROVE  /\ ctx[t].f \in FrameSet /\ meFrame \in 0 .. Frames /\ Frames \in Nat
         /\ ctx[t].f \in Nat /\ ctx[t].f <= Frames /\ meFrame <= ctx[t].f
         /\ ctx[t].f = meFrame \/ ctx[t].f = meFrame + 1
         /\ ctx[t].at \notin AheadPlaces => ctx[t].f = meFrame
<1>1. ctx[t].f \in FrameSet /\ meFrame \in 0 .. Frames /\ Frames \in Nat
  BY CtxType, Sizes DEF TypeInv
<1>2. ctx[t].f \in 1 .. Frames
  BY <1>1 DEF FrameSet
<1>3. Standing(ctx[t])
  BY DEF FrameInv
<1>4. /\ ctx[t].f = meFrame \/ ctx[t].f = meFrame + 1
      /\ ctx[t].at \notin AheadPlaces => ctx[t].f = meFrame
  BY <1>3 DEF Standing
<1> QED BY <1>1, <1>2, <1>4

LEMMA MeInitKeeps ==
  ASSUME IInv, NEW t \in Threads, MeInit(t)
  PROVE  IInv'
<1> DEFINE c == ctx[t]
           d == At("meTake", c.f, 0, 0)
<1>1. /\ TypeInv /\ FrameInv /\ RowInv /\ UnitInv /\ Standing(c)
      /\ c.f \in FrameSet /\ 0 \in RowSet /\ 0 \in ColSet
  BY CtxType, Sizes DEF IInv, FrameInv
<1>2. /\ c.at = "meInit" /\ meFrame' = c.f /\ Goto(t, d)
      /\ UNCHANGED <<saoOn, units, nextMe, nextEnc, encLeft, encFrame, planes>>
      /\ meFrame < c.f => meEncFree > 0 /\ meEncFree' = meEncFree - 1
      /\ ~(meFrame < c.f) => meEncFree' = meEncFree
  BY DEF MeInit
<1>3. /\ "meTake" \in Places /\ "meTake" \notin RowPlaces \cup {"end", "encTake"} \cup AheadPlaces
      /\ "meInit" \notin RowPlaces \cup {"end", "encTake"}
  BY DEF Places, MePlaces, RowPlaces, CodePlaces, DonePlaces, AheadPlaces
<1>4. d \in Context /\ d.at = "meTake" /\ d.f = c.f /\ d.step = "begin"
  <2>1. d \in Context
    BY <1>1, <1>3, AtType
  <2> QED BY <2>1 DEF At
<1> HIDE DEF d
<1>5. ctx'[t] = d /\ Other(t) /\ ctx' \in [Threads -> Context]
  BY <1>1, <1>2, <1>4, Went
<1>6. c.f = meFrame \/ c.f = meFrame + 1
  BY <1>1, Together
<1>7. /\ meFrame \in Nat /\ c.f \in Nat /\ encFrame \in Nat /\ encFrame <= meFrame
      /\ meEncFree = IF \A u \in Threads : Over(ctx[u], meFrame) THEN 1 ELSE 0
  BY <1>1, Sizes, Together DEF FrameInv, TypeInv
<1>8. ~Over(d, c.f)
  BY <1>4, <1>7 DEF Over
<1>9. PlanesMade(ctx[t])'
  BY <1>3, <1>4, <1>5 DEF PlanesMade, RowPlaces, DonePlaces
<1>10. RowInv'
  BY <1>1, <1>2, <1>3, <1>4, <1>5, <1>9, RowKept
<1>11. UnitInv'
  BY <1>1, <1>2, <1>3, <1>4, <1>5, UnitKept
<1>12. \A u \in Threads : \A f : Over(ctx'[u], f) <=> Over(ctx[u], f)
  <2> SUFFICES ASSUME NEW u \in Threads, NEW f
               PROVE  Over(ctx'[u], f) <=> Over(ctx[u], f)
    OBVIOUS
  <2>1. CASE u = t
    BY <1>2, <1>4, <1>5, <2>1 DEF Over
  <2>2. CASE u # t
    BY <1>5, <2>2 DEF Other
  <2> QED BY <2>1, <2>2
<1>13. \A f \in FrameSet : encLeft'[f] = Cardinality({u \in Threads : Over(ctx'[u], f)})
  <2>1. \A f \in FrameSet : {u \in Threads : Over(ctx'[u], f)} = {u \in Threads : Over(ctx[u], f)}
    BY <1>12
  <2> QED BY <1>1, <1>2, <2>1 DEF FrameInv
<1>14. /\ meEncFree' \in Nat
       /\ meEncFree' = IF \A u \in Threads : Over(ctx'[u], meFrame') THEN 1 ELSE 0
  <2>1. ~Over(ctx'[t], meFrame')
    BY <1>2, <1>5, <1>8
  <2>2. CASE meFrame < c.f
    BY <1>2, <1>7, <2>1, <2>2
  <2>3. CASE ~(meFrame < c.f)
    <3>1. c.f = meFrame
      BY <1>6, <1>7, <2>3
    <3>2. ~Over(ctx[t], meFrame)
      BY <1>2, <1>7, <3>1 DEF Over
    <3> QED BY <1>2, <1>7, <2>1, <2>3, <3>2
  <2> QED BY <2>2, <2>3
<1>15. TypeInv'
  <2>1. meFrame' \in 0 .. Frames
    BY <1>1, <1>2, Sizes DEF FrameSet
  <2> QED BY <1>1, <1>2, <1>5, <1>14, <2>1 DEF TypeInv
<1>16. ASSUME NEW u \in Threads
       PROVE  Standing(ctx[u])'
  <2>1. CASE u = t
    BY <1>2, <1>3, <1>4, <1>5, <2>1 DEF Standing
  <2>2. CASE u # t /\ meFrame < c.f
    <3>1. ctx'[u] = ctx[u]
      BY <1>5, <2>2 DEF Other
    <3>2. Over(ctx[u], meFrame)
      BY <1>2, <1>7, <2>2
    <3>3. Standing(ctx[u]) /\ (ctx[u].f = meFrame \/ ctx[u].f = meFrame + 1)
      BY <1>1, Together DEF FrameInv
    <3>4. ctx[u].f = meFrame + 1 /\ ctx[u].at \in AheadPlaces
      <4>1. CASE ctx[u].at = "end"
        <5>1. ctx[u].f = Frames /\ ctx[u].f = meFrame
          BY <3>3, <4>1 DEF Standing, AheadPlaces
        <5>2. c.f <= Frames /\ Frames \in Nat
          BY <1>1, Together
        <5> QED BY <1>7, <2>2, <5>1, <5>2
      <4>2. CASE ctx[u].f > meFrame
        <5>1. ctx[u].f # meFrame
          BY <1>7, <4>2
        <5> QED BY <3>3, <5>1 DEF Standing
      <4> QED BY <3>2, <4>1, <4>2 DEF Over
    <3>5. ctx[u].at \notin RowPlaces \cup {"encTake", "end"}
      BY <3>4 DEF AheadPlaces, RowPlaces, CodePlaces, DonePlaces
    <3>6. meFrame' = meFrame + 1
      BY <1>2, <1>6, <1>7, <2>2
    <3> QED BY <3>1, <3>3, <3>4, <3>5, <3>6 DEF Standing
  <2>3. CASE u # t /\ ~(meFrame < c.f)
    <3>1. ctx'[u] = ctx[u]
      BY <1>5, <2>3 DEF Other
    <3>2. meFrame' = meFrame /\ encFrame' = encFrame
      BY <1>2, <1>6, <1>7, <2>3
    <3>3. Standing(ctx[u])
      BY <1>1 DEF FrameInv
    <3> QED BY <3>1, <3>2, <3>3 DEF Standing
  <2> QED BY <2>1, <2>2, <2>3
<1>17. encFrame' <= meFrame'
  BY <1>2, <1>6, <1>7
<1>18. FrameInv'
  BY <1>13, <1>14, <1>16, <1>17 DEF FrameInv
<1> QED BY <1>10, <1>11, <1>15, <1>18 DEF IInv

LEMMA EncInitKeeps ==
  ASSUME IInv, NEW t \in Threads, EncInit(t)
  PROVE  IInv'
<1> DEFINE c == ctx[t]
           d == At("encTake", c.f, 0, 0)
<1>1. /\ TypeInv /\ FrameInv /\ RowInv /\ UnitInv /\ Standing(c)
      /\ c.f \in FrameSet /\ 0 \in RowSet /\ 0 \in ColSet
  BY CtxType, Sizes DEF IInv, FrameInv
<1>2. /\ c.at = "encInit" /\ encFrame' = c.f /\ Goto(t, d)
      /\ UNCHANGED <<saoOn, nextMe, nextEnc, meFrame, meEncFree, encLeft, planes>>
      /\ encFrame < c.f =>
           units' = [m \in DOMAIN units |-> IF m \in EncManagers THEN Zeros ELSE units[m]]
      /\ ~(encFrame < c.f) => units' = units
  BY DEF EncInit
<1>3. /\ "encTake" \in Places /\ "encTake" \notin RowPlaces \cup {"end"} \cup AheadPlaces
      /\ "encInit" \notin RowPlaces \cup {"end", "encTake"} \cup AheadPlaces
  BY DEF Places, MePlaces, RowPlaces, CodePlaces, DonePlaces, AheadPlaces
<1>4. d \in Context /\ d.at = "encTake" /\ d.f = c.f /\ d.step = "begin"
  <2>1. d \in Context
    BY <1>1, <1>3, AtType
  <2> QED BY <2>1 DEF At
<1> HIDE DEF d
<1>5. ctx'[t] = d /\ Other(t) /\ ctx' \in [Threads -> Context]
  BY <1>1, <1>2, <1>4, Went
<1>6. /\ meFrame \in Nat /\ encFrame \in Nat /\ encFrame <= meFrame /\ c.f = meFrame
  BY <1>1, <1>2, <1>3, Sizes, Together DEF FrameInv, TypeInv
<1>7. PlanesMade(ctx[t])'
  BY <1>3, <1>4, <1>5 DEF PlanesMade, RowPlaces, DonePlaces
<1>8. RowInv'
  BY <1>1, <1>2, <1>3, <1>4, <1>5, <1>7, RowKept
<1>9. TypeInv'
  <2>1. encFrame' \in 0 .. Frames
    BY <1>1, <1>2, Sizes DEF FrameSet
  <2>2. units' \in [SleepManagers \cup SpinManagers -> [RowSet -> Nat]]
    BY <1>1, <1>2 DEF TypeInv, Zeros
  <2> QED BY <1>1, <1>2, <1>5, <2>1, <2>2 DEF TypeInv
<1>10. CASE ~(encFrame < c.f)
  <2>1. encFrame' = encFrame /\ units' = units
    BY <1>2, <1>6, <1>10
  <2>2. Standing(ctx[t])'
    BY <1>2, <1>3, <1>4, <1>5, <1>6 DEF Standing
  <2>3. FrameInv'
    BY <1>1, <1>2, <1>3, <1>4, <1>5, <2>1, <2>2, FrameKept
  <2>4. UnitInv'
    BY <1>1, <1>2, <1>3, <1>4, <1>5, <2>1, UnitKept
  <2> QED BY <1>8, <1>9, <2>3, <2>4 DEF IInv
<1>11. CASE encFrame < c.f
  <2>1. ASSUME NEW u \in Threads
        PROVE  ctx[u].at \notin RowPlaces \cup {"encTake"}
    <3>1. ASSUME ctx[u].at \in RowPlaces \cup {"encTake"}
          PROVE  FALSE
      <4>1. ctx[u].f = encFrame
        BY <1>1, <3>1 DEF FrameInv, Standing
      <4>2. meFrame <= ctx[u].f
        BY <1>1, Together
      <4> QED BY <1>6, <1>11, <4>1, <4>2
    <3> QED BY <3>1
  <2>2. ASSUME NEW u \in Threads
        PROVE  Standing(ctx[u])'
    <3>1. CASE u = t
      BY <1>2, <1>3, <1>4, <1>5, <1>6, <3>1 DEF Standing
    <3>2. CASE u # t
      <4>1. ctx'[u] = ctx[u]
        BY <1>5, <3>2 DEF Other
      <4>2. Standing(ctx[u])
        BY <1>1 DEF FrameInv
      <4> QED BY <1>2, <2>1, <4>1, <4>2 DEF Standing
    <3> QED BY <3>1, <3>2
  <2>3. \A u \in Threads : \A f : Over(ctx'[u], f) <=> Over(ctx[u], f)
    <3> SUFFICES ASSUME NEW u \in Threads, NEW f
                 PROVE  Over(ctx'[u], f) <=> Over(ctx[u], f)
      OBVIOUS
    <3>1. CASE u = t
      BY <1>2, <1>4, <1>5, <3>1 DEF Over
    <3>2. CASE u # t
      BY <1>5, <3>2 DEF Other
    <3> QED BY <3>1, <3>2
  <2>4. \A f \in FrameSet : encLeft'[f] = Cardinality({u \in Threads : Over(ctx'[u], f)})
    <3>1. \A f \in FrameSet :
            {u \in Threads : Over(ctx'[u], f)} = {u \in Threads : Over(ctx[u], f)}
      BY <2>3
    <3> QED BY <1>1, <1>2, <3>1 DEF FrameInv
  <2>5. meEncFree' = IF \A u \in Threads : Over(ctx'[u], meFrame') THEN 1 ELSE 0
    BY <1>1, <1>2, <2>3 DEF FrameInv
  <2>6. encFrame' <= meFrame'
    BY <1>2, <1>6
  <2>7. FrameInv'
    BY <2>2, <2>4, <2>5, <2>6 DEF FrameInv
  <2>8. \A u \in Threads : ctx'[u].at \notin RowPlaces
    BY <1>3, <1>4, <1>5, <2>1 DEF Other
  <2>9. \A r \in RowSet : units'[Top][r] = 0 /\ units'[Dblk][r] = 0 /\ units'[Sao][r] = 0
    BY <1>1, <1>2, <1>11, Managers DEF TypeInv, EncManagers, SpinManagers, Zeros
  <2>10. ASSUME NEW r \in RowSet
         PROVE  Untouched(r)'
    <3>1. r > 0 => r - 1 \in RowSet
      BY Sizes DEF RowSet
    <3> QED BY <2>9, <3>1 DEF Untouched
  <2>11. RowsInOrder'
    <3>1. \A q \in 1 .. LastRow : q \in RowSet /\ q - 1 \in RowSet
      BY Sizes DEF RowSet, LastRow
    <3> QED BY <2>9, <3>1 DEF RowsInOrder
  <2>12. UnitInv'
    BY <2>8, <2>10, <2>11 DEF UnitInv
  <2> QED BY <1>8, <1>9, <2>7, <2>12 DEF IInv
<1> QED BY <1>10, <1>11

(* A thread takes the next row.                                            *)
LEMMA TakesRow ==
  ASSUME IInv, NEW t \in Threads, EncTake(t), nextEnc[ctx[t].f] < Rows
  PROVE  IInv'
<1> DEFINE c == ctx[t]
           n == nextEnc[c.f]
           d == At("meWait", c.f, n, 0)
<1>1. /\ TypeInv /\ FrameInv /\ RowInv /\ UnitInv /\ Standing(c)
      /\ c.f \in FrameSet /\ 0 \in ColSet /\ n \in RowSet /\ n \in Nat /\ n + 1 \in 0 .. Rows
  <2>1. TypeInv
    BY DEF IInv
  <2>2. c.f \in FrameSet /\ 0 \in ColSet
    BY <2>1, CtxType, Sizes
  <2>3. n \in RowSet /\ n \in Nat /\ n + 1 \in 0 .. Rows
    BY <2>1, <2>2, Sizes DEF TypeInv, RowSet
  <2> QED BY <2>1, <2>2, <2>3 DEF IInv, FrameInv
<1>2. /\ c.at = "encTake" /\ nextEnc' = [nextEnc EXCEPT ![c.f] = n + 1] /\ Goto(t, d)
      /\ UNCHANGED <<saoOn, units, nextMe, meFrame, meEncFree, encLeft, encFrame, planes>>
  BY DEF EncTake
<1>3. /\ "meWait" \in Places /\ "meWait" \in RowPlaces /\ "meWait" \notin {"end"} \cup AheadPlaces
      /\ "meWait" \notin DonePlaces /\ "encTake" \notin RowPlaces \cup {"end"} \cup AheadPlaces
  BY DEF Places, RowPlaces, CodePlaces, DonePlaces, AheadPlaces
<1>4. /\ d \in Context /\ d.at = "meWait" /\ d.f = c.f /\ d.r = n /\ d.x = 0
      /\ d.step = "begin"
  <2>1. d \in Context
    BY <1>1, <1>3, AtType
  <2> QED BY <2>1 DEF At
<1> HIDE DEF d, n
<1>5. ctx'[t] = d /\ Other(t) /\ ctx' \in [Threads -> Context]
  BY <1>1, <1>2, <1>4, Went
<1>6. /\ nextEnc' \in [FrameSet -> 0 .. Rows]
      /\ \A f \in FrameSet : nextEnc'[f] = IF f = c.f THEN n + 1 ELSE nextEnc[f]
      /\ nextEnc[c.f] = n
  BY <1>1, <1>2 DEF TypeInv, n
<1>7. TypeInv'
  BY <1>1, <1>2, <1>5, <1>6 DEF TypeInv
<1>8. Standing(ctx[t])' /\ PlanesMade(ctx[t])' /\ c.f = encFrame
  BY <1>1, <1>2, <1>3, <1>4, <1>5 DEF Standing, PlanesMade, DonePlaces
<1>9. FrameInv'
  BY <1>1, <1>2, <1>3, <1>4, <1>5, <1>8, FrameKept
<1>10. ASSUME NEW u \in Threads
       PROVE  /\ PlanesMade(ctx[u])'
              /\ u # t => ctx'[u] = ctx[u]
              /\ \A f \in FrameSet : Over(ctx'[u], f) <=> Over(ctx[u], f)
  <2>1. CASE u = t
    BY <1>2, <1>3, <1>4, <1>5, <1>8, <2>1 DEF Over
  <2>2. CASE u # t
    <3>1. ctx'[u] = ctx[u]
      BY <1>5, <2>2 DEF Other
    <3> QED BY <1>1, <1>2, <2>2, <3>1 DEF RowInv, PlanesMade, DoneRow
  <2> QED BY <2>1, <2>2
<1>11. ASSUME NEW u \in Threads, ctx'[u].at \in RowPlaces
       PROVE  ctx'[u].r < nextEnc'[ctx'[u].f]
  <2>1. CASE u = t
    BY <1>1, <1>4, <1>5, <1>6, <2>1
  <2>2. CASE u # t
    <3>1. /\ ctx'[u] = ctx[u] /\ ctx[u].f \in FrameSet /\ ctx[u].r \in Nat
          /\ ctx[u].r < nextEnc[ctx[u].f] /\ nextEnc[ctx[u].f] \in Nat
      BY <1>1, <1>10, <1>11, <2>2, CtxType, Sizes, SMTT(30) DEF RowInv, TypeInv, RowSet
    <3> QED BY <1>1, <1>6, <3>1
  <2> QED BY <2>1, <2>2
<1>12. ASSUME NEW u \in Threads, u # t, ctx[u].at \in RowPlaces, ctx[u].f = c.f
       PROVE  ctx[u].r # n
  <2>1. ctx[u].r < nextEnc[ctx[u].f] /\ ctx[u].r \in Nat
    BY <1>1, <1>12, CtxType, Sizes DEF RowInv, RowSet
  <2> QED BY <1>1, <1>6, <1>12, <2>1
<1>13. ASSUME NEW u \in Threads, NEW v \in Threads,
              ctx'[u].at \in RowPlaces, Holds(ctx'[v], ctx'[u].f, ctx'[u].r)
       PROVE  u = v
  <2>1. CASE u = t /\ v # t
    BY <1>4, <1>5, <1>10, <1>12, <1>13, <2>1 DEF Holds
  <2>2. CASE u # t /\ v = t
    BY <1>4, <1>5, <1>10, <1>12, <1>13, <2>2 DEF Holds
  <2>3. CASE u # t /\ v # t
    BY <1>1, <1>10, <1>13, <2>3 DEF RowInv
  <2> QED BY <2>1, <2>2, <2>3
<1>14. ASSUME NEW f \in FrameSet, NEW r \in RowSet, r < nextEnc'[f]
       PROVE  RowDone(f, r)' \/ \E u \in Threads : Holds(ctx'[u], f, r)
  <2>1. CASE f = c.f /\ r = n
    BY <1>3, <1>4, <1>5, <2>1 DEF Holds
  <2>2. CASE ~(f = c.f /\ r = n)
    <3>1. r < nextEnc[f]
      BY <1>1, <1>6, <1>14, <2>2, Sizes DEF RowSet
    <3>2. RowDone(f, r) \/ \E u \in Threads : Holds(ctx[u], f, r)
      BY <1>1, <3>1 DEF RowInv
    <3>3. ~Holds(ctx[t], f, r)
      BY <1>2, <1>3 DEF Holds
    <3>4. RowDone(f, r) => RowDone(f, r)'
      BY <1>2 DEF RowDone, DoneRow
    <3> QED BY <1>10, <3>2, <3>3, <3>4
  <2> QED BY <2>1, <2>2
<1>15. ASSUME NEW f \in FrameSet, NEW u \in Threads, Over(ctx'[u], f)
       PROVE  nextEnc'[f] = Rows
  <2>1. Over(ctx[u], f)
    BY <1>10, <1>15
  <2>2. nextEnc[f] = Rows
    BY <1>1, <2>1 DEF RowInv
  <2>3. n < Rows
    BY <1>6
  <2> QED BY <1>1, <1>6, <2>2, <2>3, Sizes
<1>16. RowInv'
  BY <1>10, <1>11, <1>13, <1>14, <1>15 DEF RowInv
<1>17. Untouched(n)
  <2>1. encFrame > 0 /\ n >= nextEnc[encFrame]
    BY <1>1, <1>6, <1>8, Sizes DEF FrameSet
  <2> QED BY <1>1, <2>1 DEF UnitInv
<1>18. ASSUME NEW u \in Threads, ctx'[u].at \in RowPlaces
       PROVE  Hold(ctx[u])'
  <2>1. CASE u = t
    <3>1. TopMost(d) = 0 /\ DblkMost(d) = 0 /\ SaoMost(d) = 0
      BY <1>4 DEF TopMost, DblkMost, SaoMost, CodePlaces
    <3> QED BY <1>2, <1>4, <1>5, <1>17, <2>1, <3>1 DEF Untouched, Hold
  <2>2. CASE u # t
    <3>1. ctx'[u] = ctx[u] /\ Hold(ctx[u])
      BY <1>1, <1>10, <1>18, <2>2 DEF UnitInv
    <3> QED BY <1>2, <3>1 DEF Hold
  <2> QED BY <2>1, <2>2
<1>19. ASSUME NEW r \in RowSet, r >= nextEnc'[encFrame']
       PROVE  Untouched(r)'
  <2>1. r >= nextEnc[encFrame] /\ encFrame > 0
    BY <1>1, <1>2, <1>6, <1>8, <1>19, Sizes DEF RowSet, FrameSet
  <2>2. Untouched(r)
    BY <1>1, <2>1 DEF UnitInv
  <2> QED BY <1>2, <2>2 DEF Untouched
<1>20. RowsInOrder'
  BY <1>1, <1>2 DEF UnitInv, RowsInOrder
<1>21. UnitInv'
  BY <1>18, <1>19, <1>20 DEF UnitInv
<1> QED BY <1>7, <1>9, <1>16, <1>21 DEF IInv

(* A thread leaves the encode loop, the last one with the buffer.          *)
LEMMA LeavesFrame ==
  ASSUME IInv, NEW t \in Threads, EncTake(t), ~(nextEnc[ctx[t].f] < Rows)
  PROVE  IInv'
<1> DEFINE c == ctx[t]
           d == IF c.f < Frames THEN At("meGate", c.f + 1, 0, 0) ELSE At("end", c.f, 0, 0)
<1>1. /\ TypeInv /\ FrameInv /\ RowInv /\ UnitInv /\ Standing(c)
      /\ c.f \in FrameSet /\ 0 \in RowSet /\ 0 \in ColSet /\ Frames \in Nat
      /\ nextEnc[c.f] = Rows
  <2>1. TypeInv
    BY DEF IInv
  <2>2. c.f \in FrameSet /\ 0 \in RowSet /\ 0 \in ColSet /\ Frames \in Nat
    BY <2>1, CtxType, Sizes
  <2>3. nextEnc[c.f] = Rows
    BY <2>1, <2>2, Sizes, SMTT(30) DEF TypeInv
  <2> QED BY <2>1, <2>2, <2>3 DEF IInv, FrameInv
<1>2. /\ c.at = "encTake" /\ encLeft' = [encLeft EXCEPT ![c.f] = @ + 1] /\ Goto(t, d)
      /\ meEncFree' = IF encLeft[c.f] + 1 = Cardinality(Threads) THEN meEncFree + 1 ELSE meEncFree
      /\ UNCHANGED <<saoOn, units, nextMe, nextEnc, meFrame, encFrame, planes>>
  BY DEF EncTake
<1>3. /\ {"meGate", "end"} \subseteq Places \ (RowPlaces \cup {"encTake"})
      /\ "meGate" \in AheadPlaces /\ "end" \notin AheadPlaces
      /\ "encTake" \notin RowPlaces \cup AheadPlaces
  BY DEF Places, RowPlaces, CodePlaces, DonePlaces, AheadPlaces
<1>4. /\ c.f = meFrame /\ c.f \in Nat /\ c.f <= Frames /\ encFrame <= meFrame
      /\ meEncFree = IF \A u \in Threads : Over(ctx[u], meFrame) THEN 1 ELSE 0
      /\ \A f \in FrameSet : encLeft[f] = Cardinality({u \in Threads : Over(ctx[u], f)})
  BY <1>1, <1>2, <1>3, Together DEF FrameInv
<1>5. /\ d \in Context /\ d.at \in {"meGate", "end"} /\ d.step = "begin"
      /\ d.at = "meGate" => d.f = c.f + 1
      /\ d.at = "end" => d.f = c.f /\ c.f = Frames
  <2>1. CASE c.f < Frames
    <3>1. c.f + 1 \in FrameSet
      BY <1>1, <1>4, <2>1 DEF FrameSet
    <3>2. At("meGate", c.f + 1, 0, 0) \in Context
      BY <1>1, <1>3, <3>1, AtType
    <3> QED BY <2>1, <3>2 DEF At
  <2>2. CASE ~(c.f < Frames)
    <3>1. At("end", c.f, 0, 0) \in Context
      BY <1>1, <1>3, AtType
    <3> QED BY <1>1, <1>4, <2>2, <3>1 DEF At
  <2> QED BY <2>1, <2>2
<1> HIDE DEF d
<1>6. ctx'[t] = d /\ Other(t) /\ ctx' \in [Threads -> Context]
  BY <1>1, <1>2, <1>5, Went
<1>7. ASSUME NEW f \in FrameSet
      PROVE  /\ Over(d, f) <=> f <= c.f
             /\ Over(c, f) <=> f < c.f
  <2>1. f \in Nat /\ f <= Frames
    BY <1>1 DEF FrameSet
  <2> QED BY <1>2, <1>4, <1>5, <2>1 DEF Over
<1>8. ASSUME NEW f \in FrameSet
      PROVE  {u \in Threads : Over(ctx'[u], f)} =
               IF f = c.f THEN {u \in Threads : Over(ctx[u], f)} \cup {t}
               ELSE {u \in Threads : Over(ctx[u], f)}
  <2>1. \A u \in Threads : u # t => ctx'[u] = ctx[u]
    BY <1>6 DEF Other
  <2>2. f \in Nat
    BY DEF FrameSet
  <2>3. /\ Over(ctx'[t], f) <=> f <= c.f
        /\ Over(ctx[t], f) <=> f < c.f
    BY <1>6, <1>7
  <2>4. CASE f = c.f
    <3>1. Over(ctx'[t], f)
      BY <1>4, <2>2, <2>3, <2>4
    <3> QED BY <2>1, <2>4, <3>1
  <2>5. CASE f # c.f
    <3>1. Over(ctx'[t], f) <=> Over(ctx[t], f)
      BY <1>4, <2>2, <2>3, <2>5
    <3> QED BY <2>1, <2>5, <3>1
  <2> QED BY <2>4, <2>5
<1> DEFINE S == {u \in Threads : Over(ctx[u], c.f)}
<1>9. /\ t \notin S /\ S \subseteq Threads /\ IsFiniteSet(S) /\ IsFiniteSet(Threads)
      /\ Cardinality(S \cup {t}) = Cardinality(S) + 1
  <2>1. ~Over(ctx[t], c.f)
    BY <1>1, <1>4, <1>7
  <2>2. t \notin S /\ S \subseteq Threads
    BY <2>1
  <2>3. IsFiniteSet(Threads) /\ IsFiniteSet(S)
    BY <2>2, ThreadsAssumption, FS_Subset
  <2> QED BY <2>2, <2>3, FS_AddElement
<1>10. ASSUME NEW f \in FrameSet
       PROVE  encLeft'[f] = Cardinality({u \in Threads : Over(ctx'[u], f)})
  <2>1. CASE f = c.f
    BY <1>1, <1>2, <1>4, <1>8, <1>9, <2>1 DEF TypeInv
  <2>2. CASE f # c.f
    BY <1>1, <1>2, <1>4, <1>8, <2>2 DEF TypeInv
  <2> QED BY <2>1, <2>2
<1>11. encLeft[c.f] + 1 = Cardinality(Threads) <=> S \cup {t} = Threads
  <2>1. encLeft[c.f] + 1 = Cardinality(S \cup {t})
    BY <1>1, <1>4, <1>9
  <2>2. S \cup {t} \subseteq Threads
    BY <1>9
  <2> QED BY <1>9, <2>1, <2>2, FS_Subset
<1>12. meEncFree' \in Nat /\ meEncFree' = IF \A u \in Threads : Over(ctx'[u], meFrame') THEN 1
         ELSE 0
  <2>1. meEncFree = 0
    BY <1>4, <1>9
  <2>2. (\A u \in Threads : Over(ctx'[u], meFrame')) <=> S \cup {t} = Threads
    BY <1>1, <1>2, <1>4, <1>8
  <2> QED BY <1>2, <1>11, <2>1, <2>2
<1>13. TypeInv'
  <2>1. encLeft' \in [FrameSet -> Nat]
    BY <1>1, <1>2 DEF TypeInv
  <2> QED BY <1>1, <1>2, <1>6, <1>12, <2>1 DEF TypeInv
<1>14. ASSUME NEW u \in Threads
       PROVE  /\ Standing(ctx[u])' /\ PlanesMade(ctx[u])'
              /\ ctx'[u].at \in RowPlaces => u # t
              /\ u # t => ctx'[u] = ctx[u]
              /\ \A f, r : Holds(ctx'[u], f, r) <=> Holds(ctx[u], f, r)
  <2>1. CASE u = t
    <3>1. Standing(ctx[u])'
      BY <1>2, <1>3, <1>4, <1>5, <1>6, <2>1 DEF Standing
    <3>2. ctx'[u].at \notin RowPlaces /\ ctx[u].at \notin RowPlaces
      BY <1>2, <1>3, <1>5, <1>6, <2>1
    <3> QED BY <2>1, <3>1, <3>2 DEF PlanesMade, RowPlaces, DonePlaces, Holds
  <2>2. CASE u # t
    <3>1. ctx'[u] = ctx[u]
      BY <1>6, <2>2 DEF Other
    <3>2. Standing(ctx[u]) /\ PlanesMade(ctx[u])
      BY <1>1 DEF FrameInv, RowInv
    <3> QED BY <1>2, <2>2, <3>1, <3>2 DEF Standing, PlanesMade, DoneRow
  <2> QED BY <2>1, <2>2
<1>15. FrameInv'
  BY <1>2, <1>4, <1>10, <1>12, <1>14 DEF FrameInv
<1>16. RowInv'
  <2>1. \A u \in Threads : ctx'[u].at \in RowPlaces => ctx'[u].r < nextEnc'[ctx'[u].f]
    BY <1>1, <1>2, <1>14 DEF RowInv
  <2>2. \A u, v \in Threads :
          ctx'[u].at \in RowPlaces /\ Holds(ctx'[v], ctx'[u].f, ctx'[u].r) => u = v
    BY <1>1, <1>14 DEF RowInv
  <2>3. ASSUME NEW f \in FrameSet, NEW r \in RowSet, r < nextEnc'[f]
        PROVE  RowDone(f, r)' \/ \E u \in Threads : Holds(ctx'[u], f, r)
    <3>1. RowDone(f, r) => RowDone(f, r)'
      BY <1>2 DEF RowDone, DoneRow
    <3>2. RowDone(f, r) \/ \E u \in Threads : Holds(ctx[u], f, r)
      BY <1>1, <1>2, <2>3 DEF RowInv
    <3> QED BY <1>14, <3>1, <3>2
  <2>4. ASSUME NEW f \in FrameSet, NEW u \in Threads, Over(ctx'[u], f)
        PROVE  nextEnc'[f] = Rows
    <3>1. u \in {v \in Threads : Over(ctx[v], f)} \/ f = c.f
      BY <1>8, <2>4
    <3> QED BY <1>1, <1>2, <3>1 DEF RowInv
  <2> QED BY <1>14, <2>1, <2>2, <2>3, <2>4 DEF RowInv
<1>17. UnitInv'
  <2>1. ctx'[t].at \notin RowPlaces
    BY <1>14
  <2> QED BY <1>1, <1>2, <1>6, <2>1, UnitKept
<1> QED BY <1>13, <1>15, <1>16, <1>17 DEF IInv

-----------------------------------------------------------------------------
(* The theorems.                                                           *)

LEMMA InitHolds == Init => IInv
<1> SUFFICES ASSUME Init
             PROVE  IInv
  OBVIOUS
<1>1. /\ 0 \in RowSet /\ 0 \in ColSet /\ 1 \in FrameSet /\ Rows \in Nat /\ Rows > 1
      /\ Frames \in Nat /\ Frames > 0 /\ FrameSet = 1 .. Frames
  BY Sizes DEF FrameSet
<1>2. "meGate" \in Places /\ "meGate" \in AheadPlaces /\ "meGate" \notin RowPlaces \cup DonePlaces
  BY DEF Places, AheadPlaces, RowPlaces, CodePlaces, DonePlaces
<1>3. Start \in Context /\ Start.at = "meGate" /\ Start.f = 1 /\ Start.step = "begin"
  <2>1. Start \in Context
    BY <1>1, <1>2, AtType DEF Start
  <2> QED BY <2>1 DEF Start, At
<1>4. \A t \in Threads : ctx[t] = Start
  BY DEF Init
<1>5. TypeInv
  <2>1. 0 \in 0 .. Frames /\ 0 \in 0 .. Rows /\ 0 \in Nat
    BY <1>1
  <2>2. ctx \in [Threads -> Context]
    BY <1>3 DEF Init
  <2>3. units \in [SleepManagers \cup SpinManagers -> [RowSet -> Nat]]
    BY DEF Init, Zeros
  <2>4. nextMe \in [FrameSet -> 0 .. Rows] /\ nextEnc \in [FrameSet -> 0 .. Rows]
    BY <2>1 DEF Init
  <2>5. encLeft \in [FrameSet -> Nat] /\ planes \in [FrameSet -> SUBSET RowSet]
    BY <2>1 DEF Init
  <2>6. meFrame \in 0 .. Frames /\ encFrame \in 0 .. Frames /\ meEncFree \in Nat
    BY <2>1 DEF Init, NUM_ME_ENC_BUFS
  <2> QED BY <2>2, <2>3, <2>4, <2>5, <2>6 DEF TypeInv
<1>6. FrameInv
  <2>1. \A t \in Threads : Standing(ctx[t])
    BY <1>2, <1>3, <1>4 DEF Init, Standing, RowPlaces
  <2>2. meEncFree = IF \A t \in Threads : Over(ctx[t], meFrame) THEN 1 ELSE 0
    BY <1>3, <1>4 DEF Init, Over, NUM_ME_ENC_BUFS
  <2>3. ASSUME NEW f \in FrameSet
        PROVE  encLeft[f] = Cardinality({t \in Threads : Over(ctx[t], f)})
    <3>1. ~Over(Start, f)
      BY <1>1, <1>3 DEF Over
    <3>2. {t \in Threads : Over(ctx[t], f)} = {}
      BY <1>4, <3>1
    <3> QED BY <3>2, FS_EmptySet DEF Init
  <2>4. encFrame <= meFrame
    BY DEF Init
  <2> QED BY <2>1, <2>2, <2>3, <2>4 DEF FrameInv
<1>7. RowInv
  <2>1. \A t \in Threads : PlanesMade(ctx[t])
    BY <1>2, <1>3, <1>4 DEF PlanesMade, RowPlaces, DonePlaces
  <2>2. \A t \in Threads, f \in FrameSet : ~Over(ctx[t], f)
    BY <1>1, <1>3, <1>4 DEF Over
  <2>3. \A t \in Threads : ctx[t].at \notin RowPlaces
    BY <1>2, <1>3, <1>4
  <2>4. \A f \in FrameSet, r \in RowSet : ~(r < nextEnc[f])
    BY <1>1 DEF Init, RowSet
  <2> QED BY <2>1, <2>2, <2>3, <2>4 DEF RowInv
<1>8. UnitInv
  <2>1. \A t \in Threads : ctx[t].at \notin RowPlaces
    BY <1>2, <1>3, <1>4
  <2>2. \A r \in RowSet : units[Top][r] = 0 /\ units[Dblk][r] = 0 /\ units[Sao][r] = 0
    BY Managers DEF Init, Zeros
  <2>3. \A q \in 1 .. LastRow : q \in RowSet
    BY Sizes DEF RowSet, LastRow
  <2>4. RowsInOrder
    BY <2>2, <2>3 DEF RowsInOrder
  <2> QED BY <2>1, <2>4 DEF UnitInv, Init
<1> QED BY <1>5, <1>6, <1>7, <1>8 DEF IInv

LEMMA ThreadStep ==
  ASSUME IInv, NEW t \in Threads, Thread(t)
  PROVE  IInv'
<1>1. CASE Check(t)
  BY <1>1, ReadUnitsKeeps, RegisterKeeps, WakeKeeps DEF Check
<1>2. CASE Set(t)
  <2>1. WriteUnits(t) => IInv'
    BY WriteTop, WriteMe
  <2> QED BY <1>2, <2>1, PostWaiterKeeps, ClearWaiterKeeps, EndOfSetKeeps DEF Set
<1>3. CASE MotionSearch(t)
  BY <1>3, MeInitKeeps, MeTakeKeeps, MeDepKeeps, SearchKeeps DEF MotionSearch
<1>4. CASE EncodeLoop(t)
  <2>1. EncTake(t) => IInv'
    BY TakesRow, LeavesFrame
  <2> QED BY <1>4, <2>1, EncInitKeeps, DeblockKeeps, SaoAboveKeeps, PlanesKeeps, PublishKeeps,
             PublishPostKeeps, LastPlanesKeeps DEF EncodeLoop
<1> QED BY <1>1, <1>2, <1>3, <1>4 DEF Thread

LEMMA Stutter ==
  ASSUME IInv, UNCHANGED vars
  PROVE  IInv'
<1> USE DEF vars, queueVars, frameVars
<1>1. TypeInv'
  BY DEF IInv, TypeInv
<1>2. FrameInv'
  BY DEF IInv, FrameInv, Standing
<1>3. RowInv'
  BY DEF IInv, RowInv, PlanesMade, RowDone, DoneRow
<1>4. UnitInv'
  BY DEF IInv, UnitInv, Hold, Untouched, RowsInOrder
<1> QED BY <1>1, <1>2, <1>3, <1>4 DEF IInv

(* What holds in every state: the threads stay in one frame, each row has  *)
(* one owner, and each owner's counters are no further than its place.     *)
THEOREM Invariant == Spec => []IInv
<1>1. Init => IInv
  BY InitHolds
<1>2. IInv /\ [Next]_vars => IInv'
  BY ThreadStep, Stutter DEF Next, Rest
<1> QED BY <1>1, <1>2, PTL DEF Spec

(* A CTB is coded, deblocked and goes through SAO only when its neighbours *)
(* above have got as far as it needs, although the counters are read and   *)
(* written without a lock and set back for each frame.                     *)
THEOREM RowsOrdered == Spec => []RowsInOrder
<1>1. IInv => RowsInOrder
  BY DEF IInv, UnitInv
<1> QED BY <1>1, Invariant, PTL

(* ME reads the reference frame and its planes only when they are final:   *)
(* the buffer it has was given back by the last thread of the encode loop  *)
(* of the frame before, when every row of that frame was complete.         *)
THEOREM SearchReady == Spec => []SearchFinal
<1>1. IInv => SearchFinal
  <2> SUFFICES ASSUME IInv, NEW t \in Threads, Searching(t), NEW r \in SearchRows(ctx[t].r)
               PROVE  RowFinal(ctx[t].f - 1, r)
    BY DEF SearchFinal
  <2> DEFINE g == ctx[t].f - 1
  <2>1. TypeInv /\ FrameInv /\ RowInv
    BY DEF IInv
  <2>2. ctx[t].at = "search" /\ ctx[t].f > 1
    BY DEF Searching
  <2>3. ctx[t].f = meFrame /\ ctx[t].f \in FrameSet
    BY <2>1, <2>2, Together DEF AheadPlaces
  <2>4. g \in FrameSet /\ g \in Nat /\ g < meFrame /\ meFrame \in Nat
    BY <2>2, <2>3, Sizes DEF FrameSet
  <2>5. ASSUME NEW u \in Threads
        PROVE  Over(ctx[u], g) /\ \A q : ~Holds(ctx[u], g, q)
    <3>1. ctx[u].f \in Nat /\ meFrame <= ctx[u].f
      BY <2>1, Together
    <3>2. ctx[u].f > g /\ ctx[u].f # g
      BY <2>4, <3>1
    <3> QED BY <3>2 DEF Over, Holds
  <2>6. nextEnc[g] = Rows
    BY <2>1, <2>4, <2>5 DEF RowInv
  <2>7. ASSUME NEW q \in RowSet
        PROVE  RowDone(g, q)
    <3>1. q < nextEnc[g]
      BY <2>6, Sizes DEF RowSet
    <3> QED BY <2>1, <2>4, <2>5, <3>1 DEF RowInv
  <2>8. ASSUME NEW q \in RowSet
        PROVE  q \in planes[g]
    <3>1. CASE q = LastRow
      BY <2>7, <3>1 DEF RowDone
    <3>2. CASE q # LastRow /\ saoOn
      <4>1. q + 1 \in RowSet /\ (q + 1) - 1 = q /\ q >= 0
        BY <3>2, Sizes DEF RowSet, LastRow
      <4>2. DoneRow(q + 1) = q
        BY <3>2, <4>1 DEF DoneRow
      <4> QED BY <2>7, <4>1, <4>2 DEF RowDone
    <3>3. CASE q # LastRow /\ ~saoOn
      <4>1. DoneRow(q) = q /\ q >= 0
        BY <3>3, Sizes DEF DoneRow, RowSet
      <4> QED BY <2>7, <4>1 DEF RowDone
    <3> QED BY <3>1, <3>2, <3>3
  <2>9. r \in RowSet /\ (r = LastRow \/ r + 1 \in RowSet)
    <3>1. ctx[t].r \in 0 .. Rows - 1 /\ MaxMv \in Nat /\ Rows \in Nat /\ LastRow = Rows - 1
      BY <2>1, CtxType, Sizes DEF RowSet, LastRow
    <3>2. r \in 0 .. Rows - 1
      BY <3>1 DEF SearchRows, Largest, Least
    <3> QED BY <3>1, <3>2 DEF RowSet
  <2> QED BY <2>8, <2>9 DEF RowFinal
<1> QED BY <1>1, Invariant, PTL

=============================================================================
