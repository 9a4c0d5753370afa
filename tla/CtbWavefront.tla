---------------------------- MODULE CtbWavefront ----------------------------
(* One picture decoded by several cores.  Main parses the CTBs and writes the   *)
(* slice headers into a ring; the workers, and Main when it has parsed all,     *)
(* take rows of CTBs and carry each CTB through four stages.  Parser and        *)
(* workers share, without locks, the ring, the parse map and the process map.   *)
(* Streams are free of errors and every slice is independent.                   *)
EXTENDS Integers, Sequences, FiniteSets

CONSTANTS Wd, Ht,       \* the picture, in CTBs
          TileWds,      \* the tile widths of the stream's PPSs; tiles are columns
          Rings,        \* sizes of the ring of slice headers
          Chunk,        \* u4_nctb: CTBs taken through a stage before the next stage
          MaxSlices,    \* bound on the slices of a picture
          Workers, Main

ASSUME PictureAssumption ==
  /\ Wd \in Nat \ {0} /\ Ht \in Nat \ {0}
  /\ TileWds \subseteq 1..Wd /\ \A t \in TileWds : Wd % t = 0
ASSUME RingAssumption == Rings \subseteq Nat \ {0, 1} /\ Chunk \in Nat \ {0}
                        /\ MaxSlices \in Nat /\ MaxSlices >= Wd
ASSUME WorkersAssumption == IsFiniteSet(Workers) /\ Main \notin Workers

VARIABLES tileWd,       \* the width of the tiles of this picture: ps_tile
          hdr,          \* ps_slice_hdr_base: position and slice of each slot's header
          curSlice,     \* the parser's i4_cur_slice_idx
          parsed,       \* CTBs parsed, in parsing order: pu1_parse_map
          sliceOf,      \* pu1_slice_idx, before it is masked
          parser,       \* where the parser is
          rowSlice,     \* the jobs queued: i2_slice_idx of each tile row
          taken,        \* jobs taken
          ctx,          \* the process context of Main and of each worker
          stage         \* pu1_proc_map: the last stage done of each CTB

vars == <<tileWd, hdr, curSlice, parsed, sliceOf, parser, rowSlice, taken, ctx, stage>>
parserVars == <<tileWd, hdr, curSlice, parsed, sliceOf, parser, rowSlice>>

-----------------------------------------------------------------------------
(* The geometry of the picture.                                                *)

Procs == Workers \union {Main}
Ctbs == 0..(Wd * Ht - 1)
X(c) == c % Wd
Y(c) == c \div Wd
CtbAt(x, y) == y * Wd + x
Tile(c) == X(c) \div tileWd

\* Tile rows are numbered in parsing order, tile after tile.
TileRows == 0..((Wd \div tileWd) * Ht - 1)
RowStart(k) == CtbAt((k \div Ht) * tileWd, k % Ht)
RowCtbs(k) == RowStart(k)..(RowStart(k) + tileWd - 1)

\* The n-th CTB in parsing order.
NthCtb(n) == RowStart(n \div tileWd) + (n % tileWd)
ParsedCtbs == {NthCtb(n) : n \in 0..(parsed - 1)}
NextCtb == NthCtb(parsed)

\* The stages of a CTB, in the order of proc_type_t with PROC_ALL last.
Inter == 1
Recon == 2
Deblk == 3
Sao == 4
Complete == 5

NoCtb == -1
Ring == Cardinality(DOMAIN hdr)   \* MAX_SLICE_HDR_CNT
Slot(s) == s % Ring
NoHeader == [at |-> NoCtb, slice |-> NoCtb]
Idle == [at |-> "idle"]

\* The top right CTB or, at the end of the tile, the top one.
TopRight(c) == IF (X(c) + 1) % tileWd = 0 THEN c - Wd ELSE c - Wd + 1

(* Mutant: nothing of the tile to the left.                                 *)
NeedsInTile(c) == {d \in Ctbs : d = TopRight(c)}

\* The CTBs ihevcd_proc_map_check waits for; those to the left and top left only
\* when there are tiles.
Needs(c) == {d \in Ctbs : \/ d = TopRight(c)
                          \/ tileWd < Wd /\ X(c) > 0 /\ d \in {c - 1, c - Wd - 1}}

-----------------------------------------------------------------------------

Init ==
  /\ tileWd \in TileWds
  /\ \E r \in Rings : hdr = [s \in 0..(r - 1) |-> NoHeader]
  /\ curSlice = 0 /\ parsed = 0
  /\ sliceOf = [c \in Ctbs |-> NoCtb]
  /\ parser = "header"
  /\ rowSlice = <<>> /\ taken = 0
  /\ ctx = [p \in Procs |-> Idle]
  /\ stage = [c \in Ctbs |-> 0]

PictureDone == parser = "done" /\ taken = Cardinality(TileRows) /\ \A p \in Procs : ctx[p] = Idle

(* Mutant: the headers of the last picture are left in the ring.            *)
NextPictureKeeps ==
  /\ PictureDone /\ tileWd' \in TileWds
  /\ curSlice' = 0 /\ parsed' = 0 /\ parser' = "header"
  /\ sliceOf' = [c \in Ctbs |-> NoCtb]
  /\ rowSlice' = <<>> /\ taken' = 0
  /\ stage' = [c \in Ctbs |-> 0]
  /\ UNCHANGED <<hdr, ctx>>

\* ihevcd_parse_pic_init: the maps and, but for the first, the headers' positions.
NextPicture ==
  /\ PictureDone /\ tileWd' \in TileWds
  /\ hdr' = [s \in DOMAIN hdr |-> NoHeader]
  /\ curSlice' = 0 /\ parsed' = 0 /\ parser' = "header"
  /\ sliceOf' = [c \in Ctbs |-> NoCtb]
  /\ rowSlice' = <<>> /\ taken' = 0
  /\ stage' = [c \in Ctbs |-> 0]
  /\ UNCHANGED ctx

-----------------------------------------------------------------------------
(* The parser.                                                                 *)

\* ihevcd_parse_slice_header: the slice begins at the next CTB.
SliceHeader ==
  /\ parser = "header"
  /\ hdr' = [hdr EXCEPT ![Slot(curSlice)] = [at |-> NextCtb, slice |-> curSlice]]
  /\ parser' = "row"
  /\ UNCHANGED <<tileWd, curSlice, parsed, sliceOf, rowSlice, taken, ctx, stage>>

\* ihevcd_parse_slice_data at a CTB: the first of a tile row queues the row's job.
QueueRow ==
  /\ parser = "row"
  /\ rowSlice' = IF parsed % tileWd = 0 THEN Append(rowSlice, curSlice) ELSE rowSlice
  /\ parser' = "ctb"
  /\ UNCHANGED <<tileWd, hdr, curSlice, parsed, sliceOf, taken, ctx, stage>>

\* A slice that does not begin with a tile ends in it, and one that has gone beyond
\* its first tile ends with a tile.  MaxSlices bounds those that end inside a tile.
TileEnd(c) == Y(c) = Ht - 1 /\ (X(c) + 1) % tileWd = 0
SliceFirst == hdr[Slot(curSlice)].at
MayEnd(c) == \/ TileEnd(c)
             \/ Tile(c) = Tile(SliceFirst) /\ curSlice + Wd \div tileWd < MaxSlices
MayGoOn(c) == TileEnd(c) => Y(SliceFirst) = 0 /\ X(SliceFirst) % tileWd = 0

\* The rest of the CTB: its slice, its parsing, and what follows it.
ParseCtb ==
  /\ parser = "ctb"
  /\ sliceOf' = [sliceOf EXCEPT ![NextCtb] = curSlice]
  /\ parsed' = parsed + 1
  /\ \/ parsed + 1 = Wd * Ht /\ parser' = "done"
     \/ parsed + 1 < Wd * Ht /\ MayGoOn(NextCtb) /\ parser' = "row"
     \/ parsed + 1 < Wd * Ht /\ MayEnd(NextCtb) /\ parser' = "sliceEnd"
  /\ UNCHANGED <<tileWd, hdr, curSlice, rowSlice, taken, ctx, stage>>

\* Before slot 0 is used again, all the CTBs parsed must have been processed.
RingFree == Slot(curSlice + 1) = 0 => \A c \in ParsedCtbs : stage[c] = Complete

(* Mutant: the ring is used again at once.                                  *)
SliceEndAtOnce ==
  /\ parser = "sliceEnd"
  /\ curSlice' = curSlice + 1
  /\ parser' = "header"
  /\ UNCHANGED <<tileWd, hdr, parsed, sliceOf, rowSlice, taken, ctx, stage>>

\* The end of ihevcd_parse_slice_data.
SliceEnd ==
  /\ parser = "sliceEnd" /\ RingFree
  /\ curSlice' = curSlice + 1
  /\ parser' = "header"
  /\ UNCHANGED <<tileWd, hdr, parsed, sliceOf, rowSlice, taken, ctx, stage>>

\* The parser looks at the process map again and again.
ParserSpin == parser = "sliceEnd" /\ ~RingFree /\ UNCHANGED vars

-----------------------------------------------------------------------------
(* The workers: ihevcd_process.                                                *)

(* Mutant: rows are never taken one CTB at a time.                          *)
ChunkAlways(slice) == IF Chunk < tileWd THEN Chunk ELSE tileWd

\* num_ctb: one when the row may see the end of the ring.
ChunkOf(slice) ==
  IF slice > Ring - 2 * Wd THEN 1 ELSE IF Chunk < tileWd THEN Chunk ELSE tileWd

(* Mutant: the last chunk of a row is as long as the others.                *)
ClippedNot(n, left) == n

\* num_ctb in the last chunk of a row.
Clipped(n, left) == IF left < n THEN left ELSE n

\* Main is the last to join the workers.
TakeRow(p) ==
  /\ ctx[p] = Idle /\ taken < Len(rowSlice)
  /\ p = Main => parser = "done"
  /\ ctx' = [ctx EXCEPT ![p] =
               [at |-> "check", row |-> taken, first |-> 0, x |-> 0,
                num |-> Clipped(ChunkOf(rowSlice[taken + 1]), tileWd),
                stage |-> Inter, slice |-> rowSlice[taken + 1], saved |-> rowSlice[taken + 1]]]
  /\ taken' = taken + 1
  /\ UNCHANGED <<parserVars, stage>>

Ctb(p) == RowStart(ctx[p].row) + ctx[p].x

(* Mutant: SAO does not wait for the rows above.                            *)
BeginSaoAtOnce(p) ==
  /\ ctx[p].at = "check"
  /\ ctx[p].stage = Inter => Ctb(p) \in ParsedCtbs
  /\ ctx[p].stage # Sao => \A d \in Needs(Ctb(p)) : stage[d] >= ctx[p].stage
  /\ LET next == ctx[p].slice + 1
         isNext == Ctb(p) # 0 /\ hdr[Slot(next)].at = Ctb(p)
     IN ctx' = [ctx EXCEPT ![p].at = "work", ![p].slice = IF isNext THEN next ELSE @]
  /\ UNCHANGED <<parserVars, taken, stage>>

\* The waits: for the parser and in ihevcd_proc_map_check.
Ready(p) ==
  /\ ctx[p].stage = Inter => Ctb(p) \in ParsedCtbs
  /\ \A d \in Needs(Ctb(p)) : stage[d] >= ctx[p].stage

\* A wait that finds its CTB not ready yields and looks again.
Spin(p) == ctx[p].at = "check" /\ ~Ready(p) /\ UNCHANGED vars

\* The waits are over: ihevcd_slice_hdr_update.
Begin(p) ==
  /\ ctx[p].at = "check" /\ Ready(p)
  /\ LET next == ctx[p].slice + 1
         isNext == Ctb(p) # 0 /\ hdr[Slot(next)].at = Ctb(p)
     IN ctx' = [ctx EXCEPT ![p].at = "work", ![p].slice = IF isNext THEN next ELSE @]
  /\ UNCHANGED <<parserVars, taken, stage>>

\* After a stage of a chunk the next one starts again at the chunk's first CTB and
\* at its slice.
NextStage(c) ==
  [c EXCEPT !.at = "check", !.stage = @ + 1, !.x = c.first, !.slice = c.saved]

\* After the last stage: the next chunk, or the row is done.
NextChunk(c) ==
  IF c.x + 1 = tileWd THEN Idle
  ELSE [c EXCEPT !.at = "check", !.stage = Inter, !.x = @ + 1, !.first = c.x + 1,
                 !.num = Clipped(@, tileWd - (c.x + 1)), !.saved = c.slice]

Advanced(c) ==
  IF c.x + 1 < c.first + c.num THEN [c EXCEPT !.at = "check", !.x = @ + 1]
  ELSE IF c.stage < Sao THEN NextStage(c)
  ELSE NextChunk(c)

\* The stage's work ends: ihevcd_proc_map_update, which SAO follows with PROC_ALL.
Finish(p) ==
  /\ ctx[p].at = "work"
  /\ stage' = [stage EXCEPT ![Ctb(p)] = ctx[p].stage]
  /\ ctx' = [ctx EXCEPT ![p] = IF @.stage = Sao THEN [@ EXCEPT !.at = "complete"]
                               ELSE Advanced(@)]
  /\ UNCHANGED <<parserVars, taken>>

CompleteCtb(p) ==
  /\ ctx[p].at = "complete"
  /\ stage' = [stage EXCEPT ![Ctb(p)] = Complete]
  /\ ctx' = [ctx EXCEPT ![p] = Advanced(@)]
  /\ UNCHANGED <<parserVars, taken>>

-----------------------------------------------------------------------------

Parse == SliceHeader \/ QueueRow \/ ParseCtb \/ SliceEnd \/ ParserSpin
Process(p) == TakeRow(p) \/ Spin(p) \/ Begin(p) \/ Finish(p) \/ CompleteCtb(p)

Next == NextPicture \/ Parse \/ \E p \in Procs : Process(p)

\* The operating system schedules every thread that can run.
Fairness == WF_vars(Parse) /\ \A p \in Procs : WF_vars(Process(p))

Spec == Init /\ [][Next]_vars /\ Fairness

-----------------------------------------------------------------------------
(* What the wavefront must guarantee.                                          *)

Context == [at : {"check", "work", "complete"}, row : TileRows,
            first : 0..(tileWd - 1), x : 0..(tileWd - 1), num : 1..tileWd,
            stage : Inter..Sao, slice : 0..(MaxSlices - 1), saved : 0..(MaxSlices - 1)]

\* Every variable has the type of the field or map it models; in particular no
\* context leaves its tile row.
TypeOK ==
  /\ tileWd \in TileWds
  /\ Ring \in Rings
  /\ hdr \in [0..(Ring - 1) -> [at : Ctbs \union {NoCtb}, slice : -1..(MaxSlices - 1)]]
  /\ curSlice \in 0..(MaxSlices - 1) /\ parsed \in 0..(Wd * Ht)
  /\ sliceOf \in [Ctbs -> -1..(MaxSlices - 1)]
  /\ parser \in {"header", "row", "ctb", "sliceEnd", "done"}
  /\ rowSlice \in Seq(0..(MaxSlices - 1)) /\ taken \in 0..Len(rowSlice)
  /\ ctx \in [Procs -> Context \union {Idle}]
  /\ stage \in [Ctbs -> 0..Complete]

Works(p) == ctx[p].at = "work"

\* A slice's header stays in its slot until the last of its CTBs is processed
\* ("parsing thread needs to ensure that slice headers are stored till the last CB in
\* a slice is decoded", MAX_SLICE_HDR_CNT).
HeaderKept == \A c \in ParsedCtbs :
                stage[c] < Complete => hdr[Slot(sliceOf[c])].slice = sliceOf[c]

\* A CTB is processed, in every stage, with the header of its own slice, although
\* the workers find a slice's first CTB by looking at the next slot only
\* (ihevcd_slice_hdr_update).
SliceHeaderRight == \A p \in Procs : Works(p) => ctx[p].slice = sliceOf[Ctb(p)]

\* The neighbours to the left, top left and top: the filters are shifted, so that a
\* CTB's filtering finishes the last samples of these.
FilteredWith(c) == {d \in Ctbs \ {c} : /\ X(d) \in {X(c) - 1, X(c)}
                                       /\ Y(d) \in {Y(c) - 1, Y(c)}}

\* All neighbours a stage reads: also, inside the tile, the one to the top right.
Neighbours(c) == FilteredWith(c) \union
                 {d \in Ctbs : X(d) = X(c) + 1 /\ Y(d) = Y(c) - 1 /\ Tile(d) = Tile(c)}

\* No stage of a CTB starts before its neighbours have gone through that stage,
\* though ihevcd_proc_map_check looks, without tiles, at the top right one alone.
NeighboursFirst == \A p \in Procs : Works(p) =>
                     \A d \in Neighbours(Ctb(p)) : stage[d] >= ctx[p].stage

\* When ihevcd_fmt_conv has seen one row of CTBs complete, that row and all rows
\* above have their final samples: it looks at no other row.
RowsAboveFinal ==
  \A y \in 0..(Ht - 1) :
    (\A x \in 0..(Wd - 1) : stage[CtbAt(x, y)] = Complete)
    => \A c \in Ctbs : Y(c) <= y => stage[c] >= Sao

\* The headers deblocking and SAO read through pu1_slice_idx, those of the
\* neighbours a CTB is filtered with included, are still in the ring: until then the
\* neighbours' slices are not "consumed" (MAX_SLICE_HDR_CNT).
NeighbourHeaderKept ==
  \A p \in Procs : Works(p) /\ ctx[p].stage \in {Deblk, Sao} =>
    \A d \in FilteredWith(Ctb(p)) : hdr[Slot(sliceOf[d])].slice = sliceOf[d]

\* Every picture is completed: the parser's wait at the end of the ring and the
\* workers' waits for the parser do not wait for each other.
PictureCompletes == []<>PictureDone
=============================================================================
