# TLA+ models of libhevc

libhevc is a C implementation of an HEVC decoder and encoder. This directory
holds TLA+ modules that model the parts of both whose correctness is a
matter of protocol rather than of sample arithmetic, the TLC configurations
that check them on small instances, and TLAPS proofs of their safety for every
instance.

    tlc -config MCPrivate.cfg MCPicBufs      # one of the runs of section 3
    tlapm PicBufs_proofs.tla                 # and the six other *_proofs modules

`PROJECT.json` maps every definition to the lines it models, lists the runs,
the hazards of the code and the properties that cover them, and for every
property a mutation of the model that breaks it. Definitions that are such
mutations say so in their comment ("Mutant: ...") and are used nowhere else.

## 1. Inventory of the system

### Decoder

| Component | Source | State it keeps | Operations |
|---|---|---|---|
| Buffer manager | `common/ihevc_buf_mgr.c` | a status word (DEC, REF, DISP) per buffer id; two instances, picture buffers and motion vector (MV) banks | init, add, get_next_free, check_free, set_status, release |
| DPB manager | `common/ihevc_dpb_mgr.c` | slot array and linked list of the reference pictures | init, insert_ref, del_ref, searches by POC, POC LSB, nearest POC |
| Display manager | `common/ihevc_disp_mgr.c` | POC and picture per buffer id for the pictures waiting | init, add, get |
| Reference picture set | `decoder/ihevcd_ref_list.c` | `u1_used_as_ref` marks | mark, build lists, release the unmarked |
| Slice header | `decoder/ihevcd_parse_slice_header.c` | POC of the last slice, slice index, slice error flag | start of a picture, IDR purge, returns that skip |
| Picture initialisation | `decoder/ihevcd_utils.c` | current buffer and bank, output decision | acquire, queue, bump, reset maps and job queue, start workers |
| Decode call | `decoder/ihevcd_decode.c` | call-local flags | parameter checks, flush, NAL loop, end of picture, wait for workers |
| Control API | `decoder/ihevcd_api.c` | flush, reset and output modes, shared display buffers | create, init, reset, flush, set_display_frame, rel_display_frame, set_params, delete |
| NAL dispatch and parameter sets | `decoder/ihevcd_nal.c`, `ihevcd_parse_headers.c` | SPS/PPS tables | parse; a changed SPS raises `i4_reset_flag` |
| Output order | `decoder/ihevcd_parse_headers.c` (`ihevcd_calc_poc`), `ihevcd_utils.c` | `i4_prev_poc_msb`, `i4_prev_poc_lsb`, `i4_first_pic_done`; the counters `u4_pic_cnt`, `u4_disp_cnt` | derive the POC, output when enough pictures wait |
| Job queue | `decoder/ihevcd_job_queue.c` | a linear buffer with read and write pointers, terminate flag | queue, dequeue, terminate, reset |
| Worker threads | `decoder/ihevcd_process_slice.c` (`ihevcd_process_thread`), `ihevcd_decode.c`, `ihevcd_api.c` | start and done flags with condition variables, break flag | start, wait, join |
| CTB wavefront | `decoder/ihevcd_parse_slice.c`, `ihevcd_process_slice.c`, `ihevcd_fmt_conv.c` | parse map, process map (a bit per stage and CTB), ring of 256 slice headers | parse a CTB, process a CTB through its stages, convert rows |
| Entropy decoding | `decoder/ihevcd_cabac.c`, `ihevcd_parse_residual.c`, ... | CABAC contexts | |
| Reconstruction | `decoder/ihevcd_inter_pred.c`, `ihevcd_deblk.c`, `ihevcd_sao.c`, ..., `common/*` kernels and their ARM, x86 and RISC-V versions | samples | |

How they interact. The API is serial: the application calls one entry point at
a time, and `ihevcd_decode` returns only when the workers have finished the
picture. Inside a decode call the parser runs on the caller's thread and hands
rows of CTBs to the workers through the job queue; both sides communicate
through the parse map, the process map and the slice-header ring, without
locks. Across calls, a picture buffer is shared by three users: the DPB (later
pictures refer to it), the display queue (it waits for output) and, with shared
display buffers, the application. Each use has a bit in the buffer's status
word, set and cleared by different functions at different times, and the
buffer is free when the last one is cleared.

What makes each component correct, and what is hard about it:

* *Buffers.* A buffer is decoded into only when nobody needs it, and a buffer
  nobody needs is free again. The bits are set and cleared in `decode.c`,
  `ref_list.c`, `parse_slice_header.c`, `api.c` and `dpb_mgr.c`; early returns
  between the steps, POCs used as keys, and slices that repeat the release
  loops are the hard cases.
* *Banks.* Each reference has its MV bank, found again by POC only.
* *Output.* Pictures come out once, in the stream's order, none later than
  need be, and a flush returns all. The POC has to grow across sequences,
  seeks and periods of its low bits for that.
* *Threads.* A decode call ends, all workers have stopped then, and a CTB is
  processed only when the CTBs it depends on are.
* *Slice headers.* A worker processes each CTB with the header of its slice,
  although it finds it by watching a ring that the parser writes.

### Encoder

| Component | Source | State it keeps | Operations |
|---|---|---|---|
| Dependency manager | `encoder/ihevce_dep_mngr.c` | units processed per row, the waiting thread of each row, a map of complete CTBs | check and set from row to row, from frame to frame, and by map |
| Job queues | `encoder/ihevce_multi_thrd_funcs.c` | next row and input dependencies, for ME and encode loop of each frame | next job, clear a dependency, reset |
| ME and encode loop threads | `encoder/ihevce_frame_process.c`, `hme_refine.c`, `ihevce_enc_loop_pass.c` | counts of threads in and out of each frame, the ME/encode loop buffer | rows of CTBs through ME, encode loop, deblocking, SAO, half-pel planes |
| Pre-encode threads | `encoder/ihevce_frame_process.c` | a ring of slots with the state of each frame in flight | decomposition, coarse ME, L0 IPE, each opened by the first thread and closed by the last |
| Buffer queues | `encoder/ihevce_hle_q_func.c`, `ihevce_buffer_que.c` | used and produced flags, sequence numbers, semaphores | take a free buffer, set produced, get, release |
| QP queue | `encoder/ihevce_rc_interface.c` | a ring of QPs between encode group and L0 IPE | set the next QP, take one |
| Look-ahead, entropy and output threads | `encoder/ihevce_lap_interface.c`, `ihevce_entropy_interface.c`, `ihevce_hle_interface.c` | buffers in reorder | |
| Analysis and coding | `encoder/hme_*.c`, `ihevce_enc_cu_recursion.c`, ... | samples, costs | |
| Rate control | `encoder/rate_control_api.c`, `vbr_storage_vbv.c`, ... | bit budgets, models | |

How they interact. Frames pass from look-ahead to pre-encode threads to the
encode group to the entropy threads through buffer queues under a mutex; a
thread that finds nothing sleeps on a semaphore, and threads that wait for
different queues share one. Inside a group all threads take every frame
together, row by row; the order between rows, stages and frames comes from the
dependency managers, whose counters are read and written without locks. A
thread that has to wait leaves its name and sleeps; whoever sets the counter
reads that name, posts and clears it, in three steps.

What makes these correct: a row never overtakes what it reads above, ME reads
final samples only, a ring's slot is not used for a new frame before all
threads have left the old one, a buffer has one owner, and nobody sleeps for
ever although single posts may be missed.

## 2. Modules

| Module | Models |
|---|---|
| `BufMgr` | the operations of the buffer manager on a status function |
| `DpbMgr` | the slot array and linked list of the DPB |
| `DispMgr` | the display queue |
| `BufPool` | abstract specification: what the decoder promises about its picture buffers |
| `PicBufs` | the decoder's calls, as far as they touch buffers and banks; extends the three managers and refines `BufPool` |
| `OutputOrder` | the POC derivation and the output decision, over a whole stream |
| `PictureJobs` | abstract specification: a decode call returns when all jobs of its picture are done, and no job is done between calls |
| `DecodeThreads` | the application's thread and the workers: creation, start, job queue, terminate, wait and join; refines `PictureJobs` |
| `CtbWavefront` | one picture inside a decode call: the parser's slices and header ring, rows of CTBs taken by the workers, the stages of each CTB |
| `FrameChannel` | abstract specification: what a queue of the encoder's buffers promises, without buffers |
| `FrameQueue` | the encoder's buffer queue as operators on its value |
| `PreEncode` | the encoder's pre-encode threads, with the encode group as one process; extends `FrameQueue`, and both its queues refine `FrameChannel` |
| `EncWavefront` | the threads of the encode group inside frames: dependency managers, ME, encode loop |
| `MCPicBufs`, `MCOutputOrder`, `MCDecodeThreads`, `MCCtbWavefront`, `MCPreEncode`, `MCEncWavefront` | instances for TLC |
| `PicBufs_proofs`, `OutputOrder_proofs`, `DecodeThreads_proofs`, `CtbWavefront_proofs`, `PreEncode_proofs`, `EncWavefront_proofs` | the proofs about the module of that name |
| `PicStream_proofs` | more proofs about `PicBufs`, for streams within the limits of their SPS; extends `PicBufs_proofs` |
| `EncQueue_proofs` | the refinement of `FrameChannel`; extends `PreEncode_proofs` |

The decoder's modules look at the same decode call at three scales.
`OutputOrder` takes a picture as one step; `PicBufs` has the steps of a call
but treats the call as sequential; `PictureJobs` is what allows that: between
two calls no worker touches a buffer. `DecodeThreads` implements it with rows
of CTBs as single pieces of work, and `CtbWavefront` looks inside the rows.
For the encoder, `PreEncode` has the frames between the threads and takes the
encode group as one process; `EncWavefront` has that group's inside.

### Picture buffers

The managers are modules of operators (a C function with a pointer to its
structure becomes an operator on the structure's value); the state is in
`PicBufs`. One decode call is a sequence of actions, in the order of the code:

| Action | Code |
|---|---|
| `FirstSliceIntra`, `FirstSliceRefs` | slice header of a new picture up to the release loop; marking of the reference picture set |
| `NextSliceIntra`, `NextSliceRefs` | the same for a later slice of the picture |
| `PurgeSlot`, `PurgeDone` | one iteration of the release loop (`ihevcd_ref_list`, or the loop for IDR, BLA and first pictures), and its end |
| `SkipPicture`, `NoFreeMvBank`, `NoFreePicBuf` | returns without a picture |
| `PicInit` | `ihevcd_parse_pic_init`: acquire bank and buffer, queue for display, perhaps take a picture for output |
| `FinishPicture` | end of `ihevcd_decode`: REF and DISP bits, insertion in the DPB, release of the picture output |
| `FlushOne`, `FlushEnd`, `FlushReset` | a decode call in flush mode |
| `SetFlushMode`, `ResolutionChange`, `Reset`, `SetDisplayFrame`, `RelDisplayFrame` | control calls, and a changed SPS |

A status word is the set of its bits, the DPB's list a sequence of slots, a
pointer to a picture its buffer id. The stream is nondeterministic: any POC,
any reference picture set among the POCs held, any slice type, any number of
slices. `Conformant` restricts it to streams in which the pictures held or
waiting differ in POC and in which the slices of a picture agree on its type;
`MaxRefs` bounds the references a picture keeps, which is what
`sps_max_dec_pic_buffering` announces.

### Output order

`OutputOrder` has the stream in its state (`cvs`, `sent`, `tid0Poc`, ...), so
that it can generate every stream the standard allows within its bounds, and
beside it the fields of the decoder: `firstDone`, `prevMsb`, `prevLsb`,
`slicePoc`, `backlog` (`u4_pic_cnt - u4_disp_cnt`), `waiting` and `flushing`.

| Action | Code and stream |
|---|---|
| `StartCvs` | the first picture of a sequence: IDR, BLA, or a CRA picture that comes first or after a seek |
| `NextPic` | another picture, leading ones and later CRA pictures included; its guard is what the standard asks of its POC |
| `Flush`, `FlushOut` | the application seeks: flush mode, and one picture for each call |

Both picture actions are `Decode`: `ihevcd_calc_poc` (`PocMsb`, in the width of
`WORD32`: `Wrapped`), the comparison in `ihevcd_parse_slice_header` that takes
an equal POC for a repeated slice, and the output decision `Bump` at the end of
`ihevcd_parse_pic_init`. Output is by number of pictures, as in the code;
`sps_max_latency_increase` is not used there.

### Threads

`DecodeThreads` has one process for the application's thread (`Main`) and one
for each operating-system thread that exists. The variables are the fields of
`codec_t` and `jobq_t`: `numCores`, `created`, `handle`, `start`, `done`,
`breakThreads`, and the queue's `jobs` (all that was written since the reset),
`rd` and `terminate`. `pc` is the point each thread has reached, `ctx` the
process context a worker was created for. `shown`, `parsed` and `finished`
stand for the display decision, the parse map and the process map. `setup` is
what the create call and the headers fix, one of `Setups`: whether workers are
kept from picture to picture, whether format conversion is queued ahead, the
rows and the columns of tiles.

| Action | Code |
|---|---|
| `SetNumCores`, `AutoReset`, `Decode`, `Join` | the application's calls, up to their first wait or loop |
| `CreateThread`, `StartThread`, `SkipContext`, `ContextsDone`, `QueueAhead` | `ihevcd_parse_pic_init`: the loop over the contexts and the early format conversion jobs |
| `QueueRow`, `ParseRow`, `EndOfFrame` | `ihevcd_parse_slice_data`: the job of a tile row goes into the queue before the row is parsed |
| `QueueFmt`, `Terminate`, `ConvertHere` | end of `ihevcd_decode`, with several cores or one |
| `Take`, `Finish`, `Leave` | `ihevcd_jobq_dequeue` and the work, by a worker or by Main |
| `Arrive`, `Started`, `Report` | `ihevcd_process_thread`: wait for the start flag, leave on break, raise the done flag |
| `WaitDone`, `WaitJoin`, `DecodeReturns` | Main waits for the workers of the picture |
| `JoinSignal`, `JoinSkip`, `JoinThread`, `JoinReturns` | `ihevcd_join_threads` in flush, reset and delete calls |
| `Spurious` | a condition wait that returns without a signal |

Each action is a section under one mutex of the code, or a step that touches
only fields one thread uses at a time. What happens inside a row is reduced to
when it can end: `ProcReady` and `FmtReady` are the waits on the parse map and
the process map, seen from the end of the row. Tiles are columns of tiles; several
tile rows add jobs of the same kind.
`AnyTime` is an assumption about the application. The test decoder changes the
number of cores only before the first picture and after a flush and a reset,
which join the workers; nothing in the interface says that it must. With
`AnyTime = FALSE` the number of cores changes only while no worker exists.

In `DecodeThreads` a row is finished as a whole; that moment is its last CTB's
`CompleteCtb` in `CtbWavefront`, which looks inside the rows.

### Wavefront

Variables of `CtbWavefront` and the fields they model:

| Variable | Code |
|---|---|
| `hdr` | `ps_slice_hdr_base[256]`: `i2_ctb_x`, `i2_ctb_y` of each slot, and whose header it is; the ring has `Ring` slots, one of `Rings` |
| `curSlice`, `parser` | the parser's `i4_cur_slice_idx` and its point in `ihevcd_decode`'s NAL loop |
| `parsed` | `pu1_parse_map`; CTBs are parsed in one order, so a count says the same |
| `sliceOf` | `pu1_slice_idx` of each CTB, without the mask |
| `rowSlice`, `taken` | the jobs queued (`i2_slice_idx`) and how many are taken |
| `ctx` | a process context: row, first CTB and length of the chunk, CTB, stage, `i4_cur_slice_idx` and the index saved for the next stage |
| `stage` | `pu1_proc_map`: the highest bit set for each CTB |

| Action | Code |
|---|---|
| `SliceHeader` | `ihevcd_parse_slice_header` writes the header into its slot |
| `QueueRow`, `ParseCtb` | `ihevcd_parse_slice_data` at a CTB |
| `SliceEnd`, `ParserSpin` | its end: the next slice, and before slot 0 is used again the wait for all CTBs parsed |
| `TakeRow` | a job is dequeued and its context set up |
| `Begin`, `Spin` | the waits on both maps, and `ihevcd_slice_hdr_update` |
| `Finish`, `CompleteCtb` | the end of a stage: the map, and the next CTB, stage or chunk |
| `NextPicture` | `ihevcd_parse_pic_init` clears the maps and the headers' positions |

Between `Begin` and `Finish` a stage works on samples and reads the header;
that is where the properties look. Reads of a map are atomic in the model. A
wait that looks at several CTBs is a single test: bits are only set while a
picture is decoded, so looking at them one after the other finds no more than
that. What is left out: slices with errors and dependent slices (a dependent
slice takes a slot too, and the position of its segment), tile rows beyond the
first (tiles are columns), and the case of one core, which has no ring wait
and processes CTBs as they are parsed. `i4_nctb` is the `Chunk`; the number of
CTBs per wait, `nctb`, is 1 in `ihevcd_nctb_cnt`.

### Encoder: pre-encode threads

`FrameQueue` has the operations of a buffer queue under its mutex: take a free
buffer, set it produced, get the next one in order, release it. `PreEncode`
has two such queues, `preQ` and `l0Q`, the ring of slots (`slot`, the arrays
of `multi_thrd_ctxt_t` indexed by the slot), the number of frames that all
threads have left in each stage (`left`, the frame-to-frame dependency
managers), the queue of QPs (`rc`), the semaphores `preSem` and `encSem`, and
the place of each thread (`ctx`) and of the encode group (`enc`).

| Action | Code |
|---|---|
| `DecompInit`, `DecompBuf`, `DecompEnd` | `ihevce_pre_enc_process_frame_thrd`: the first thread of a frame gets it and a buffer with the mutex locked; the last one out lets the next frame in |
| `CoarseInit`, `CoarseEnd` | coarse ME of the frame |
| `IpeWait`, `IpeInit`, `IpeBuf`, `IpeQp` | the L0 IPE of an earlier frame: after the frame before it, a buffer, and the QP the thread spins for |
| `IpeEnd`, `IpeGive` | the last thread sets both buffers produced |
| `Sleep`, `Wake` | waiting for a free buffer |
| `EncWake`, `GetPre`, `GetL0`, `EncInit`, `ReleasePre`, `ReleaseL0` | the encode group: the frame's two buffers, the next QP, the release |

Left out: input frames that are not there yet (the thread would wait before it
has taken anything), the forced end (`i4_force_end_flag`), and constant QP,
where no queue of QPs is used. The branch on `i4_decomp_end_flag` cannot be
reached with an out-flush flag that is never set and is not modelled.

`FrameChannel` says what the two queues are for, with no buffers, flags or
sequence numbers: the producer works on some frames at a time (`filling`),
gives them up in any order (`ready`), and the consumer gets them in the order
in which they were begun, keeps them for a while (`lent`) and gives them back;
never more are under way than there are buffers. `PreChannel` and `L0Channel`
of `PreEncode` map `preQ` and `l0Q` to it. A frame being filled is known by its
buffer's sequence number; from when the buffer is set produced until it is
released the frame is known by the buffer's contents, so a thread that wrote to
a buffer it has given up would take a step the channel does not have.

### Encoder: wavefront

| Variable of `EncWavefront` | Code |
|---|---|
| `units`, `waiter`, `published` | a dependency manager's `pv_units_prcsd_in_row`, `pi4_wait_thrd_id` and map |
| `sem` | one semaphore for each thread, shared by all managers |
| `nextMe`, `nextEnc`, `depClear` | job queues of a frame, and the input dependencies that are cleared |
| `meFrame`, `meEncFree`, `meLeft`, `encLeft`, `encFrame` | which frame is open in ME and encode loop, the free buffer between them, how many threads have left |
| `planes` | rows whose padding and half-pel planes exist |
| `ctx` | each thread: place, frame, row, CTB, CU, and how far a check or a set has come |

| Action | Code |
|---|---|
| `ReadUnits`, `Register`, `Wake` | a check: read the counter, leave the name, sleep; afterwards the check begins again |
| `WriteUnits`, `PostWaiter`, `ClearWaiter`, `EndOfSet` | a set: write the counter, post for the name read, clear it; at the end of a row post for all |
| `MeInit`, `MeTake`, `MeDep`, `Search` | ME of a frame: opened by the first thread, rows taken from the queue, the encode loop's dependency cleared, a CTB searched |
| `EncInit`, `EncTake` | the same of the encode loop; the last thread to leave gives the buffer back |
| `Deblock`, `SaoAbove`, `Planes`, `Publish`, `PublishPost`, `LastPlanes` | after a row's CUs: the filters, a row behind for SAO, and the map of complete CTBs |

Reads and writes of a counter are atomic, as they are for an aligned `WORD32`;
what is not atomic is a check or a set as a whole, and that is modelled. The
managers of deblocking and SAO spin, the others sleep (the one for the top right
CU only below preset P4; above it spins, which has fewer behaviours). CTBs are 64x64:
`ihevce_error_check.c:896` admits smaller ones, and the dependency positions of
the encode loop (`ihevce_enc_loop_pass.c:614`) are in units of 64. There is one
column of tiles and one bit rate, and each frame refers to the one before it.

## 3. Runs

| Run | Configuration | Question and answer |
|---|---|---|
| `private` | 4 pictures, 3 banks, 4 slots, reorder 1, POCs 0..3, 1 reference, private buffers, both output modes, under `FairSpec` | Do status words, DPB, display queue, banks and counters agree at every step of a conformant stream? Yes, the pools suffice, and a flush ends when everything is returned. |
| `any_stream` | 3 pictures, 3 banks, POCs 0..1, up to 3 references, not conformant | Are buffers safe for any stream, with the pools exhausted and POCs repeated? Yes: they implement `BufPool`. |
| `shared` | 3 pictures, 3 banks, POCs 0..2, shared semi-planar buffers | Is a buffer the application owns left alone? Yes. |
| `shared_planar` | shared buffers with 420P output | Violation of `AppOwnsUntilRelease`. |
| `output_order` | reorder depth 0, 1, 2, three sequences of up to five pictures, IDR, BLA and CRA starts, low bits of period 8, POCs -9..9, counters of 7 bits | Do pictures go out in the stream's order, and none late? Yes; only a CRA picture after a seek may be taken for a repeated slice. |
| `lsb_change` | the period of the low bits changes from one sequence to the next between 4 and 16 | Violation of `OutputInOrder`. |
| `threads` | 4 contexts; 1, 2 or 4 cores; 2 rows in 2 columns of tiles with each combination of kept workers and early conversion, and 4 rows with kept workers; kept workers' number changed only while joined | Do the handshakes work: is every worker at rest between calls, every flag consumed, every context private, every job done once, the queue large enough, no thread left after a delete, and does every call return? Yes. |
| `threads_left` | 2 contexts, workers kept, core count lowered while they exist | Violation of `NoThreadLeft`. |
| `wave` | 3 x 2 CTBs, in one tile or three, rings of 4 and 8 headers, up to 6 slices, 2 workers and Main | Does a CTB keep its slice's header until it is done, is it processed with that header and after its neighbours, are rows final when they are converted, and do parser and workers never wait for each other for ever? Yes. |
| `wave_neighbour` | 2 x 4 CTBs, a ring of 4 headers, 8 slices | Violation of `NeighbourHeaderKept`. |
| `enc_wavefront` | 3 x 2 CTBs, 2 frames, vectors of 1 CTB, with and without SAO, 2 threads | Does no row overtake the one above, is the reference final where it is searched, and is every frame completed although posts may be missed? Yes. |
| `pre_encode` | 2 threads and the encode group, 4 frames and the end, look-ahead 0, 1, 2 | Are slots, buffers and QPs those of the right frame, do both queues implement `FrameChannel`, and is every frame encoded? Yes. |

The four violations are disagreements between the code and its own comments or
assertions; section 6 describes them. There is one run for each question: where
a case can be a value chosen in the initial state (`Setups`, `Rings`,
`TileWds`, `SaoModes`, `LookAheads`), it is, and does not need a run of its own.

*Bounds.* With one reference, reorder depth one and four buffers, a stream
already reaches every combination of uses of a buffer: referenced and waiting,
referenced only, waiting only, output at once, output later, and current. Two
pictures wait and one is referenced while a fourth is decoded, which fills the
pool of `sps_max_dec_pic_buffering + sps_max_num_reorder_pics + 1` buffers
exactly; `PoolsSuffice` is checked at that size. Three POCs more than the
pictures held let a POC be reused after its picture is gone, which is what the
search for banks by POC is about. In `any_stream` the pool is smaller than the
stream needs, so both error returns occur. The number of calls is not bounded;
the state spaces are finite because POCs, buffers and slots are.

In `output_order` POCs up to 9 pass the period of 8 low bits in both
directions, five pictures are more than ever wait, and the third sequence
starts while pictures of the first may still be there. `IntHalf` is large
enough for these streams, as 2^31 is for streams of a realistic length: a
counter that overflows is a matter of streams beyond 2^31 / `MaxLsb` sequences. The
bounded stream ends, so these two runs do not check for deadlock.

For the threads, four cores are three workers and Main, which is the least number at
which two workers compete for a job while a third waits. Four
rows let a format conversion job wait for rows two below it (`LastRowBelow`) that
another worker has in hand; 2 x 2 tile rows make jobs depend on rows
of another tile that come earlier in the queue. A thread's identity is used again after its join;
where kept workers may be forgotten the run is bounded by the identities that
are free (`MayChangeCores`), because a forgotten worker never gives its
identity back.

For the wavefront, a ring of at least `2 * Wd` headers leaves chunks of several
CTBs at the beginning of a picture and single CTBs near the end of the ring,
as 256 headers do in the code (the rule is in `ChunkOf`): 8 does, 4 leaves
single CTBs only. With one slice per
CTB, 6 slices go round a ring of 4 once and reach the wait and the reuse of
slots 0 and 1 while rows above are in progress. Rows of three CTBs with chunks
of two have a chunk that is shorter. One tile and three tiles give every kind
of neighbour: in the tile, across its border, and missing; the layout is
chosen anew for each picture. `MaxSlices` bounds only the slices that end
inside a tile; how a slice may span tiles is the standard's rule (`MayEnd`,
`MayGoOn`). Pictures follow each other without end, so stale headers of the
picture before are covered.

In `enc_wavefront` three rows give a row with rows above and below it, which SAO's
delay and the top row's planes need, and a search that reaches rows beyond
the one it must wait for; two columns give a top right CTB and a row's end. The second
frame searches the first while that one's last rows are filtered, if the code lets it. With
`SemMax` 1 a further post on a semaphore is dropped, which is the worst case for a
sleeper. In `pre_encode` the ring has 2 to 4 slots and the two queues 2 to 4 buffers and
1, so that five frames go round each of them at every look-ahead, and four QPs round
their queue of 3.

*Fairness.* `FairSpec` of `PicBufs` assumes that the application keeps calling
`ihevcd_decode` while a flush is going on (weak fairness of the three flush
actions), which is what the API asks of it and what the example application
does. Nothing is assumed of the stream or of other calls: a reset or another
flush may come at any time.

The fairness of `DecodeThreads` is weak fairness of each thread: the
operating system runs a thread that can run. A worker that finds the
queue empty unlocks the mutex and yields, so it does not
keep the others from it; and waits on conditions end by the
actions of the thread that signals, not by fairness of their own. `Spurious` and
the application's calls have no fairness.

In `CtbWavefront` the parser and each process are weakly fair, for the same
reason: a wait is a loop that looks again (`Spin`, `ParserSpin`, which leave everything
unchanged), never a lock. Because a thread that waits can always look again, TLC's
deadlock check says nothing there; `PictureCompletes` does.

In `EncWavefront` and `PreEncode` each thread, and the encode group, is weakly
fair. In the first only the thread itself takes from its semaphore, so that a
positive count stays until it does. In the second pre-encode threads share a semaphore,
but at most one waits for each queue. `Rest` is the stuttering of a
finished encoder, so that TLC's deadlock check means what it says before.

## 4. Properties

| Property | What it says |
|---|---|
| `DpbIntact` | the linked list threads exactly the occupied slots, once each; the C code follows the list without tests for NULL |
| `RefBitIsDpb` | REF is set exactly for the pictures in the DPB |
| `DispBitIsUse` | DISP is set exactly for the pictures someone still has to see |
| `NeverOnlyReference` | the assertion `status != 2` of `ihevc_buf_mgr.c` |
| `NoLostBuffer`, `NoLostBank` | a buffer or bank in no use is free |
| `BankOfReference` | the bank found by POC is the bank of that reference |
| `BacklogIsQueue` | `u4_pic_cnt - u4_disp_cnt` is the number of pictures waiting |
| `PoolsSuffice` | the "no free buffer" errors do not occur in a conformant stream |
| `AppOwnsUntilRelease` | the decoder does not write to the application's buffers |
| `FlushReturnsAll`, `FlushEnds` | flush mode ends, and only when all is returned |
| `RefinesPool` | `PicBufs` implements `BufPool` (run with private buffers; `PoolRefined` has the shared ones too) |
| `OutputInOrder` | pictures go out in the stream's order, across leading pictures, new sequences, seeks and the periods of the low bits |
| `NoLateOutput` | no more pictures wait than the stream reorders |
| `OnlyAfterSeekIgnored` | only a CRA picture after a seek may be taken for a repetition of the slice before |
| `WorkersRest` | between calls no worker is in a picture |
| `FlagsConsumed` | no start or done flag is left for the next picture to mistake for its own |
| `ContextsPrivate` | no process context is used by two threads |
| `QueueNeverFull`, `JobsOnce` | the queue holds all jobs of a picture; no job is done twice |
| `NoThreadLeft` | a delete call leaves no worker on memory it frees |
| `JobsDoneByCall` | `DecodeThreads` implements `PictureJobs` |
| `CallsReturn` | no call waits for ever |
| `HeaderKept` | a slice's header stays in the ring until the last of its CTBs is done |
| `SliceHeaderRight` | every stage of a CTB uses the header of the CTB's own slice, found by looking at the next slot only |
| `NeighboursFirst` | no stage of a CTB starts before its neighbours have gone through it, though the map is tested at few of them |
| `RowsAboveFinal` | a complete row means that all rows above are final, which the format conversion relies on |
| `NeighbourHeaderKept` | the headers of the neighbours a CTB is filtered with are still in the ring |
| `PictureCompletes` | the waits at the end of the ring and for the parser never wait for each other |
| `RowsInOrder` | coding, deblocking and SAO of a row stay behind the row above by what they read there |
| `SearchFinal` | ME reads rows of the reference, and planes, only when they have their final values |
| `FramesComplete` | every frame is encoded, although a thread may miss the post it is about to sleep for |
| `SlotKept` | each thread finds its own frame in the slot it computes, in every stage |
| `EncoderOwnsFrame` | the encode group gets two buffers of the same frame, which no pre-encode thread still uses |
| `RefinesChannels` | both queues of `PreEncode` implement `FrameChannel` |
| `QpInStep` | the QP of a frame does not depend on how far the threads have got, and neither end of the queue runs over the other |
| `AllEncoded` | nobody waits for ever for a buffer, a QP or another thread |

## 5. Proofs

All theorems hold for every value of the constants their module's assumptions
allow; what else a theorem supposes is a hypothesis in its statement. Each
inductive invariant was checked by TLC, on the constants of a run, before it
was proved. A proof has one lemma for each action, and under it a step for each part of
the invariant the action touches.

| Theorems | State | Hypotheses |
|---|---|---|
| `PicBufs_proofs`: `TypeCorrect`, `DpbCorrect`, `ReferencesCorrect` | `TypeOK`, `DpbIntact`, `RefBitIsDpb` | none: all modes, any stream |
| `PicBufs_proofs`: `DisplayCorrect`, `NothingLost`, `ApplicationCorrect`, `PoolRefined`, `FlushCorrect` | `DispBitIsUse`, `NoLostBuffer`, `AppOwnsUntilRelease`, `RefinesPool`, `FlushReturnsAll` | `SafeModes` |
| `PicStream_proofs`: `BacklogCorrect` | `BacklogIsQueue` | `SafeModes` |
| `PicStream_proofs`: `PoolsCorrect`, `BankFound`, `BanksKept`, `StatusCorrect` | `PoolsSuffice`, `BankOfReference`, `NoLostBank`, `NeverOnlyReference` | `SafeModes`, `WithinLimits` |
| `OutputOrder_proofs`: `OutputInTime` | `NoLateOutput` | none |
| `OutputOrder_proofs`: `RepetitionsRight` | `OnlyAfterSeekIgnored` | `OneSize`, `Wide` |
| `OutputOrder_proofs`: `OrderKept`, `OrderOfFewReordered` | `OutputInOrder` | `OneSize`, `Wide`, and `NoDeepStep` or a reorder depth of at most 1 |
| `DecodeThreads_proofs`: `TypeCorrect`, `HandshakeCorrect`, `FlagsCorrect`, `ContextsCorrect`, `DeleteCorrect`, `CapacityCorrect`, `QueueCorrect`, `PromiseKept` | `TypeOK`, `WorkersRest`, `FlagsConsumed`, `ContextsPrivate`, `NoThreadLeft`, `QueueNeverFull`, `JobsOnce`, `JobsDoneByCall` | `SafeCores` |
| `CtbWavefront_proofs`: `RingKeepsHeaders`, `OwnHeaderUsed`, `WavefrontHolds`, `ConversionSafe`, `TypeCorrect` | `HeaderKept`, `SliceHeaderRight`, `NeighboursFirst`, `RowsAboveFinal`, `TypeOK` | none |
| `CtbWavefront_proofs`: `NeighbourHeadersKept` | `NeighbourHeaderKept` | `FewSlices` |
| `PreEncode_proofs`: `SlotsKept`, `FrameOwned`, `QpsInStep` | `SlotKept`, `EncoderOwnsFrame`, `QpInStep` | none |
| `EncQueue_proofs`: `ChannelsRefined` | `RefinesChannels` | none |
| `EncWavefront_proofs`: `RowsOrdered`, `SearchReady` | `RowsInOrder`, `SearchFinal` | none |

The hypotheses, and what is behind them:

* `SafeModes` excludes the two modes in which the properties fail: shared buffers
  with planar output (`shared_planar`), and output buffers that may be too small in a
  flush (section 6).
* `WithinLimits`: the stream is `Conformant`, keeps fewer references than there
  are banks, and with private buffers references and reordered pictures together are
  fewer than the buffers; these are the sizes the decoder allocates from the SPS.
* `SafeCores`: the application does not change the number of cores while it
  has kept workers (`threads_left`).
* `OneSize`: all sequences have the same number of POC low bits (`lsb_change`
  shows what happens otherwise). `Wide`: the stream is short enough for the
  decoder's counts to fit a `WORD32`.
* `NoDeepStep`: no picture is sent 3/2 periods of the low bits or more above the
  period of the last layer-0 reference.
* `FewSlices`: a picture has no more slices than the ring has slots, 256 in the code; true
  below level 6 (`wave_neighbour` shows what happens otherwise).

### Picture buffers

The assumptions are those of `PicBufs`: there is a buffer and a bank, there are
at least as many DPB slots as buffers (64 and 64 in the code), modes are
Booleans, and POCs are integers other than `DEFAULT_POC`, 0 among them.
None of the properties is inductive. `RefBitIsDpb` needs to know
that the buffer `PicInit` acquires and `FinishPicture` inserts is not in the
DPB, hence where the call stands (`CallInv`); that a release frees the word
rather than leaving DEC needs `RefHasDec`; that shared buffers are not used
before they are handed over needs `AttachInv`. `CoreInv` is their conjunction
with the types and `DpbIntact`. On top
of it `UseInv` adds the display side: `OutputInv` says where a picture is
between its decoding and its last view. In each step that changes a use, the
corresponding lemma also names the step of `BufPool` it implements, so that the
refinement follows together with the invariant. The lemmas `ReleaseOneUse`,
`InsertKeepsIntact` and `UnlinkKeepsIntact` state what the managers' operators
do.

`PicStream_proofs` adds what depends on the stream, by counting. `CountInv`: the
two counters differ by the number of pictures waiting, but in a flush, which sets
them back with pictures still waiting. `PocInv`: pictures held differ in POC, and the one to come
differs from them. `PurgeInv`: the first slice of a picture marks no more
pictures than `MaxRefs`, since the marked ones have different POCs, and when the release loop is
over only marked ones are in the DPB. `BankInv`: every reference has its bank, no two
banks in use have one POC, and the bank in use comes before any stale bank
with that POC. The banks in use are then no more than the POCs held, and
the buffers in use no more than references and waiting pictures together, so
that a free one of each is found; the error return `NoFreePicBuf`, which loses the bank acquired
before it, is unreachable; and the search by POC at a release finds the
reference's own bank.

### Output order

For `OutputInTime`, `WaitInv` relates the number of
pictures waiting to the counter by which the code decides; a flush sets the counter back
with pictures still waiting, so the relation holds only outside a flush, and
what carries over is that a flush ends when nothing waits.

For the order, `Offset` is what `ihevcd_calc_poc` adds to each POC of the
current sequence. `CountInv` says that the offset does not change within a sequence,
that the decoder's state is that of the last layer-0 reference, and that no
count leaves its word. `OrderInv` says of each picture waiting that it has not been overtaken: the pictures
are counted in the stream's order (`Ordered`), the last one output is before all of them
(`LastInv`), and pictures of earlier sequences are below all that the current one may send
(`ItemInv`). A picture goes out only when more wait than the stream reorders; were
one still to come that belongs before it, all those waiting would be pictures sent
before and output after that one, more than the standard allows. This is an injection from the
waiting pictures into the POCs sent (`NoneOutLater`).

`OutputInOrder` does not hold for all constants. A new
sequence counts on by two periods from the period of the last *layer-0
reference*. With a period of 16 and reorder depth 2, POCs 0, 7, 14, 21, 28, 15, where 28
is no reference and 15 is one, and then a BLA picture with a leading picture of
POC -7: this one is counted as 25, and goes out before 28. Two periods are enough when no
picture is sent that far above the reference (`OrderKept`), which the
constants of `output_order` imply; with a reorder depth of at most 1
a stream cannot do it at all (`OrderOfFewReordered`, by `ChainInv`: each picture
is within half a period above the last reference).

### Threads and wavefront of the decoder

In `DecodeThreads_proofs` the inductive invariant `IInv` has a part for each
question. `MainInv` ties Main's place to its call and loop counter. `PoolInv`
says that a thread exists exactly if a context remembers it. `HandInv` lists, for each
context, the combinations of start flag, done flag and worker's place that occur while
Main has the context in use (`Engaged`), tells it to leave (`Leaving`), or
neither; that the last one is `Resting` is what the handshakes are for.
`QueueInv` gives the job at each place of the queue from Main's place
(`JobAt`), which bounds it; `JobInv` says that every job taken is finished or
in one hand; `AloneInv` is the case of one core, without queue. When Main has passed
its waits, all places of the queue are taken and no worker has a job, so every
job is finished, which is the promise.

`CtbWavefront_proofs` begins with the
geometry: a CTB's place in the picture, in its row of a tile and in parsing order
(`CellPlace`, `NumberPlace`, `Columns`). The parts of the invariant:

* `ParserInv`: which rows are queued when the parser has come so far;
* `SliceInv`: slices are numbered in parsing order without gaps, so that
  the slice of a CTB is that of the CTB before or the next;
* `HeaderInv` and `LapInv`: the slots hold the headers of the parser's current round of
  the ring, each at its slice's first CTB, and only CTBs of that round are
  unfinished; the wait at the end of the ring is what keeps it (`RingFree`);
* `RowInv`: how far each row is, stage by stage, from its context (`StageAt`);
* `TrackInv`: a context's slice index is that of the CTB before, until it is
  advanced;
* `OrderInv`: a CTB is not ahead of its neighbours;
* `BoundInv`, for `TypeCorrect` and `NeighbourHeadersKept` only: the slices so far and one for each tile still to come
  are no more than `MaxSlices`. A slice ends inside its tile only if there is
  room left, and otherwise with a tile (`TileAfter`).

`NextSlotTells` is the heart of `OwnHeaderUsed`: a header at the position of a
worker's CTB in the next slot is there exactly if a slice begins there, though that slot may be
stale. It takes a ring of two slots or more. `ReadyNeighbours` is that of `WavefrontHolds`: a
test of the top right CTB alone covers the others, because rows go from left
to right and `OrderInv` holds for the row above. `NeighbourHeadersKept` is about the property
that `wave_neighbour` violates: with `FewSlices` the whole picture is one round of the ring
(`OneLap`), a neighbour has gone through the stage and so has been parsed (`FilteredParsed`),
and the header of a parsed CTB's slice is in its slot. What fails with more slices is
thus only the reuse of slots.

### Encoder

`PreEncode_proofs` holds for every number of threads, of frames and of look-ahead
pictures. Its invariant follows a frame through the group. `DecompInv`, `CoarseInv` and `IpeInv`:
every thread is in the stage's open frame or the next one, never all of them past it, and the fields
of that frame's slot count those that are; a slot's state is initialised by
the one thread that found it so. `WindowInv` is the reason the slots suffice: no thread is further
ahead of its own L0 IPE than the look-ahead, so all frames in flight are within a
window no longer than the ring, in which different frames have different slots.
`PreInv` and `L0Inv` say which frames the two queues hold, in terms of how far
the stages and the encode group have come; hence the two buffers the encode
group gets are of its own frame and have been given up. `QpInv` counts reads
and writes of the QP queue; both depend on frame numbers only, and differ by no more than the queue's
length.

`EncQueue_proofs` shows that both queues implement `FrameChannel`. The lemmas
`Taken`, `Given`, `Got` and `Released` do each operation of `FrameQueue` once, for
any set of buffers, under `InOrder`: buffers in use have sequence numbers of
their own, below the next one, and a produced buffer contains the frame of its number.
`PreInv` and `L0Inv` imply it for the two queues (`PreOrder`, `L0Order`). Different
numbers make the frames under way no more than the buffers in use, so a free buffer
means room in the channel (`RoomLeft`). All other steps stutter; the one that
needs an argument is `L0Fill`: every thread writes its results to the L0 buffer,
but only while that is being filled.

`EncWavefront_proofs` holds for every picture, every number of threads and of
frames, all search ranges, with and without SAO. `FrameInv`: the only buffer between ME and the
encode loop (`NUM_ME_ENC_BUFS` is 1) keeps all threads in one frame, but for those that
wait at the beginning of the next. `RowInv`: each row is in one thread's hands, in every
frame, and rows that are left have their planes. `UnitInv`: the counters
of a row are bounded by the place of its owner (`Hold`), and a row behind the row above. The order of
rows follows from it, and `SearchReady` from the end of a frame: the last thread leaves when
no row is left to take and no one holds one, so all planes of the frame before
exist when a search begins.

### Only model-checked

Liveness, which is beyond the prover: `FlushEnds`, `CallsReturn`,
`PictureCompletes`, `FramesComplete`, `AllEncoded`. Every safety property of
the passing runs is stated by a theorem. `PreEncode` and `EncWavefront` have no `TypeOK`
of their own; the types of their variables are `TypeInv` in the proofs. Of the properties
of the four runs that find a violation, each is proved under the hypothesis that
excludes the violation.

## 6. Where code and documentation disagree

* `shared_planar`. With shared buffers and 420P output, `ihevcd_decode` in flush mode releases
  the display bit of the buffer it returns (`ihevcd_decode.c:628`); the next
  picture may be decoded into it while the application owns it, which the comment at
  `ihevcd_api.c:3249` excludes.
* `threads_left`. A picture decoded with fewer cores clears `ai4_process_thread_created` of the
  contexts it does not use (`ihevcd_utils.c:1407`). Workers kept
  active on these contexts are no longer joined: a delete call frees what they
  wait on, and when the number of cores grows again a
  second worker is created for the context, both answer to one start flag, and a
  join may wait for the one that was not woken.
* `wave_neighbour`. A slice's header is overwritten while its last samples are still to be
  filtered. The comment at `ihevcd_defs.h:145` wants headers "stored till the
  last CB in a slice is decoded"; the parser waits for that only before it uses slot 0
  again, and is then free to write the next 255. Deblocking and SAO of the CTBs
  below read the header of the CTB above (`ihevcd_deblk.c:258`), through
  an index that has wrapped. A picture needs more than 256 slices for it;
  such pictures exist from level 6 on.
* `lsb_change`. A new sequence counts on by two periods of *its* low bits
  (`ihevcd_parse_headers.c:3698`). If its SPS has fewer of them than the one
  before, its POCs are below those of pictures that still wait, and it
  overtakes them; `common/ivd.h:89` promises display order. A new SPS makes
  the decoder reset (`i4_reset_flag`) only if the size or format of the pictures, the CTBs' size,
  the colour description, the buffering or the reorder depth change.

Without a run, because each is a small matter once seen:

* A flush call whose output buffer is too small returns at
  `ihevcd_decode.c:621`, after the picture left the display queue: the picture
  is lost and so is its buffer. (`OutBufFits` of `PicBufs` has the case.)
* A later slice of a picture may be IDR; it then releases banks by POC while
  the current picture's bank has one of them, and the assertion in
  `ihevc_buf_mgr_set_status` fails. (`Conformant` excludes the case.)
* The bank of a released picture is searched by POC among all
  banks, free ones with a stale POC included (`ihevcd_ref_list.c:505`): when a
  stream that does not conform repeats a POC, the wrong bank is released.
* A CRA picture after a seek whose low bits are those of the last picture
  decoded before is taken for a repeated slice and not decoded
  (`OnlyAfterSeekIgnored` allows exactly this).
* Two periods of the low bits are not enough for a new sequence after one whose last pictures
  lie far above its last layer-0 reference; section 5 has a stream.
* The comment at `ihevcd_job_queue.c:496` says that a non-blocking dequeue from an
  empty queue returns a failure; the code sets the failure and stays in its loop,
  with the mutex locked. All callers block.
* `hme_refine.c:7431` adds one CTB to the area ME depends on, for "delayed
  deblock, SAO, subpel plan dependency", and does not pass the result to
  `ihevce_dmgr_map_chk_sync`. `SearchFinal` holds all the same: with one buffer
  between ME and encode loop (`NUM_ME_ENC_BUFS`), ME of a frame starts only when the
  frame before is complete. With more buffers it would not.

## 7. Plan

Done: the decoder's picture buffers, output order, threads and wavefront, the
encoder's pre-encode threads, buffer queues and wavefront, and proofs of all
their safety properties. Next, in this order:

1. An abstract wavefront that `CtbWavefront` and `EncWavefront` both implement.
2. `OutputInOrder` for the streams between the two theorems: with reorder depths of
   2 or more, the sequences of layer-0 references that imply `NoDeepStep`.
3. Dependent slices, rows of tiles and the concealment of a slice error in
   `CtbWavefront`; the NAL loop of `ihevcd_decode` with slice errors and header mode.
4. The encoder's look-ahead, entropy and output threads, with `FrameQueue`.

## 8. Not modelled, and why

Sample arithmetic (reconstruction, transforms, filters, their ARM, x86 and RISC-V
versions, motion search and mode decision), entropy coding and bitstream
syntax are functions on long inputs with no protocol around them; they are
most of the repository's lines. Rate control is fixed-point arithmetic over long histories.
Memory allocation and the layout of
buffers are constants of a run. SEI, VUI, logging and statistics do not feed
back into the state modelled. Early returns of `ihevcd_decode` caused by
operating-system errors (a mutex that cannot be locked) are left out.
