# TLA+ verification of the RK3576 NPU and encoder drivers and their tools

The repository is a bring-up of the Rockchip RK3576: patches that make the
mainline `rocket` NPU driver work on it, a new V4L2 driver for the SoC's VEPU510
H.264 encoder, the C programs that capture and replay NPU work and test both
drivers, and the scripts, captures and notes around them. There is no driver
tree: kernel code is in patches, so a line of the drivers is a line of a patch.
Modelled are:

- `src/rfc-send-vepu510/0002-media-rockchip-add-vepu510-h264-encoder.patch`, the
  whole encoder driver (`rkvenc.c`, `rkvenc-h264.c`), called "the encoder patch"
  below;
- `src/rfc-send-v15/`, the current NPU series, on top of the `rocket_job.c` whose
  context lines are in `src/kernel/0001-...` and the later patches. The series
  v3 to v14 and the `src/kernel/` debug patches are superseded by it;
- the programs in `src/replay`, `src/vepu-test` and `src/vendor-capture`;
- the FlatBuffers headers in `src/mesa/flatbuffers`, in which model files (`.rknn`,
  `.tflite`) are read and written. They are third-party code, but they are most
  of the C and C++ the repository holds, and their invariants are hard to test.

Run everything from this directory: `tlc -workers 2 -config X.cfg MCModule`, and
`tlapm XProofs.tla` for the proofs.

## 1. Inventory

| Part | State it keeps | Operations | Status |
|---|---|---|---|
| rkvenc job machinery | `cur_ctx`, `irq_status`, `watchdog_work`, runtime PM and clock counts, the core's INT_STA and slice FIFO | `device_run`, hard interrupt, interrupt thread, watchdog, soft reset, `job_finish`, streaming, runtime suspend, `remove` | `RkvencJob` |
| rkvenc H.264 session | `frame_num`, `poc_lsb`, `gop_pos`, `idr_pic_id`, two reconstruction buffers, SPS/PPS, controls, formats and buffers of both queues | `start`, `stop`, `run`, `done`, `s_ctrl`, `s_fmt`, `queue_setup`, `buf_prepare` | `RkvencH264` |
| rkvenc parameter sets and NAL writer | bit writer, `sps_pps_nal[64]` | `bw_put_*`, `gen_sps_pps`, `write_nal` | `Nal`, `NalWriter`, `ParamSets` |
| rkvenc arithmetic | none | CAPTURE size limits, `calc_wdg`, rate-control ladder | `FrameSetup`, used by `ParamSets` |
| rocket job execution | `in_flight_job`, `next_task_idx`, `reset.pending`, `job_lock`, PM count, attached domain, interrupt mask and status | `job_run`, hard and threaded interrupt, `timedout`, `reset`, runtime suspend | `RocketJob` |
| capture shim (`capture.c`) | table of buffers, `dumped` | MEM_CREATE, MAP, SUBMIT seen through `ioctl()` | `Capture` |
| replay programs | buffers with captured and own address, task array, jobs | load, relocate, flush, submit, poll, report | `Replay`, on `Npu` |
| V4L2 encoder test (`vepu-test.c`) | one source and one coded buffer, error count, file | QBUF, DQBUF, write | `EncoderTest` |
| vendor encoder test | six buffers, register classes, message batch | allocate, fill registers, one blocking call | `VendorTest` |
| model runners | context, inputs, outputs, first result | load, run, compare | `Runners` |
| FlatBuffers: growing buffer | `buf_`, `cur_`, `scratch_`, `reserved_`, allocator and its owner flag | push, fill, pop, scratch, move, swap, release, adopt | `VectorDownward`, `BufferOwners` |
| FlatBuffers: builder, accessors, verifier | builder: buffer, virtual tables, pools; verifier: depth and count | strings, vectors, tables, `Finish`; reading; `Verify*` | `FlatBuilder`, `FlatReader`, `FlatVerifier` |
| FlexBuffers: builder, accessors, verifier | builder: stack, buffer, key and string pools; verifier: depth, reuse tracker | push, `EndVector`, `EndMap`, `Finish`; reading; `VerifyRef` | `FlexBuilder`, `FlexReader`, `FlexVerifier` |
| rocket attach-once, hard-interrupt completion | cached domain, its reference | attach, detach, completion in the hard handler | not modelled |
| rocket teardown | `iommu_group`, group reference, timeout worker | `core_fini`, `job_fini` | not modelled |
| power domains | idle request, power bit, reset lines | power on and off with settle delay and reset pulse | not modelled |
| Rockchip IOMMU | fault banks, stall and paging state, TLB | command enable, flush, fault handler | not modelled |
| kernel installer | boot partition: kernel, backup, extlinux entries | `install_kernel` | not modelled |
| FlatBuffers: parser, reflection, support headers; `rknn_api.h`, TensorFlow Lite C headers | | declarations, generated accessors, wrappers | not modelled |
| device tree, bindings, Mesa patches, image, flashing and mail scripts, captures, logs, notes | | static data, another project's compiler, scripts run by hand | not modelled |

**Interactions.** The V4L2 mem2mem core calls `device_run` for one context at a
time; the frame then passes to the hardware, and whichever of the interrupt
thread and the watchdog takes the pending delayed work finishes the job:
`ops->done` (the H.264 session's counters), clocks and power, `cur_ctx`, and the
mem2mem core, which may at once call `device_run` again. The session is started
and stopped by STREAMON/STREAMOFF of the OUTPUT queue. In the NPU driver the DRM
scheduler's worker calls `job_run`, the interrupt thread starts the next task or
retires the job, and the timeout worker stops the scheduler, releases the stuck
job and resets the core, under `job_lock` where it must. The shim sits between a
runtime and its driver and leaves files; the replay programs turn these files
into work for another driver, and the NPU executes the words they relocated.
`vepu-test` hands one buffer of each queue back and forth with the encoder driver.
A FlatBuffers builder keeps its objects in one half and its bookkeeping in the
other half of one growing buffer, hands the block on when it is finished, and
readers and verifiers see nothing but its bytes.

**What is hard.** Encoder: an interrupt that belongs to the frame before; the
watchdog against a completion; buffers freed while the core writes; every error
path giving back exactly what it took; counters that must stay those of a
decoder over failures and wrap-around. NPU: a reset against both halves of the
completion interrupt; registers touched with the power domain down; the IOMMU on
the same interrupt line. Replay: which words are addresses; memory the CPU and
the device see at different times; an output that was there before. FlatBuffers:
offsets counted from the far end of a buffer that moves when it grows; parts that
are shared and taken back; ownership of blocks over moves and swaps; a verifier
that must accept what a builder writes and nothing a reader would trip over.
`PROJECT.json` lists each hazard at its line.

**What makes the parts correct.** A frame comes back once, "done" only when it
is encoded; the core never touches freed memory; power and clock references
balance; an encoder or a reset never hangs for ever. Every P frame reads the
reconstruction the decoder has, frame numbers have no gap, IDR ids differ,
buffers fit what the core is programmed for and are freed. The NAL writer never
emits a start code inside a unit, and a parser reads back from SPS/PPS what went
in. A job reported done has run all its tasks; no register access meets a
suspended NPU; the core never runs a job that has ended; one PM reference per
job; the domain is free when the next job attaches; a reset leaves no handler
running and stops no innocent task. A replay computes what the captured process
computed and never shows output it did not compute; an exit code or a verdict of
a test program is true. What a builder wrote is what a reader finds, aligned and
stored once; a block of memory is freed once, by the allocator that made it; a
buffer the verifier accepts is safe to read, and it accepts a builder's own.

## 2. Modules

| Module | What it is |
|---|---|
| `FrameLife` | abstract specification: life of frames as user space sees it |
| `RkvencJob`, `RkvencJobProofs` | the encoder's five actors; implements `FrameLife` |
| `RkvencH264`, `RkvencH264Proofs` | one H.264 session |
| `Nal`, `NalWriter` | `rkvenc_write_nal` as an operator, its loop as a machine |
| `FrameSetup` | format limits, watchdog threshold, rate-control ladder: operators |
| `ParamSets`, `HeaderProofs` | from a format request to SPS, PPS and registers, and the reference parser; the proofs about both |
| `RocketJob`, `RocketJobProofs` | one NPU core under the DRM scheduler |
| `Npu`, `Capture`, `Replay`, `ReplayProofs` | what the NPU does with command words; the shim; the three replay programs; the proofs about them |
| `EncoderTest` | `vepu-test.c` and the queues of the driver |
| `VendorTest`, `Runners`, `ClientProofs` | `vepu-vendor-test.c`; the three runners; the proofs about the programs |
| `TwoStacks` | abstract specification: two independent stacks of bytes |
| `VectorDownward` | `vector_downward`, byte by byte; implements `TwoStacks` |
| `BufferOwners` | who owns which block and which allocator |
| `BufferProofs` | the proofs about these two |
| `FlatReader`, `FlatVerifier`, `FlatBuilder` | FlatBuffers: accessors, verifier, builder, each on the one before |
| `FlatBuilderProofs` | the builder writes bytes; the verifier lets through only what the accessors can read |
| `FlexReader`, `FlexVerifier`, `FlexBuilder` | the same for FlexBuffers |
| `MC*` | instances for TLC |

Three MC modules put several machines on one bench: `MCH264`, `MCClients`,
`MCFlatBuffers`. A constant variable `bench`, chosen in the initial state, says
which machine runs; the others rest in one state. (In `MCFlatBuffers` the builder
whose buffers are damaged is the module it extends, the other four are instances.) The machines share no state, so
the bench is the disjoint union of their state spaces and each property is that of
its machine.

### RkvencJob

Actors and where they are: `rpc[j]` is the position of `device_run` for frame
`j`; `hpc` the hard handler, with its local `status` in `hsta`; `pc["thread"]` and
`pc["watchdog"]` the two finishers with their locals. `PowerUp`, `ClockOn`,
`Claim`, `ClearStatus`, `ArmWatchdog`, `Kick` are the steps of `device_run` in
source order; `PowerUpFails` and `ClockOnFails` its error labels. `IrqTake` reads
and acknowledges INT_STA, `IrqNoJob` and `IrqJob` are the two ways on.
`ThreadCancel` is `cancel_delayed_work()`, which decides who owns the job.
`FinishRelease`, `FinishDetach`, `FinishM2m` are `rkvenc_job_finish()` in three
steps because other actors look at `cur_ctx` and the mem2mem state between them.
The core (`HwSlice`, `HwFinish`, `HwLateDone`, `HwError`), mem2mem and runtime PM
are external.

No timing is assumed. `device_run` does not wait for the interrupt of an earlier
job, and the 800 ms watchdog may expire at any time; the history variable `strayed`
records when that mattered: a job was claimed while an interrupt of an earlier one
was raised or being handled (or an `enc_done` still to come), or its watchdog
expired before the core was started. Who owns a job, and the references, are checked
whatever strays; what happens to frames is checked up to the first stray, because after
it the code breaks it (two runs show how). Two constants only narrow
the behaviours for a shorter counterexample:

- `Expiry`: the watchdog may expire at any time, not before `device_run` has started
  the core, or only on a hung core;
- `LateDone`: the core may raise `enc_done` after the last slice, which the
  comment in `rkvenc_irq()` treats as possible.

### RkvencH264

A format is a number s that stands for a picture of 2s x 2s, and so is a buffer;
`Params` are the controls that both
the PPS and the slice headers depend on. `fmt`, `bufs` and `queued` are, for each
of the two queues, `ctx->coded_fmt`/`ctx->src_fmt`, `vb2_is_busy()` and the buffer
user space has queued; `SFmt`, `ReqBufs` and `QBuf` are the checks of the driver's
`s_fmt`, `queue_setup` and `buf_prepare`. The core reads as many rows and columns of
the source as the coded format has, at the strides of the source format; where that
ends is `LumaEnd` and `ChromaEnd`, and `SourceBytes` is the size the driver asks for.
A reconstruction buffer holds "last" (the
decoder's reference), "old" or "junk". `Start` is `rkvenc_h264_start()`: it makes two
buffers and the motion-estimation one, each of which may fail, with the unwinding of
its own label (`AllocOrder`, `Got`, `Unwind`); `ptr` is which pointers the context
holds, `alloc` what is allocated and with which length, `misfreed` whether anything was
freed that was not there. `Run` is the choice of slice header and buffers for a frame,
`DoneGood`/`DoneError` the two halves of `rkvenc_h264_done()`. User space may set
controls, formats and the streaming state whenever V4L2 lets it. Counter widths
are constants (`FrameNumMod` and so on), since the properties must survive
wrap-around and TLC needs a small one to reach it.

### Nal, NalWriter, FrameSetup, ParamSets

`Nal` translates `rkvenc_write_nal()` and gives a decoder's view of a unit.
`NalWriter` feeds it one byte per step, so TLC enumerates every RBSP. `ParamSets`
starts from the size user space asks for, which `SFmtCap` clamps and aligns,
translates the bit writer and both parameter sets syntax element by syntax
element, writes them behind each other into 64 bytes, and reads them back with a
parser written from the H.264 syntax tables. `Program` then writes the registers
of a frame that need arithmetic: the core's watchdog threshold and the
rate-control target and thresholds of `FrameSetup`.

### RocketJob

`rpc`, `hpc`, `tpc`, `wpc` are the positions of `rocket_job_run()`, the hard
handler, the threaded handler and the timeout worker. `lock` is the holder of
`job_lock` where it is held over two steps; a step that takes and releases it at
once only waits for it. OPERATION_ENABLE is `hwJob`, the job whose task executes.
`ResetMask` asks `pm_runtime_get_if_active()` before it touches a register;
`ResetSync` is `synchronize_irq()`. `Touch` records an access with the domain
down. `FaultRaised` asserts the shared line for the IOMMU: `HardRead` then runs
although the NPU raised nothing, and decides on the raw status alone, as the
code does.

### Capture, Replay, Npu

A buffer is its device address and its cells; a cell is a command word (register
and value), an entry of the task array, or a byte of data. `Npu!Execute` fetches a
task's words at the address it is given and computes one cell of output from what
the address registers point at: external, and only as much as tells a right
relocation from a wrong one. `Capture` is `capture.c` under a runtime that creates
buffers from the top of the address space down (so the task array is where the
padding constant 0xffffff80 points, as in the repository's captures). `Replay` is
the three programs, chosen in the initial state, from `meta.txt` to the report;
`cpu` and `mem` of a buffer are what the CPU has written and what the device sees,
made equal by the flushes. `Candidates` is the condition under which a word is
relocated, `Poll` the loop around PREP_BO, `MesaPatch` the relocation by register
with three of the environment's knobs.

### EncoderTest, VendorTest, Runners

`EncoderTest` follows `main()` call by call: `at` is the place, `CallFails` the
`CHECK()` of every ioctl; `JobStarts`, `SourceReturns` and `CodedReturns` are the
driver, which returns both buffers in either order, with a frame, an error with or
without part of a frame, or nothing. Every `fwrite()`, and the `fclose()` that writes
what it still buffered, may fail; the program looks at neither (`torn`). `VendorTest` computes the six buffers, the
register words that point into them and the message batch, and resolves the words
as the kernel does. `Runners` is the three programs over a runtime in which every
inference may compute or leave the output as it was, and every output may be refused.

### VectorDownward, TwoStacks, BufferOwners

`VectorDownward` has the bytes of the block and the members as the header keeps
them; a reallocation copies both ends as `reallocate_downward()` does. `BufferOwners`
leaves the bytes out and has vectors, detached buffers, allocators and their
blocks: constructors, moves, assignments, swaps, `release()`, `release_raw()`,
`reset()`, destructors, and the adoption of a builder's block by gRPC's
`MessageBuilder`.

### FlatReader, FlatVerifier, FlatBuilder; FlexReader, FlexVerifier, FlexBuilder

The readers are operators on the bytes of a buffer, the verifiers thread their
counters through the same traversal. `Verifiers` is `T::Verify()` by the number of
nested tables it may still enter: a table is verified by the level above the one its
subtables are verified by, and `VerifyTableStart` refuses the table for which none
is left, which is the depth check of `VerifyComplexity`. The builders are machines whose actions
are the public calls. `FlatBuilder` keeps beside the builder's own state (`fb`) the
list `made` of what the program has stored, with which `ReadsBack` compares what
the accessors return; offsets, padding, `PreAlign`, the virtual-table search with
its pop (`Twins`, `Dedup`), shared strings, sorted vectors and the 64-bit region are
those of the header. `FlexBuilder` does the same with `want`; `ElemWidth` is the
computation of a vector's element width with the padding it depends on. Integers
are written byte by byte in their width; floating-point numbers are counted in
halves, and single precision loses those in `Fine`.

## 3. Runs

| Run | Instance | Shows |
|---|---|---|
| `rkvenc_job` | 2 contexts, 3 frames, no timing assumption, fair. 644,516 states | whatever strays: one owner per job, balanced references, powered recovery. Until the first stray: the actors implement `FrameLife`; a soft reset only hits a stopped core; the core only works on the running context's oldest frame and on live buffers; the encoder never stays busy for ever unless `remove()` took the watchdog |
| `rkvenc_reset_good` | 2 frames, the watchdog only after the kick, no late `enc_done` | **violation**: the error interrupt of a job that the watchdog finished is counted for the next job, and the soft reset stops the core on that good frame |
| `rkvenc_stale_done` | 2 frames, the watchdog only on a hung core, no late `enc_done` | **violation**: an `enc_done` raised between the two reads of INT_STA is never acknowledged and completes the next frame unencoded |
| `h264` | three machines: a session (`frame_num` modulo 4, POC modulo 8, IDR ids modulo 2, GOP sizes 1 and 3, 3 formats on 2 queues); parameter sets (requested widths 1, 177, 190, 1080, 5000 and heights 144, 157, 1088, 3000; 3 levels, all 52 QPs, both profiles and entropy modes; 3 bitrates, 2 clocks); NAL writer (RBSPs up to 7 bytes of 0, 1, 3, 4; 6 buffer sizes). 1,451,156 states | references, frame numbers, IDR ids and GOP length over failures, restarts and format changes; reconstruction buffers balance whichever of the three allocations fails; the core never writes past the destination, and reads past a source of the driver's size exactly when the coded picture is at least twice as wide and high. The parser gets the negotiated format and the controls back; nothing is truncated; the core's watchdog expires before the driver's and no earlier than its table says. No start code inside a unit, decoding returns the data or a prefix |
| `h264_wrap` | real widths, GOP 30 | **violation**: the P frame on which `frame_num` is 0 reads the buffer it writes |
| `h264_format` | two formats | **violation**: S_FMT after STREAMON leaves reconstruction buffers too small |
| `h264_idr` | GOP 1 | **violation**: later IDR frames have `frame_num` other than 0 |
| `rate_control` | the parameter sets, one level and QP | **violation**: with BITRATE 64000 and more than 34128 macroblocks (4096x2560) RC_TGT and the first four thresholds are all 0 |
| `rocket_job` | jobs of 2 and 1 tasks, IOMMU faults, fair | references, domain and ended jobs always; completions, register access, quiet reset until the first fault; resets and jobs end |
| `rocket_stop` | the same | **violation**: after an IOMMU fault the thread can stop a task that has just started |
| `flatbuffers` | twelve machines, see below. 388,413 states | `vector_downward` is two stacks; blocks have one holder and go back to their maker; what the builders write the accessors find, aligned and shared, but for exactly the vectors of structs whose length `StartVector()` misaligns; verifiers accept it; a damaged buffer that is accepted is safe |
| `clients` | replay of plans of 1 and 2 tasks through 3 drivers, 3 frames of `vepu-test`, 5 sizes of the vendor test, 4 inferences. 14,529 states | a replay computes what was captured, and shows nothing it did not compute; an exit code 0 means every frame was handed to `fwrite()`, and a complete file only if no write failed; the pointers lead apart exactly within an offset's 22 bits; a verdict means what `VerdictsHold` says, which is less than what is printed |

**What the violations say.** Each checks a sentence of the code's comments or of
the cover letter; `PROJECT.json` quotes it. Two more are stated in the modules
and have no run of their own. With faults, `QuietAfterSync` fails without its
condition: the reset masks the block
but does not stop it, so it can latch a completion after the clear, which the
next fault on the line turns into a wake-up after `synchronize_irq()`. And
`RkvencH264!SliceMatchesHeaders` is false after any control change in mid-stream:
slices follow the controls, the SPS/PPS do not, although the code calls them "a
per-stream, not per-frame, concept".
`SoftResetSparesGoodFrames`, `CoreOnLiveBuffers`, `FramesLive` and `EncoderNotStuck`
speak of the time until the first stray, several `RocketJob` properties of the time
until the first IOMMU fault (`~faulted`): the code relies on neither happening and
prevents neither. After a stray even `EncoderNotStuck` fails: the thread cancels the
watchdog of the job it was woken too early for, then judges by a context it read
before, and nobody is left to finish the frame.

**Observations without a run.** Met while modelling, and outside what a property
states, because no line of the repository promises otherwise:

- `replay_rocket.c:67` says that configuration words "never land" in a captured
  buffer. The padding constant 0xffffff80 does: it lies in the task array, and
  stays a constant only because that buffer is the one the program does not create
  (`ReplaysTheSame`'s mutant drops exactly this).
- `capture.c` does not see MEM_DESTROY. `replay_rocket.c` allocates the task array
  with `malloc()` and reads it even when its file is missing; it takes the third
  buffer for the intermediate pool, and the last 0x4018 for the output.
- `vepu-test.c` checks neither `fwrite()` (`:174`) nor `fclose()` (`:182`): on a full
  disk it says that all is well and returns 0 with frames missing from the file.
  `SuccessIsEveryFrame` therefore says of the file only that it is complete exactly
  when no write failed. Nothing in `rkvenc` compares the two formats of a session: a
  coded picture twice as wide and high as the source makes the core read past the
  end of the source buffer (`QueueBuffersFit`).
- `vepu-vendor-test.c` does not check the sizes it is given: from a luma plane of
  4 MiB on (2048x2048) the chroma offset no longer fits beside the descriptor, wraps,
  and chroma is read from the luma plane; at 16384x16384 the offset of
  the reconstruction's body wraps as well, and the body lies over its header. It does not compare `bs_lgth`
  with its 128 KiB buffer either.
- `runner_multi.c` compares each output with that of the first run only, so it prints
  "RECOMPUTES on every warm submit" (`:163-165`) when one later run computed and the
  others left its output in place. `VerdictsHold` says what the verdict does mean. The
  comment "A different input every run" (`:99`) holds for 251 runs: run 251 has the
  input of run 0 again. `runner_out.c:81` returns without releasing.
- FlatBuffers: `CreateVectorOfStructs()` and `StartVectorOfStructs()`
  (`flatbuffer_builder.h:901` and `:1372`) give `StartVector()` count * size /
  alignment elements of the full size, so the padding is computed for too many
  bytes. For a struct of alignment 1 whose size modulo 4 is 2 or 3, and an odd number
  of them, the length is then padded away from the elements
  and a reader finds them shifted. `ReadsBack` says so: a vector of structs is read
  back exactly when `StructsFit`, and the bench `triples` (structs of 3 bytes) reaches
  both cases. `max_size_` is compared before the new bytes are added; a
  moved-from vector keeps its allocator; after `Swap()` the shared-string pool
  compares through the other builder's buffer, and `Release()` does not clear it.
  In FlexBuffers a failed check returns with the verifier's depth incremented,
  `Clear()` keeps `has_duplicate_keys_`, and `VerifyKey()` stops at the first byte
  that is not zero, where a key ends at the first that is.

**Bounds and why they are enough.** Encoder: the races are between one job and its
successor, so two frames of two contexts show them, and the third adds a second
turn of the first context. The third is not submitted after a stray (`StrayBound`):
what is checked after a stray concerns one job and its successor. The core raises any subset of three kinds of signal
at any time. H.264: the code uses the parity of `frame_num` and its comparison
with 0, and increments it modulo an even number; modulo 4 has every case
including two wraps of a GOP; a queue with one buffer at a time is enough because
a frame takes one of each. Formats are 2, 3 and 4, the source's 2 or 4, and a buffer
is at most one larger than its format (`SessionBound`): against the source 2 the coded
picture is equal, larger but still inside the buffer, and twice as large. The theorems
depend neither on the widths nor on the formats. NAL: the
escaping tells apart 0, the values up to 3 and larger ones; seven bytes hold two
escapes with data between and after; the buffer sizes are too small for the
start code, exact, and large. Parameter sets: requests
below and above the limits, odd, on, before and after a macroblock boundary; every
row of the watchdog table that a format can reach. NPU: a job of two tasks
starts its second from the interrupt thread, and the next job is the one that a
late interrupt of the first can hurt; each worker may time out any number of
times.

FlatBuffers: `vector` starts with 2 bytes, takes pieces of up to 2 and stops at a
`max_size_` of 3, so reallocations meet both ends in every filling; `owners` has two vectors,
two detached buffers, two blocks and two allocators, which is one more than any
single call handles. `fields`, `vectors`, `trees` and `wide` give the builder a
schema each (scalars, string and struct; every kind of vector; tables in tables
and shared virtual tables; a 64-bit region with defaults forced), `triples` stores
vectors of one and two structs of 3 bytes with alignment 1, `damaged` changes
one byte of a finished buffer to 0, 2 or 255. `scalars`, `maps`, `nested` and `long`
do it for FlexBuffers: every width, maps of three keys with duplicates, nesting
with shared keys, and texts of 250 bytes, beyond which an offset needs two bytes.
The depth and count limits of the verifiers (2 and 3) are small enough to be hit.
Clients: a captured plan has one or two tasks because the second may read what
the first wrote and the last one decides the output; the shim's table, MAXBO and
the number of tasks are smaller than in the code but the plans stay below them.
Buffers are placed in three ways: upwards over the captured range in the sizes of
the vendor's runtime and of Mesa's, and downwards below it.
The encoder test runs three frames (its theorem has any number); the five
sizes of the vendor test are the smallest, an unaligned one, one whose chroma
offset just fits its 22 bits, one for which it does not (2048x2048), and one for which
that of the reconstruction's body does not either (16384x16384).

**Deadlock.** `rkvenc_*` and `h264*` check it; on the `h264` bench the two machines
that only read an input rest when it is read. `RocketJob` ends when every job has
ended and the core sleeps, the clients when the program exits, the builders at
their bounds: these runs do not check deadlock.

**Fairness.** `RkvencJob!FairSpec`: each kernel actor that can run does
(`device_run`, the hard handler, the thread, the watchdog work, whose timer
expires); the core owes nothing and user space owes nothing. `HwLateDone` only
says that an undecided late signal is decided. `RocketJob!FairSpec`: the same for
the scheduler's workers, the interrupt and its thread, the job timer; a task may
hang for ever and a fault need never be served. No strong fairness is used: the
kernel's threads are scheduled, and the waits (`synchronize_irq`, `job_lock`)
are on actors that are themselves fair and stay done.

## 4. Proofs

`RkvencJobProofs`, for any set of contexts, any number of frames and **no** timing
assumption: `Invariance` (`Spec => []Inv`, `Inv` being `TypeOK` and `JobInv`),
and from it `TypeCorrect`, `SingleOwner`, `PowerAccounting` and `RecoveryClocked`.
`OneOwner` and `PowerBalanced` are not inductive alone: that an owner's last step
is the one that hands the frame back needs `cur_ctx` to be set exactly from the
claim to the detach; that `device_run` does not meet an owner needs the mem2mem
core's `running` to be held until then; that the hard handler does not wake a
thread that owns a job needs IRQF_ONESHOT. These are the three last conjuncts of
`JobInv`. The proof has one lemma per action or small group of actions.

`RkvencH264Proofs`, for any even `frame_num` modulus, POC and IDR-id moduli of at
least 2, any GOP sizes, formats and controls: `StreamInvariance`, and from it
`StreamTypes`, `ReferenceTheorem`, `InStepTheorem`, `GopTheorem`,
`BuffersTheorem`. `ReadsReference` speaks of the frame at work and is
strengthened to what holds between frames: after a delivered frame the buffer of
the opposite parity of `frame_num` holds the last reconstruction, `frame_num` is
the delivered number plus one, `gop_pos` is 0 or a frame has been delivered,
`idr_pic_id` differs from that of the last IDR at the start of a GOP. `WrapParity`
is why the modulus must be even. `BuffersBalanced` needs no strengthening, but a look at
each of the four outcomes of a start: `GotParts` and `UnwindParts` say which parts
exist when an allocation fails and that its label frees exactly these.
`QueueBuffersTheorem` is apart from the rest: `QueuesInv`
says that a queued buffer fits the format of its own queue, which its being there
protects, and that a running frame was programmed from both formats and keeps
both buffers; it needs only `TypeOK`. What is left is arithmetic: a picture less than
twice the size of the source ends inside the source's buffer (`SmallerFits`), one of
twice the size or more never does (`TwiceOverruns`).

`RocketJobProofs`, for any number of jobs and any task counts: `RocketInvariance`,
and from it every safety property the run `rocket_job` checks. `RocketInv` says
per piece of state who may be where: `LockInv`, `InFlightInv`, `WorkerInv`,
`DomainInv` and `CoreInv` tie `in_flight_job`, the lock, the domain and the core
to the positions of the four actors and hold in every state. `PmBalanced` needs
them because the reset and the thread both retire the job in flight, and only
one of them finds it. `CompletionInv` and `RanInv` hold until the first IOMMU
fault: an armed mask, a completion on its way to the thread and a started thread
exclude each other, each belongs to a started task of the job in flight, and the
reset leaves none of them behind `synchronize_irq()`. With a fault the shared line
lets the hard handler run early, and this is what breaks (`rocket_stop`). There is
one lemma per action, with one step per conjunct the action can disturb.

The first half of `BufferProofs`, for any initial size, alignment, maximal size and
length of the pieces: `VectorConsistent`, the members fit together after any sequence of
calls, and `VectorActsAsTwoStacks`, every step of `VectorDownward` is a step of
`TwoStacks` or a stutter. The refinement mapping reads the two stacks out of the
block; the work is in the reallocation, which moves one end up and leaves the
other, and needs that the scratch pad never meets the buffer.

Its second half, for any number of vectors, detached buffers, blocks and
allocators: `OneHolderTheorem` and `MakerTheorem`. "One holder" counts, and what
keeps it is said of objects and pairs of objects: what an object holds comes from
its own allocator (`ObjectOK`), no two objects share a block, and no live object
uses an allocator that another one owns (`PairOK`); without the last, a destructor
could delete the allocator a block has to go back to. Move assignment, move
construction, `release()` and `DetachedBuffer`'s assignment are one lemma
(`TakeOver`): the target's contents die, it takes what the other had, and the other
is left with no block.

The second half of `RkvencJobProofs`, for the same constants and again without a
timing assumption, is about every behaviour up to its first stray: `FrameInvariance`
(`Inv /\ (~strayed => FrameInv)`), and from it
`ResetSparesGoodFrames`, `CoreBuffersLive`, `GoodFramesEncoded`
(`~strayed => DoneMeansEncoded`), and `FramesRefinement`, which maps every step to a
step of `FrameLife`, a stutter or the stray. So these theorems say of the code itself
that nothing goes wrong with a frame before one of two events in an execution, a claim
with an earlier interrupt outstanding or a watchdog that expires before the start; the
two violation runs show that it may go wrong after each of them. `FrameInv` adds to
`Inv` four things about the frame under way. `QueueInv`: the frame at work is the oldest queued one of the
running context, and everyone who owns a job has that context. `StartInv`: between
the claim and the kick nothing of an earlier frame is left, neither a status nor a
raised line nor an owner. `SignalInv`: what the core's status, the hard handler's
copy or the thread's says ("done" or "error") is true of that frame. `JudgeInv`: an
owner that will return a good result holds a frame the core has written out, and
the watchdog returns none. `FrameInv` was
checked with TLC before it was proved. The refinement needs the queue order: the
next frame to claim is the least one waiting, a least element that
`WellFoundedInduction` gives.

`HeaderProofs`: for an RBSP of any length over any bytes and every buffer size,
`NoStartCodeTheorem`, `NoOverrun` and `DecodesBackTheorem`; for the parameter sets,
any set of requests and controls, `HeadersFitTheorem` and `WatchdogTheorem`. "No
start code" is not inductive alone: `Counted` says that `zero_run` is exactly the
zeros the payload ends with, up to two, and an escape byte ends the run. The
equivalence is what decoding back needs: the reader drops a 3 exactly where the
writer put one (`UnescapeOne`), so what the reader has read is what the writer has
been given as long as there was room (`ReadBack`). `Written` and `Decoded` are
recursive functions; that they meet their equations is shown at a least
counterexample instead of by induction. For `HeadersFit` the elements of each
parameter set are bounded one by one; with every byte escaped the SPS takes at most
45 bytes and the PPS 15 more, of 64. `WatchdogTheorem` (`HardwareWatchdogFirst`)
assumes that the core runs at 256 kHz or more: below that one unit of the
register, 256 cycles, is longer than a millisecond, and rounding down to units
may cost more than the property allows. No clock of the platform is near it.

`DescribesTheorem` (`DescribesStream`), for any set of requests and controls, goes
the way of the bits. `UnitsInv` is what `sps_pps_nal` holds after each step: nothing,
the unit of the SPS, the units of both, each being a start code, a header and an
escaped RBSP that was not cut short. From the units back to the bits: a start code
can only be where a unit begins (`NoThreeZeros`, `SecondStart`), dropping the escapes gives the
RBSP, and its bytes taken apart are the bits that were packed, with
`rbsp_trailing_bits` behind them. Then one syntax element after the other:
`ReaderAt` is a reader at a place with the values it has, `Ahead` says which bits it
has before it, and for each kind of element (`u(n)`, `ue(v)`, `se(v)`) a lemma moves it over
one code and appends the value that was written; for `ue(v)` that is that the zeros in
front are as many as `rkvenc_ue` writes. The cropping is present or absent as the
reader's fourteenth value says, and 16 times the macroblocks less the cropping is
the coded size because S_FMT rounds it to even numbers.

`ClientProofs`, about the three test programs:

- `EveryFrame` (`SuccessIsEveryFrame`), for any number of frames and of calls, with
  writes that may fail. `HandedInv` says that while no
  frame was wrong the frames up to the one under way have been handed to `fwrite()`;
  `FileInv` that the file has them too unless a write failed, and that a failed one
  leaves a frame that is not whole (`ReachesKeeps`); `BufferInv` that
  the coded buffer, when it is back and not wrong, shows the frame the program
  drew, which needs it to be the program's own at every other place.
- `FrameTheorem` (`HardwareGetsTheFrame`), for any picture sizes of up to 65535 (`Largest`),
  up to which none of the program's 32-bit products wraps. `VendorInv` says that
  the six descriptors are 4 to 9, in the order of
  the allocations (3 is the heap's while each is made), and what has been built
  from them: the words, the messages and what the kernel was given. The rest is
  what each word resolves to (`Taken`), with the offset modulo 2^22, and that no buffer is
  shorter than its use, which is arithmetic over the alignments. Nothing is assumed of
  the offsets: the planes are apart if and only if the offset of the second is below
  2^22 (`Wraps`), which the program does not check.
- `VerdictsTheorem` (`VerdictsHold`), for any number of runs. `CountInv` says how far
  each count is at each place; `OutputInv` that the output is another than the first
  run's exactly when the last later run to compute had another input (`Replaced`);
  `TallyInv` that the tally of differing outputs is full exactly when every later run
  counts as a difference, and 0 exactly when none does; `BelowInv` is the verdict of
  `runner_out`. `RampsDiffer` is why run 251 does not count: its input,
  `(i + run * 37) % 251`, is that of run 0 again. With one run `VerdictsHold` claims no
  verdict on several, since the program prints none.

`ReplayProofs` is about any captured plan of one or two tasks, with any choice of the
tasks' sources and destinations, and any device addresses.

`OutputTheorem` (`ShowsOwnOutput`), whatever file of the capture is missing. The program does not know which buffer is
the output: it looks for the captured range that holds the last destination word it
relocated, and falls back to the last buffer. So the invariant has to follow the
capture into the program. `CaptureInv`: the captured buffers lie one below the
other, the destination words of the two lists lie in the pool or the output, the
dump is of blank pool and output, and the task array, if it was dumped, points at
the lists. `ProgramInv`: a list that `replay_rocket` has not patched yet still holds
captured addresses, so that `which_bo()` of its destination is the pool or the
output (`PatchInv`); a task array that could not be read leaves zeros, for which
`which_bo()` finds nothing and the program ends, or a list of one word, which is no
destination; the buffer that `out` names is blank, for the CPU and for the device,
until a task has run (`ShowInv`). `replay.c` shows nothing before the vendor's driver
has returned from running the tasks, and `replay_mesa.c` never loads its output.

`SameTheorem` (`ReplaysTheSame`) compares two executions over different layouts: what
the captured process has in its buffers after its submission, and what a program has
in its own, at other addresses, after its tasks. Both are shown to equal a third
thing, a function of the plan alone (`Results`, and `MesaOut` for Mesa's one task):

- `Ready(bos, M, n)` says of any buffers that they hold n lists whose address words
  point into these same buffers, the weights and biases, and data M, and that no two
  buffers lie over each other, so that an address has one holder. `RunOne` shows that
  a task leaves such buffers ready, with M advanced by the task's step; it is applied
  to the captured buffers (`SubmitSame`) and to the program's (`DriverRuns` for
  `replay.c`, `TaskRuns` for `replay_rocket.c`, which runs one task at a time).
- `VendorSame` follows the captured process: lists that point into its buffers, files
  with the same lists, and `Results` in its buffers once it has submitted.
- `PatchSame` is what the program has after t turns of its loop: the first t lists
  point into its own buffers (`OwnAt`), the others still at the captured ones, and its
  tasks, and for `replay.c` its task array, name its own lists. The step that keeps it
  is `RemapIs`: a word that holds an address finds the one captured range around it
  and moves with it, and every other word stays. The padding constant lies in the
  captured range of the task array. `replay_rocket.c`, which relocates whatever looks
  like an address, does not create a buffer for the task array, so this range is
  none of its candidates; `replay.c` creates one, but only looks at the address
  registers. The proof needs both conditions, and no other constant of a list to lie
  in a captured range (`Top > 33`).
- `RunSame`: from the flush on, the device has `Ready` buffers, with the results of
  the tasks that have run.
- For Mesa, `MesaList` is the list for given addresses, and `Upto` says that words
  that were moved to the front leave in each register what the list does, each of them
  being written once. So MESA_STRIPOPEN and MESA_STRIPPAD do not change the output.
  MESA_CBUF does, and is excluded in the property.

`FlatBuilderProofs` is about any schema that flatc could compile (`SchemaOK`) and any
program that stores bytes and integers (`ProgramOK`), both of which the run evaluates
for its five builders, any depth and table limits and any bytes.
`VerifierIsSound`: if `VerifyBufferFromStart` accepts a memory, then it is `Safe`,
which `FlatVerifier` defines without the verifier, by what the accessors read:
from the root, every virtual-table entry that a field of the schema looks up,
every field, vector, string and its terminator, down to the last leaf. The argument
is by levels (`LevelsSound`, a least counterexample over the levels left): `Sound`
says of a verifier of subtables that what it accepts with counters at a depth is safe, and that
it gives the counters back at that depth. The second half is why the verifier may
carry one counter through siblings: `EndTable` takes back what `VerifyComplexity`
added, so a later sibling is not refused, nor allowed deeper than its level.
`FieldSafe` is one field: alignment and bounds of the field, then of what it refers
to. `StaysOk` and `StaysGood` carry this through the loops over fields and over
the elements of a vector of tables: `ok` once off stays off, so when it is on at the
end it was on at every step. The model's numbers are exact up to `Huge`, 65536; so
the theorem speaks of buffers of up to that many bytes and treats every larger value
as one that lies outside.

The other half of the module is the builder. `OnlyBytesTheorem` (`OnlyBytes`, which
the run checks as a conjunct of `FinishedInPlace`): whatever is stored, the buffer is a
sequence of bytes. It is not inductive alone, because the builder reads its scratch
pad back: offsets of older virtual tables, which it hands to `ReadAt` and writes into the
new table, lie under what the open table knows of its fields, and during
`CreateVectorOfStrings` offsets of strings lie there too. `InMemory` says which is
which: the last `num_field_loc` entries are fields and those below offsets
(`ScratchOK`), and every object the program knows has an offset of a kind that a
field can refer to (`MadeOK`). Each step of the builder that only writes keeps all of this
(`Wrote`), so an operation is the chain of its steps; loops go to a least
counterexample (`UpTo`). A pop never reaches below what the operation found:
`EndTable()` drops exactly the virtual table it pushed. `AcceptedTheorem` puts the two
halves together for what TLC checks in the run (`AcceptedIsSafe`): a finished
buffer, cut anywhere or with any of its bytes replaced by one of `Damage`.

The assumptions are `ConstantsOK`, `StreamConstantsOK`, `RocketConstantsOK`,
`VecConstants`, `OwnersConstants`, `SchemaConstants`, `ProgramConstants`, `NalConstantsOK`, `ParamConstantsOK`,
`VendorConstantsOK`, `RunnersConstantsOK` and `ReplayConstantsOK` (the runtime's buffers
lie above the small constants of the lists, the tables have room for them), which TLC evaluates in the runs;
`EveryFrame` takes the number of frames to be a natural number. What a theorem
assumes beyond them is named above and stands in its statement.

Only model-checked: liveness (`JobsEnd`, `ResetEnds`, `EncoderNotStuck`; temporal
logic under fairness is not within the prover's reach), and what the builders of
FlatBuffers and FlexBuffers write (`BuildersReadBack`, `BuildersInPlace`,
`BuildersShare`, `VerifiersAccept`, `FlexReadsBack`): that every reader finds at every
later moment what each writer computed, through recursive readers and verifiers. The
bytes of the FlatBuffers builder are proved to be bytes, not to be the right ones.

## 5. Not modelled

In modelled parts: register programming other than what decides the slice header,
the buffers, the formats, the watchdog and the rate control; `probe()` and the rest
of `remove()`, straight-line code run once; the sizes of reconstruction regions in
bytes; system suspend and the submit ioctl of the NPU driver; more than
one NPU core (cores share no state in `rocket_job.c`); the contents of the vendor
encoder's register classes; unions, nested buffers and the object API of
FlatBuffers; floating-point formats and the printing of FlexBuffers.

Whole parts: the alternative completion paths of earlier series, which v15 does
not use (attach-once, completion in the hard handler); the unbinding of a core
(`src/rocket-teardown`), which races with the driver core more than with this code;
the power-domain sequence, whose hazard is a delay in hardware time; the IOMMU
patches, a few lines of a driver whose source is not in the repository; the kernel
installer, a shell script whose crash behaviour is that of a FAT file system. The
FlatBuffers parser, reflection and code generator are declarations here: their
implementation is not in the repository. `rknn_api.h` and the TensorFlow Lite headers
declare external libraries. Everything else the inventory calls "not modelled" is
data, another project's compiler, or scripts that a person runs step by step.

## 6. What a next step would be

1. `RocketTeardown`: `rocket_core_fini()` and `rocket_job_fini()` against the
   timeout worker of `RocketJob`, and the count of IOMMU group references that
   `rocket_job_next_locked()` takes.
2. `RocketAttachOnce`: the cached domain and its reference across jobs, shown to
   implement "the right domain is attached while a task runs".
3. The idle request of v15-0004 in `RocketJob`, so that "the core can suspend after
   a reset" becomes a property.
4. Unions and nested buffers in `FlatBuilder` and `FlatVerifier`.
