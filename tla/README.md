# Pure Data Packet: a TLA+ development

Pure Data Packet (PDP) is a library of objects for Pure Data (Pd) that pass
video frames, bitmaps and matrices between objects.  Pd runs everything in one
thread; PDP adds a processing thread, so that image processing does not disturb
audio, a pool of reference counted packets that both threads use, and a few
objects with threads of their own (network, raw streams, video capture).

The code is C with pthreads.  What a test hardly reaches in it are the
interleavings of those threads, the life of a packet across objects, and a
network protocol with timeouts.  These are what the modules here describe.

## 1. Inventory

| component | state | operations | interacts with | hard behaviours |
|---|---|---|---|---|
| processing queue (`puredata/pdp_queue.c`) | ring of tasks, counters head/curr/tail, use_thread, mutex, two conditions, clock | add, wait, finish, flush, callback on tick, use_thread, thread loop | base class, dpd, pdp_qt, pdp_ca | unlocked counters, lost wakeups, stale ids, free while queued, full ring, int wrap |
| packet pool (`system/kernel/pdp_packet.c`) | array of packets with users, reuse fifo per description, one mutex | factory, new, create, reuse, copy_ro, clone_rw, copy_rw, replace_with_writable, mark_unused, delete | everything | counts across threads, fifos as hints, retyping, out of memory in the middle |
| packet types (`system/type`) | class structs | constructors, factory, copy, cleanup, sleep methods | pool | inexact descriptions |
| type matching, conversion (`system/kernel/pdp_type.c`) | conversion list, LRU cache, two mutexes | match, find, run, add to cache, evict | pool, pdp_comm | a program evicted while another thread runs it, conversion paths |
| base class (`puredata/pdp_base.c`, `pdp_imagebase.c`) | active and waiting packets per inlet, queue id, thread flag | hot and cold input, bang, process, postprocess, thread, free | queue, pool, pdp_comm | input while busy, feedback, skipped tasks, delete with work pending |
| packet passing (`puredata/pdp_comm.c`) | none | register_ro, register_rw, process phases; pass/replace/copy/convert or drop | base class, pool | order of release and register, ownership |
| dpd base (`puredata/pdp_dpd_base.c`, `pdp_dpd_command.c`, `opengl/system/pdp_3dp_base.c`) | context packet, command list | queue_command, inject, process | queue | commands without id, freed contexts, unlocked used flag |
| network transport (`system/net/pdp_net.c`) | sender and receiver structs, chunk lists, connection id | send, receive; NEW, ACKNEW, DATA, DONE, RESEND | pdp_netsend, pdp_netreceive | loss, duplication, reordering, timeouts, restarts |
| pdp_netsend (`modules/generic/pdp_udp_send.c`) | ring of packets, two indices, mutex, two conditions | input, connect, free, thread loop | transport, pool | unlocked ring, wakeups, waiting for the thread |
| pdp_netreceive (`modules/generic/pdp_udp_receive.c`) | two slots, index, clock | receive loop, clock tick, free | transport, pool, pdp_comm | slots used by two threads without a lock |
| frame storage (`pdp_loop.c`, `pdp_del.c`, `pdp_reg.c`, `pdp_snap.c`) | arrays of packets, heads | record, play, resize, delay, reset | pool, pdp_comm | references across resize, re-entrant messages |
| raw streams (`pdp_rawin.c`, `pdp_rawout.c`) | list of packets, thread, pipe | connect, disconnect, tick, perform | pool, lists | short reads, close in the middle, unlocked length |
| routing (`pdp_route.c`, `pdp_trigger.c`, `pdp_metro.c`, `pdp_inspect.c`, `pdp_description.c`) | outlet, counters | pass on the messages of a packet, bang | pdp_comm, dpd | a message between two of the messages of one packet |
| lists, allocator, symbols (`pdp_list.c`, `pdp_mem.c`, `pdp_symbol.c`) | linked lists, free list, hash table | push, pop, add, queue operations; alloc and save; gensym | everything | first/last/count consistency, sharing between threads |
| control (`puredata/pdp_control.c`) | list of instances, drop count | thread, memlimit, drop broadcast | queue, pdp_comm | switching the thread from inside a callback |
| video capture (`pdp_v4l.c`, `zl/v4l.c`) | device, mapped buffers, indices, semaphore, thread | open, close, set, bang, thread loop | driver, pool | close against thread exit, timeouts, buffers announced twice |
| displays (`pdp_xv.c`, `pdp_glx.c`, `pdp_sdl.c`, `zl/xwindow.c`, `xv.c`, `glx.c`) | connection, window, image or texture, events | create, show, poll, window messages, destroy | X11, XVideo, GLX, SDL, the patch | creation that fails halfway, events that make the patch close the window |
| image objects (`pdp_imagebase.c`, `modules/image_basic`, `modules/image_special`) | parameters, state packets, tables | messages, process in the thread, scanning by signal or float | base class, image processing | parameters changed under the thread, formats that change, edges of images |
| image processing (`system/image`) | coefficients | pixel arithmetic, planes, resampling, colour conversion, in portable C and in gcc vectors | image objects, types, devices | saturation, rounding, overflow, plane offsets |
| matrix objects, png, OpenGL, cellular automata (`scaf`) | handles | numeric library calls, file and GL calls | base class | numerical or I/O |

How they interact: an object sends a packet with `register_ro`, `register_rw`
and `process` messages (pdp_comm), a receiver takes a reference or a copy from
the pool, its `process` message bangs it, the base class adds a task to the
queue, the thread runs the process method, and a Pd clock runs the callback that
sends the result on.  Network objects do the same with their own threads.

What makes each of them correct:

* queue: tasks are processed and called back once, in order, one at a time; an
  id names its own task; a freed object is never touched; nobody sleeps while
  there is work;
* pool: users is the number of references; what the pool hands out is
  unshared and of the right type; no packet is lost; copy-on-write behaves as
  if every variable had its own data;
* base class and passing: the thread owns the packets of its task; a written
  packet has no other reader; every packet that enters leaves; a message ends;
* lists and types: a list is a sequence that owns its sublists, a cell has one
  owner; a conversion ends with what was asked for or with nothing kept; caches
  and symbols shared by threads stay whole;
* objects with threads: packets keep one owner through every close, error and
  timeout; closing returns;
* objects of the patch: they stay correct when the patch answers from inside
  their outlet call;
* image routines: both builds compute what the operation means, in its planes;
* transport: what is delivered is whole; what is confirmed was delivered; a
  send ends; its client rings keep order and lose no wakeup.

## 2. Modules

| module | models | uses |
|---|---|---|
| `TaskQueue` | what the queue promises: a bounded FIFO of tasks to process, a FIFO of callbacks, cancelling | |
| `ProcQueue` | `pdp_queue.c` step by step with its clients `pdp_base`, `pdp_qt`, dpd | implements `TaskQueue` |
| `PacketValues` | what packets promise: variables that each hold a value | |
| `PacketPool` | `pdp_packet.c` with the constructors of the types | implements `PacketValues` |
| `PdpBase` | `pdp_base.c` and `pdp_comm.c` in a patch, with four derived classes | composes objects, reference counts and `TaskQueue` |
| `UdpTransfer` | the protocol of `pdp_net.c` | |
| `UdpSend` | `pdp_udp_send.c` | a send of `UdpTransfer` is one step |
| `UdpReceive` | `pdp_udp_receive.c` with `pdp_packet_pass_if_valid` | a reception is one step |
| `ListSpec` | what lists promise: sequences of words, sublists with one owner | |
| `AtomList` | `pdp_list.c` and `pdp_mem.c`: linked cells and the free list | implements `ListSpec` |
| `ListSyntax` | the reader of lists and `pdp_tree_check_syntax` | |
| `PacketTypes` | type matching, conversion programs (`pdp_type.c`), constructors and conversions of `system/type` | |
| `ConvertCache` | the cache of `pdp_type.c` and `pdp_symbol.c` under threads | a method of `PacketTypes` is one step |
| `FrameObjects` | `pdp_loop`, `pdp_del`, `pdp_reg`, `pdp_snap`, `pdp_convert` | |
| `PatchObjects` | `pdp_route`, `pdp_trigger`, `pdp_inspect`, `pdp_description`, `pdp_metro`, `pdp_control` | |
| `RawStream` | `pdp_rawin`, `pdp_rawout`, `pdp_rawout~` | |
| `Filters` | `pdp_imagebase.c` and the classes that process images in the thread | its queue is `ProcQueue`'s, one task at a time |
| `Scanners` | the classes that read or draw images in the pd thread | |
| `PixelArith`, `PixelPlanes`, `ColorConvert` | `system/image` | |
| `Capture` | `pdp_v4l.c` and `zl/v4l.c` | |
| `Display` | `pdp_xv.c`, `pdp_glx.c`, `pdp_sdl.c` and the X code of `zl` | |
| `MCKernel`, `MCThreads`, `MCObjects` | one run over several parts | the modules above |
| `RingArithmetic` | lemmas on remainders | |
| `ProcQueue_proofs`, `PacketPool_proofs`, `PdpBase_proofs`, `UdpTransfer_proofs` | theorems on the module of that name | `RingArithmetic` |
| `Threads_proofs` | theorems on `UdpSend`, `UdpReceive`, `Capture`, `RawStream`, `Filters` | `RingArithmetic` |
| `Objects_proofs` | theorems on `FrameObjects`, `PatchObjects`, `Display`, `Scanners`, `ColorConvert` | `RingArithmetic` |
| `Kernel_proofs` | theorems on `ConvertCache` | `RingArithmetic` |
| `MC...` | constants and symmetry for TLC | |

Mutants - definitions that change one operation the way a slip in the code
would - stand before the definition they change, marked as such.

### ProcQueue

State: the fields of `t_pdp_procqueue`, the id every owner keeps, and the two
threads as program counters.  Every access to a shared field outside the mutex is
a step of its own; a step under the mutex is guarded by its owner.  `cond_wait`
is split into releasing the mutex and sleeping (`WaitBlock`, `ThreadBlock`, one
step, as pthreads promises), waking and taking the mutex again; spurious wakeups are
included.

* The counters are C ints.  They are modelled modulo `Width`, a multiple of
  `Size`, as 2^32 is of a power of two; the code only uses them under the mask.
* The code has data races on head, curr and the slots.  The build is for x86,
  where stores of aligned words are atomic and become visible in order; the
  model uses sequential steps, with the store of head after those of the slot.
* Callbacks may add tasks (that is what sending a packet on does).  `use_thread`,
  `finish`, `flush` and freeing happen when Pd is idle.
* The loop of `pdp_procqueue_flush` never repeats: its condition is false right
  after the wait.  The counters of ticks and packets are never read and are left
  out.

### PacketPool

A section between LOCK and UNLOCK is one step, except the loop of
`pdp_packet_reuse`, which is one step per fifo entry.  References are the
program's variables and the handle a running operation has obtained.  Types differ
in size, factory, cleanup, sleep and copy methods; `Canon` is the description a
constructor gives, so that a request by an inexact name returns another type and is
deleted by the factory.  Which types a program copies read-only is the constant
`Shared`.  Memory may run out in every constructor and in the clone by hand; for a clone's
factory only with the types in `Scarce`, because `pdp_packet_clone_rw` then clones by hand
and copies the header of its source, users included (`pdp_packet.c:468-477`).  The wakeup methods run inside the reuse step; no class of the
repository has a sleep method, but the API offers it.  Packets without a
description, `pdp_packet_destroy` at exit and the garbage collector, which is a
stub, are left out.  The array does not move (see the hazards).

### PdpBase

Pd sends messages depth first.  `stack` holds the calls still to be made, the
innermost first, so that re-entering an object from its own outlet is an ordinary
behaviour.  The queue is `TaskQueue`, which `ProcQueue` implements.  A copy or a
conversion may fail.  Deleting an object cancels its task as
`pdp_procqueue_finish` does.  `given` and `processed` are history variables.  The
classes are a generator (`pdp_noise`), an in-place filter (`pdp_gain`), one that fills
a clone and sends it from its own postproc (`pdp_zoom`), and one that may delete
its packet in the thread (`pdp_mat_mul`).

### UdpTransfer, UdpSend, UdpReceive

The network keeps every datagram and may deliver each at any time, any number
of times or never.  Packets are numbers and the data of a chunk is the number of
its packet, so mixing shows.  Connection ids come from `rand()`, which is not seeded:
`Rand` gives the id of the k-th call of a process.  In `UdpSend` and `UdpReceive` every
unlocked access to the slots is a step; `_signal_sender` is one step under the
mutex.  Pacing and flow control numbers are left out.

`UdpReceive`'s names carry the prefix `Recv`, so that one module can extend it and `UdpSend`.

### AtomList, ListSpec, ListSyntax

Cells are linked through one field that is the link of a list while the cell is an
atom and of the free list after it; the allocator hands out blocks of `Block`.  An
operation is a step, as callers hold their own lock.  A sublist lives in one
atom.  `ListsAreSequences` maps each live header to the sequence of its words.  The
words of a popped cell are forgotten; words themselves are small values, a list
or the packet.  In `ListSyntax` a text is a sequence of character classes that grows one
class at a time, so every text of up to `MaxText` characters is read; only what
the reader allocates and where it stops is modelled, not the value of a number.

### PacketTypes, ConvertCache

A type is a sequence of symbols with wildcards.  `PacketTypes` registers the conversion
methods of `system/type` in the code's order and follows `_pdp_packet_convert` with
`MaxSteps` rounds; the data of a packet is the sequence of its planes by name, so
a plane that goes to the wrong place shows.  The loop of `_pdp_packet_convert` has no bound: for a
template that no factory makes (`image/multi/4x4` from another size, which the resampler answers with
the packet's own encoding and no end, or `bitmap/*/4x4`) it runs the same method on its own result for
ever.  `ConversionEnds` says which requests end.  `ConvertCache` is the same function at
the grain of its two mutexes for several threads; how long a program is and
whether a conversion exists are constants of a key.  Any method may fail for want of memory; a cached
program then goes on with the packet -1, as the code does.

### FrameObjects, PatchObjects

An outlet call is a call into the patch.  In `FrameObjects` it is a frame during
which the patch takes references and sends the messages in `Nested`; in `PatchObjects`
it is one step per message of the packet, with the others between them.  From inside a message another
packet may begin, as `pdp_inspect` makes it (it sends a packet on while it is being registered); the
one around it waits in `outer`, up to `MaxInside` of them.  A drop announcement (`walks`) goes along the list of
control objects while receivers come, go and drop more packets, which are announced inside.  A control object
deleted while it is the one being told leaves its next pointer in freed memory: with `DeletesTold` the
walk goes on to anything.

### RawStream, Filters, Capture

Each has two threads.  Steps of the thread are between accesses to what it
shares: the flags and the length of the queue are read without the lock, list
operations are steps under it.  A transfer moves `Chunks` parts; a pipe may break, end
or have no reader.  `rawin_sync` closes, tells the patch with a bang, and sets the mode when that
returns (`Joined`, then `SyncSets`); inside the bang the object takes messages, and `OpensInSync` says whether
open is among them.  In `Filters` a message is the sequence of its assignments, which
the thread may see halfway; what a routine was called with is kept beside the
packet it worked on.  The classes are a table, `FilterClasses`, with their fields,
messages and process methods.  In `Capture` the driver is external: it gives a number of buffers,
fills queued ones in order, and may fail at every call when `DriverFails`.

### Scanners, PixelArith, PixelPlanes, ColorConvert

The routines are operators (recursive functions along a row), and each call is an
action that picks arguments and keeps the result, so that TLC tries them all.  The
properties compare with a reference that does not follow the code: exact
arithmetic, the geometric meaning of a flip, a colour's way back.  `Bits` and `WordBits`
make words smaller than the code's 16; the arithmetic that depends on the width is
written in terms of them.  `ColorConvert` has the code's own widths.  What the code leaves to memory has no value that a property may use: the sums of a `pdp_cog` image
that is not square (`Undefined`: their arrays have width and height exchanged), the columns a scope draws
before its buffer has gone round once (`Uncleared`).  `MaxLog` is the code's cap on the
size of the table of `pdp_histo`.  Floats are in units
of `1 / GainOne`; coefficients computed with sine and cosine are taken as given.

### Display

One object with its connection, window and image or context, since a patch's windows
share nothing but `current_context` (`viewGl`) and the SDL singleton.  Creation may stop after every
part that can fail.  Events wait in the connection, are routed to the window and
sent out one by one.  While one is sent the patch may send the messages in `ViewNested`, which may poll and
send events again: `viewCalls` holds the loops, one inside the other, with the window and the event of each.  A
loop whose window has been closed under it reads freed memory; the model follows it no further.
A window has one dimension.

## 3. Runs

| run | configuration | shows |
|---|---|---|
| `queue_base` | 2 base objects, 4 slots, ints of 8 values | ring order, process methods are serial; `ClientsSafe`: no use after free, an id names its own task |
| `queue_clients` | pdp_qt and dpd, 4 slots | the ring implements `TaskQueue`, full ring included |
| `queue_live` | 2 base objects, 2 slots, fair | `QueueLive`: waits return, every task is called back |
| `queue_qt_close` (violated) | pdp_qt and a base object | `pdp_qt_close` leaves a stale id, which cancels another object's callback |
| `pool_types` | 2 threads, 2 variables, 3 types (one shared, one short of memory), 3 packets | exact counts; `FifoSound`: results unshared and of their type, unused packets findable, fifos without duplicates or dangling entries |
| `pool_values` | 2 threads, 2 variables, inexact type, 2 values | copy-on-write implements `PacketValues`; copies are faithful |
| `pool_dangling` (violated) | an inexact request | a deleted packet stays in its fifo and its null header is read |
| `base_patch` | 4 objects, queue of 2, cold feedback, one object deleted, one leaving the thread | counts; `PacketsOwned`: ownership and exclusive writes; processed output; `Lively`: dispatch ends, packets leave |
| `udp_transfer` | 2 packets of up to 2 chunks, resend list of 1, socket errors, 1 restart | confirmed means delivered, delivered means whole, sends return unless datagrams are skipped for ever |
| `kernel` | 4 cells, 4 lists, of which 2 are free when a list is copied; texts of 5 characters; 13 packets and 30 templates; 2 threads with a cache of 2; a display under every failure, 2 windows, 2 events | lists implement `ListSpec`, the heap stays whole, the reader frees what it made, conversions end with what was asked for or are among those that never end, cache and symbols stay whole under threads; `DisplayKept`: references, events and the order in which the parts of a display are deleted |
| `threads` | sender (5 packets, 3 slots), receiver (4 packets), raw streams (3 packets of 2 parts), filters (4 packets of 3 kinds, 1 message), capture (2 buffers, 4 frames, 3 messages) | ring contents and order, nothing leaves twice, packets of a stream have one owner, filters give the thread what belongs together, the device outlives its thread; each close, free and wait returns |
| `objects` | frame objects (2 packets, sizes 1 and 3), routing (3 outlets, 2 packets around another, 3 control objects, 3 drops, 5 rates), pixels of 8 bits, planes of up to 8 x 8, colours of 4 x 4 images, scanned images of 3 x 2, for `pdp_cog` and `pdp_histo` also of 2 x 2, windows (2 windows, 2 events), 2 SDL objects | what section 2 says of each |

The runs `kernel`, `threads` and `objects` choose a part initially (`part`) and leave the others in their
initial state: the parts share nothing, and one TLC run checks them all.  `Display` is in two of them with
different constants: in `objects` under the answers and failures that its code survives, in `kernel` under all others,
where images fail and the patch may close the window or free the object while an event is sent.  There no freed address is
reused, as `DisplayKept` does not depend on it, and nothing is retried.

A property of a run is often a conjunction of the component's invariants, one
per hazard; each part has a name and its own comment in the module (for
instance `StreamSound` is `StreamCounted`, `StreamOrdered`, `PopsPacket`, `NeedleInside` and `ThreadJoined`).  The type
invariants are in the conjunctions or proved; `UdpTransfer`'s `TypeOK` and `UdpReceive`'s
`RecvTypeOK` hold under the same configurations.

Bounds.  The ring of 4 slots holds 3 tasks and ints of 8 values wrap after two
rounds: every alignment of counters and slots occurs, and the ring gets full.
`queue_live` uses the smallest ring, in which nearly every add meets a full or an
empty queue.  Three packets with two threads and two variables let both threads be in
the middle of an operation while an unused packet remains to be reaped; in `pool_values`
the pool grows from one packet to four, and for other sizes there are the theorems.  A resend
list of one chunk for packets of two makes a second round necessary.  Five
packets through three slots wrap both indices.
Four cells in blocks of two with two lists filled make lists grow, share a block
and fall back on the free list.  Five characters hold a nested list
that is cut anywhere.  A cache of two with three keys and two threads evicts under
a reader.  Two frames let a ring hold the same packet twice, and sizes 1 and 3 make
it wrap and shrink below its heads.  Two buffers are the fewest with which the
driver can be ahead of the reader.  With three packets, one inside another, a route can change within one of them and
again within the one inside.  Six pixels are more than the table of `pdp_histo` holds when `MaxLog` is 1, so its cap
is passed.  The pixels tried hold both ends of the word
and their neighbours.  Images of 8 x 4 and 4 x 8 have two strips of four lines and two
vectors, the least at which the vector build's strips meet.  The seven handles of `base_patch` are
never used up.  Threads and variables of the pool, and base objects of the queue,
are symmetric; the runs with temporal properties use no symmetry, except the
refinement in `pool_values`, which is a safety property that treats variables alike.

`CHECK_DEADLOCK FALSE` is used where the system may stop: a transport
whose packets have all been sent, a pool in which a dangling entry has crashed
a thread, and one at its bound `MaxPool`, where a clone of a type that is never short of memory
has to wait.

Fairness.  Both threads are scheduled (weak fairness of their steps), a thread
that waits for a mutex gets it at last (strong fairness of the locking steps), Pd
runs a clock that is set, and a callback returns.  In `UdpTransfer` only the sender
is fair, whose `select` has a timeout: the network and the receiver promise
nothing.  A skipped datagram starts the timeout again, and skipping is a step of the
sender like its timeouts: `SendReturns` excepts the behaviours that skip for ever.  In `UdpReceive` nothing promises that a packet arrives: only the steps after a
reception and the test of the exit flag are fair, since receive has a timeout.
`PdpBase` assumes a thread that finishes process methods.  In `MCThreads` the fairness of each
part is that of its own module: the threads run, Pd's clocks and calls go on, and
`select` in a capture thread returns after five seconds, so that its join does.
The bytes of a pipe (`RawPipe`) promise nothing.

### Counterexamples kept as configurations

Further disagreements between the code and its comments, or limits of what holds,
each reproduced by a configuration that TLC refutes:

| configuration | property | what it shows |
|---|---|---|
| `ProcQueueDpdFree` | `NoUseAfterFree` | dpd commands have no id to finish: the object is freed under them |
| `PacketPoolClone` | `ReturnsWritable` | the factory finds no memory, and the clone by hand copies the user count of a shared packet |
| `PacketPoolMatrix` | `CopyFaithful` | the matrix copy method has its arguments swapped |
| `UdpTransferRestart` | `RestartIntact` | a restarted sender repeats the connection ids |
| `PdpBaseMatrix` | `MatrixProcessed` | a packet registered after a failed process leaves unprocessed |
| `PdpBaseLoop` | `TaskOwnsPackets` | a zoom wired to its own hot inlet loses the packet of its running task |
| `PdpBaseCold` | `ColdNewest` | a cold inlet keeps the oldest packet, its comment says the newest |

These need no file of their own: change the constant, or check the property named, in
the run's configuration.  The runs keep such answers, failures and sizes
out because the code does not survive them; the rest of the component is checked
without them.

| change | property | what it shows |
|---|---|---|
| (`queue_base`) | `FlushEmpties` | flush returns with callbacks pending |
| (`threads`) | `WaitedAllSent` | `_wait_until_done` returns with packets left in the ring |
| (`threads`) | `OutputInUse` | the thread releases the packet that is being sent out |
| `SocketErrors = FALSE` (`threads`) | `NewestOutput` | the last packet of a stream never leaves |
| (`udp_transfer`) | `SuccessDelivered` | 1 is returned when the last question stays unanswered |
| (`udp_transfer`) | `DeliveredOnce` | a late DONE reports a packet twice |
| `Nested` with `"reset"`, `"size"` or `"input"` (objects) | `FrameSound` | `pdp_loop_bang` outputs a handle that the patch released meanwhile |
| `AllocFails = TRUE` (threads) | `FiltersSound` | `pdp_bqt_preproc` looks at the first state packet twice and works without the second |
| (threads) | `CoefficientsApplied` | raw coefficients stay in `pdp_bq`, the processor keeps the old ones |
| (threads) | `DataInside` | a read error of -1 is added to pointer and count in `pdp_rawin` |
| `DriverFails = FALSE`, `MaxFrames = 5`, `MaxCommands = 6` (threads) | `FrameWritten`, `FramesInOrder` | after a dropped frame the driver and the write index differ: frames come out of order |
| the same | `OpenDelivers` | after a timeout the device counts as open and no bang restarts the thread |
| `GreyLevels <- MCScanLevels` (objects) | `SamplesSound` | negative pixels of `pdp_histo` count for the lowest bin but are never placed |
| (objects) | `SearchEnds` | more points than the capped table holds, 65536 in the code, which an even image of 320 x 240 exceeds: the search for an empty place does not end |
| `InterpolateArgs = {0, 1}` (objects) | `ScannersSound` | `interpolate 0` releases the older image, the next image releases it again |
| `ScanSizes <- TwoScanSizes` (objects) | `ScannersSound` | the older image is kept over a change of size and read past its end |
| `ArrayValues = {3, 4}` (objects) | `ScannersSound` | `pdp_array2grey` does not cut off the value 1, which wraps to black |
| `ScopeWidths = {1, 3, 5}` (objects) | `ScannersSound` | a scope wider than its buffer shows the newest samples again at its left end |
| (objects) | `CogArraysFit` | the arrays of rows and columns have each other's length |
| (objects) | `RoutesWhole` | a packet that begins inside another takes the new route, and the rest of the other follows it: neither outlet gets a whole packet |
| `DeletesTold = TRUE` (objects) | `PatchSound` | the walk along the control objects goes on from one that is gone |
| `OpensInSync = TRUE` (threads) | `StreamSound` | `rawin_close` waits for the thread only if the mode is set (`pdp_rawin.c:259`, after its comment "stop thread: set giveup + wait"), and `rawin_sync` sets the mode after the bang of the close: an `open` that answers the bang starts a thread in the old mode, which no later close or free waits for |
| `AudioBlock = 3` (threads) | `StreamSound` | `pdp_rawout~` writes a block past the end of its packet |
| (objects) | `ScopeUpright` | a sample above 1 is drawn at the bottom |
| (objects) | `VectorInterpolates` | the vector build's interpolation overflows a 32 bit word |
| `PollsClosed = TRUE` (objects) | `DisplaySound` | `pdp_xv_poll` without a window follows a null pointer |
| `ImageFails = TRUE` (objects) | `DisplaySound` | an XvImage that could not be made is shown |
| `ReusesAddress = TRUE` (objects) | `DisplaySound` | `current_context` is taken for the context of a window that is gone |
| `"destroy"` in `ViewNested` (objects) | `DisplaySound` | the event loop goes on in a freed window |
| `SdlFails = TRUE` (objects) | `DisplaySound` | `pdp_sdl_open` frees parts of an object that lives on |
| (objects) | `XvReleases`, `GlxFits`, `DragNamesButton`, `SizeKept` | a packet is not released without a window; the texture buffer is too small; a drag names another button, as events leave last first; a size is undone by the next packet |
| (kernel) | `MethodsGetPackets` | a cached program goes on with the packet -1 after a method that failed |
| (kernel) | `PlanesInside` | a multi image with fewer than three planes is read past its end |
| `PopPushSpecification` (`AtomList` with the constants of kernel) | `HeapSound` | `pdp_list_pop_push`, which nothing calls, leaves wrong ends |
| (kernel) | `RunsLiveProgram`, `EvictsLRU` | a thread runs a freed program; the cache does not evict the entry used least recently |

Other facts met while translating, which no property is about: the accumulators of
the portable convolution and the product of two smallest pixels overflow; `pdp_resample_scale_nn`
shifts a width of 2048 out of its word; `pdp_imageproc_dispatch_3buf` compares the
second packet twice; a block of rgb takes its chroma from its lower row alone; `pdp_rawout_queuesize`
with 0 or less drops every packet; opening a pipe without a reader blocks
the thread, and the close that joins it; `pdp_scale` keeps a packet that is no image until it is deleted.

## 4. Proofs

Eight modules hold theorems.  Each theorem is about the specification that the runs check,
for every value of the constants that the named assumptions allow.  An invariant that
is not inductive is proved through a stronger one, whose parts are named in the proof module;
TLC checked each of these on the instances of section 3 before it was proved.  A
step lemma has one case per action, and one per part that the action disturbs.

| module | theorem | states | under |
|---|---|---|---|
| `ProcQueue_proofs` | `TypeCorrect` | `[]TypeOK` | |
| | `RingOrdered` | `[]RingOrder` | |
| | `Serial` | `[]SerialProcessing` | |
| | `Safe` | `[]ClientsSafe` | `OnlyBase` |
| | `ImplementsQueue` | `ImplementsTaskQueue` | |
| `PacketPool_proofs` | `RefCountExact` | `[]RefCount` | `SharedExact` |
| | `CopiesFaithful` | `[]CopyFaithful` | `SharedExact`, `SwappedCopy = {}` |
| | `ImplementsVariables` | `ImplementsValues` | `SharedExact` |
| | `FifoCorrect` | `[]FifoSound` | `SharedExact`, `ExactFactories`, `SizesApart` |
| `PdpBase_proofs` | `ReferencesExact` | `[]RefCount` | |
| | `PacketsAreOwned` | `[]PacketsOwned` | `NoFeedback` |
| | `ResultsPass` | `[]PassedProcessed` | `NoFeedback` |
| `UdpTransfer_proofs` | `TypeCorrect` | `[]TypeOK` | |
| | `Confirmed` | `[]ConfirmedDelivered` | |
| | `Whole` | `[]DeliveredIntact` | |
| `Threads_proofs` | `SendTypeCorrect`, `ContentsKept` | `[]TypeOK` of `UdpSend`, `[]RingContents` | |
| | `InOrder` | `SentInOrder` | |
| | `RecvTypeCorrect`, `PassedOnce` | `[]RecvTypeOK`, `[]OutputOnce` | |
| | `CaptureCorrect` | `[]CaptureSound` | |
| | `StreamCorrect` | `[]StreamSound` | `BlocksFill`, `~OpensInSync` |
| | `FiltersCount` | `[](FilterCounted /\ ChannelsAsked /\ GeneratedLegal)` | |
| | `FiltersStaySound` | `[]FiltersSound` | `~AllocFails`, `NbBuffers >= 4` |
| `Kernel_proofs` | `CacheCorrect`, `SymbolsCorrect` | `[]CacheSound`, `[]SymbolsUnique` | |
| `Objects_proofs` | `FramesOwned` | `[](FramesCounted /\ RecordInside /\ DelayExact)` | |
| | `FramesSound` | `[]FrameSound` | no `input`, `reset`, `size` in `Nested` |
| | `PatchesSound` | `[]PatchSound` | `~DeletesTold` |
| | `DisplaysWhole` | `[]DisplayKept` | |
| | `DisplaysSound` | `[]DisplaySound` | `~PollsClosed`, `~ImageFails`, `~ReusesAddress`, `~SdlFails`, no `destroy`, `display`, `free` in `ViewNested` |
| | `ScannersCentre` | `[](CentreInside /\ ColumnsCover)` | |
| | `ScannersStaySound` | `[]ScannersSound` | `InterpolateArgs \subseteq {1}`, one image size, `2^LogLevels \notin ArrayValues`, no scope wider than `RingSize` |
| | `ColoursReturn` | `[]ColoursSound` (a part of `RoutinesSound`) | |

`RingArithmetic` has the lemmas that several of them use: remainders, and the smallest member of
a set of numbers.

### Hypotheses

A theorem has a hypothesis only where the code breaks the property without it, and a
configuration shows that it does:

| hypothesis | says | without it |
|---|---|---|
| `OnlyBase` | all clients of the queue are objects of the base class | run `queue_qt_close` (`pdp_qt_close` leaves an id behind), `ProcQueueDpdFree` |
| `SharedExact` | packets shared read-only come from a factory that makes exactly their type, and there is memory for their clones | `PacketPoolClone`: a clone by hand copies the user count of its source |
| `SwappedCopy = {}` | no copy method has its arguments swapped | `PacketPoolMatrix` |
| `ExactFactories`, `SizesApart` | every factory makes the type it is asked for; the types with a cleanup method (3D contexts) have sizes of their own | run `pool_dangling` |
| `NoFeedback` | no zoom is reached from its own outlet through hot inlets | `PdpBaseLoop`: its second pass, for the source it discarded, finds the packet that came back and sends it unprocessed, or takes it from the task |
| `~AllocFails`, `NbBuffers >= 4` | the pool refuses no packet and there is one for each of the object's three and the receiver's | `AllocFails = TRUE`: `pdp_bqt_preproc` works without its second state packet |
| `BlocksFill` | blocks of audio fill a packet of `pdp_rawout~`, 2048 samples of every channel, exactly | `AudioBlock = 3` |
| `~OpensInSync` | the patch does not answer the bang of `sync` with `open` | `OpensInSync = TRUE` |
| `~DeletesTold` | the patch deletes no `pdp_control` while that is told of a drop | `DeletesTold = TRUE` |
| no `input`, `reset`, `size` from inside an outlet call | the patch does not make an object drop the packet it is sending | `Nested` with one of them: `pdp_loop_bang` sends a released handle |
| `~PollsClosed`, `~ImageFails`, `~ReusesAddress`, `~SdlFails`, `ViewNested` without the messages that close a window | the five kinds of answers and failures the display code does not survive | the five lines for `DisplaySound` in section 3 |
| `InterpolateArgs \subseteq {1}`, one size, `2^LogLevels \notin ArrayValues`, scopes no wider than `RingSize` | the interpolation is not turned off, all images have one size, no value of the array is the one that wraps, the samples of a scope fit in its buffer | the four lines for `ScannersSound` in section 3 |

The theorems without a hypothesis (`FiltersCount`, `FramesOwned`, `DisplaysWhole`, `ScannersCentre`) say what
stays true even then: references are exact, parts are deleted in the right order whatever fails, and a
centre of gravity lies inside its image if that is square.
In `DisplayInv` and `ScanInv` each condition stands in front of the part that needs it, so the rest is
proved once for both theorems.

Otherwise the theorems use the assumptions named in the modules, which TLC evaluates in every run:
sizes are positive, the int width is a multiple of the ring's size, sets of threads, variables and
names are finite, client sets are disjoint, a null pointer is no header or SDL object, an object with a window is a
`pdp_xv` or a `pdp_glx`, a packet to show has a size, a trigger has an outlet, a component of a colour
is a byte, rows come in pairs, and the two colours of a converted image meet between two blocks, so its width
is a multiple of 4.  `BufferAssumption` bounds
the buffers of a capture device by `ZL_V4L_MAX_BUFFERS`, above which `v4l2_open` gives up.

### The arguments

**The ring of tasks.**  `RingOrder` is not inductive: that the thread finds `curr # head` when
it advances follows from where it is, and that a callback finds a processed task from where
the pd thread is.  `QueueInv` adds to the types the distances H from tail to head and C from tail
to curr with C <= H < Size, C < H while the thread processes, 0 < C while a callback runs, room for
one more between filling a slot and moving head, and, for `Serial`, C = H as long as the queue
runs tasks directly.  Moving head, curr or tail by one, also across the wrap of the int, changes H and C
by one.  For `Safe`, `ClientInv` says that every task in the ring is known to its object and no
other: the id an object keeps names an occupied slot with its own task (`IdSlots`); a slot's owner
exists and has that id unless its callback is running (`SlotIds`, `CalledId`); the thread processes
the owner of the slot under curr (`RunOwner`); and an object that waits in finish exists and still
has an id (`FinishOwner`).  `ImplementsQueue` maps the slots from curr to head to the tasks
to do and those from tail to curr to the tasks done; `SlotsAppend` and `SlotsTail` say what one step of
an index does to these sequences, and one lemma per action of `TaskQueue` then matches the steps.

**The packet pool.**  `PoolOK` says what holds of the pool whichever operations run: handles
below the pool's size, valid references, exact counts, fifos with handles of the pool.
`OpsOK` says, per thread and program counter, what an operation knows between two
critical sections: above all that the packet it has taken or is filling is referenced by it alone, so that it
may write without the lock.  A step of another thread cannot change that, since every
access needs a reference.  For `ImplementsVariables` the actions fall into a few kinds
(`StepKind`) by what they do to the contents and references of variables; each kind is a step of `PacketValues` or
a stutter.  `FifoIInv` adds that a packet with a cleanup method is in one fifo while unused and in none
while used (`Entries`): an entry may be stale, but it is there.

**Patches.**  `PdpBase_proofs` holds for any set of objects, classes and wires.  `RefCount` needs to know
that no step overwrites a packet it does not release, and that depends on what the stack may hold:
`CountInv` says that an unuse still has its packet and has only its own register messages on top (`Sending`,
`Registering`), that a direct call, a discard and the passing of a result are not
separated (`Together`), that an object with such calls is not queued (`Unqueues`), that it is in the
queue at most once (`QueuedOnce`), and that a class keeps a packet of its own only from its task until it
leaves (`OwnPacket`).  The counts then follow from lemmas on one register or one row that
changes (`SlotCount`, `RowCount`, `OwnChange`), whatever the feedback.  `OwnerInv` adds what holds under
`NoFeedback`: the calls above the second pass of a zoom concern objects downstream of it only, so that its
register stays empty (`SourceGone`); a task in the queue has the packets it was given
(`TaskPackets`); the packet a class writes has one user until it is sent (`Exclusive`); and what waits for
its callback is processed (`ResultReady`).

**Sending.**  `IInv` ties the indices to the numbers of packets stored and released (`IndexInv`),
puts every packet in the slot of its number modulo the size (`HomeInv`), bounds their number by the
size (`CountInv`) and lets the thread transmit only with a packet under its index (`ThreadInv`).
Storing keeps it because a free slot under the write index means that fewer packets than slots are stored;
releasing, because fewer than a whole round separates any two stored packets.

**The transport.**  The n-th transmission has the n-th id in every datagram that is still on its way
(`Numbered`), which fails after a restart and is stated until then; so the chunks that count as received belong to
the packet announced (`Unmixed`).  The receiver answers with an empty list only for what it has
signalled (`Signalled`, `Answered`), and the sender confirms only such an answer.  `ResendComplete`
shows that a list cut off at the size of a datagram is empty only if nothing is missing.

**Objects with a thread.**  For `pdp_netreceive`, a packet that has left is in a slot only until the
tick clears it, and the thread's flips cannot bring it back (`PassedGone`, `TickReads`).  For the
capture, an initialised device is open, mapped and has a thread until that quits or is awaited, and the
semaphore counts the buffers between the indices also between a post and the move of the index
(`Counted`).  For the raw streams, the packets in the queue, in transfer, passed on and under the
needle are apart, increase, and each has one reference (`RawOrder`, `Apart`, `RawOwned`); `RawPhases` says where the thread
can be in each call of the pd thread, above all that it has ended when the object is closed, also between
the bang of a `sync` and its change of mode.

**Filters.**  `FilterInv` says who owns what at each stage of the one task (`Owners`, `Stages`): the
packets in the three fields differ while they are packets, are counted once each, and a shared
packet has one user more; `Sized` and `Asked` tie the sizes and channels that the thread reads to assignments
a message may have done halfway.  `Together` adds that both state packets of `pdp_bqt` exist from the first
image on and change format at the same time, which needs that the pool refuses none.

**Frame objects.**  An outlet call leaves a frame behind, and what the object does after it uses what it read
before; `FrameInv` therefore states the counts for the array as it is now (`FramesCounted`, with
`TimesStored`, `TimesSplit` and `PatchBalance` on how often a packet is in an array that
changes), that the recording head of `pdp_loop` is inside a ring that may have been
resized (`RecordInside`, `RingOrdered`), and that the packet `pdp_del` sends is the one
its history names (`DelaySent`).  `SentHeld` adds that no message in between took the packet away.

**Routing, metro, control.**  While no other packet has passed inside it, what a route sent of a packet is the
beginning of a whole one for one outlet, and the outlet changes only at its start (`RouteInv`).  For every message of
a packet a trigger has served exactly the outlets right of the one it is at, and the packets around it are as
they were left (`TriggerInv`).  The metro's count is the samples since the last bang times the
rate, reduced by what the bangs took, below one period (`MetroInv`).  In `ControlInv` every broadcast under way stands at
a position p of the list; of the objects it started with, those up to p have been told once and those after it
not yet (`WalkAt`).  An object that is made
goes in front and one that goes takes its place with it, so positions move but the statement does not.

**Displays.**  A closed object has no part, an open one has all with one window on the
list (`Shut`, `Opened`), and between them, while parts are made or deleted, a part that is initialised has a
connection (`Parts`): `CleanupShuts` shows that the order of `Cleanup` turns any such state into a closed one
without touching what is gone, wherever the making stopped.  `VideoFor` gives an XvImage the room of its
size through every change of size, shared or not (`ImageMade`).  `EventsInv` counts the events through routing, sending and
the loss of a window, in whichever of the loops.  `SdlOk` keeps surface and overlay those of the session.  `TilesMeet` is
arithmetic: n quotients and a remainder smaller than n.

**Scanners.**  `HeldInv` counts the three places that may name a packet; `ReadInv` needs it, because
a packet that is held keeps its size when the patch lets its own reference go.  A fraction below one of a
length is an index (`FractionInside`), the index by columns takes different values for different pixels
(`ColumnsOnce`, from the uniqueness of quotient and remainder), and a sum weighted with
the indices below n is at most n - 1 times the sum (`WeightedSum`): the sums are folds, unfolded
one index at a time (`SumUnfolds`) for the smallest set that could break the bound.
`RingInv` gives every place of a scope's buffer that has been written the last sample written there, and
leaves the others uncleared: of the indices of a block that meet in a place the largest is the last sample of its class.

**Colours.**  Every call is arithmetic, so `ColoursSound` is its own invariant and holds after a call whatever came
before.  `PlanesCut` and `BlockInside` place the pixels: a packet's offsets fall into three planes, and
the four pixels of the block of a chroma pixel are in the image and have that chroma pixel, of which the lower two are
read.  `BlockColour` and `ByteAt` find their colour in the bytes of any of the four orders; `ColourBack` follows one colour
through the fixed point in both directions with the rounding of the luma as the only unknown, which is
linear: no value is cut off and the error is between 0 and 3.  For the planar and the packed formats the
bytes are cut and widened without loss (`BytesBack`), and the average of two equal rows is the row.

**Cache and symbols.**  A program is an entry of the cache or belongs to one thread (`OneOwner`), an
entry holds a whole program (`CachedWhole`), and a parsed type list belongs to the thread that
parsed it or to the symbol of its name (`Accounted`).

### Only model-checked

* Everything temporal (`QueueLive`, `Lively`, `SendReturns`, `NetLive`, `StreamEnds`, `FilterReady`,
  `CaptureReturns`): the prover does not do liveness under fairness or ENABLED.
* `HeapSound` and the refinement of `ListSpec`: that following the links from a header ends at its last cell,
  after as many cells as it counts, is an induction along the links for every list, which the
  provers cannot use here (see the next point).
* What the recursive readers and pixel routines compute (`ReaderSound`, `ConversionSound`, `PixelsExact`,
  `PlanesSound`, `SamplesSound`) is checked over bounded inputs only: facts for all inputs need
  induction over an operator that the installed provers cannot instantiate, and modules with RECURSIVE or bitwise
  operators are outside the prover's language.

## 5. Plan

Done: the queue, the pool, the base class with packet passing, the network, the
kernel's lists, types and symbols, the objects with threads, the objects of the
patch, the image routines and the displays; proofs for the queue, the pool, the base class in any
patch, the network, the cache, the objects with threads, the image filters, and the frame, routing,
display and scanning objects, and for the conversion of colours.

Left to model: the dpd contexts and command reuse (`pdp_dpd_base.c`, `pdp_dpd_command.c`,
`pdp_3dp_base.c`) with `pdp_base_set_queue`, on the queue of `ProcQueue`.

Left to prove: the placing and repacking of `pdp_histo`'s samples (`SamplesSound`), whose functions are
folds over the table, with the method of `WeightedSum`.

## 6. Not modelled

* The matrix objects but for `pdp_mat_mul`: calls of the GNU scientific library.
* The OpenGL objects, textures, meshes and the 3D context: calls of the library in the order
  of the messages; their use of the queue is in `ProcQueue`.
* QuickTime and libpng: reading files through a library.
* The `scaf` compiler and cellular automata: a code generator for MMX, and objects that
  run the code it loads.
* The assembler of `system/mmx`, which `--enable-asm-mmx` builds on 32 bit machines only.
* Video4Linux version 1: no build file of the repository defines `HAVE_V4L1`.
* Random numbers, trigonometry and floating point of the image objects.
* Abstractions, help patches and `pdp_packet2.c`, which is not built.

PROJECT.json lists every part with its reason.
