# A verification of Malicious_MPSI

TLA+ models of the PSImple program in this repository (`src/`), checked with
TLC and proved about with TLAPS. The program computes the intersection of the
private sets of `parties` processes: P0, which prints the result, and P1, P2, ...
(each a "Pi"). The models are about what makes the program hard to trust by
testing: its threads, its shared arrays, its two-ended bookkeeping of indexes,
and three or more processes that are in different phases at the same time.
Cryptography is abstract: a random string or block is an atom, and an XOR of
blocks is the set of the atoms that remain.

`src/...` paths below are relative to the repository; `Functions.cpp`,
`Party.cpp`, ... are in `src/simple/src/`, `main.cpp` in `src/simple/frontend/`.

## Inventory

| Component | State | Operations | Made hard by |
|---|---|---|---|
| Connections (`Pi.cpp`, `P0.cpp`, `Party.cpp:103-160`, `set_ports`) | listening and connected sockets | `init_sender` (accept), `init_receiver` (connect until it succeeds) | order of connects and accepts among all processes |
| Seed agreement, secret sharing (`Functions.cpp:999-1337`) | keys, commitments, seeds, the first content of the GBF | `secret_sharing_seed_*`, `seeds_agreement_*`, `secret_sharing_aes` | two threads per peer on one socket, index arithmetic around one's own number, a failed check that is only printed |
| Random OT (`kos.cpp`, external libOTe) | two strings per index / one string and a choice bit | `TwoChooseOne` | external |
| AppROT of a link (`Functions.cpp:14-180, 393-435`, `Party.cpp:280-467`) | sub group, index permutation, bits, R, r, vectors of places, function | `set_sub_group`, `compute_R_r`, `get_zeros_ones`, `arrange_the_indexes`, the checks | an array that is permuted while its elements are used as places; two threads that eat one vector from both ends |
| Online accumulation (`Functions.cpp:752-860`, `Functions.h:33-53, 84-254`) | queues, semaphores, the GBF | `online_apport_*`, `run_xoring` | producers and consumers, a hand-made semaphore, an array without locks |
| Bloom filter (`Functions.cpp:230-302`) | BF, h_kokhav | `create_BF_threads` | 37 threads over a partition of the items |
| Re-randomization (`Functions.cpp:566-635`) | new GBF, codewords | `get_Y`, `re_randomization` | cells shared by items, zero as "empty" |
| Cumulative filter (`Functions.cpp:1361-1410, 1468-1473`) | P0's GBF, a mutex per chunk | `comulative_gbf_pi`, `get_gbf`, `XORchunk` | partial reads, a remainder chunk, lost updates |
| Output (`Functions.cpp:1421-1431`) | - | `get_intersection` | must come after everything |
| Session (`main.cpp`) | the phase of every thread of every process | the flow of P0 and of a Pi | processes in different phases, a process that ends early |
| Parameters (`Functions.cpp:915-985`) | ips, ports, sizes, items | `set_ips`, `read_protocol_parameters`, `get_values` | parsing at the edges |
| `util.cpp`, timing and traffic files, tests | - | - | not part of the protocol |

Interaction. Between P0 and Pi *k* there are two TCP links. On link A(k) P0 is
the OT sender (`P0_s[k-1].s.connect_sock` and `pi.recv.sock`); it exists from the
constructors on. On link B(k) the Pi is the OT sender (`pi.s.connect_sock` and
`P0_s[k-1].recv.sock`); it is opened in the offline phase. Inside a process, the
threads of the links share the Bloom filter (read only by then), four queues
with a semaphore each, and the GBF. The processes share nothing but the links;
a process that calls `exit(1)` disappears with all its threads.

What makes the components correct, in one line each: every cell of the GBF
receives each string exactly once (online accumulation, cumulative filter); a
party's function maps every cell to an unopened index of its own whose choice
bit is the cell's bit (AppROT); the checks speak about what was really opened
(AppROT); messages are read by the code that expects them, and nothing is
released before the checks (session); shares cancel and the common seed is
common (seed agreement); what a codeword should be is what its cells sum to
(re-randomization); an item is printed when all parties have it, and only then
but for the collisions a Bloom filter allows (the composition of it all).

The list of hazards, each at its line and with the properties that cover it, is
in `PROJECT.json`.

## Modules

| Module | Models |
|---|---|
| `Accumulation` | abstract: a filter into which each cell's contributions go once each, in any order, and which is handed over complete |
| `OnlineXor` | steps 7 and 10 in one process: producers, semaphores, queues, consumers, join |
| `OnlineXor_proofs` | the inductive invariant of `OnlineXor` and its theorems |
| `CumulativeGbf` | step 11: the Pis write, P0's threads read and XOR under the chunk mutexes |
| `CumulativeGbf_proofs` | its inductive invariant and theorems |
| `Apport` | the index bookkeeping of one link, receiver's side, with the sender's check |
| `Apport_proofs` | the inductive invariants of `Apport` and its theorems |
| `Session` | all the processes over steps 3 to 12, message by message |
| `Session_proofs` | its inductive invariant and theorems |
| `Setup` | step 2: ports, constructors, the mesh of sockets |
| `SeedAgreement` | step 2, on the sockets of `Setup`: keys, commitments, the common seed, the shares of zero |
| `SeedAgreement_proofs` | the inductive invariants of `Setup` and `SeedAgreement` and their theorems |
| `Blocks` | what the program does with filters of blocks, as operators |
| `Blocks_proofs` | laws of these operators, cited by the three modules that use them |
| `BloomFilter` | step 6: the threads that hash the items |
| `Codewords` | step 8, after `BloomFilter`: codewords and re-randomization |
| `Codewords_proofs` | the inductive invariants of `BloomFilter` and `Codewords` and their theorems |
| `PSI` | abstract: one output, between the items that have to be printed and those that may be |
| `PSImple` | the whole protocol at the level of blocks, which implements `PSI` |
| `PSImple_proofs` | its inductive invariant, its theorems, and the refinement |
| `MC...` | what TLC needs besides the cfg |

Which stands on which: `SeedAgreement` extends `Setup` and `Blocks`, `Codewords`
extends `BloomFilter` and `Blocks`, `PSImple` uses `Blocks`. `PSImple` takes from
the others what they show: a string goes into each cell once (`OnlineXor`), a
function is injective and has the filter's bits (`Apport`), the seed is common
and the key streams are shared by two parties each (`SeedAgreement`), a filter
arrives whole (`CumulativeGbf`) and in its turn (`Session`).

### OnlineXor

A producer is a thread `online_apport_receiver` or `online_apport_sender` of a
link; `next` and `owes` are its program counter: which of the queues it is at,
and whether it stands between `push` and `notify`. `Push` is the critical
section of `turn[i]`, `Notify` that of the semaphore. `Wait`, `Resume` and
`TakeTicket` are `semaphore::wait` as written: one test of `count_`, a wait
without a loop, and `--count_` on an unsigned number (modulo `CountMod`).
`Fetch` is `front()`, outside the lock; `Xor` is one iteration of the loop over
the segment, one cell, without a lock; `Pop` is the end of the loop body, the
locked `pop` and the test of `count<num`. A race of `front()` with `push()` on
the same deque is read as returning the front element: `push` adds at the back
and does not move elements. On an empty queue the consumer goes to
"undefined" and stays there. `Join` is the join in `main` followed by the
deletion of the queues and strings. `SpuriousSpec` adds wakeups without a
notification.

### CumulativeGbf

`Write` is a turn of the loop in `write_as_a_sender` (any part is accepted),
`Read` a turn of that in `read_as_a_receiver` (any part that has arrived),
`Lock`/`Load`/`Store`/`Unlock` are `XORchunk` and `XORchunk_limited`, with the
update of a cell split so that a lost update can be seen. The cells of a block
are whole: a read that ends within a block is the same as one that ends before
it, because the next read goes on at that byte. The bytes of a Pi are identified by
Pi and cell, so a misplaced block shows.

### Apport

One run of the OT receiver of one link for arbitrary inputs: every choice vector
with `numOfOnes` ones, every sub group of a size in `SubSizes`, every Bloom
filter. The Bloom filter does not depend on the link, so it is chosen in `Init`.
`Move` is one turn of `compute_R_r`, `Collect` one of `get_zeros_ones`,
`ShuffleStep` one of `shuffling` (for each vector a thread; any random number),
`Arrange` one of `arrange_indexes_thread` for each of the two threads. A read
outside a vector is undefined in C++: here it gives garbage or ends the process.
A vector of fewer than two places ends the run at "trapped": its shuffling thread
takes a remainder by zero or swaps the first element of nothing.
`SenderCheck` is what the peer concludes from `R` and `r`, at any time after
they are sent.

### Session

Per link, `snd` and `rcv` are the program counters of the thread of the OT
sender and of that of the OT receiver, `toR` and `toS` what is on the wire; per
process, `phase` is where `main` is. A message is written in one step (a write
that the peer does not read yet stays in the channel: its size against the
socket buffers is not modelled, and no reader depends on a writer that waits).
Each check passes or fails freely; a failing one ends the process in that step.
`StuckSnd` and `StuckRcv` are threads whose peer is gone: `read` returns 0 and
the loop never ends. `SigPipe` is a write to a reset connection, which may or
may not happen before the peer's end is noticed.

### Setup and SeedAgreement

An end of a connection is `<<player, slot>>`, where the slot names the array
(`P0_s`, `receivers`, `senders`, or `recv`) and the index that the code uses.
`Listen` is `init_sender` up to `listen`, `Accept` its last line, `Connect` is
`init_receiver`: a client is connected as soon as somebody listens at the port
it computed, whoever that is and before that one accepts. `at` is the program
counter of a constructor: it opens one socket at a time. P0 opens its sockets in
threads of their own. All ports are on one host here, which is the worst case
(`ip.txt` has 127.0.0.1 for all): `bound` finds a port that is asked for twice.

`stage` is what the main thread of a player is at, `busy` the threads of the
stage that still run. A thread that reads waits for its message; those that
write never wait (their messages are a few bytes) and use different sockets, so
those of one player are one step here, which may come at any time in the stage.
`WriteSeeds` reads the seed through the pointer that the threads were given;
`Agree`, after the join, changes it. What a liar sends is a commitment that does
not belong to its seed. The functions of P0 and those of a Pi differ in the
places of the arrays and in when the seed is drawn, and are one action each.

### Blocks, BloomFilter and Codewords

A block is a set and XOR is symmetric difference: of bits in `Codewords`, where
random blocks take every value, zero too; of atoms in `SeedAgreement` and `PSImple`,
where random blocks are different from each other and from zero. `Hash` is one
turn of the loop in `bf_thread`. `Fill` and `LeaveOut` are one turn of the loop
over the items in `re_randomization`, `FillRest` the last loop. The code
takes a cell with a block of zeros for free, and may write it again, after which
the items that have this cell have lost their codewords (that happens with one
block in 2^128). The history variable `zeroed` remembers these cells, and an item
with one of them is `Spoiled`: `CodewordsHold` and `LeftOutWhenCovered` show that
no other item is harmed, and that a zero never makes `re_randomization` give up
an item that is not covered. A second copy of an item in a data file has the same cells: `LeftOutWhenCovered`
shows that it is left out, and harms nothing.

### PSI and PSImple

`PSImple` follows the GBF of every party. `acc` is `synchGBF::GBF`, at first what
the heap had; `Offline` puts the share in, with three parties or more; `Online`
puts in, per cell and link, the string that the party knows for its own bit
(for each link, the sender's and the receiver's strings are equal just when
their bits are); `Send` is a Pi's re-randomization and its last message;
`Receive` adds a filter to that of P0; `Output` prints the items that sum to
zero. `HeldByP0` is what P0 has of all these blocks: its keys for every Pi
(`Functions.cpp:1321-1328`), the strings it made as OT sender, and those it chose as
OT receiver. `OnlyTogether` says that, while the filter of one Pi is missing, no
XOR of cells of the others' filters is an XOR of such blocks: P0 has nothing to test
an item with, be it one of a single Pi. (With keys shared between P0 and each Pi
only, the mutant `Share_WithP0Only`, it could.) `Sure` and `Possible` are the bounds of `PSI`, stated from the data alone:
the items of all parties that no Pi leaves out, and the items of P0 whose cells are
set in the Bloom filter of every Pi. The gap is real: with
the cells {0}, {1} and {0,1} for the items 1, 2 and 3, P0 prints 1 when it and one Pi
have it and the other Pi has 2 and 3 only.

## Runs

| Run | Bounds | Shows |
|---|---|---|
| `OnlineXorP0` | 2 links, 2 queues, 2 cells; symmetry in the links | `TicketMeansSegment`, `SemaphoreCountsSegments`, `JoinedMeansComplete` |
| `OnlineXorPi` | 1 link, 3 queues, 4 cells | `ExclusiveCells`, `SleepersAreAwaited`, `PhaseEnds`, the refinement `Accumulates` |
| `OnlineXorSpurious` | 1 link, 1 queue | violation of `TicketMeansSegment` |
| `CumulativeGbf` | 2 Pis, 5 cells, chunks of 2 | `NoStaleStore`, `StreamAligned`, `Completes`, `Accumulates` |
| `Apport` | 7 OTs, 3 ones, 5 cells, sub groups of 2 and 3, tolerance 1 | `BitsFollowIndexes`, `TargetInPlace`, `VerdictIsTruth`, `FuncSound`, `StopsOnlyWhenShort` |
| `ApportOverrun` | the same | violation of `ReadsInVectors` |
| `Session` | P0 and 2 Pis | `MessagesInStep`, `OutputOnlyAfterChecks`, `FilterOnlyAfterChecks`, `OrderlyClose`, `RunCompletes` |
| `SessionAbort` | P0 and 1 Pi | violation of `AbortStopsSession` |
| `StepTwo` | 4 parties, at most 1 liar | `SocketsMeet`, `PortsApart`, `CommonSeed`, `LiarsNoticed`, `SharesCancel`, `StepTwoEnds` |
| `Codewords` | 0 to 3 items, 2 threads and the one with the rest, 3 cells, every hash table, blocks of 2 bits | `ItemsApart`, `FilterComplete`, `CodewordsHold`, `LeftOutWhenCovered` |
| `PSImple` | 3 parties, every list of up to 3 different items each, 3 cells, 5 hash tables, dirty memory | `OnlyTogether`, the refinement `ImplementsPSI` |
| `PSImpleTwoParties` | 2 parties, memory dirty or not | violation of `NothingMissing` |

Why the bounds are enough. (They matter for liveness and for the absence of
deadlock; what the runs show of safety is proved for all bounds.) In `OnlineXor` the queues only meet in the filter and
in the order in which a producer visits them: two queues and four producers give
every order of pushes, notifications and tickets at one queue while another is
ahead or behind, and a filter that the number of queues does not divide gives the
longer last range (the code's 4 queues and 64733 cells have it too). In `CumulativeGbf` two full chunks and a
remainder run the loop, its end and `XORchunk_limited`; two threads are what a
lost update takes. In `Apport` the sizes make every outcome happen: a refused
sub group (3 > 7 - 5), a sender that aborts, vectors long enough, too short for the
filter, and too short to be shuffled; a sub group of two that overlaps the tail
of the array to which it is moved. In `Session` a second Pi is what lets a failure
on one link meet threads of other links; a third would be like the second. In
`StepTwo` there is a party that accepts two others, one that connects and
accepts, and one that only connects; places below and above one's own number
occur in each array. In `Codewords` ranges are empty (fewer items than threads),
of one item, and of the rest; items are apart, overlap, contain each other, or
are covered by two others. In `PSImple` three parties are the fewest with a proper
subset of Pis; every order of the items occurs at every Pi, because what is left out
depends on it. The five hash tables stand for all with three cells: apart, one
item covered by two others, each two sharing a cell, two items with the same cells,
one inside another. There the memory is always dirty: where it is cleared first
its content makes no difference, and where it is not, zeros would hide it.

Fairness. `OnlineXor` and `CumulativeGbf` assume weak fairness of each thread
(threads of one process, run by the operating system) and of `Join`. A mutex is
held for a bounded loop and, with weak fairness of the waiting thread, is taken
when it stays free; in the run every other thread eventually stops asking for it.
`CumulativeGbf` and `Session` assume that what is written arrives (TCP between
live hosts). `SeedAgreement` assumes only that the whole goes on while some
thread can take a step (`WF_vars(Next)`): every step is progress, none can be
repeated for ever, and the one loop of the code that waits actively, around
`connect`, is a guard. Nothing is assumed of the checks, of `SigPipe`, or of spurious
wakeups. `RunCompletes` is conditional: P0 ends *or* some process failed.

Deadlock is checked in every passing run; the final states of the models stutter
explicitly (`Terminated`, `Done`, `Quiet`). `CHECK_DEADLOCK FALSE` stands only in
`OnlineXorSpurious`, where the program may stop in the state the run is about.

## What the violations show

* `OnlineXorSpurious`: `semaphore::wait` (`Functions.h:49`) uses `if` where the
  condition variable needs `while`. A spurious wakeup wraps `count_` and lets
  `run_xoring` call `front()` on an empty queue. The repository calls it a
  "semaphore for notifying if there are waiting segments to xor"
  (`Functions.cpp:809`). Without spurious wakeups the discipline is sound, which
  is proved.
* `ApportOverrun`: `operator[]` does not throw, so the handlers for
  `std::out_of_range` (`Functions.cpp:111-114, 131-134`) are dead code and the
  arranging threads read outside the vectors before the check at line 169.
  `StopsOnlyWhenShort` shows that this needs a filter that really lacks zeros
  or ones (it says nothing of the runs that end at "trapped"), and `FuncSound` that
  such a run never sends its function.
* `SessionAbort`: the read loops (`Party.cpp:184-188, 209-213`) ignore the end of
  the stream, so "session has been stopped" (`Party.cpp:425`) is true of the
  process that prints it only; its peer spins for ever.
* `PSImpleTwoParties`: `secret_sharing_aes` is not run for two parties, and it is the
  one place that initialises the GBF. The strings are XORed into uninitialised
  memory, the sums over an item contain it, and the item is not printed. With the
  shipped `Nbf` the array is so large that it comes in fresh pages, which are zero
  on Linux; with a small one, or on another system, it need not.

## What is proved

Every safety invariant that a passing run checks is also a theorem, for every
value of the constants that its assumptions allow; so are the refinement of
`PSI` and the safety part of the two refinements of `Accumulation`. The proofs
are in the `_proofs` modules. Each has the shape: an invariant `IInv`, a lemma
per action that keeps it, `Spec => []IInv`, and the theorems as its consequences.
The strengthenings below were checked by TLC on the bounds of the runs first.

Three definitions of the models have the form they have for the proofs' sake:
`Filters` (`PSImple`) is a recursive function and not a `RECURSIVE` operator, and
`Filled` (`Blocks`) and `With` (`Setup`) are written out as functions instead of with
`:>` and `@@`. Induction over items and
indexes goes by the least number at which a claim, given as a set, would fail
(`CountUp` in `Blocks_proofs`), because the library's induction theorems take an
operator as a parameter. `Xor` is the parity of the number of occurrences, so its
laws (`SumOfSame`, `SumOfSums`, `XorApart`, `FilledSum`, ...) are about
cardinalities of symmetric differences.

| Theorem | States | For every |
|---|---|---|
| `OnlineXor_proofs!TypeCorrect`, `NoEmptyFront`, `SemaphoreExact`, `NoSharedCell`, `NothingMissingAtEnd`, `NoLostWakeup` | `TypeOK`, `TicketMeansSegment`, `SemaphoreCountsSegments`, `ExclusiveCells`, `JoinedMeansComplete`, `SleepersAreAwaited` | finite set of links, `Nbf`, number of queues, counter width above the number of segments |
| `OnlineXor_proofs!AccumulatesSafely` | `Abstract!Safe` | the same |
| `Apport_proofs!ApportTypes`, `BitsFollow`, `BiggestFirstSuffices`, `SentFunctionSound`, `SenderJudgesOnes`, `StopsForNeed` | `TypeOK`, `BitsFollowIndexes`, `TargetInPlace`, `FuncSound`, `VerdictIsTruth`, `StopsOnlyWhenShort` | number of OTs, filter, sub group, choice vector, shuffle |
| `CumulativeGbf_proofs!TypeCorrect`, `NoUpdateLost`, `StreamStaysAligned`, `HandedOverComplete`, `NoDeadWait` | `TypeOK`, `NoStaleStore`, `StreamAligned`; after the join nothing is missing; no thread waits in vain | finite set of Pis, `Nbf`, chunk size |
| `CumulativeGbf_proofs!AccumulatesSafely` | `Abstract!Safe` | the same |
| `Session_proofs!TypeCorrect`, `BytesForTheirReader`, `CheckedBeforeOutput`, `CheckedBeforeFilter`, `NothingUnreadAtClose` | `TypeOK`, `MessagesInStep`, `OutputOnlyAfterChecks`, `FilterOnlyAfterChecks`, `OrderlyClose` | non-empty set of Pis |
| `SeedAgreement_proofs!TypeCorrect`, `SocketsAlwaysMeet`, `AllTheSameSeed`, `LiarsAreNoticed`, `SharesCancelOut` | `TypeOK`, `SocketsMeet`, `CommonSeed`, `LiarsNoticed`, `SharesCancel` | number of parties and of liars |
| `SeedAgreement_proofs!PortsStayApart` | `PortsApart`, `PortsFit` | number of parties up to 239 |
| `Codewords_proofs!TypeCorrect`, `ItemsStayApart`, `FilterIsComplete`, `CodewordsSurvive`, `LeftOutForCover` | `TypeOK`, `ItemsApart`, `FilterComplete`, `CodewordsHold`, `LeftOutWhenCovered` | number of items, threads, cells and bits |
| `PSImple_proofs!TypeCorrect`, `SharesHide` | `TypeOK`, `OnlyTogether` | number of parties (with two, `OnlyTogether` says nothing: no Pi is missing while another is there), items, cells, hash tables |
| `PSImple_proofs!ProtocolImplementsPSI`, `PrintsAllSure` | `ImplementsPSI`, `NothingMissing` | the same, with three parties or more |

Assumptions. Those on constants are named in the modules and say what the
program takes for granted (sizes are positive, there is a Pi, and so on).
`CountModAssumption` is met by the code's `unsigned long` against `(parties-1)*2`
segments; `FreeAssumption` says that the mark of a free mutex is no party. Two
theorems have a hypothesis of their own, and it is needed. Up to 239 parties a
port of step 2 fits in 16 bits, and among 501 two would ask for port 8001. With
two parties the program does not implement `PSI`: that is the run
`PSImpleTwoParties`.

**OnlineXor.** None of the invariants is inductive. `SemaphoreCountsSegments`
gives a non-empty queue to the holder of a ticket, but that a consumer is woken
only with a count to take is `WakeMeansCount`. `served` stays within its type,
and a consumer ends with its last segment, because pushes are counted: the
producers that have pushed to queue *i* are as many as its segments plus those
served (`PushesServedOrQueued`), and there are only `Num` producers. `count_`
does not wrap because it is bounded by the length of the queue, hence by `Num`.
That a consumer stays in its range needs the ranges of the queued segments
(`RangesInPlace`) and of the cursor (`CursorInRange`); that ranges of different
queues are disjoint and lie in the filter is arithmetic on
`jump = Nbf \div NumQueues`. `CInv` adds what the cells hold: a producer has at
most one segment in a queue (`OnceInQueue`), and a cell has the strings of the
segments that were popped, and below the cursor the one that is being worked on
(`Contents`). From this each `Xor` adds a string that was missing, which is the
step of `Accumulation`, and the join finds all. A consumer that sleeps has
served all that was pushed, and fewer than `Num` segments, so somebody has still
to push there or to notify: no wakeup is lost.

**Apport.** Four layers. `OInv` is about the moves and the vectors. `TargetInPlace`
is not inductive: a swap of `sub_group[step]` with `ind` leaves the later targets
alone because they are smaller than both, and that `sub_group[step] <= ind` still
holds after `ind` went down by one is where the descending order is used
(`MovesInOrder`, which also says that the elements moved so far stand at the end
of the array). `BitsFollowIndexes` then makes `get_zeros_ones` collect places of
the right bit, once each (`Places`), and shuffling keeps that. `AInv` adds the
arranging threads. `CellsTaken` says which element of a vector each arranged cell
was given (`Taken`: those that the thread's place has passed), `CellsDistinct`
that a thread used none twice, and both are void once a thread has read outside
a vector; then its place is beyond the end and stays there (`OverrunShows`). At
the end, threads that have not crossed have disjoint `Taken` sets and neither is
beyond an end, so the test at `Functions.cpp:169` refuses every run with an
overrun and every run in which the two threads met (`SentIsSound`). That the
elements are unopened is a counting argument: the sorted sub group of `Ncc`
different elements of `C` is all of `C`, it stands at the end of the array, and
the indexes are distinct (`VectorsUnopened`). `AnswerInv` ties what is sent to
what was opened: `R` names every opened zero once, `r` answers for just those, so
what the sender counts is the number of ones (`SenderJudgesOnes`). `ShortInv`
counts: every unopened index is collected, and the place of a thread in a vector
is the number of cells of that bit which it has arranged; a place outside the
vector, or two threads that crossed, mean more cells of a bit than indexes
left (`StopsForNeed`).

**CumulativeGbf.** `NoStaleStore` needs the mutex to be the right one: a thread
between `lock()` and `unlock()` holds that of its own chunk (`HoldsMutex`), a cell
belongs to one chunk (`ChunksDisjoint`, with the remainder), and the counters of
the loops stay where they belong (`InItsChunk`). `StreamAligned` needs that the
bytes taken from the socket end where the chunk's buffer ends (`StreamPosition`),
after a partial read, too (`BufferFilled`). `Contents` says which blocks are in a
cell; it makes `Store` the step of `Accumulation`. For `NoDeadWait` a taken mutex
has an owner inside its chunk (`MutexOwned`), and one that holds a mutex waits for
nothing.

**Session.** A link has no tags, so that each read finds what it expects depends
on the other end's program counter, through two processes. `MailToR` and `MailToS`
give the content of a channel as a function of the two counters; `SndFitsPhase`
and `RcvFitsPhase` tie a thread to the phase of its process. `Vouches` says which
checks the place of a thread vouches for, its peer's as well: who took the
function of a link knows that the receiver passed its offline checks on *all*
links, because it joined its threads before it sent that message. So
`FilterOnlyAfterChecks` and `OutputOnlyAfterChecks` go along the messages. A thread
is stuck only when its peer's process is gone (`StuckOnlyAlone`).

**SeedAgreement.** `SetupInv` lists what may be bound, connected and accepted at
each place of a constructor; that two listeners differ in their ports is arithmetic
on `q * parties + p`. `MailInv` gives the content of each socket as a function of
the stages and threads of its two ends, so a thread finds the message for it, and
`ArraysInv` says that the message goes to the place of its writer, below and above
one's own number. `PlayerInv` holds the seeds. `SharesCancelOut`: a key of a pair is in
the shares of those two parties and of no others (`ShareBits`).

**Codewords.** The ranges of the threads are in order (`RangeOrder`) and cover all
items (`RangesCover`). The invariant of `re_randomization` is that the empty cells
are those that belong to no earlier item, and perhaps some that were given a block
of zeros (`FillInv`): so any other cell that was written is never taken for free,
and the codeword of an item without a zeroed cell is never touched again.

**PSImple.** After its online phase, the filter of party *p* is `Base(p)`: its share
and one string per link. `re_randomization` runs item by item, and `FoldInv` is what
holds after *i* items: the used cells are just the filled ones, they are made of
what was in cells of the Bloom filter and of fresh blocks, a block that is still to
be drawn is in none of them, the codewords are kept, and the cells are `Independent`
for every other Pi *r*: of any cells, one has a random block, or the key of a cell
that *k* shares with *r*, which none of the other cells has. An item with cells that
are still empty gives each of them but one a new random block, and the last one the
rest of its codeword, with the keys of all these cells, which no earlier item had. Of that follows
`ReRandomizes`, all that the rest needs to know of a sent filter. `AccInv` says that
what P0 sums up over an item is `Base(0)` and the filters received. For an item that
all have and nobody leaves out every atom then occurs twice (`SureCancels`). For an
item with a cell outside the Bloom filter of some *k*, the string of P0 for a one of
that cell on the link to *k* remains, since *k* knows the one for a zero
(`ZeroIsPossible`). When some Pi *r* is missing,
take any cells of the filters that are there, and a *k* to which some of them belong:
what `Independent` gives for *k* and *r* is in exactly one of the cells of *k*; no other
Pi but *r* has it, nor has P0; so it stays in the sum (`SomeAreNotEnough`).

Only model-checked: the liveness properties `PhaseEnds` (`OnlineXor`), `Completes`
(`CumulativeGbf`), `RunCompletes` (`Session`) and `StepTwoEnds` (`SeedAgreement`), and of
`Accumulates` the promise that the filter is handed over: the prover has no rule for
fairness and `ENABLED`. `SleepersAreAwaited` and `NobodyWaitsInVain` are the parts of
them that need no fairness, and are proved. So is freedom from deadlock of the other
modules: it is checked in every run, and proved in none.
The properties with an expected violation are no theorems of the models.

## Plan

Modelled and checked: every step of the protocol, from the first socket to the
output; proved: the safety invariants and the refinements. What is left:

1. What the deadlock check shows, for every number of parties: in `SeedAgreement`
   somebody can go on until all have agreed (the mesh of blocking accepts and reads
   has no circle), in `Session` a thread that waits has a peer that will send, or
   is gone.
2. That no step is repeated for ever: a measure that each step of `OnlineXor` and
   of `SeedAgreement` makes smaller, which is the other half of `PhaseEnds` and
   `StepTwoEnds` and needs no fairness either.
3. What the composition of the modules takes from its parts, stated as theorems
   about the operators that `PSImple` shares with them (`Codewords` and
   `ReRandomized` do the same to an item).

## Not modelled

The OT extension and what `kos.cpp` does with it (external: `Session` has the place
of the call in the order, `Apport` its result as an input), AES and the generator of
random numbers (atoms and free choice; so also the race of two threads on one
generator, `Functions.cpp:877`), the loop of `get_sub_group` that draws until it
has enough different numbers (it ends with probability one only, and beyond its
reserve reads unknown memory), the sizes of socket buffers, memory management
except where a read after the join would see freed strings and where memory is
read before it is set, the parsing of the files that are read at the start
(`get_values` and the like: the items are free inputs) and the
reports that are written, `util.cpp` and the code that nothing calls (`Lock`,
`XORsimple`, `XORordered`, `XORorderedBF`, `check_if_to_abort2` with
`if_disjoint_sets`, `re_randomization_zero`).

`ImplementsPSI` is about safety: that P0 comes to its output is `RunCompletes` in
`Session`, and here that a run never stops before it (no deadlock, and `TypeOK`
has an output of a P0 that is done).
