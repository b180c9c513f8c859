# GolangNotes in TLA+

The repository is a collection of small Go programs with the notes that explain
them. Its core is concurrency: some thirty programs that show one way each for
goroutines to share something - a bank balance, a mailbox, a buffer, a
dictionary, a counter, a channel - and to be waited for. These specifications
model those programs, say what each of them relies on, and check it for every
interleaving. Paths below are relative to the repository's root; modules are in
this directory.

## Inventory

Every program has a `main` and package-level or captured variables, and the
process ends when `main` returns or a goroutine panics. Only two programs leave
something behind, files. No component calls another one. What the concurrent
programs share is a shape: `main` launches goroutines, they work on shared
state, and `main` joins them with a `WaitGroup` or with one receive per
goroutine from a buffered channel `sign`.

| component | source | state | operations | what is hard | what makes it correct |
|---|---|---|---|---|---|
| mutex accounts | `goroutine/demo_mutex2.go`, `demo_mutex2-copy.go`, `demo_waitgroup0*.go`, `demo.go`, `test_goroutine.go` | `balance`, `mutex`, `wg`, `sign` | `deposit`, `withdraw`, `main`'s launch and join | `balance += value` is not atomic; `Done` inside the critical section; a WaitGroup used for two batches; one function locks twice | no update lost; a join is a barrier; `main` returns |
| RWMutex account | `goroutine/demo_rwmutex.go` | `num`, `balance`, the RWMutex, `sign` | `check`, `deposit`, `withdraw`, `redundantUnlock`, `main` | two fields updated one after the other; starvation; unlock in the wrong mode | readers see whole updates; everyone gets the lock |
| mailboxes | `goroutine/demo_variable_cond.go`, `demo_variable_cond2.go` | `mailbox`, lock, two wait sets, `sign` | send, receive, `main` | stale test after a wake-up, lost wake-up, a write under a read lock | letters one at a time, all delivered |
| Once | `goroutine/demo_do.go`, `demo_once.go` | `done` and mutex of the Once, `wg` | `Do`, the functions, `main`'s examples | racing callers, a panic inside `Do`, a Once used again with another function | one function runs; nobody returns before its end |
| CAS counters | `goroutine/demo_waitgroup.go`, `demo_waitgroup2.go` | `num`, loaded values, `wg`, `sign` | `addNum`, launch and join of batches | stale loaded values, retries | no success lost; complete batches |
| spinning account | `goroutine/demo_TryLock.go` | `balance`, `wg` | `deposit`, `withdrawAll`, `main` | the test is a read of its own | money conserved; both stop |
| ordered goroutines | `goroutine/test_goroutine_order.go` | `count` | `trigger` | start order, spinning | printed in order, all of them |
| contexts | `goroutine/demo_context.go` | `balance`, the contexts' errors and timers | `deposit` and its deferred function, `withdraw`, the timer, four `main` functions | cancellation races with deposits, the deadline and the withdrawal; a cancel function that is thrown away | money conserved; the deposits cancel at the total and only then; `main` leaves; no context or timer is left |
| record buffer | `goroutine/demo_sync.go` | buffer and read offset, `mu`, two counters, `sign` | write, read with retry on `io.EOF`, `count`, `main` | torn records, early readers that spin on the mutex | records whole, none lost |
| block buffer | `goroutine/demo_mutex.go` | buffer, `mu`, `sign`, `protecting` | `Write` of a block's chunks, `main` | interleaved writes without the mutex | whole blocks with the mutex |
| channels | `channel/*.go` | channels, positions of the goroutines | send, receive, close, select | blocking for ever, closing twice, closing with elements inside, select in a loop | each program ends in one way; what is sent arrives |
| pipe and readers | `io/demo.go` | the writer's unread bytes, `closed`, `wg`; what a wrapped reader has left | `Write`, `Read`, `Close`, `main`; reads through five wrappers | a rendezvous in parts; a fixed number of reads | the reader stays to the end; nothing is skipped |
| dictionaries | `map/sync_map.go` | two maps | `Store`, `Load`, `LoadOrStore`, `Delete`, `Range` | racing `LoadOrStore`, panics on wrong types, `Range` over a map that changes | types kept; one winner per key; corresponding answers from both, a missing key included |
| unlocked sharing | `goroutine/test_goroutine.go`, `demo2.go` | the loop variable of `main`, the slice `count1`, `sign` | launch, print, write one element and read all | reads and writes race; the scope of the loop variable depends on the Go version | nothing is printed that `main` has not reached; every goroutine comes to print |
| atomic values | `goroutine/demo_atomic.go` | `atomic.Value`s, the slice `v6`, an `atomicValue` | `Store`, `Load`, `NewAtomicValue`, copies of a box | a stored slice is an alias; a test of the type before the `Store`; panics | panics only where announced; a replica is never seen half made |
| atomic integers | `goroutine/demo_atomic0.go` | one word | add, store, swap, compare-and-swap | subtraction from an unsigned number | both ways to subtract agree at every border |
| virtual cards | `goroutine/test_coroutine.go` | card table, two loop variables, index of the next MAC byte | `AddVirtualNetworkCard` | the indexes of two blocks overlap in one; the table of MAC bytes ends | addresses distinct, every index filed, panic only past the table |
| TLV length | `demo.go` | none | `tlv_length` | lengths of one digit, signs, texts that are too long | the two bytes are the length, or it panics or ends as stated |
| network readers | `net/test_read.go` | the connection, a `bufio.Reader` per call, one buffer for all frames | `Read`, `cmd_dev_allocate_sn_a` | the rest of a reader is lost; lines in parts; errors dropped at the end of the stream | lines in order, whole in lockstep, else lines or their rests; frames whole but the last one |
| files | `os_exec/demo_file.go`, `performance/demo.go` | files that outlive the program | open with flags, write, read back; one profile after another | any call may fail; the program is killed and run again | nothing of an earlier run is taken for this one's; complete files are a prefix |
| system errors | `error/underlying_error.go` | `f` and the files it refers to | provoke, unwrap, classify | one variable for three files | each file that `f` holds is closed exactly once (the end `w` of the pipe never is); errors are told apart |
| panics and defer | `error/test_defer.go`, `test_panic.go`, `test_panic2.go` | the stack with its deferred calls | defer, panic, recover | order, arguments, where `recover` works | what is printed, and in which order |
| closures | `function/test_closure2.go` | the captured `exp` | the closure `nth_power` returns | overflow; calls share `exp` | the power modulo the word, in every call |
| slices and ranges | `slice/test_slice.go`, `array_slice/test_slice2.go`, `loop/test_range.go` | arrays and slices that share them | slice, append, set, range | append writes into a shared array, or not | the comments' values; what is appended to the slice cut off shows in no other |
| concatenation | `string/demo_strcat.go`, `benchmark/strcat_test.go` | the text and its capacity | six ways to concatenate | the work, not the result | linear or quadratic, as the notes say |
| everything else | `flag`, `interface`, `log`, `pointer`, `struct`, `map/test_*`, ... | local variables | language examples | nothing: see "Not modelled" | not modelled |

`PROJECT.json` lists the components with their sources, the hazards line by
line, and for every definition the lines it translates.

## Modules and their correspondence with the code

Statements between two accesses to shared state are one action. A position in a
function is a label in `pc`; the guards of an action are the blocking condition
of the call (`mutex = NoOne`, `sign > 0`, `wg = 0`). Printing is left out,
except where a property speaks of what was printed. A sleep only delays the
next step, so it is no action, unless the goroutine spins.

* **`Account`** models all mutex programs at once: a program is a record
  `[body, value, plan, join]`, where `body[g]` is the sequence of calls of
  goroutine `g` with its deferred calls at the end in the order in which the
  runtime runs them, and `plan` the batches `main` launches and joins. `+=` is a
  `Load` and a `Store`; the mutex is not reentrant and does not check its
  owner; a negative WaitGroup and an unlock of an unlocked mutex panic. The
  record is chosen in `Init` and stays in the variable `program`.
  **`AccountDemos`** has one record per file. Only the branch
  `protecting == 1` is modelled: 1 is the flag's default, and none of these
  programs calls `flag.Parse`, so no other value is possible.
* **`RWAccount`** has the same shape with the RWMutex of package `sync`: `Lock`
  announces the writer (later readers wait) and `Enter` waits for the readers
  inside; `Unlock` admits all waiting readers before another writer.
* **`Mailbox`** models both condition-variable programs; the record says who
  receives, whether through the read lock, and whether the sender broadcasts.
  `Check` joins the wait set and unlocks in one step, as `Cond.Wait` is not to
  miss a signal; `Relock` returns to the test. `Signal` wakes any waiter, the
  longest waiting one among them. **`Slot`** is its abstract specification: post
  and take in turn, and everything is taken in the end. The module ends with the two
  records.
* **`Once`** models `Do` as the notes list it (`sync-once.md:84-100`): fast test,
  mutex, second test, the function, the deferred store and unlock. A phase is
  an example with a Once of its own. **`OnceAbs`** is the abstract one: choose a
  function, run it, only then go on. The module ends with the six phases.
* **`CasCounter`**, **`SpinAccount`**, **`Trigger`** model the programs on
  `sync/atomic`. A load, a compare-and-swap and an addition are one step each,
  and a plain read (`balance == 10000`) is a step of its own.
* **`CancelContext`** models the three concurrent functions of
  `demo_context.go` and the context: `Cancel` and `Expire` set `err` if nothing
  has set it before. `Expire` may happen at any time.
* **`Channels`** interprets scripts over the runtime's channels: a plain send or
  receive is a select with one case; on an unbuffered channel the two sides
  meet in one step; the runtime's check for sleeping goroutines is `Asleep`.
  **`ChannelDemos`** has a script for each program of `channel/`.
* **`RecordBuffer`** keeps the buffer's bytes (a record is two: its body and its
  tab) and the read offset; **`BlockBuffer`** splits `bytes.Buffer.Write` in
  finding the length, growing and copying, because these are what interleaves
  when the flag `protecting` leaves the mutex out, as it does by default;
  **`Pipe`** counts bytes and lets a `Write` and a `Read` meet in `Transfer`;
  **`ConcurrentMap`** runs lists of calls on both dictionaries, with `Range`
  taking the keys first and looking them up one by one. A `sync.Map` holds
  interface values; what an `IntStrMap` returns is converted (`Returned`,
  `Iterated`): a missing key is `""` from it and `nil` from a `ConcurrentMap`.
  `SharedDemos` has the lists:
  `main` of `sync_map.go`, two clients at once, and wrong types.
* **`ContextTree`** models `WithValueDemo`: four contexts below each other, their
  lookups, and what `cancelFunc` of the first one ends.
* **`LaunchLoops`** models what goroutines without a lock may print. The races
  are on machine words, so a read returns a value that was written; whether
  `main`'s loop has one variable or one per iteration is a choice of `Init`, as
  the repository names no Go version.
* **`AtomicBox`** runs the scripts of `demo_atomic.go` and, as the program
  `clients`, several goroutines that call `Store` of one `atomicValue`: its
  tests are one step, the `Store` inside another. **`SliceBox`** is `demo4`: an
  array is named, a slice refers to it, the replica is copied element by
  element, and the readers of the comments load the value at any time.
  **`AtomicInts`** is `demo_atomic0.go` in words of `W` values.
* **`LineReader`** and **`FrameReader`** number the bytes of the stream, so that
  what a call returns is an interval. The peer sends at its own pace and closes
  or resets anywhere. **`Readers`** does the same for the strings of `io/demo.go`.
* **`FileFlags`** and **`Profiles`** are programs with files: each call may fail,
  and `Rerun` starts the program again on what a killed run left. `demo_file.go`
  opens up to seven handles and closes none; `FileFlags` leaves the handles out,
  and nothing is claimed of them. `Profiles` and `OsErrors` have them.
* **`OsErrors`** has one action per call of `underlying_error.go`, the pipe of
  example 1 with both its ends included; the machine chooses the answers. **`Unwinding`** runs scripts on a stack of frames with
  their deferred calls.
* **`VirtualCards`**, **`TlvLength`**, **`NthPower`**, **`Slices`**, **`StrCat`** are the
  computations, loop iteration by loop iteration, in small words where overflow
  matters. `Slices` lets `append` choose its spare room, `StrCat` the growth of
  a buffer.
* **`AtomicDemos`**, **`SharedDemos`**, **`GoroutineDemos`** and **`DataDemos`** put
  programs together that never run together: `running` says which one does,
  each step is a step of that module's `Next`, and the fairness is the modules'.
  A variable with the same name in two of the modules stands for the one of the
  program that runs (`DataDemos` numbers them `v1` to `v8`); the others are
  `Unused`. A property is about the modules it names; its definition lists them.

External code - `sync`, `context`, `io.Pipe`, `bytes.Buffer`, channels - is
modelled from how the programs use it; these definitions are marked external in
`PROJECT.json`.

## Runs

| run | what it asks | bounds |
|---|---|---|
| `accounts` | no update lost (`ExactUpdate`), joins are barriers (`JoinBarrier`), signs stand for finished work (`SignsEarned`), and every program that does not lock twice ends, in the right balance (`EndsInBalance`) | 3 of the 5 iterations: two goroutines of each kind inside and one outside the lock; two batches; the capacity 10 of `sign` |
| `mutex_relocked` | **violated**: `main` of `demo_mutex2.go` exits | 2 iterations |
| `mailbox` | tests still hold when acted upon, no lost wake-up, refinement of `Slot`, `main` exits | one sender, one or two receivers as in the code, 6 letters (5 in the first program) |
| `once` | refinement of `OnceAbs`: one function per Once, nobody returns before its end, everybody returns | all examples in full |
| `atomics` | every success counts (`Conserved`), batches complete, order kept, the deposits cancel a context when they reach the total and only then (`CancelsWhenFull`), programs end | `demo_waitgroup.go` and `test_goroutine_order.go` in full, 9 of 12 goroutines of `demo_waitgroup2.go` in batches of 3, amounts of `demo_TryLock.go` in thousands, 3 of 100 deposits of two amounts, so that the total 3000 is reached early, late, exactly or not at all |
| `spin_empty` | **violated**: the account of `demo_TryLock.go` is empty at the end | as above |
| `context_stop` | **violated**: nobody deposits after the cancellation | `WithCancelDemo` |
| `channels` | programs end, in one way, and deliver | all programs in full |
| `shared` | records and blocks whole (`WholeWrites`), corresponding answers of both dictionaries and one winner per key (`AnswersCorrespond`), the pipe read to its end, programs end | 2 writers and 2 readers of 2 records; 2 goroutines, 2 blocks of a header and a chunk; the pipe's own lengths with three buffer sizes; all calls of `sync_map.go` |
| `goroutines` | readers see whole updates, no update lost (`RWAccount`); an `atomic.Value` shows what was stored; unlocked goroutines print what `main` has reached; all come to their ends | 2 of 5 iterations of `demo_rwmutex.go`: two readers, four writers; 3 unlocked goroutines; 2 clients with 2 stores of any value; 2 readers of the slice |
| `data` | what comes over a connection is in order, and whole where the peer is in lockstep (`ReadsInOrder`), what failures and kills leave behind is clean (`CleansUp`), what is computed, read from strings or deferred is right (`Computes`), addresses are distinct (`CardsDistinct`), nothing else changes (`KeepsOthers`), calls return (`Returns`) | a stream of 9 bytes with lines of 1, 5 and 3 bytes and a reader of 2; frames of 0, 1 and 3 bytes; files run 3 times and 2 times; 7 numbers of cards around 200, 255 and 400; lengths around every border of 0, 16, 256, 4096 and 65536 and the extremes; words of 64 values with exponents and bases at their ends; readers of strings with the code's buffer and up to 5 bytes more; 30 concatenations |

The programs only repeat: what the fourth and fifth iteration of a loop can do
to a lock, a counter or a buffer the first two or three already do to each
other. The bounds are chosen so that waiting sets hold two members, batches
follow each other, loops retry, channels fill up, lines exceed the reader, and
limits are met exactly and passed. The words of 64 values (2^64 and 2^32 in the
code) overflow in the powers and under the differences; no step looks at the
size of a word. `FrameReader` has one bound of another kind: after the end of
the connection the code spins for ever, reading empty frames, and `MaxReports`
cuts that off.

`CHECK_DEADLOCK FALSE` stands where a program really stops early: the double
lock in `accounts` and `mutex_relocked`, and `WithCancelDemo` in `atomics` and
`context_stop` when the random amounts do not reach its total.

Each property of a passing run is paired with a mutation of the code's model
under which TLC finds it violated (`mutants` in `PROJECT.json`): a forgotten
unlock, a sign before the update, a test not repeated after a wake-up, a store
without its comparison, and the like. The mutated forms stand next to the
definitions they replace.

### What disagrees with the notes

1. `goroutine/demo_mutex2.go:25-26` locks the mutex twice; `main` never exits,
   although the notes on mutexes say it does (`mutex.md:99`). The same page
   (`:16`) warns of locking twice.
2. `goroutine/demo_TryLock.go:23` tests the balance after the addition; a
   withdrawal in between makes the account fill up again, and the program ends
   with 10000 (`atomic-operation.md:126` says everything is withdrawn).
3. `goroutine/demo_context.go`: deposits go on after the cancellation
   (`context.md:49` asks that they stop).

## Fairness

`WF` of each goroutine's step and of `main`'s: the Go scheduler is preemptive
and runs every runnable goroutine in the end. A blocked call is disabled, so
weak fairness promises nothing to a goroutine whose lock is taken again and
again. That suffices where each goroutine takes a lock finitely often.
`RecordBuffer` is the exception: early readers take `mu` in a loop until a
writer has written. There `Lock` is strongly fair, because a `sync.Mutex` in
starvation mode (a waiter that has waited for more than a millisecond) is handed
over to the waiter. `Expire` is weakly fair: a deadline comes.

In the sequential programs only three modules state fairness, because only three
promise an end that could fail: a call of `Read` (`Goes` of `LineReader`: the
reader goes on while there is something to read; the peer owes nothing), a call
of the closure, and `AddVirtualNetworkCard`. The composing modules carry over
the fairness of the modules they consist of.

## Proofs

Eight modules hold proofs. Each shows its invariants for every value of the
constants that satisfies the named `ASSUME` of the module it is about; TLC
checked each inductive invariant on the run's instance first, and on the
smallest and empty instances. The last section of `AccountProofs` and of
`MailboxProofs` then shows that the programs of the repository meet the
conditions of the general theorems, for any number of iterations (`DemosSafe`).

`AccountProofs` (`Account`, any goroutines, programs, batches and values):

* `TypeCorrect`: the invariant is inductive by itself; that `wg` stays in `Nat`
  and the counters within their bodies comes from the guards.
* `NoLostUpdate`: under `AllWellLocked`, `Spec => ExactUpdate`. `WellLocked(s)`
  is a condition on the text of a body: every `Unlock` is of a mutex it holds,
  and a `Store` directly follows its `Load` while the mutex is held. Locking it
  twice does not break the condition, it only stops the program; so it holds of
  all seven programs, `demo_mutex2.go` among them. `ExactUpdate` is not
  inductive: it needs `LoadInv` (what a goroutine read is still the balance when
  it comes to store), which needs mutual exclusion in the form `LockInv` (the
  mutex belongs to `g` exactly when `g`'s position in its body says so), which
  needs `LaunchInv` (goroutines still to be launched are at position 0, so that
  launching never moves one back). `HoldsStart` and `HoldsNext` say how `Holds`
  changes from call to call.
* `UnlockIsSafe`: from the same invariant, no goroutine unlocks a mutex that is
  not its own.
* `SignsAreEarned`: under `AllSignLast` (a body signs once, last of all) a sign
  stands for a goroutine at its end, and one at its end has stored and unlocked.
* `JoinsAreBarriers`: under `AllReport` (a goroutine calls `Done`, or signs,
  once, after its stores). `CountInv` says what the counter of the WaitGroup
  and the channel hold: the goroutines of the present batch that have not yet,
  or have, reported. Those of other batches cannot disturb it, because the
  earlier ones have all reported (`BatchesReported`) and the later ones have not
  been launched.

`MailboxProofs` (`Mailbox`, any senders, receivers and letters):

* `TypeCorrect`.
* `TestsHold`, `LettersConserved`, `ImplementsSlotSafety`, all under
  `OneInside`: receivers behind a read lock are alone. This is what makes
  `demo_variable_cond.go`, which writes the mailbox under a read lock, correct;
  with a second receiver it would not be. The invariant is `LockInv` (who is
  inside is told by the labels, and it is at most one), `CheckedStillReady` and
  `sent = taken + mailbox`, which is what maps each `Act` to a `Post` or a
  `Take` of `Slot` and every other step to a stutter.
* `WakeupsReach`: no wake-up is lost, without `OneInside`: it does not matter who
  is inside the lock, only that whoever finds its condition true goes on to act,
  and whoever has acted wakes the other side. The invariant is `NoLostWakeup`
  itself with `WaitInv` (who is on a list is at `wait`). `SomebodyAwake` draws
  the conclusion that not all of them sleep while one could go on.

`OnceProofs` (`Once`, any phases, callers and functions, panicking ones included):

* `TypeCorrect`, for which the WaitGroup must count the callers that remain.
* `ImplementsOnceAbsSafety`: `Spec => Abs!Safe`. At most one caller is past
  `LockOnce` (`MutexInv`), and `DoneInv` says what `done` tells of the past:
  while it is 0 nothing was started but by the caller inside, and when it is 1
  the function has ended. `Start` maps to `Choose`, `Finish` to `Run`, the first
  step of a caller out of its `Do` to `Return`, the rest to a stutter.

`AtomicProofs` (`AtomicDemos`; any numbers of goroutines, amounts and totals):

* `NothingLost`: `Spec => []Conserved`, for the three programs that add. For
  `demo_context.go` the balance is `Funds` and the amounts of those past their
  swap, less the withdrawal; that it never goes below 0 needs `CoveredInv`: once
  a depositor has found the total reached, it stays reached. For the
  counters, `NumInv` says that the number is `increment` times the successes of
  the batches that share it, and `PhaseInv` that only the goroutines of the
  present batch run.
* `JoinsAreComplete`: `main` is past a batch only with the number at its top, or
  with one success of each goroutine. It needs the count of the finished ones
  (`JoinInv`), and that a goroutine leaves only at the top (`TopInv`; the top is
  a multiple of the increment, so a swap never passes it).
* `PrintsInOrder`: `TurnInv`, at most one goroutine has its number in `count`.
* `CancelsAtTheTotal`: also from `CoveredInv`. Deposits are only added and the one
  withdrawal waits for the end of the context, so that a deposit that has found
  the total reached was right; and while the context has not ended, the last of the
  depositors to swap has its test before it.
* `TypeCorrect`; that the balance of `demo_TryLock.go` never goes past `Full` needs
  `Multiple`: it grows in whole deposits, and the test is for equality.

`GoroutineProofs` (`GoroutineDemos`; any `N`, `Launches`, clients, stores, readers):

* `ReadersSeeWholeUpdates`, `NoUpdateOverwritten`, `UnlocksInTheirMode`
  (`demo_rwmutex.go`): `LockInv` says who holds the lock by the positions and
  that a writer inside excludes readers; `AccountInv` that the count and the
  balance are what the writers past each store have made them, and that what
  was read is still there; `JoinInv` counts signs and goroutines at their ends,
  so that all have ended when `main` prints and unlocks.
* `LoadsAsStored` (`demo_atomic.go`): `BoxInv`, per script what has been stored
  when it comes to a step, so that a panic comes where announced; `SliceInv`,
  the replica is complete before it is stored and not written afterwards.
* `PrintsWhatWasReached` (`test_goroutine.go`, `demo2.go`): `LoopInv`, `main` is at
  least as far as each goroutine that runs, and received signs are of those
  that have printed.
* `TypeCorrect`. Its proof corrected the model: the bound on `i` in `TypeOK` of
  `RWAccount` was `3 * N + 1`, which the four calls of `redundantUnlock` pass
  when `N` is 1; the run, with `N = 2`, could not tell.

`SharedProofs` (`SharedDemos`; any writers and readers with any number of rounds,
any goroutines, blocks and chunks, any lengths of the `Read` buffer):

* `PipeIsReadToTheEnd` (`io/demo.go`): `WriterInv` and `ReaderInv` tell by the two
  positions how much of which comment has been taken, so that the end of the pipe
  is found only when all of it has.
* `WritesStayWhole`. For `demo_sync.go` the invariant is `RecordInv`: one goroutine
  is inside the mutex (`SectionInv`), bodies and tabs take turns, and the last
  byte is a body only while the writer inside is at its tab (`ShapeInv`); a read
  has ended behind a tab (`DataInv`); the bytes written and read are two for each
  counted round and those not counted yet (`ByteInv`). For `demo_mutex.go` with the
  mutex it is `BlockInv`: who writes is alone and at the end of the buffer, which
  holds exactly the chunks the goroutines have passed, each behind the one before
  it in its block. `LengthInv`, a sum over the goroutines, gives the length of the
  buffer at the end. Without the mutex (`protecting = 0`) nothing is claimed.
* `WinnersAgree` (`map/sync_map.go`): what a `LoadOrStore` has returned is in the
  dictionary until somebody stores or deletes that key. Of the fixed lists of calls
  the proof uses only that each is a list of calls (`ProgramsTyped`).
* `TypeCorrect`. That a `ConcurrentMap` holds its types only is `TypedInv`: both
  writers test both arguments before they write.

`SharedDemosAssumption` says that the writers write as many records as the
readers read: 5 x 4 and 10 x 2 in `demo_sync.go`. Only the last claim of
`CountersAgree`, that everything written has been read at the end, needs it.

`DataProofs` (`DataDemos`; any stream, ends of lines, size of the reader and lengths
of frames, any numbers of cards, files and runs, any lengths, words, exponents and
bases, any room that `append` takes, any number of concatenations). Its theorems
state every safety and action property of the run `data`:

* `ReadsLinesOrTails` (`net/test_read.go`). For `Read`, `LinesInv`: what the present
  call holds lies behind all that calls have returned (`HeldInv`), less than a
  buffer of the reader behind (`BufferInv`); every result ends with a
  line or with a closed stream (`LineReturned`) and begins in the line it ends (`TailsInv`), which is whole if the peer is in lockstep; and towards a peer
  in lockstep nothing has been sent behind the end of the line that is due
  (`LockstepInv`), so that the reader that each call makes anew has read ahead
  nothing that it takes with it. For `cmd_dev_allocate_sn_a`, `FramesInv`: how many
  frames were shown, by the position in the code, and that what is filled of the
  present one is in its place.
* `CardsFiledApart` (`test_coroutine.go`): `CardsInv` is about the cards of the
  present block and those before: `PlaceInv` says that a card is at the index of its
  block and last IP byte, with the MAC byte of its iteration; `FiledInv`, that every
  index up to the last card has one; `MacInv`, how far the MAC bytes have run. Two
  cards with one address would have to be at one index.
* `LeavesInOrder`. `FlagsInv` (`os_exec/demo_file.go`) gives the contents of the file
  before and after each write, from what earlier runs can have left. `ProfilesInv`
  (`performance/demo.go`): the files before `k` are complete and of this run, those
  behind `k` are as earlier runs left them, and only file `k` can be open.
  Nothing is said of the handles of `demo_file.go`, which are never closed.
  `ErrorsInv` (`error/underlying_error.go`): which file `f` holds, and what has been
  opened, closed and printed before each step; the end `w` of the pipe stays open.
* `ComputesRight`, program by program. `LengthsInv` (`demo.go`): the two texts are
  cut from that of the length, whose digits give its two bytes, for every integer.
  `PowsInv` (`function/test_closure2.go`) is the loop invariant: the power of `base` times
  `result` is the power asked for, for every word and exponent. The power is a
  recursive function; that it is defined by its equation is shown by a least
  counterexample, and what the loop needs of it (`b^(2e) = (b*b)^e`) likewise.
  `ConcatsInv` (`string/demo_strcat.go`) bounds what has been copied by the present
  capacity while the buffer grows, and from below by the square of the length while
  the string is built anew. `SlicesInv` (`slice/`, `array_slice/`, `loop/`) gives
  the window of each slice before each call, and the sums so far. `IntsInv`
  (`goroutine/demo_atomic0.go`), `TreesInv` (`WithValueDemo`), `StringsInv`
  (`io/demo.go`, a buffer of up to five bytes more than the code's) and `UnwindsInv` (`error/`) say what the state
  is before each step of a program that is a script.
* `KeepsTheOthers`, an action property, from `CardsInv` and `SlicesInv`: a card is
  replaced at a seam only; and the array of `slice/test_slice.go` has the same
  elements before and after what is appended to the slice that was cut off.
* `TypeCorrect`, from `CardsInv`, `LengthsInv` and `SlicesInv`.

The proofs changed these models in two ways. The prover does not take a `CASE` whose
branches it cannot tell to be exclusive and total, as the width of a length in
`TlvLength` was, which is now a chain of conditions; and what was put together by
folds from constants (the intervals of example 5 in `Readers`, the statements of
`test_defer.go` in `Unwinding`) is now written out. `Readers` states its properties
of each result of a `Read` in place of the list of those that are not empty, which
says the same. `DataDemosAssumption` asks for words of more than 23 values, since the
first example of `demo_atomic0.go` adds 3 to 20.

`SumFacts` holds what these need about sums over the finite sets of goroutines
(`MapThenSumSet` of the community modules): adding, removing or changing one
summand. That operator takes its elements out of the set in the order of a
`CHOOSE`, and `SumUnique` shows that the order does not matter. The library's
induction theorems take an operator as parameter, which the provers cannot
instantiate, so the inductions are by a least counterexample (`NatMinimum`,
`SetMinimum`, from the well-foundedness of `<`).

Only model-checked:

* Everything about time (`MainExits`, `EndsInBalance`, `Ends`, `Returns`, the
  liveness half of the two refinements): it rests on fairness and `ENABLED`.
* `Mapped!AnswersCorrespond`, the first half of `AnswersCorrespond` (`SharedDemos`). The calls
  it compares are the fixed lists of `main`, without a constant, so that the run
  covers all there is; `WinnersAgree` proves the second half.
* The safety of `Channels` (`TypeOK`, `Delivered`, `EndsOneWay`), whose scripts are
  fixed as well: the run covers every program of `channel/` in full.

## Not modelled, and why

* `os_exec/test_os_exec.go`, `exeSysCommand` and `DumpNetInterfaces` of
  `test_coroutine.go`: child processes and queries of the machine; their
  behaviour is that of the commands and of the system. The call that would start
  a card is commented out in the source.
* `net/test_client.go`: one dial to a server that is not in the repository.
* `error/test_error.go`, `function/test_closure.go`, `test_function.go`,
  `interface/`, `struct/`, `pointer/`, `variable_statement/`,
  `conditional_statement/`, `loop/test_loop.go`, `map/demo_map.go`,
  `map/test_map*.go`, `string/demo_strings.go`, `flag/`, `log/`, `print/`,
  `testing/`: a few lines each that call something and print it. They keep no
  state from one step to another that a property could relate.
* The benchmark functions of `benchmark/strcat_test.go` (70-104) only call the six
  functions that `StrCat` models.
* The handles of `os_exec/demo_file.go`: see `FileFlags` above.
* Examples 2 and 3 of `array_slice/test_slice2.go` print capacities the runtime
  happens to choose.
* The error returns of `NewConcurrentMap` (`map/sync_map.go`): two nil types.
* `count` of `goroutine/demo_rwmutex.go`: a second `main` that nobody calls and
  that repeats the loop of the first.

Two answers of the environment are left open in the models because they depend
on the version of Go or on the machine: which of its two errors for a missing
permission `exec.LookPath` wraps (`OsErrors`), and the scope of a loop variable
(`LaunchLoops`).

## Plan

Done, in this order: the mutex accounts; the mailbox and its abstract
specification; the RWMutex account; Once and its abstract specification;
channels; the atomic programs; the contexts; the buffers, the pipe and the
dictionaries; the unlocked and the atomic values; the programs with files,
connections and errors; the computations. Then the proofs of the programs that
run several goroutines on one account, mailbox, Once, counter, atomic value,
buffer, pipe or dictionary; then those of the readers of a connection, the cards,
the programs that leave files behind, and the computations.

What would come next: `Delivered` and `EndsOneWay` of `Channels`, and the first half of
`AnswersCorrespond`, script by script. They have no constants, so that such a proof would
repeat what the runs have enumerated.
