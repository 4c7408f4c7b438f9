# TLA+ models of the LuckOS kernel

This directory holds TLA+ models of the LuckOS kernel under `src/src`, with
the TLC configurations that check them. LuckOS runs on a single CPU with a
preemptible kernel. The models cover:

- the scheduler, the timer and the interrupt flag;
- the locks (yieldlock, mutex, the keyboard's irq-safe spinlock);
- deferred reclamation of dead threads and processes;
- fork, wait and exit;
- the keyboard driver;
- the kernel heap;
- physical frames, page tables and copy-on-write;
- the thread id pool;
- the linked list and the hash table, together with their unit tests;
- the shell's command line and the text console it echoes to.

`PROJECT.json` is the machine-readable index of the project. It lists:

- every component and its status;
- every run with its cfg and expected result;
- the mutants;
- the source lines each definition models (`map`);
- the findings;
- the hazards, each at the line where it arises.

## The system and how its parts interact

- **Scheduler** (`task/scheduler.c`).
  - `ready_tasks` is an intrusive FIFO of thread nodes, and `crt_thread_node` is the thread on the CPU.
  - `do_context_switch` takes the head of the queue. It re-queues the outgoing thread only if that thread is still `TASK_RUNNING` and is not the idle thread.
  - Waking a thread (`add_thread_node_to_schedule(_head)`) ends with `enable_interrupt()`.
  - `schedule_mark_thread_block` only sets `TASK_WAITING`.
- **Timer and interrupts** (`interrupt/timer.c`, `interrupt/interrupt.c`).
  - `timer_callback` sets `need_reschedule` after `priority` ticks, and `schedule()` switches on the way out.
  - `isr_handler` enables interrupts on entry to every exception (vector below 32), so a page fault is preemptible.
  - The syscall vector 0x80 goes to `syscall_entry` through an interrupt gate (`interrupt.c:81`, type 0xE), which clears IF, and `syscall_handler` never sets it. A syscall therefore runs with interrupts off until something in it enables them: a wake (`add_thread_node_to_schedule` ends with `enable_interrupt()`), a yield that resumes on a path where they are on, or the iret back to user mode, which restores the user EFLAGS with IF set (`thread.c:103`).
  - `context_switch` saves no EFLAGS. A thread resumes with the interrupt flag of the path it left by.
- **Locks.**
  - `yieldlock` is a test-and-set that yields while busy.
  - `cond_var` is a wait queue used under a yieldlock.
  - `mutex` is a yieldlock plus a wait queue.
  - The spinlock, with `SINGLE_PROCESSOR` defined, only masks interrupts.
- **Reaper.**
  - Exiting threads call `add_dead_task`, and `process_wait` calls `add_dead_process`.
  - The clean thread (`kernel_clean_thread`) is woken through `dead_resource_cv` and destroys what is queued.
- **Processes** (`task/process.c`, `syscall/syscall_impl.c`).
  - `process_fork` creates a PCB and clones the page directory (copy-on-write), then queues a copy of the calling thread.
  - `process_exec` rebuilds the threads table around its caller, loads the program, queues a new thread for it, and only then retires the caller through `schedule_thread_exit`, which removes it from the table.
  - `process_exit` returns at once if the process has more than one thread. Otherwise it releases the user pages, becomes a zombie of its parent, and wakes a parent that is waiting for it.
  - `process_wait` reaps a zombie or blocks. It then hands the PCB to the reaper, whose `destroy_process` frees it.
- **Memory.**
  - `kheap.c` is a best-fit allocator with an ordered index of holes.
  - `paging.c` keeps:
    - a frame bitmap;
    - page faults that map fresh frames or resolve copy-on-write with `frame_cow_ref_counts`;
    - the kernel heap's page tables, which every page directory shares.
  - fork, exec, exit and destroy drive the frame accounting.
- **Keyboard** (`driver/keyboard.c`). The interrupt handler fills a ring buffer and wakes blocked readers to the head of the ready queue.
- **Shell** (`user/src/shell.c`).
  - `run_shell` reads keys one at a time and edits the global `cmd_buffer` in place: it shifts the line right to insert at the cursor and left to erase before it, and moves the cursor between the prompt and the end of the line.
  - Enter compares the line with `exit` and `clear`. Any other non-empty line goes to `run_program`, which splits it into the program and its arguments and then forks, execs and waits (modelled in `Process`).
- **Console** (`monitor/monitor.c`). The VGA text buffer of 80 × 25 cells and the cursor `cursor_x`, `cursor_y`, behind `monitor_lock`.
  - `write_char` handles backspace, tab, CR and LF, wraps at column 80, and scrolls at row 25.
  - `monitor_move_cursor` moves by a delta, carrying whole rows with `div`/`mod` from `math.c` (rounding toward minus infinity), and clamps to the corners.
  - `monitor_printf_args` walks a format with `%d %u %x %c %s`. User programs reach it through `printf` → the print syscall, with their string as the format. The shell echoes every key this way, and moves the cursor with the `move_cursor` syscall.
- **Utilities** (`utils/`).
  - The doubly linked list underlies every queue and every bucket.
  - The chained hash table, with its iterator, holds the process and thread maps.
  - The id pool over a bitmap hands out thread ids.

## Modules

| module | models | state / actions |
|---|---|---|
| `Scheduler` | scheduler.c, timer.c | ready queue, `crt`, status/ticks/need_reschedule, `intr` and the flag each thread resumes with; an action fragment per scheduler function, `TimerInterrupt` |
| `Reaper` (EXTENDS Scheduler) | `schedule_thread_exit`, `add_dead_task`, `kernel_clean_thread`, cond_var, yieldlock | one action per statement between preemption points |
| `Process` (EXTENDS Reaper) | fork, exec, wait, exit syscalls, `fork_crt_thread`, `create_new_user_thread`, `remove_process_thread`, `add_dead_process`; the child branch of `shell.c` and `_start` | PCB fields status, parent, threads, children, zombies, waiting_child_pid, waiting_thread_node, exit_code, lock; `tcb->process` |
| `Mutex` (EXTENDS Scheduler), `AbstractLock` | mutex.c | `mutex_lock`/`unlock` statement by statement; refines `AbstractLock` with `INSTANCE ... WITH holder <- Holder` |
| `Keyboard` (EXTENDS Scheduler), `KeyFifo` | keyboard.c | ring buffer, waiting list, reader and handler steps; the buffer refines the bounded FIFO `KeyFifo` |
| `Kheap`, `OrderedArray` | kheap.c, ordered_array.c | memory as headers/footers at abstract addresses, the hole index; kmalloc, kmalloc_aligned, kfree, expansion, coalescing |
| `Cow` | the copy-on-write fault path of paging.c | per-process page contents and ptes, refcounts; the fault handler step by step under preemption; fork and exit step by step too, which over-approximates them (they run with interrupts off and yield only on a contended yieldlock) |
| `Paging` | frame accounting of paging.c, process.c | frame bitmap, per-process pd/pt/pte, cow counts, shared kernel ptes; `KernelTouch`, `MapPage` and `CowFaultFinish` (the copy-on-write fault in two steps, preemptible between them), `Fork`, `Exec`, `Exit`, `DestroyProcess` one step each; used for violation runs only |
| `IdPool` | id_pool.c, bitmap.c as thread.c uses them | bitmap words, the pool lock, creators' program counters, the clean thread's unlocked free |
| `LinkedList`, `SeqLists` | linked_list.c | head/tail/size and node prev/next; every list function; refines `SeqLists` (lists as sequences) |
| `HashTable`, `KvMap` | hash_table.c | buckets as sequences of kv nodes, expansion, the iterator as an operator; refines `KvMap` |
| `Shell`, `LineEditor` | `run_shell`, `run_program`'s tokenizer, `strcmp` | `cmd_buffer` as a function from indices to key codes, `cmd_end_index`, `line_cursor_index`, the last `program`/`args`; one action per key class (`TypeChar`, `Backspace`, `ArrowKey`, `FormFeed`, `Enter`); the tokenizer is the RECURSIVE `SplitLoop`; refines `LineEditor` (a text with a cursor, and the words of the last command) |
| `Monitor` | monitor.c, math.c `div`/`mod` | the cells `video`, `cursorX`, `cursorY`; `write_char`, `scroll`, the decimal and hexadecimal writers and the format loop (`FormatLoop`, RECURSIVE) as operators on a screen record; one action per public call, each one step under `monitor_lock` |
| `Console` (EXTENDS Monitor) | the kernel's callers of the console: `main`'s `monitor_clear`, `print_welcome`, and `monitor_printf` of one number (`interrupt.c`, `paging.c`, `hash_table.c`) | the screen, a ghost `printed` (the conversion and number of the last `monitor_printf`) and a call counter bounded by `MaxCalls` |
| `Terminal` (EXTENDS Shell) | `run_shell` with what it prints: `print_shell`, `clear_screen`, the echo and `move_cursor` of every key handler | the Shell actions, each conjoined with the screen its `printf`/`move_cursor` calls leave (`TermTypeChar`, `TermBackspace`, ...); the output of a program run from the shell is a choice among `ChildOutputs` |
| `UnitTests` | `linked_list_test`, `hash_table_test` | the tests as scripts of calls with the values their ASSERTs expect, run on instances of `LinkedList` and `HashTable` with the code's constants |
| `MCComponents` | composition | disjoint sum of Kheap, LinkedList, HashTable, Mutex, UnitTests, Terminal, Process and Console |
| `MC*` | | model values and definitions for TLC |

Conventions:
- **Steps.** A step is one statement, or a group of statements, between two points where the timer can preempt. Groups are used only where no other thread can observe the intermediate state.
- **yieldlock_lock.** It is one step that takes the lock or yields.
- **One step per operation.** A whole operation is one step where it runs under a lock or with interrupts off: the list and table functions, the heap.
- **Syscall entry.** Every step that enters the kernel from user mode (`SyscallEntry` in `Process`, `FlagAtLock` in `Keyboard`) clears the interrupt flag, and the return to user mode sets it.
- **Paging is an under-approximation.** `Paging` takes fork, exec and exit as one step each. That is the schedule in which none of their yieldlocks is contended, so a violation it finds is a run of the code. A property it found true would not cover the schedules where a fork yields inside `clone_crt_page_dir`, so no passing run uses `Paging`.
- **The shell's handlers.** A handler's `printf` and `move_cursor` calls are grouped into one step with its edit of `cmd_buffer`. While the shell reads keys, no other thread prints: init waits for it, and its children have exited.
- **Failures.** A failed allocation that PANICs in the code disables the action.
- **Undefined behaviour is a nondeterministic choice.** The missing return of `id_pool`'s `expand` returns either value.

## Runs

| run | cfg | result | what it shows |
|---|---|---|---|
| components | `MCComponents.cfg` | pass | See below. |
| keyboard | `MCKeyboard.cfg` | pass | The ring buffer refines a bounded FIFO (`KeyBufferIsFifo`), and every ready thread eventually runs (`ReadyEventuallyRuns`). No blocked reader falls out of reach of the handler (`NoLostReader`), even when the handler's wake loop is preempted and the interrupted thread is switched out. It holds because `read_char` enters through the interrupt gate: the flag that `spinlock_lock_irqsave` saves is off, so nothing can preempt the reader between `spinlock_unlock_irqrestore` and `schedule_thread_yield`. The mutant that enters through a trap gate loses a reader. |
| reaper_leak | `MCReaperLeak.cfg` | violation | Preemption between `TASK_DEAD` and `add_dead_task` drops the thread unreclaimed. |
| reaper_orphan_lock | `MCReaperOrphanLock.cfg` | violation | A dying thread preempted inside `add_dead_task` keeps `dead_resource_lock` forever. |
| process_double_wake | `MCProcessStaleWake.cfg` | violation | With `wait(0)`, two exits queue the parent twice. |
| process_reaped_wait | `MCProcessReapedWait.cfg` | violation | `wait(pid)` on a reaped child passes validation and blocks forever. |
| process_exec_exit | `MCProcessExecExit.cfg` | violation | exec queues the new program before its caller leaves the threads table. A program that exits at once sees two threads, so `exit()` returns. Both threads then retire, and the process is never a zombie (`ExitedProgramLeavesZombie`): the shell's `wait(pid)` never returns. |
| cow_fault_race | `MCCow.cfg` | violation | A fault preempted after dropping the refcount lets the other sharer write in place, and the copy carries that write. |
| cow_exit_free | `MCCowFree.cfg` (module `MCCow`) | violation | A fault preempted after dropping the refcount: the other sharer exits, finds the count at 0, and frees the frame that the faulting process still maps and is about to copy from (`NoFreedFrameMapped`). |
| shell_percent | `MCTerminalPercent.cfg` (module `MCTerminal`) | violation | Typing `%` at the shell: the echo `printf(cmd_buffer + cursor)` reads the line as a format, so the `%` and the character after it are never shown, and the `move_cursor` that follows leaves the screen cursor behind the line cursor (`ScreenShowsLine`). `echo.c` prints its arguments the same way, and a conversion letter after `%` reads a kernel stack word as an argument. |
| paging_frame_leak | `MCPagingLeak.cfg` | violation | `clone_crt_page_dir` leaks the frames of kernel heap pages written before a fork. The page-directory frame also leaks in `destroy_process`, which passes an address where a frame number is expected. |

The components run checks, each component under every sequence of its operations:
- `KheapWellFormed`, `HolesCoalesced`, `AllocationsTracked` and `KheapAssertionsHold`: the heap's block list, hole index and the code's own ASSERTs.
- `LinkedListWellFormed`, and `LinkedListRefinesSeqLists`: pointers implement sequences.
- `HashTableWellFormed`, `HashTableRefinesKvMap` (through expansions) and `HashTableIteratorVisitsAll`.
- `MutexImplementsLock` and `NoLostWaiter`.
- `ShellRefinesLineEditor`: every key `run_shell` handles is a step of `LineEditor` under the mapping of the text to `cmd_buffer[0..cmd_end_index-1]`, of the cursor to `line_cursor_index - 3`, and of the words to `run_program`'s program and arguments. The buffer is never cleared between lines, so this includes that `strcmp` and the tokenizer never see characters left over from an earlier, longer line. The words are defined in `LineEditor` as the maximal runs of non-spaces, so `SplitLoop` is checked against that definition on every line reached.
- `ScreenShowsLine`: after every key, the screen shows the prompt and then the line, with only blanks after them, and the cursor stands at the line cursor. This covers inserts and erasures in the middle of the line, wraps at the right edge, scrolling at the bottom, Ctrl-L, `clear`, and program output.
- `NumbersPrintedExactly`: after any sequence of clears, messages and number prints, the cells just before the cursor hold what the last `monitor_printf` printed. `%d` reads back as the decimal numeral of its int, `INT_MIN` included. `%x` reads back as `0x` and the hexadecimal numeral, with zero and the top nibble included. This holds also when the numeral wrapped at the right edge or scrolled the screen. Both are checked against a reference definition of numerals (`IsNumeral`).
- The process branch: the init process forks a child, which execs a program (or fails to); the program exits, and the parent waits by pid. This runs in every interleaving with the timer and the clean thread, and `ProcessTypeOK`, `ReadyNoDuplicate`, `NoUseAfterFree`, `ReapedExitCode`, `NoLostWakeup`, `ExitSwitchHasSuccessor`, `RemovedThreadRegistered` and `BlockedWaiterReleasedLock` hold. `ExitSwitchHasSuccessor` and `RemovedThreadRegistered` are the ASSERTs of `remove_process_thread` and `process_exit`. `BlockedWaiterReleasedLock` says that a thread blocked in `process_wait` is never switched out while it still holds its process lock. The window between `schedule_mark_thread_block` and `yieldlock_unlock` is closed only because the syscall runs with interrupts off; the trap-gate mutant opens it. This was a run of its own; `MCProcessPid.cfg` still checks it alone on `Process`.
- `UnitTestsPass`: every ASSERT of `linked_list_test` and `hash_table_test` holds. These include the iterator's final index of 3, and expansion at the 13th put rather than the 12th.

Other cfgs are kept to reproduce results that a run above already states or that share its finding:
- `MCProcessNullWake.cfg` (`NoKernelPanic`): `wait(0)` that reaps at once leaves `waiting_thread_node` NULL, and a later exit wakes NULL.
- `MCMutexYdlock.cfg` (`BlockedLockerReleasedYdlock`): the mutex has the block-then-unlock window of `process_wait`. Its lockers are kernel threads, which run with interrupts on, so the timer can preempt them inside it.
- `MCScheduler.cfg` (`ReadyEventuallyRuns` on the bare scheduler).
- `MCIdPool.cfg` (`IdPoolNoLeak`): `id_pool_free_id` clears a bit without the pool lock. When the clean thread frees an id while a creator is inside `bitmap_expand` (after the copy, before the switch), the clear lands in the old array and the id is lost for good. It was a run of its own and gave its slot to `process_exec_exit`, a bug that any shell command can reach.

Every property of a passing run has a mutant in `PROJECT.json`: a plausible bug of the modelled code that TLC catches. For example, the put that expands at `size >= 12` instead of `> 12` breaks `UnitTestsPass`; the load bound of `HashTableWellFormed` still holds under it.

## Bounds

- **Processes and threads.** The process run has init and one child, pids `1..2`, and four user threads: init's, the child's, and one for the program it execs. That is enough for the exec and the program's exit to race each other, the parent's wait and the clean thread. With two execing children the state space is beyond a few minutes of TLC. Two children that exit without exec (a failed exec) are still explored by the `wait(0)` cfgs, with pids `1..3`. Exec's statements before the new thread is queued touch only state of the execing process that no other thread reads, so they are grouped into two steps. The mutex has three lockers, and the keyboard has two readers and a computing thread.
- **Timeslice.** `Priority = 2` lets the timer preempt after any statement. Ticks saturate at the priority, because only `ticks >= priority` is read.
- **Heap.** A heap of two pages that may grow to six, one-unit headers and footers, and blocks of 1, 2 and 5 units and aligned blocks of one and two pages. With these, splitting, front holes, merging on both sides and expansion all happen.
- **Paging** (the leak run).
  - Ten frames, three of them reserved.
  - Two user pages in two page tables, and two kernel heap pages.
  - Three PCB slots, so three-way copy-on-write sharing is reachable.
- **Hash table and list.**
  - The hash table has keys `{0,1,2,4}` and two initial buckets, so keys collide and expansion happens twice.
  - The list model has three nodes in two lists, enough for removing the head, the middle and the tail, and for concatenating.
  - The unit-test replay uses the code's own 16 buckets and six nodes.
- **Shell.** The keys `' '`, `a` and `e`, lines of up to three characters, and the lines `e` and `a` standing in for `exit` and `clear`. These lines have zero to two words, leading, trailing and doubled spaces, edits in the middle, and lines shorter than the previous one.
- **Console.**
  - The screen is 4 × 2 and the prompt is one character (`$`). A line of three characters after the prompt fills a row, so echoing wraps and scrolls, and Ctrl-L and `clear` blank the whole screen.
  - A program run from the shell prints nothing or one character.
  - The kernel-caller branch (`Console`) makes up to three calls on a 4 × 3 screen. The calls are a clear, `a`, a newline, a tab, or a number. A numeral of up to six characters can start anywhere, so it wraps and scrolls, and it still fits in the cells before the cursor. Its samples are 0, 7, -1, -10, 32767 and -32768 for `%d`, and 0, 10, 255, 4096 and 65535 for `%x`.
  - The number writers use words of `WordBits = 16` bits. TLC's integers are 32-bit signed, so 2^31 and `-INT_MIN` cannot be represented. At 16 bits the same boundaries occur: `INT_MIN` negation wraps, and the top nibble is bit 12.
- **Id pool.** Words of two bits, growing from one word to two: the expansion window at its smallest.

## Fairness

- **`KeyboardSpec`** assumes weak fairness of three things:
  - the timer interrupt: the PIT fires periodically, and user code runs with interrupts on (the iret restores IF), so a thread in user mode is always interruptible;
  - each reader's step and each handler step: a thread on the CPU eventually executes its next statement.
- **`SchedSpec`** assumes weak fairness of the timer.
- **The other specifications** are checked for safety only.

## Not modelled

- **Thread setup** (`thread.c`: `init_thread`, `prepare_user_stack`). This is stack layout. `prepare_user_stack` compares an uninitialised `c` (`c != argv[i][j++]`) instead of assigning it. The length it computes is then undefined, and `strcpy` may write above the stack top. This is a memory-layout bug with no state that the models hold.
- **stdlib formatting** (`utils/stdlib.c`, `string.c`). `sprintf` is used only for thread names, which no model reads. `int2str(0)` yields `""`.
- **Parts of the console.**
  - The colour attribute and the VGA cursor port writes are left out.
  - `%u` passes a uint32 to the int32 decimal writer, so values of 2^31 and above print as negative. `Monitor` models this, but no caller prints such a value, so no property states it.
  - What a conversion reads when the caller passed no argument (a garbage stack word) is not modelled. The shell runs type no conversion letter, which is an ASSUME of `Terminal`.
- **exec's reading of files and loading of ELF images**, the file system, the disk and the GDT. This is I/O and boot code. Process keeps only the outcome of the read and of `load_elf`, and the paging model treats exec as releasing the user pages.
- **The user stack bitmap.** No syscall creates a second thread, so its only slot is never contended. After exec the retiring caller clears the bit the new thread was given, so the bitmap under-reports. That would matter only for a thread-creation syscall.
- **The shell's unbounded line.** `run_shell` bounds neither `cmd_end_index` by the 512 bytes of `cmd_buffer` nor `args_index` by `args[32]`. A line of spaces only reaches `exec` with `program` never written. All three are listed as hazards. The model bounds the line at three characters, and `Process` does not carry program names. The arrow-up/down and other keys change nothing and are left out.
- **Multi-threaded processes.** The only second thread a process ever has is the new program's thread during exec.
- **Allocation failure in fork.** `fork_crt_thread` returning NULL leaves the child registered without a thread. This is listed as a hazard.
- **Concurrent faults on one kernel heap page.** `map_page_with_frame` takes only the current process's `page_dir_lock`, but the kernel page tables are shared. The paging model splits only the copy-on-write fault, and the kernel heap's contents are not modelled, so this race is out of its reach.
