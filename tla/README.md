# B-TRON in TLA+

A specification of B-TRON, a BTRON3 operating system in C: a T-Kernel 2.0, managers
of its own, and a windowed desktop. The modules are translated from the code under
`src/`; TLC checks them on small instances, and TLAPS proves for every instance the
properties of the scheduler, the timers, the message and event rings, the windows,
gestures and menus, and that the wait queues of all objects are exact.
`PROJECT.json` maps each definition to the lines it stands for.

## 1. Inventory

| Component | State | Operations | Meets the others through | What is hard, and what must hold |
|---|---|---|---|---|
| Scheduler (`kernel/task.c`, `ready_queue.h`, `task_manage.c`, `task_sync.c`, `klock.c`, `wait.c`) | TCBs, ready queue with bitmap and `top_priority`, `klocktsk`, `ctxtsk`, `schedtsk` | create, delete, start, exit, terminate, priority, slice, rotate, suspend, resume, wait, object lock, `tk_dis_dsp` | every kernel call that makes a task wait or ready | cached answers under calls that hit a task in the middle of another call: caches exact, locks with one holder, no task lost |
| Wait objects (`semaphore.c`, `eventflag.c`, `mailbox.c`, `messagebuf.c`, `rendezvous.c`, `mutex.c`, `mempfix.c`, `mempool.c`) | control block with wait queues, `wid`, `winfo`, wait disable mask | create, delete, give, take; timeout, release, termination and priority change of a waiter | hooks called by `change_task_priority` and `wait_release_*` | no lost wakeup, no overtaking, nothing lost or handed out twice, inherited priorities exact |
| Timers (`timer.c`, `time_calls.c`) and task synchronisation (`task_sync.c`) | timer queue, time, wakeup counts, task events | insert, delete, tick; cyclic and alarm handlers; sleep, wake, delay | callbacks into waits and handlers | callbacks that change the queue under the loop; early, late and forgotten events |
| Subsystems, extended SVC (`subsystem.c`, `klock.c`) | SVC locks, pending and executed exceptions | `svc_ientry`, `tk_ras_tex`, break functions | scheduler | nested locks, exceptions and termination between any two critical sections |
| Messages (`ipc_msg.c`) | a ring, mutex and condition per pid | `snd_msg`, `rcv_msg`, `chk_msg` | process manager | selective receive, one signal for many receivers |
| Process, memory, device and record managers, kernel heap | tables under a mutex; a list of blocks | create, terminate, get, release, open, read, … | messages | table limits, ids that outgrow the table, handles to what is gone |
| SMP core (`cores/core_smp.c`) | tasks and semaphores over pthreads | `slp_tsk`, `wup_tsk`, `wai_sem`, `sig_sem` | host threads | spurious and lost wakeups |
| Event queue (`window/event.c`) | ring of 256 events | `snd_evt`, `get_evt`, `clr_evt` | drivers, main loop | full ring, compaction |
| Window manager (`window/wnd.c`) | z-stack, focus, visibility, three gestures | open, close, raise, hide, cycle; one handler per event type | menus, application handlers that close or open windows during dispatch | list and focus consistent, gestures end, no stale pointer |
| Input method (`tip/tip_ife.c`, `mozc_kkc.c`, `tibetan_dict.c`) | mode, state, letters, clauses with candidates | one handler for every key | keys of the application; the text it commits | clauses and candidates left from an earlier conversion; what is committed is what was typed |
| Editor (`apps/t_editor.c`) | lines, caret, selection, clipboard | insert, delete, join, break, copy, cut, paste, load | input method, menus | positions kept over edits, length limits, stale clipboard |
| Application menu (`window/app_menu.c`) | open menu, submenu, highlighted items | mouse move, click, keys | the editor keeps a copy of its state | a bar that is cleared while a menu is open |
| Tracker, desktop menus, other applications, settings, HMI parts, fonts, graphics, drivers, boot | mostly sequential user interface and I/O | – | call the window manager, send events | – |

The hazards found while reading, each at its line, are in `PROJECT.json`.

## 2. Modules

| Module | Models |
|---|---|
| `Queue` | `include/sys/queue.h`: a doubly linked queue as a sequence |
| `KernelWait` | wait queue order of `wait.c`/`wait.h` |
| `TaskSched` | the scheduler: 20 operations, the object lock, dispatching, the time slice |
| `KernelTasks` | the tasks of the wait objects: what they wait for, their priorities and wait disable masks |
| `WaitObject`, `HookObject` | what objects without and with hooks share: everything that ends a wait from outside, and with hooks what follows for those that stay |
| `EventFlag`, `Mailbox`, `MemPFix` | `eventflag.c`, `mailbox.c`, `mempfix.c` over `WaitObject` |
| `Semaphore`, `MessageBuffer`, `MemPool` | `semaphore.c`, `messagebuf.c`, `mempool.c` over `HookObject` |
| `Rendezvous` | `rendezvous.c`: ports, both queues, calls under way, forwarding |
| `Mutex` | `mutex.c` with TA_INHERIT, TA_CEILING and the chain of priority changes: one call of `change_task_priority` is `change_one`, and `chain` makes the calls it leads to |
| `TimerQueue`, `TaskSync`, `TimeHandlers` | `timer.c`; `task_sync.c` over it; cyclic and alarm handlers of `time_calls.c` |
| `Tables` | searching a table for its first free or matching entry |
| `Subsystem` | `subsystem.c` with the extended SVC lock of `klock.c` and the start of exception handlers in `cpu_init.c` |
| `Managers`, `KernelHeap`, `RecordFile`, `SmpCore` | `proc_mgr.c`, `mem_mgr.c`, `dev_mgr.c`; `libstr.c`; `fs_record.c`; `core_smp.c` |
| `MessageQueue` | abstract: a bounded queue with selective receive |
| `IpcMsg` | `ipc_msg.c`, which implements `MessageQueue` |
| `EventFifo` | abstract: a bounded FIFO with selective clearing |
| `EventQueue`, `WindowManager` | `window/event.c`, `window/wnd.c` |
| `Desktop` | composes driver, event queue, `workbench_process_event` and window manager; its queue implements `EventFifo` |
| `TextInput`, `Editor`, `EditorMenu` | `tip_ife.c` with its engines; the text of `t_editor.c`; `app_menu.c` as `t_editor.c` uses it |
| `MCTaskSched`, `MCMutex`, `MCObjects`, `MCTime`, `MCServices`, `MCDesktop` | instances for TLC |
| `Queue_proofs` | lemmas about queues, loops over them and recursive functions |
| `TaskSched_proofs`, `IpcMsg_proofs`, `Time_proofs`, `Objects_proofs`, `Desktop_proofs`, `Services_proofs`, `Mutex_proofs` | theorems |

`MCObjects`, `MCTime`, `MCServices` and `MCDesktop` hold several components that do
not touch one another; a variable `kind`, fixed at the start, says which of them a
behaviour is about, and the others stay as they are initially. A property speaks of
all of them: `Conserved` is about the events of a flag in one behaviour and about
the counts of a semaphore in another.

**How the state corresponds.** Variables keep the names of the C fields
(`ready_queue.klocktsk`, `wait_queue`, `mb.tail`, …). Queues are sequences, the
ready queue's bitmap a set of priorities, messages, blocks and windows model
values. The lists whose linking is itself at stake are kept as links: the mailbox
(`head`, `mq_tail`, `next`) and the window stack (`next`, `prev`, where a window
is the memory it lives in, so that memory can be used again). Memory that is split
and joined (the variable-size pool, the kernel heap) is the sequence of its areas.

**Granularity.** A T-Kernel call runs between `BEGIN_CRITICAL_SECTION` and
`END_CRITICAL_SECTION`, or with dispatching only possible where it locks an
object, so it is one action, except where the code lets others in:

* a task in an object lock can be preempted, suspended or terminated between
  `LockOBJ` and `UnlockOBJ` (`TaskSched`), and `MemPFix` splits `tk_get_mpf` and
  `tk_rel_mpf` where they enable interrupts;
* `timer_handler` enables interrupts between two events, so a tick is an action for
  its begin, one for each callback and one for its end, with any call in between
  (`TimerQueue`); a cyclic or alarm handler begins and ends separately;
* `svc_ientry` and `tk_ras_tex` are cut at every critical section: a task has a
  stack of frames, each at a point of the call it stands for (`Subsystem`);
* in `IpcMsg` and `SmpCore` an action is what a thread does while it has the mutex;
* in `Desktop` it is one iteration of the loop or one poll, in `TextInput`, `Editor`
  and `EditorMenu` one key, mouse event or menu command.

Calls that are refused (`E_PAR`, `E_OBJ`, `ER_NOSPC`, …) change nothing and are
stuttering steps, so their guards are conjuncts of the actions.

**Abstractions.**

* `TaskSched`: `slicecnt` is a choice whether it has run out, time the rule that
  a timeout may come at any moment; sizes, names and registers are left out. So are
  the links of the free list of TCBs. They matter where a handler terminates and
  deletes the task that executes with dispatching disabled, and that task then ends
  itself (section 5).
* Wait objects: any task that does not wait may be the one that calls, as the others
  may sleep for reasons outside the module; this allows every order the scheduler
  allows. `Rendezvous` gives a call a number that
  nobody holds, where the code counts in 16 bits: the wrap-around is left out.
* `TimerQueue`: times are relative to the last interrupt (`left`, and `elapsed`
  since then); `deadline` is kept beside them, it is what the caller asked for. An
  application's handler may start, stop or delete any handler. `phase` is kept too: a
  time at which the cycle was asked to have a call, ahead while the first call is to
  come. Cycles are positive, as `tk_cre_cyc` checks, and phases are any.
* `Subsystem`: of the handlers only what they call is kept: extended SVCs, break
  functions, exceptions. `tk_def_tex` may come at any place of a call; `forgotten` is
  kept beside the code's variables, what it forgot while extended SVCs of the task
  had it saved. Resource groups and the walk over all subsystems are left out.
* `Managers`, `RecordFile`: bytes are counted, not stored, except in the device
  buffers, whose order is at stake.
* `Desktop`: positions become a choice of the window and of the area that is hit.
  What an application's event handler may do is to change nothing here, close its
  window (as the editor does on Ctrl+W) or open another.
* `TextInput`: a letter is one kana or one Tibetan letter with the keys that give it,
  three bytes in every writing but Wylie's, where it is one; a word is as long as its
  reading. The conversion of romaji to kana and of Wylie to Tibetan is a mark on the
  text (`as`), so that what a text stands for (`of`) can be compared with what was
  typed. The limits are those of the code: the letters a buffer takes, by the way they
  are written (`room`), and the bytes of a text (`bytes`). In the code a clause of 64
  bytes holds 21 letters (20 as katakana or full-width), the buffer of Space (64) takes
  no clause of 21 letters, that of the editor (128) 42 letters, and `reading_buf` 84.
  Which path through the lattice is the cheapest is left open: any path may be. Left
  out are halfwidth letters of 6 bytes (voiced ones), keys that give no letter, a
  letter broken at the end of a buffer, more than `TIP_MAX_CANDIDATES` candidates, and
  the user dictionary.
* `Editor`: a character is one byte long, so the byte offsets of UTF-8 are not at
  stake; scrolling, `is_modified`, saving and the virtual object are left out, a
  file is its lines, none of them longer than `fgets` reads at once.
* `EditorMenu`: where the mouse is relative to the bar is a choice of header, item
  and subitem (two at once where their borders meet); of the editor's copy of the
  menu state only `active_menu` is kept, the only part of it that decides what a key does.

The dispatcher (assembly, not in the repository), the input devices and `pthread`
are external. A condition variable wakes an arbitrary waiter, may wake one for no
reason, and a timeout may consume a signal.

## 3. Runs

| Run | Instance | Shows |
|---|---|---|
| `sched` | 3 tasks, 2 priorities, 2 locks, up to 2 suspensions, slices | ready queue, bitmap, `schedtsk` exact; strict priority; object locks have one holder and exact queues; `klocktsk`; suspensions are counted |
| `mutex` | 3 tasks, 2 mutexes, 3 priorities, nested locking | holders, queues, inherited priorities and ceilings are exact |
| `ipc` | ring of 3, 2 receivers, all masks, fairness | the ring implements `MessageQueue`; with one receiver at a time a message it accepts is delivered |
| `objects` | 3 tasks; 2 bits; 3 messages; 2 blocks; counts to 2; buffers of 0 and 16 bytes; a pool of 8; 2 ports | per object: exact wait queues, no lost wakeup, no overtaking, nothing lost or handed out twice; replies only to the caller that waits for them |
| `time` | 2 tasks, a cyclic handler of four kinds (one with a phase longer than its cycle), an alarm handler, period 2 | the timer queue is exact, ordered and never overdue; no event early, none forgotten; cyclic handlers keep their phase; no wakeup lost; every timed wait ends |
| `services` | 2 tasks with up to 3 frames; tables of 2 to 4 entries; a heap of 14 units; 3 threads | extended SVC locks and break functions exclude each other, no exception is lost, and none is started without a handler but what `tk_def_tex` forgot too early; tables, heap, device buffers, records and hosted semaphores are exact |
| `desktop` | 3 windows, ring of 2, 2 buttons; 2 letters, 4 typed, 2 clauses of 2 letters, buffers of 7 and 11 bytes; lines of 3, 3 lines, clipboard of 5; 2 menus | ring implements `EventFifo`; window list and focus consistent; gestures end; compositions with what they lose, caret and selection, cut and paste, menus |
| `klock`, `mutex_cycle`, `ipc_pair`, `svc_break`, `desktop_stale` | | the disagreements of section 5 |

**Why the bounds are enough.** Three tasks give a holder or an actor, a first
waiter and one behind it, which is what queue order, hand-over, overtaking and
inheritance chains (t1 waits for t2 waits for t3) need; two priorities tell order
by priority from order by arrival, and the mutex has a third for ceilings between
the base priority and the top. Two locks or mutexes are the least with which one
can be held and another waited for. A ring of three wraps around and has a middle
element to take out; three messages fill a mailbox with two of one priority and
one of another. The byte ring of a message buffer wraps within a message, and size 0
hands over without buffering. The pools are of a size that is split into two or more
areas, taken by different tasks and joined from either side. Time-outs shorter and
longer than the cycle of a handler, and a cycle shorter than the timer period, make
events of one tick meet and calls be missed. Three frames are a handler, the call
nested in it and an exception handler on top. Three windows are the least with a
head, a middle and a tail. Four letters with two clauses of two letters make a path with too many parts, a
first part that is too long for its clause, and texts that one buffer or both do not
take; lines of three and three of them make every length limit of the editor bite,
and a clipboard of five is too small for some selections.

The counters that grow without limit in the code have named bounds: `MaxCount`
(suspend requests), `MaxSem`, `MaxBlocks`, `WUP_MAX`, `MaxOdd` (rendezvous numbers),
`MaxIds` (process and device ids), `MaxBytes` (bytes written to devices), `MaxNest` and
`MaxFrames` (nested handlers), `MaxRomaji`. Four constraints keep the state spaces
small, and each is a bound on coincidences: `OneSpecial` (one task at a time has a
slice or several suspend requests, and few others hold locks or are suspended then), `OneMasked` (one task at a time has its
waits disabled), `Nesting` (handlers nest only while exception 0, disabled waits
and exceptions that `tk_def_tex` forgot play no part) and `BeginsWithWord` (a composition
goes on from its first letter only when that is the word's first; the word may still
begin at any later letter). Tasks and windows are symmetric; symmetry is not used in the runs
with liveness properties. `services` is run without the deadlock check because
process and device ids run out at `MaxIds`, and a hosted task that has ended is
not started again.

`Nested` in `mutex` restricts applications to lock mutexes in the order of their
ids: without it they can deadlock, and then the finding of section 5 applies.
`NoStuckGesture` excepts the states after a lost button event: the drivers ignore
the error of a full queue, so such a loss does leave a gesture going.
`RunningReady` excepts the task that a handler terminates while it has dispatching
disabled: it executes on, DORMANT. `ExceptionsKept` excepts exceptions that
`tk_def_tex` forgot while an extended SVC had them saved: its end brings them back, and
then a start is requested for which there may be no handler. `HandlerTimesTrue` excepts
the wait for the first call, which is as long as the phase. `CompositionExact` says that
a text is committed whole where it has room (`HasRoom`); that the readings of the
clauses lose nothing but the end of a first part that is too long is said always. It
excepts what F9 leaves: it makes a clause of the letters but keeps the candidates of
the one before. `CutPasteRestores` asks for the text back where the
lines and the clipboard have room for it, and excepts two cases in which the code does
not give it back (section 5). `HandlesExact` and `RecordsBounded` do not say that
an id or a handle is still of the object it was given for.

**Fairness.** Two runs have liveness. `ipc`: weak fairness of a woken thread (it gets
the mutex, which nobody holds for long) and strong fairness of the timeout of a
timed wait (its deadline `ts` is computed once and does not move). `time`: strong
fairness of the timer interrupt, which stays pending while interrupts are disabled,
weak fairness of the steps of `timer_handler`, and every handler comes to its end.
Nothing is assumed of senders, receivers, wakeups or spurious wakeups.

## 4. Proofs

The assumptions are those of the modules: `NULL` is no task, message or number; the
sets of tasks and of the messages that a mailbox may link are finite (a list of them
ends) and there is a first priority; sizes, periods and limits are
positive; attributes, masks and menus are of their types. There is no bound on
tasks, locks, receivers, messages, ports, windows, buttons or menus, nor on the
lengths of queues. Every proof has the same shape: an inductive invariant, one
lemma for each action (or for a part that several actions share) that it is kept,
and each property a consequence.

* `Queue_proofs`: what `QueInsert`, `QueRemove`, `QueNext` and `Without` do to the
  members and the order of a sequence without duplicates, where the insertion by
  priority puts a task, and that a recursive function over `0..n` is defined
  everywhere (`RecursionExists`), which every loop of the models needs.
* `TaskSched_proofs`: `Invariance` proves the inductive invariant
  `IInv == TypeRest /\ SchedInv /\ KernelLockExact /\ DisabledOK /\ SuspendCounted`.
  The listed properties are not inductive on their own. `SchedInv` relates
  ready queue, `schedtsk` and priorities and is stated over the ready queue as a
  record, so that one lemma per queue operation (insert, delete, rotate, move
  last) serves all actions; it also says what holds while a lock is held, when
  `schedtsk` may differ from the head of the highest queue. Lock hand-over needs
  the exact lock queues, `tk_sus_tsk` and `tk_dis_dsp` need that a task that
  disables dispatching holds no lock, and suspension inside a lock needs that a
  holder is READY or SUSPENDED. `DisabledOK` has two cases: the task that disables
  dispatching is READY, or a handler has terminated it. `TypeCorrect`, `ReadyQueueCorrect`,
  `SchedtskCorrect`, `PriorityCorrect`, `KernelLockCorrect`, `KlocktskCorrect`,
  `RunningCorrect` and `SuspendCorrect` follow.
* `IpcMsg_proofs`: `MailboxCorrect` and `Refinement`. The invariant adds that the
  head never moves (`rcv_msg` shifts instead), so that the contents are a prefix of
  the array; then a send is an append, the shifting loop removes one element, and
  the first match of the loop is the oldest accepted message.
* `Time_proofs`: `TimeInvariant`, for `TimeInv == TimerInv /\ SyncTypeOK /\
  NobodyWaitsInVain`. `TimerQueueTrue` is not inductive: that a cyclic handler keeps
  its phase needs that its next time differs from its phase by a multiple of its
  cycle and is at most one cycle away or the end of the phase itself (`CycleOK`), and that the queue stays exact
  when a callback changes it needs that it is exact in the middle of a tick too,
  where events may be due; only between two interrupts is nothing due. `OnTime` is
  an action property and follows from the same invariant. `TypeCorrect`,
  `QueueTrue`, `NoVainWait`, `TimesTrue` and `StepsOnTime` are the results.
* `Objects_proofs`: `ObjectsInvariant`, for `ObjInv`. Its core, `GcbOK`, says of one
  queue that it holds exactly the tasks in the state WAIT, in order and only where
  waiting is allowed; every path that begins, ends or moves a wait is one lemma, used
  by all objects. Four of them need more. That a flag with TA_WSGL has one waiter is
  inductive only when said of the tasks (`OneWait`); `tk_get_mpf` may queue a task in
  a second critical section because a locked pool is not deleted (`LockedExists`);
  what `mbf_wakeup` frees must come from the queue of senders, while the receivers
  keep theirs (`RecvOK`); and of the ports (`PorOK`) both queues are told apart by
  the kind of the wait, while a caller in neither is tied to its server by
  its number alone. For `RendezvousExact` every number names its caller, and there
  is one in the range that nobody holds (`RdvOK`; counted with the cardinalities of
  `FiniteSetTheorems`); a forwarded caller has room for the reply since the
  length for which it was admitted never grows. `QueuesExact` and `ServersExact` follow.
  Above it `ServInv` adds, for each kind, what it takes that nobody is left waiting
  who could be served. For the flag and the semaphore that is what the loop leaves:
  by induction on its turns, every task passed over is one the rest cannot satisfy
  (`FlgLoop`), and counts kept and counts given add up to those it began with
  (`RelLoop`; the sum over a set of tasks does not depend on the order in which
  `MapThenSumSet` takes them, `TotalAdd`). `WaiSem` needs that
  `gcb_top_of_wait_queue` foretells the head of the queue (`TopIsHead`). `MpfOK` says
  what holds between the two critical sections of `tk_get_mpf` and `tk_rel_mpf`; the
  property of the ports is inductive when said of all tasks instead of the queues
  (`NoneMeet`).
  The other three are about memory. The list of a mailbox is `Linked`: each message
  points at the next, the last at NULL, and without `mpri` `mq_tail` is the last;
  walking the links finds `pending` because a list without repetitions is shorter
  than the walk (`ListLinked`). The ring of a message buffer is `Filled` from an
  offset per message that grows by its header and its body: a new message fits
  into what is free, whether or not it wraps, and overwrites none (`StoreMsg`,
  `ReadMsg`); that no receiver waits while there is a message, and that a sender
  waits only where the first message does not fit, is part of it. The
  pieces of a variable-size pool are addresses in rising order that tile the area
  (`PoolOK`); taking a block splits one, and a block that comes back is joined with both
  neighbours, so that no two free pieces lie side by side and the free queue is sorted by
  size, which makes its last piece the largest (`MergePrev`, `LargestFree`). For both,
  `mbf_wakeup` and `mpl_wakeup` stop only where the first of the queue does not fit
  (`MbfLoop`).
  `TypesKept`, `NobodyLeftWaiting` and `NothingLost` state `TypeOK`, `NobodyServable`
  and `Conserved` for all seven kinds. `NobodyOvertakes` proves the action property
  `NoOvertaking`: a loop that ends at the first task it does not serve serves a front
  part of the queue (`ServesInTurn`), whatever the object, and leaving or moving
  keeps the order of the others.
* `Desktop_proofs`: `DesktopInvariant`, for `DeskInv == RingOK /\ GesturesOK /\
  Stacked(wnd) /\ GestureTypes`. `RingOK` determines the tail from head and count,
  so that the contents are a function of the ring; from it `RingImplementsFifo`
  proves the refinement of `EventFifo`, one step of the ring, the compaction of
  `clr_evt` included, for one of the queue. `GesturesOK` is needed since a gesture ends
  only when the release is taken from the queue: the queued button events lead
  from the level the window manager believes in to the one at the device.
  `Stacked` says that some sequence of the open windows is linked both ways from
  `head`; raising, closing, opening and cycling are proved on the sequence, the
  pointer assignments on what they do to its links. `TypesCorrect`, `StackingExact`
  and `GesturesTerminate` follow. `MenusExact` has an invariant of its own: where the
  bar may stand when it has been cleared. So has `CaretStaysInside`: `EditorInv` says
  that the clipboard is a text and the document is `DocOK`, its lines within the
  array, caret and start of the selection inside them. Every edit is a few replacements
  of lines (`Splice`) with a new caret; for the loops of copying, pasting and loading,
  what every turn keeps, the loop keeps (`StaysIn`). The sizes are any from two
  lines, two columns and a clipboard of one byte on (`EditorAssumption`; 1000, 512 and
  2048 in `t_editor.h` and `t_editor.c`).
  `CompositionKept` is about the input method, by `TipInv`: a converted composition has a
  clause at least, the readings of its clauses flatten to the reading typed but for the
  end of the first part (`ClausesOK`), every clause shows its reading or one of its
  candidates (`Offered`), and where there are several clauses all candidates write the
  reading (`Reliable`). The last is what `CompositionExact` does not say: only a
  composition of one clause may offer longer words (Tab in Tibetan) or candidates of an
  older text (F9). What it rests on is proved for every text: each path through the
  lattice flattens to the whole text and has no part but words and single letters
  (`PathsCut`), so what `at_most_clauses` joins in front is the only part that may not
  fit into a clause (`ClausesFit`); and a text that fits into a buffer is taken whole
  (`TakesAll`), since its first clauses never take more than all of them
  (`FirstPieces`). The dictionaries are finite and their words fit into a clause, as in
  the arrays of the code (`TextInputAssumption`).

* `Services_proofs`: `ServicesInvariant`, for `ServicesInv`, one conjunct for each
  of the seven services, which share no variable. `SvcInv` carries the extended SVCs:
  which locks a task holds follows from the place in its call and from the handlers
  it is in (`HoldsOK`: its own at most, or that of the task it raises an exception
  on, above its own), a lock has a queue exactly while it is held (`LocksInv`), an
  extended SVC that was broken is marked in `execssid` or in what a nested call saved of
  it (`BrokenOK`), and the exceptions that `svc_ientry` hides still count (`Carried` in
  `TexOK`), as `forgotten` when `tk_def_tex` came between. `HeapInv` says that the blocks and the end of the pool tile it without gap or
  overlap, and no free block is beside another or last; `SmpInv` counts the threads on their way
  to a semaphore against its count (with `FiniteSetTheorems`); `ProcInv`, `MemInv`,
  `DevInv` and `FilesInv` tie the tables to the ids and bytes they stand for.
  `ServicesTypeOK`, `ServicesOwnedOnce`, `ServicesDataKept` and `TaskExceptionsKept`
  follow without a bound, `BreakFunctionsExclusive` when a break function that `tk_ras_tex`
  calls makes no extended SVC call: `"self" \notin BreakCalls`,
  as in the run `services`; the run `svc_break` shows what happens otherwise.
* `Mutex_proofs`: `MutexInvariant`, for `MutexInv`: the queues hold the
  waiters and the lists the held mutexes, no task above a ceiling has to do with its
  mutex, and what follows. While a chain of
  priority changes runs, none of the properties holds: the priorities behind the
  last change are right, the ones ahead are not, and one queue may be out of order. What
  holds instead is `Pending`: every task but the one to be changed next has the
  least priority it has a right to (`Least`: its base priority, the ceilings of what
  it holds, the priorities of who waits for what it holds), and everything but
  priorities and the order of queues is as it was. One lemma says that a call of
  `change_one` keeps it (`ChainStep`), another that the chain ends: by `Climbs` a task
  waits for a mutex that comes after all it holds, so the mutexes ahead (`Up`) become
  fewer with every call and `Cardinality(Mutexes) + 1` calls are enough
  (`FiniteSetTheorems`). Every system call is then a few removals and insertions
  around such chains. `Climbs` is what locking in the order of the IDs gives, and the
  theorems assume it (`Nested`, as in the run `mutex`); without it tasks may wait in a
  cycle, and what goes wrong then is the finding of `mutex_cycle`. `MutexTypeOK`,
  `MutexesAreExact`, `MutexPriorityExact` and `MutexCeilingRespected` follow for any number of
  tasks, mutexes and priorities.

A proof about a loop of the code cites what one turn does: `Without` and `Loop`
are recursive functions over the positions of a queue, for which the lemmas are
proved by induction on a set of positions.

Only model-checked: liveness (`DeliveredToOne`, `TimedWaitsEnd`), which this prover
cannot state, and `CutPasteRestores`, which compares what three loops over a text of
any length compute (copy, split, insert): induction over data. Which path
`mozc_lattice_search` prefers is left open in the model, so nothing is said of it.

## 5. Where the code and its documentation disagree

1. `klock`: two READY tasks may hold kernel locks (one is suspended while it
   holds a lock, another takes a second lock, the first is resumed);
   `ready_queue.h` says there is at most one. What the scheduler relies on
   (`KlocktskHolds`, `SchedtskRunnable`) still holds.
2. `mutex_cycle`: `_ter_tsk` runs the mutex hook while the task is unlinked but
   still `TS_WAIT`. In a deadlock over TA_INHERIT mutexes the priority change
   travels around the cycle and links the task into the wait queue again, where it
   stays as a DORMANT task.
3. `ipc_pair`: `pthread_cond_signal` may wake a receiver whose mask rejects the
   message; the one that waits for it sleeps on. (`pthread_cond_broadcast` would
   do.)
4. `svc_break`: the extended SVC lock is taken in `tk_ras_tex` and taken again,
   uncounted, by an extended SVC the break function calls; the return of that SVC
   frees it while the break function is running.
5. `desktop_stale`: `cls_wnd` does not end gestures on its window; the next mouse
   move is applied to freed or reused memory.

Noticed while modelling, and kept as the code has it or left out of a bound:

* Kernel: process ids outgrow the range `ter_prc` and `chg_pri` accept, so the table
  fills up. `slp_tsk` of the SMP core loses a wakeup that comes just before it, and
  `del_sem` there destroys a mutex in use. Two tasks whose break functions raise
  exceptions on each other wait for each other's lock. `tk_def_tex` for a task in
  an extended SVC forgets exceptions that `svc_ientry` brings back, and `setup_texhdr`
  then starts a handler that knows nothing of them, or none. An interrupt handler may
  terminate the running task while it has dispatching disabled (`CHECK_NONSELF` looks at
  the caller's own task only outside handlers, and `tk_ter_tsk` has no test like that of
  `tk_sus_tsk`); when it deletes the task too, the task's own end frees its TCB twice. `chg_mbk` records
  a new size without changing the memory. `del_fil` leaves the records to the next
  file in the slot, and `opn_rec` creates a record also to read it.
* Desktop: the tracker writes through a window pointer that `top_wnd` may have
  refused; the branch of `wnd.c` that drags by the top rail cannot be reached, since
  `find_wnd_at` hits only the tab and the body.
* Input method: letters without room are lost without notice: the end of the first of
  32 clauses, a clause that does not fit into the buffer any more (a shorter one behind
  it is still taken), and with Space a single Tibetan clause of 21 letters. A change of the focus does not cancel the composition, as
  `EVENTING.md:70` and `IME.md:271` say (`wnd.c` and `workbench.c` never call
  `tip_cancel`, `desktop/main.c` and `gterm.c` do elsewhere). F6 to F8 after
  Backspace leave `active_clause` beyond the clauses; F9 leaves candidates of an
  older text, which the next Space commits. In the Japanese modes Ctrl with a letter
  is typed as that letter; Shift+Space and Ctrl+Space toggle the mode before the
  Tibetan popup they are meant for is tested. The key settings are never read, and
  `iput_key` ignores its port. `mozc_lattice_search` keeps one part of speech per
  position, so it is not the exact search over pairs its comment describes.
* Editor: Ctrl+S clears `is_modified` without saving, and the menu's Save clears it
  even when the file cannot be opened. A copy of several lines writes no terminator,
  so the tail of an older text is pasted behind it; the line break at the end of a cut
  text is lost; what does not fit into a line is dropped. Ctrl+N clears the menu bar to
  "first menu open", so the next click before it is painted only closes that menu.
  Ctrl+O opens the submenu in the editor's copy only. The virtual object is inserted
  with a line break inside a line.

## 6. Plan

Done: the kernel's scheduler, wait objects, timers, extended SVCs; managers, record
files, heap and hosted core; messages; event queue, window manager, input method,
editor and its menu. Proved: the scheduler, the timers, the message ring, the wait
queues and the rendezvous, who is served in which order and with what, the desktop
with its event queue and menus, the editor's caret, the input method, the services,
the mutexes.

1. The focus joined with the input method, so that a composition that leaks into
   another window is a run of its own.
2. Tracker and global menu, with the stale window pointer; window geometry.

## 7. Not modelled

Graphics, fonts and generated tables (a third of the source), settings and the
applications beside the editor are sequential code over large data with little
control; drivers, boot and board cores are register-level I/O; `tcpip.c`,
`sys_mgmt.c` and `clk_mgr.c` are thin wrappers over the host; every call of `omgr.c`
returns `E_NOSPT` and `vobj.c` is a table that only grows; the string functions,
the conversion of kana and Wylie are pure functions; resource groups only hand out
ids; the HMI parts hold one value each; queries (`tk_ref_*`, `td_*`)
change nothing; the assembly dispatcher is not in the repository.
