# Verification of luafltk

luafltk is a Lua 5.1 interpreter with bindings to FLTK 1.3: `src/fltk/` is the
toolkit, `src/lua-5.1.4/` the interpreter, `src/tolua++-1.0.93/` the binding
generator and its runtime, and `src/libluafltk/` the hand-written glue and the
generated bindings. The modules here model the parts of it in which control is
hard: what threads, callbacks and nested event loops do to the shared state of
the event loop, how Lua callbacks survive in FLTK, which Lua value owns which
C++ object, and the garbage collector all of this rests on. All models are of the
X11/POSIX build, with `select()` (`USE_POLL` is 0 in `config.h`).

## The system

Everything happens in `Fl::wait()` (`Fl.cxx:395`), called by `Fl::run()` and,
recursively, by callbacks. One call runs the widget deletion, the expired
timeouts, the check callbacks and an idle callback, flushes the display and
calls `fl_wait()` (`Fl_x.cxx:205`), which sleeps in `select()` and then calls
the callbacks of ready file descriptors. One of these descriptors is the read
end of the pipe of `Fl::awake()`. Callbacks are plain C functions; a Lua script's
functions are reached through static C functions in `fl_lua_misc.cpp` whose
argument is an index into the Lua registry.

| component | state | operations | hard because |
|---|---|---|---|
| thread wake-up, `Fl_lock.cxx` | ring of handlers, head, tail, pipe | `awake(func,data)`, `awake(msg)`, `thread_awake_cb` | threads; the pipe drops writes; handlers wait again |
| the lock, `Fl_lock.cxx` | mutex, owner, counter | `lock`, `unlock`, release around `select()` | owner and counter are read without the mutex |
| Lua registry, `lauxlib.c` | array with a free list inside it | `luaL_ref`, `luaL_unref` | the list shares the array with the values |
| Lua callbacks, `fl_lua_misc.cpp` | references held by FLTK and by scripts | add, repeat, remove; call | FLTK holds bare integers; release and reuse |
| timeouts, `Fl.cxx` | sorted list, clock, lateness | add, repeat, remove; loop and sleep of `wait()` | callbacks change the list the loop runs over |
| checks, `Fl.cxx` | list, `next_check` | add, remove, `run_checks` | one iterator shared by nested passes |
| idle callbacks, `Fl_add_idle.cxx` | ring, free list, `Fl::idle` | add, remove, `call_idle` | the callback may free its own node |
| file descriptors, `Fl_x.cxx` | array, three `fd_set`s, `maxfd` | add, remove, `fl_wait` | the array changes under the loop; second thread |
| tolua++ runtime, `tolua_push.c`, `tolua_map.c`, `tolua_event.c`; generated constructors | `tolua_ubox`, `tolua_gc`, metatables of userdata | push, new, new_local, delete, take and release ownership, `class_gc_event` | userdata die long after their objects, whose addresses C++ uses again |
| Lua's collector, `lgc.c`, `lstring.c` | colours, gray lists, sweep position, finalizers due | mark, propagate, atomic, sweep, finalize; barriers; full collection | the script changes the heap between any two steps |
| widget lifetime, `Fl.cxx`, `Fl_Widget.cxx`, `Fl_Group.cxx` | widget tree, focus pointers, trackers, `dwidgets` | focus, move, schedule, destroy | destructors call handlers of the program |

What makes each correct, in one line: nothing accepted is lost or called twice
(wake-up, Lua callbacks, checks, idle, finalizers); what should happen happens
(handlers, timeouts, descriptors, checks, collection); nobody follows a pointer,
an index or an iterator to something released (registry, Lua callbacks, checks,
idle, widgets, tolua++ objects, the Lua heap); two threads are never both inside
the lock.

`PROJECT.json` lists every component, the ones that are not modelled too, with
the reason, and under `hazards` the places where the code can go wrong in a way
a test would hardly reach.

## Modules

Definitions have the name of the function they stand for where there is one;
`PROJECT.json` maps each to its lines. Operators commented "Mutant:" are wrong
versions of the definition after them; no specification uses them. They exist to
show that each property can fail.

* **AwakeRing** (abstract: **AwakeQueue**). `Register` is
  `add_awake_handler_`, `Wake` the `write()` that follows it, `SelectPipe` to
  `CallbackWaits` the main thread in `fl_wait()` and `thread_awake_cb()`, with
  `select()` and the `read()` it leads to as two steps, between which a callback
  of another descriptor may run and wait itself (`calls` is the stack of
  callbacks). The n-th accepted handler is the number n. The ring mutex makes
  registration and removal atomic; its lazy creation is not modelled.
* **FlLock**. One step per unprotected read or write of `lock_function_std` and
  `unlock_function_std`; `EnterWait`, `LeavePoll` are `fl_wait()` giving the
  lock up and asking for it again.
* **LuaRegistry** (operators) and **LuaRef**, the abstract specification: clients
  that store, exchange and release values, each reference once. The field
  `chain` of the registry is a history, the free list as a sequence.
* **LuaCallbacks** (abstract: **LuaRef**). The clients in `fl_lua_misc.cpp`. A
  reference belongs to the callback, item or widget whose `kind` is not
  "removed"; the mapping to LuaRef is `handle` for these and 0 for the others.
  FLTK's lists are reduced to how often a reference is in them; their order is
  the subject of FlTimeouts and FlIdle. `Gives` and `kind` are what the script
  knows, not code. `RepeatTimeout` takes any handle the script ever got; the
  constant `Misuse` says which handles of removed timeouts the script still uses:
  none but to repeat one whose index is free (`{}`), to remove one again
  ("remove"), or to repeat one whose index another callback has ("repeat").
* **ToluaObjects** (instance: **MCToluaObjects**, which has the classes). `mem` is the
  C++ heap, `ubox` and `gc` the tables `tolua_ubox` and `tolua_gc`; there is one
  `tolua_ubox` for each hierarchy of classes, named by its root class. A userdata
  is held by the script, dropped, due for its finalizer (the collector has taken
  it out of `tolua_ubox`) or free. `Push` is every way by which a userdata for an
  existing object reaches the script, `tolua.cast` among them, which checks
  nothing. `Finalize` is `class_gc_event`; the collection forced by `takeownership`
  and `releaseownership` finalizes everything lost in one step.
* **LuaGC**. One action per case of `singlestep()`, the barriers, and the script
  between them. The two whites are "white" (current) and "other"; the flip at
  the end of `atomic()` renames them. `full` tells where `luaC_fullgc()` is.
  The lists threaded through `gclist` are sets, so marking takes objects in any
  order. `udlist` keeps the order of the userdata behind the main thread, on
  which the order of finalizers depends.
* **FlTimeouts**. `list`, `lag` (the time since the clock was read),
  `resetClock`, `missed`. Time is in whole units, so the `-.05` below which a
  corrected time is clipped becomes 0. Each entry also carries `due`, the time
  really left until what the program asked for, which the code does not have.
* **FlChecks**. The list, `next_check`, the free list, `run_checks()` re-entered
  by a check that waits.
* **FlIdle** (abstract: **IdleService**, a bag of callbacks). `first`, `last`,
  `freelist` and every `next` pointer.
* **FdSelect**. The array, the sets, `maxfd`, and a stack of `fl_wait()` calls
  each with the sets `select()` filled in and its index. A worker's `add_fd`
  and `remove_fd` are two steps, as the main thread reads `maxfd` without the lock.
  `maxfd` is 0 at first, as a static variable is, and not -1, as after a removal.
* **WidgetLife** (instance: **MCWidgetLife**). `stack` is what is being executed: the
  loop over `dwidgets`, destructors, and the handlers that `fl_fix_focus()` and
  `Fl::focus()` call. The latter is a step for each call it makes: `SetFocus`
  up to `focus_changing_handler`, `ChangingReturns` up to the first FL_UNFOCUS, and a
  `TellingReturns` for every group the event goes to, which may save `fl_oldfocus`
  (`Saves`) and goes on with the parent the widget has by then. In a handler the
  program may do all it may do outside, except `Fl::wait()`.
* **Lists** (operators): `Keep(s, S)`, the entries of a list that are in a set, as
  a walk that proofs can follow.
* **AwakeRing_proofs**, **EventLoop_proofs** (FlLock, FlTimeouts, FlChecks, FlIdle
  and FdSelect), **LuaRef_proofs**, **LuaCallbacks_proofs**,
  **ToluaObjects_proofs**, **LuaGC_proofs**, **WidgetLife_proofs** and
  **Lists_proofs**: theorems.

FlLock, FlTimeouts, FlChecks, FlIdle and FdSelect share no names, so that one module
can extend them all. Where two of them have the same name in the code, one is
longer here: FlIdle has `idleCb`, `IdleNodes`, `Nil`, and its `first`, `last` and
`freelist` are the code's; FlChecks has `checks` for the list at `first_check` and
`freed` for that at `free_check`. A few loops are given by what they find rather
than step by step: the place of a new timeout (`Inserted`) is the one with no later
entry before it and a later one behind it; `next_check` after a removal is the
first node from there on that stays (`NextAfterRemoval`); the groups a widget is
in (`Ancestors`) are the least set that is closed under `parent()`.

The components interact through `Fl::wait()`: each module contains the part of
it that its component runs in, including re-entry. Three couplings are modelled
explicitly: the lock around `select()` (FlLock, and FdSelect's worker); the
registry under the callbacks (LuaCallbacks extends LuaRegistry and implements
LuaRef); and the collector under the userdata of tolua++: ToluaObjects takes from
LuaGC that a weak value disappears before its finalizer is called
(`cleartable` and `GCTM`), that a full collection finalizes all garbage
(`FullCollects`), and that cycles complete (`CyclesComplete`).

### Rules that programs keep

Some properties hold only for programs that keep a rule which the code does not
enforce. What kind of program it is is then a variable that the initial state
chooses and no step changes, so that one run has the programs that keep the rule
and those that do not, and the property names those it is about:

| module | variable | rule | properties that need it | what happens otherwise |
|---|---|---|---|---|
| FlTimeouts | `busy` | timeout callbacks take no time, do not call `Fl::wait()`, and ask for positive delays | WaitReturns, TimeoutCalled | a callback that does `add_timeout(0)` or `repeat_timeout(0)` is called for ever by the loop at `Fl.cxx:428`, and `Fl::wait()` never returns |
| FlChecks | `ops` | checks do not both remove and add | PassEnds | a first check that removes and adds itself is called for ever (`Fl.cxx:329`) |
| FlChecks | `ops` | checks remove none | NoneTwice | a check that is removed and added again may be called again |
| FlIdle | `removeOthers` | a callback is installed once, and only removed by itself | NoStarvation | `remove_idle` moves `first` past callbacks not called yet (`Fl_add_idle.cxx:115`) |
| FdSelect | `free` | no second thread adds or removes descriptors, and no descriptor is added that is registered already | ReadyServed | `select()` is told to watch nothing (`Fl_x.cxx:232`), or entries are passed over |
| WidgetLife | `prog`, "refocuses" | handlers of the FL_UNFOCUS of an `Fl::focus()` move neither the focus nor widgets | SavedFocusIsChild | `savedfocus_` is left on a widget that is not a child (`Fl_Group.cxx:178`) |
| WidgetLife | `prog`, "reschedules" | no widget is scheduled that is already, or whose destructor runs | NoDoubleDelete | two callbacks that call `Fl::delete_widget()` on a widget before the next `Fl::wait()` delete it twice (`Fl.cxx:1531`) |
| ToluaObjects | `prog` | programs that use `new_local` neither delete objects nor cast wrongly | OwnedExist, HeldNotDeleted | `new_local` does not collect first, and the finalizer of an older userdata deletes the new object (`fltk.pkg.cpp:4726`) |
| ToluaObjects | `prog`, "miscasts" | no cast to a class the object does not have | LostDeleted | the owned object is accepted by no finalizer (`tolua_push.c:98`) |
| LuaCallbacks | `Misuse` (a constant) | each callback is removed once; a removed timeout is not repeated when another callback has its index | all | finding 2; `repeat_timeout` schedules the other callback (`fl_lua_misc.cpp:321`) |
| AwakeRing | `MaxPending` (a constant) | one slot of the ring stays free | NoHandlerLost, QueueSpec, EveryHandlerRuns | finding 1 |

Three more rules are part of the models. In WidgetLife a widget is not scheduled
together with a group it is in, as the documentation of `Fl::delete_widget` says,
nor moved into a scheduled group, and handlers called inside destructors do not
call `Fl::wait()`, which would start the loop over `dwidgets` anew. In ToluaObjects
C++ does not delete an object that Lua owns, does not hand an owned object to Lua
that the script has dropped, and ownership is taken only by a userdata of
the object's own hierarchy. In LuaCallbacks a script does not write the "repeat" field
of its tables itself.

## Runs

| run | properties | what it shows | bounds |
|---|---|---|---|
| `awake_queue` | NoHandlerLost, NoStrandedHandler, EveryHandlerRuns, QueueSpec | the ring and the pipe are a FIFO queue, all of whose handlers are called, as long as callers leave one slot free, also when a nested wait reads the pipe between `select()` and `read()` | 2 threads and main, ring of 3, pipe of 2, 6 handlers (the ring wraps twice), 2 nested waits |
| `awake_wrap_loss` | NoHandlerLost *(violated)* | finding 1 | as above, ring filled |
| `lock_threads` | MutualExclusion, ReleasedByHolder, EveryLockGranted | the unprotected reads are harmless | main, 2 workers, workers nest twice |
| `lua_callbacks` | ScheduledAsAsked, NothingDangles, Disciplined | the glue keeps references right for scripts without misuse, which may repeat a removed timeout while its index is free, and implements LuaRef | 3 callbacks, 2 handlers, 1 menu item, 1 widget, 2 nested timeouts |
| `lua_callbacks_removed_twice` | HandleFindsTable *(violated)* | finding 2 | same |
| `timeouts` | SortedList, RepeatNotEarly, WaitReturns, TimeoutCalled | the list stays sorted, repeats are never early; with callbacks that take no time and ask for positive delays, `wait()` ends and calls everything | 2 entries, delays 0, 1 and 2, 3 units between readings, 2 nested callbacks |
| `checks` | ChecksTypeOK, RestsAtFirst, EveryCheckCalled, NoneTwice, PassEnds | `next_check` never dangles, no check is left out; passes end for checks that do not both remove and add | 4 nodes, 2 callbacks, 3 nested checks |
| `idle` | OneRing, Implements, NoStarvation | the pointers are one ring and implement a bag | 4 nodes, 3 callbacks |
| `fd` | SetsFollowArray, ReadyServed | `select()` is asked what is registered, and what is ready is called | 2 descriptors, 2 events, 2 nested waits; the worker adds and removes one of the events |
| `widgets` | TypeOK, PointersAlive, SavedFocusIsChild, TrackersTell, NoDoubleDelete, NoneForgotten | destruction leaves no pointer behind, whatever handlers do in between | window, group with a child, button; the program acts on the button, and schedules it and the group; 1 tracker; 2 calls of `Fl::focus()` one within the other; 2 entries of `dwidgets` |
| `tolua` | OwnedExist, OneUserdata, HeldNotDeleted, LostDeleted | late finalizers do no harm to objects at reused addresses; what Lua owns and loses is deleted | 2 addresses, 2 userdata; a class with two derived ones, and a class of another hierarchy |
| `lua_gc` | ReachableAlive, TriColour, ListsApart, FullCollects, FinalizersInOrder, CyclesComplete | nothing reachable is freed, a full collection leaves nothing else, finalizers run once and in order, cycles end | 1 table, 2 userdata, 1 string besides the thread, the registry and the weak table; 2 stack slots, 1 field |

The bounds are the smallest at which the interesting cases occur: a ring that
wraps with entries in it, a list whose middle entry goes, one callback nested in
another and a second one at the same level, an iterator with nodes on both
sides, a group destroyed with a child that has the focus, an address with a
userdata due and another held, or with two held of different hierarchies, a
userdata with its finalizer due while another is created and a table is half marked.
`Tick` stops at `MaxLag` and `MaxLate`: a timeout may be late by 2 units, which is as long as the
longest delay, so the clipped correction occurs.

In `widgets` there are two kinds of program, "refocuses" and "reschedules". Each may, but
need not, break its own rule and keeps the other's, so that a property that needs one of the
rules is checked in the programs of the other kind. That handlers focus, move,
push and track one widget only is the bound `Uses`: it is the one that is moved between the groups, put among the
scheduled ones and destroyed inside them; the window and the group get the focus from
`fl_fix_focus()`. `fl_oldfocus` is forgotten when no FL_UNFOCUS is under way any more, as
nothing reads it then before it is set.

Deadlock is checked in every run but `tolua`: with two addresses, a program that never
deletes may have made all the objects there can be, and lost them, and then
nothing is left to do.

LuaGC is the largest instance (1.3 million states). Two userdata are needed for
the order of finalizers and for one finalizer acting on the other's userdata; one
table and one field for a chain from the stack through a userdata's environment
to an object that only a barrier saves.

In `awake_queue` the bound MaxPending = RingSize - 1 is not only a bound but the
condition under which the ring works (finding 1); `NoStrandedHandler` and the
type invariant do not need it, and are proved without it.

### Fairness

* AwakeRing: `write()` and the main loop are scheduled (weak), callbacks return
  although they may wait for events again and again (strong), and `select()` reports
  the pipe although other events may keep coming (strong, since `fl_wait()` handles
  what Xlib has already read without a `select()`).
* FlLock: threads run (weak); the mutex does not starve a thread (strong, a
  property of the system's mutex the code relies on); every thread undoes its
  locks, and `select()` returns. The main thread holds the lock once, as
  `Fl::lock()` in `main()` leaves it.
* FlTimeouts: the program calls `Fl::wait()` and callbacks return (weak); time
  goes by however often the program polls (strong, since the clock stands still
  only inside callbacks that take no time).
* FlChecks, FdSelect: the loops go on (weak); a callback at each depth returns,
  although it may call `Fl::wait()` first (strong). `select()` reports a
  descriptor that stays ready, although a call may time out before (strong).
* FlIdle: `Fl::wait()` is called again and idle callbacks return (weak).
* LuaGC: a running script allocates, and allocation takes steps of the collector
  (`luaC_checkGC`), so infinitely many steps are the collector's. One of its
  steps is enabled in every state, so this is weak fairness of `Collect`.
  Nothing is asked of the script, which may act between any two of them.
* ToluaObjects: a lost userdata is separated and its finalizer called (weak),
  which is what `CyclesComplete` of LuaGC is about.
* LuaRef, LuaCallbacks and WidgetLife state safety only.

No specification is fair to what the program may or may not do (register, add,
remove, move, schedule), nor to events from outside.

## Findings

1. **The awake ring loses all handlers when it fills up at the wrap**
   (`Fl_lock.cxx:93`, run `awake_wrap_loss`). The full test compares the same
   two numbers twice and misses head in the last slot, tail in slot 0; the head
   then wraps onto the tail and the ring reads as empty, although `awake()`
   returned 0 for every handler in it.
2. **Removing a timeout twice mixes up callbacks** (`fl_lua_misc.cpp:334`, run
   `lua_callbacks_removed_twice`). `Fl.remove_timeout(ref)` releases the
   reference even if it was released before; the index is then twice on the
   registry's free list and two later callbacks get it. FLTK documents removing
   a timeout that no longer exists as harmless.
3. **What `get_awake_handler_` gets** (`Fl_lock.cxx:106`, run `awake_queue`): its comment
   says "Gets the last stored awake handler", the code gets the oldest. The queue
   that QueueSpec and `RingIsQueue` establish is first in, first out; the mutant TakeNewest
   is the comment's reading, which violates it.

Where else the code and what the repository says of it disagree. The models have
this behaviour, and the properties are stated around it (see the rules above):

* `Fl.H:233-234`: the function given to `add_timeout` is called "at t seconds after this
  function is called"; the code falls through to the correction of `repeat_timeout`
  (`Fl.cxx:228`), so that the lateness of the last timeout called is taken off the time
  of an unrelated one.
* `Fl.cxx:368-369`: "add/remove and wait may be called from inside them without causing
  an infinite loop"; a first check that removes and adds itself is called for ever
  (`Fl.cxx:329`).
* `Fl.cxx:756-760`: FL_UNFOCUS is sent to the parents "that don't contain the new
  widget"; the loop at 787-790 sends it to all of them.
* `lgc.c:668` asserts that a forward barrier is met neither between cycles nor while
  finalizers are called; it can be, harmlessly, for a userdata whose finalizer is due.
* `tolua_map.c:163`: `takeownership` collects "to avoid C to reuse a to-be-collected
  address"; `new_local` takes ownership without. In a program that also deletes objects,
  seven steps lead to an object deleted under a script that holds it: new, delete, drop
  the userdata, the end of a marking, `new_local` at the same address, the old finalizer
  (`fltk.pkg.cpp:4726`). `src/luafltk/table2.lua` makes an object with `new_local` at
  line 3 and calls `delete` on it at line 31 (the binding of its class happens to have
  none).

Other behaviour met while modelling, of which the repository says nothing: the ring
mutex is created by check-then-act (`Fl_lock.cxx:377`); if a callback of a descriptor
that stands before the pipe in the array calls `Fl::wait()` and that reads the pipe, the
main thread blocks in the `read()` at `Fl_lock.cxx:318` until the next `Fl::awake()`,
because only the write end does not block; a main thread with nested locks sleeps with
the lock (`Fl_x.cxx:223`); removing idle callbacks can starve others
(`Fl_add_idle.cxx:115`); `maxfd` is read without the lock (`Fl_x.cxx:232`); readiness
can be stale when a callback is called (`Fl_x.cxx:251`); a handler that waits during
widget deletion makes the loop delete twice (`Fl.cxx:1562`); `take_focus()` uses the
widget after a handler that may delete it (`Fl_Widget.cxx:168`); the reference of a
one-shot timeout that just expires is never released (`fl_lua_misc.cpp:292`). In the
tolua++ runtime, a userdata kept of a deleted object is found again for a new one at its
address and may keep the old class (`tolua_push.c:98`), or, if it is of another
hierarchy, lives on beside the new one's (`tolua_push.c:58`), and `releaseownership`
does nothing once the userdata has a more special class (`tolua_map.c:196`).

## Proofs

Every invariant and every safety action property of the passing runs is proved by
TLAPS for every value of the constants, and so are the safety part of the
refinement of AwakeQueue and the whole of the refinements of IdleService and
LuaRef. Each module states the assumptions it needs about its constants in one
ASSUME, which TLC evaluates in the runs. They say that the bounds are numbers, that the
values standing for "nothing" are none of the others, that a set the code
allocates from is finite, and what is named below.

* **AwakeRing_proofs**, from `RingAssumption` (at least two slots, a pipe that holds at
  least one pointer less than the ring has slots).
  - `TypeCorrect`: head and tail stay in the ring.
  - `HandlersKept`: if MaxPending <= RingSize - 1, the ring holds exactly the handlers
    accepted and not called, in order. The inductive invariant is TypeOK and
    NoHandlerLost together: the contents of the ring give the number of entries, and
    this keeps head from reaching tail.
  - `NoneStranded`: NoStrandedHandler is not inductive, as one pointer stands for
    several handlers. The strengthening is a count: the handlers in the ring are at most
    the pointers in the pipe plus the callers about to write plus what the thread now
    draining will find; a dropped write is harmless because a full pipe alone outnumbers
    the ring. Nested waits and a blocked `read()` change neither side of the count.
  - `RingIsQueue`: under the same condition as `HandlersKept`, the ring read from the
    tail on is the queue of AwakeQueue. By the invariant its entries are numbered from
    `started + 1` on, so registering appends the next number and taking removes the
    first; every other step is a stutter.
* **EventLoop_proofs**, FlLock, from `LockAssumption`, for any number of threads and any
  nesting: `Exclusion` and `HolderReleases`. The inductive invariant adds to the types:
  the holder's depth is the counter (Held), who may be at which line (Located), and the
  heart of it, StaleOwner: a thread that has read a non-zero counter and finds its own
  name in `owner` holds the mutex, because a holder records itself in `owner` before it
  raises the counter.
* **EventLoop_proofs**, FlTimeouts, from `TimeoutsAssumption`: `FirstIsNext` and
  `RepeatedInTime`, for any list and any delays. `TimeoutsInv` strengthens
  RepeatNotEarly, which compares with what is left when a timeout is called, to every
  reading of the clock: a repeated entry's `due` is at most its `left` less the time not
  yet taken off the list.
* **EventLoop_proofs**, FlChecks, from `ChecksAssumption`: `NextCheckLives`,
  `PassesBegin`, `NoCheckLeftOut`, `NoCheckTwice`. `ChecksInv` says where `next_check`
  is: in the list, at its front between passes, and never beyond a check that the pass
  still owes a call (`Ahead`). Where checks remove nothing, the pass owes exactly those
  ahead of it, and `run_checks()` called by a check does not begin another; this is what
  NoneTwice needs.
* **EventLoop_proofs**, FdSelect, from `FdAssumption`: `SelectSeesAll`. `FdInv` adds
  what `remove_fd` needs: no two entries of a descriptor share an event, or removing one
  would clear the bit of the other. `maxfd` is the highest descriptor except while the
  worker is between its two steps, and except at the start, when it is 0.
* **EventLoop_proofs**, FlIdle, from `IdleAssumption`: `RingStaysOne` and the refinement
  `IdleIsService`. `IdleInv` has a witness for each list: a list of distinct nodes along
  which `link` (the code's `next`) goes, closed from `last` to `first`, and another that
  starts at `freelist`, without a common node, which together are all the nodes ever
  used. That the walks of `has_idle` and `remove_idle` follow the first list and end is
  by induction on the steps (`WalkIsRing`).
* **LuaRef_proofs**, from `RefAssumption` (values are not numbers), for any set of
  clients: `RefsFindValues`, `FreeListKept` and `NoSlotLost`. The inductive invariant is
  the first two with the types: `RefFindsValue` alone does not say that the head of the
  free list is nobody's reference, and the free list alone does not say that a released
  slot was in use. It is stated of any registry and any owners (`Good`), because
  `Replace` and `Renew` make and release a reference in one step, in either order; each
  of the two halves is a lemma.
* **LuaCallbacks_proofs**, from `CallbacksAssumption` and, in each theorem, Misuse = {}
  (finding 2 is what happens otherwise): `NoDanglingCallback`, `TimeoutsAsAsked`, and
  `GlueIsDisciplined`, that the glue implements LuaRef, so that the theorems of LuaRef
  are about the glue. `CbInv` relates the three sides of a reference: the registry is
  good for its owners (RegInv, through LuaRef), whatever FLTK holds is the reference of
  an owner of the right kind (UsesLive), and no two users hold the same one
  (UsersApart). Repeating a removed timeout whose index is free finds a number of the
  free list, not a table, and changes nothing.
* **ToluaObjects_proofs**, from `NoneAssumption` and `ClassAssumption` (a class has the
  bases and the root of its bases), for any set of hierarchies: `OwnedObjectsExist`,
  `OneUserdataEach`, `HeldStayAlive`. `ObjInv`: the `tolua_ubox` of each hierarchy has
  its userdata held or dropped and no others (BoxFollows), in every program. In programs
  that do not mix (Unmixed), an object is owned as a class of its hierarchy
  (OwnedRight), has only one userdata of it then, those whose finalizer is due included
  (OwnedOnce), and with `new_local` a userdata always has its object (LocalsLive), which
  a program that also deletes would break.
* **LuaGC_proofs**, from `HeapAssumption`, for any heap: `NothingReachableDies`,
  `BlackSeesNoWhite`, `OneGCList`, `NoGarbageIsLeft`, `FinalizersAsDue`.
  - `GCInv`: what is neither free nor found dead refers to nothing that is (LiveClosed);
    outside of marking all that is not still to be swept is white (SweptOK); during
    marking each node is white, black or on one list, and no black object refers to a
    white one (MarkingOK). TriColour alone is not inductive: `atomic` turns black to
    white and depends on the roots being marked.
  - Marking is a record of lists, and `Carries` is what every part of it keeps: whites
    only get fewer, black stays black, and a set that is closed under references and
    holds the roots holds what is marked. `atomic` is five such parts one after the
    other, whence "all that is left white cannot be reached".
  - `Reachable` is the least closed set that contains the roots (`ReachableIs`): the
    iteration ends because the heap is finite.
  - `CycleOK` for `NoGarbageIsLeft`: in the cycle of `luaC_fullgc` all that is marked
    can be reached. `FinalizersOK` for `FinalizersAsDue`: a userdata is in the root list
    or waits for its finalizer, and only one whose finalizer was called is ever found
    dead; those not separated yet stand in the order of creation.
* **WidgetLife_proofs**, from `LifeAssumption` (the groups are a forest), for any tree,
  any programs and any nesting: `TreeOfTheLiving`, `NothingPointsToTheDead`,
  `SavedFocusStays`, `TrackersKnow`, `DieOnce`, `ScheduledDie`. Four invariants:
  - `BaseInv`, in every program: the tree, the pointers and the trackers, with the shape
    of the stack, whose bottom is the loop over `dwidgets` if any destructor runs.
  - `SavedInv`, without "refocuses": only one FL_UNFOCUS is under way, on top of the
    stack, and `fl_oldfocus` is a child of the widget that gets it (Told): so a group
    saves a child.
  - `LoopInv`, in every program: what the loop has passed is dead or dying, from which
    ScheduledDie follows also for widgets scheduled twice.
  - `DeathInv`, without "reschedules": of two widgets that are to die, neither is inside
    the other (Apart), nobody has touched what the loop has not reached, and no widget
    is scheduled twice (Fresh), so that no destructor runs twice. Apart holds because
    the model keeps the documented rule that a widget is not scheduled with its group,
    and Fresh because handlers do not call `Fl::wait()`.
* **Lists_proofs**: what `Keep`, concatenation and reversal do to the range, the order
  and the injectivity of a list; walks exist for any length; a list without repetitions
  is no longer than its set is large. Induction is by `LeastNat` (a non-empty set of
  numbers has a least) and `AllNat`, for sets of numbers: the library's theorem takes an
  operator, which the provers cannot instantiate.

Only model-checked: liveness (EveryHandlerRuns and the fairness part of QueueSpec,
EveryLockGranted, WaitReturns, TimeoutCalled, PassEnds, NoStarvation, ReadyServed,
LostDeleted, CyclesComplete), because fairness and ENABLED are outside the
prover's reach. That the actions the theorems speak of occur is what TLC's runs show.

## Not modelled

The event dispatch itself, top-level windows being hidden and shown, modal
windows and `grab()`; the queue of `Fl::readqueue()`; murgaLuaTimer; the
recursive-mutex, Win32 and Mac OS X variants; drawing, fonts, images, printing;
the widgets' own editing state; the Lua virtual machine and parser; vendored
libraries and generated code. These are most of the repository's lines (SQLite,
the generated bindings and the image libraries alone are half of them), and
little of its hard control.

Inside modelled components: functions the glue finds by a string made of a
widget's address; `Fl::set_idle()`; a `realloc` that fails; belowmouse (treated
as focus is); the order of a group's children; method lookup and peers of
tolua++; closures, upvalues, coroutines, weak keys and `lua_close` in the
collector. Stores into the registry are left out of LuaGC: it is a table that is
always reachable, and the model has such tables of its own. C++ that deletes an
object Lua owns (a group with an owned child) is excluded from ToluaObjects: the
program must not do it, and nothing in the code prevents it.

## Plan

1. Event dispatch: `Fl::handle`, `grab()`, modal windows and belowmouse, with
   handlers that delete widgets (composed with WidgetLife); then
   `Fl_Window::hide` and `show`.
2. `lock_ring()` and the creation of the ring mutex; murgaLuaTimer as a client of
   FlTimeouts; the text buffer's gap.
3. Proofs: of the liveness properties, the steps that are not temporal, as lemmas
   (a measure that decreases: the pointers in the pipe, the entries ahead of
   `next_check`, the gray objects); that a reference of the glue which is never
   used again is released, once the expired one-shot timeout is treated in the code.
