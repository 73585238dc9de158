-------------------------------- MODULE LuaGC --------------------------------
(***************************************************************************)
(* The incremental garbage collector of the bundled Lua                    *)
(* (src/lua-5.1.4/src/lgc.c) together with what a running script does to   *)
(* the heap.  singlestep() is called from allocations, so the script and   *)
(* the collector alternate at any point; luaC_fullgc runs a whole cycle    *)
(* without the script, except for the finalizers it calls.                 *)
(*                                                                         *)
(* Objects: the main thread (its references are the stack), the registry,  *)
(* one table with weak values that the registry holds (tolua++ keeps its   *)
(* tolua_ubox that way), and any number of tables, userdata with a __gc    *)
(* metamethod, and strings.  Closures, prototypes, upvalues, coroutines    *)
(* and weak keys are left out.                                             *)
(*                                                                         *)
(* The lists gray, grayagain and weak are sets: the model takes the next   *)
(* object in any order.                                                    *)
(***************************************************************************)
EXTENDS Integers, Sequences, FiniteSets, SequencesExt, Lists

CONSTANTS
    Main, Registry, WeakTable,   \* objects that exist from the start
    Tables, Udata, Strings,      \* objects scripts create
    MaxStack,                    \* bound: values the script puts on the stack
    MaxFields                    \* bound: values stored in tables at a time

Fixed == {Main, Registry, WeakTable}
Objects == Fixed \cup Tables \cup Udata \cup Strings
StrongTables == {Registry} \cup Tables
AllTables == StrongTables \cup {WeakTable}

ASSUME HeapAssumption ==
    /\ Main # Registry /\ Main # WeakTable /\ Registry # WeakTable
    /\ \A S \in {Tables, Udata, Strings} : IsFiniteSet(S) /\ S \cap Fixed = {}
    /\ Tables \cap Udata = {} /\ Tables \cap Strings = {} /\ Udata \cap Strings = {}

VARIABLES
    gcstate,       \* g->gcstate
    marked,        \* colour of each object: "white" (the current white),
                   \* "other" (the other white), "gray", "black" or "free"
    gray, grayagain, weak,   \* the lists of the collector
    unswept,       \* objects the sweep has not visited yet
    udlist,        \* userdata after the main thread in the root list
    tmudata,       \* userdata to be finalized, the next one first
    finalized,     \* FINALIZEDBIT
    full,          \* luaC_fullgc: "no", finishing a "sweep", in the "cycle" of
                   \* its own, or calling "finalizers"
    ref,           \* ref[o]: what o refers to
    env,           \* env[u]: the environment table of a userdata
    age,           \* history: allocated userdata, the newest first
    called         \* history: userdata whose finalizer has been called

collector == <<gcstate, full>>
lists == <<gray, grayagain, weak>>
udstate == <<udlist, tmudata, finalized, age, called>>
vars == <<collector, lists, udstate, marked, unswept, ref, env>>

IsWhite(o) == marked[o] \in {"white", "other"}
IsDead(o) == marked[o] = "other"
Allocated(o) == marked[o] # "free"

\* g->rootgc and the string table, when the userdata in tm have left them.
RootList(tm) == {o \in Objects : Allocated(o)} \ Range(tm)

Init ==
    /\ gcstate = "pause" /\ full = "no"
    /\ marked = [o \in Objects |-> IF o \in Fixed THEN "white" ELSE "free"]
    /\ gray = {} /\ grayagain = {} /\ weak = {} /\ unswept = {}
    /\ udlist = <<>> /\ tmudata = <<>> /\ finalized = {}
    /\ ref = [o \in Objects |-> IF o = Registry THEN {WeakTable} ELSE {}]
    /\ env = [u \in Udata |-> Registry]
    /\ age = <<>> /\ called = {}

-----------------------------------------------------------------------------
(* Marking: operators on the record of what marking changes. *)

Marks == [white |-> {o \in Objects : IsWhite(o)},
          black |-> {o \in Objects : marked[o] = "black"},
          gray |-> gray, grayagain |-> grayagain, weak |-> weak]

\* What marking leaves; white is the colour objects not reached keep.
Install(s, white) ==
    /\ marked' = [o \in Objects |-> IF ~Allocated(o) THEN "free"
                                     ELSE IF o \in s.white THEN white
                                     ELSE IF o \in s.black THEN "black" ELSE "gray"]
    /\ gray' = s.gray /\ grayagain' = s.grayagain /\ weak' = s.weak

\* reallymarkobject of every white object of S: a table or thread becomes
\* gray, a string is only marked, a userdata turns black with its environment.
MarkObjects(s, S) ==
    LET us == S \cap s.white \cap Udata
        all == (S \cup {env[u] : u \in us}) \cap s.white
    IN  [s EXCEPT !.white = @ \ all,
                  !.black = @ \cup us,
                  !.gray = @ \cup (all \ (Udata \cup Strings))]

\* traversetable: a weak table stays gray and its values are not marked.
TraverseTable(s, t) ==
    IF t = WeakTable THEN [s EXCEPT !.weak = @ \cup {t}]
                     ELSE MarkObjects([s EXCEPT !.black = @ \cup {t}], ref[t])

\* propagatemark: one object leaves gray.  A thread stays gray, and is visited
\* again in atomic().
PropagateMark(s, o) ==
    LET t == [s EXCEPT !.gray = @ \ {o}] IN
    IF o = Main THEN MarkObjects([t EXCEPT !.grayagain = @ \cup {o}], ref[o] \cup {Registry})
                ELSE TraverseTable(t, o)

\* propagateall: no object enters gray twice, so as many steps as objects do.
PropagateNext(s) == IF s.gray = {} THEN s ELSE PropagateMark(s, CHOOSE o \in s.gray : TRUE)
PropagateAll(s) ==
    LET after[n \in 0 .. Cardinality(Objects)] ==
          IF n = 0 THEN s ELSE PropagateNext(after[n - 1])
    IN  after[Cardinality(Objects)]

-----------------------------------------------------------------------------
(* The steps of the collector: singlestep() *)

\* markroot: at the start of a cycle, or from luaC_fullgc after the sweep it
\* had to finish, when finalizers may still be waiting.
MarkRoot ==
    /\ \/ gcstate = "pause" /\ full = "no"
       \/ gcstate = "finalize" /\ full = "sweep"
    /\ Install(MarkObjects([Marks EXCEPT !.gray = {}, !.grayagain = {}, !.weak = {}],
                           {Main, Registry}), "white")
    /\ gcstate' = "propagate"
    /\ full' = IF full = "sweep" THEN "cycle" ELSE full
    /\ UNCHANGED <<udstate, unswept, ref, env>>

Propagate ==
    /\ gcstate = "propagate"
    /\ \E o \in gray : Install(PropagateMark(Marks, o), "white")
    /\ UNCHANGED <<collector, udstate, unswept, ref, env>>

\* Mutant: a userdata is separated whether or not it was finalized before.
SeparateAgain(s) == Keep(udlist, s.white)

\* luaC_separateudata: dead userdata whose finalizer has not been called, in
\* the order of the root list.
Separate(s) == Keep(udlist, s.white \ finalized)

\* marktmu: userdata waiting for their finalizer are marked afresh, since one
\* left from an earlier cycle may still be black.
MarkTmu(s, tm) ==
    LET us == Range(tm) IN
    MarkObjects([s EXCEPT !.white = @ \cup us, !.black = @ \ us], us)

\* cleartable of the weak table: a value stays unless it is white, or a
\* userdata with its finalizer called or due.
Kept(s, fin) == {v \in ref[WeakTable] : v \in Strings \/ (v \notin s.white \cup fin)}

\* atomic(): the end of marking, in one step.
Atomic ==
    /\ gcstate = "propagate" /\ gray = {}
    /\ LET s1 == PropagateAll([Marks EXCEPT !.gray = weak, !.weak = {}])
           s2 == PropagateAll([s1 EXCEPT !.gray = s1.grayagain, !.grayagain = {}])
           sep == Separate(s2)
           fin == finalized \cup Range(sep)
           tm == tmudata \o sep
           s3 == PropagateAll(MarkTmu(s2, tm))
           strs == IF WeakTable \in s3.weak THEN ref[WeakTable] \cap Strings ELSE {}
           s4 == MarkObjects(s3, strs)
       IN  /\ Install(s4, "other")   \* the current white is flipped
           /\ tmudata' = tm /\ finalized' = fin
           /\ udlist' = Keep(udlist, Udata \ Range(sep))
           /\ ref' = IF WeakTable \in s3.weak THEN [ref EXCEPT ![WeakTable] = Kept(s3, fin)] ELSE ref
           /\ unswept' = RootList(tm)
    /\ gcstate' = "sweepstring"
    /\ UNCHANGED <<full, env, age, called>>

\* sweeplist on the objects of S: the dead are freed, the others made white.
Sweep(S) ==
    LET dead == {o \in S : IsDead(o)} IN
    /\ marked' = [o \in Objects |-> IF o \in dead THEN "free"
                                    ELSE IF o \in S THEN "white" ELSE marked[o]]
    /\ ref' = [o \in Objects |-> IF o \in dead THEN {} ELSE ref[o]]
    /\ env' = [u \in Udata |-> IF u \in dead THEN Registry ELSE env[u]]
    /\ udlist' = Keep(udlist, Udata \ dead)
    /\ finalized' = finalized \ dead
    /\ age' = Keep(age, Udata \ dead)
    /\ called' = called \ dead
    /\ unswept' = unswept \ S
    /\ UNCHANGED <<lists, tmudata, full>>

\* GCSsweepstring: one list of the string table.
SweepString ==
    /\ gcstate = "sweepstring"
    /\ \E S \in SUBSET (unswept \cap Strings) :
         /\ unswept \cap Strings # {} => S # {}
         /\ Sweep(S)
         /\ gcstate' = IF unswept \cap Strings = S THEN "sweep" ELSE gcstate

\* The next objects of the root list: tables, then the objects made with the
\* state, then the userdata behind the main thread.
NextOfRoot ==
    LET ts == unswept \cap Tables
        us == Keep(udlist, unswept)
    IN  IF ts # {} THEN {{t} : t \in ts}
        ELSE IF unswept \cap Fixed # {} THEN {Fixed}
        ELSE IF us # <<>> THEN {{us[1]}} ELSE {{}}

\* GCSsweep: sweeplist may stop after any object.
SweepObjects ==
    /\ gcstate = "sweep"
    /\ \E S \in NextOfRoot : Sweep(S) /\ gcstate' = IF unswept = S THEN "finalize" ELSE gcstate

\* Mutant: the userdata keeps the colour it was marked with.
RelinkedMarks(u) == marked

\* GCTM: the userdata goes back to the root list, white.
RelinkMarks(u) == [marked EXCEPT ![u] = "white"]

\* GCTM: call the finalizer of the first userdata that waits for it.
CallFinalizer ==
    /\ gcstate = "finalize" /\ full # "sweep" /\ tmudata # <<>>
    /\ LET u == Head(tmudata) IN
         /\ udlist' = <<u>> \o udlist
         /\ marked' = RelinkMarks(u)
         /\ ref' = [ref EXCEPT ![Main] = @ \cup {u}]
         /\ called' = called \cup {u}
    /\ tmudata' = Tail(tmudata)
    /\ full' = IF full = "cycle" THEN "finalizers" ELSE full
    /\ UNCHANGED <<gcstate, lists, unswept, finalized, env, age>>

EndCycle ==
    /\ gcstate = "finalize" /\ full # "sweep" /\ tmudata = <<>>
    /\ gcstate' = "pause" /\ full' = "no"
    /\ UNCHANGED <<lists, udstate, marked, unswept, ref, env>>

Collect == MarkRoot \/ Propagate \/ Atomic \/ SweepString \/ SweepObjects
              \/ CallFinalizer \/ EndCycle

-----------------------------------------------------------------------------
(* The script *)

\* Lua code runs between steps of the collector; inside luaC_fullgc only
\* finalizers do.
Running == full \in {"no", "finalizers"}

Stack == ref[Main]
Reaches == Stack \cup {Registry, WeakTable}   \* what the script can name
Fields == {f \in (Tables \cup {WeakTable}) \X Objects : f[2] \in ref[f[1]]}

Push(v) ==
    /\ Cardinality(Stack) < MaxStack
    /\ ref' = [ref EXCEPT ![Main] = @ \cup {v}]

\* luaH_new and luaS_newudata (userdata are linked after the main thread).
Create(o) ==
    /\ Running /\ ~Allocated(o)
    /\ marked' = [marked EXCEPT ![o] = "white"]
    /\ Push(o)
    /\ udlist' = IF o \in Udata THEN <<o>> \o udlist ELSE udlist
    /\ age' = IF o \in Udata THEN <<o>> \o age ELSE age
    /\ UNCHANGED <<collector, lists, unswept, tmudata, finalized, called, env>>

\* Mutant: a string found in the string table is returned as it is.
StringAsFound(s) == IF Allocated(s) THEN marked[s] ELSE "white"

\* luaS_newlstr: a string the sweep has yet to free is made white again.
StringFound(s) == IF Allocated(s) /\ ~IsDead(s) THEN marked[s] ELSE "white"

Intern(s) ==
    /\ Running /\ s \notin Stack
    /\ marked' = [marked EXCEPT ![s] = StringFound(s)]
    /\ Push(s)
    /\ UNCHANGED <<collector, lists, udstate, unswept, env>>

\* What Lua code can read from o: the values of a table, the environment of
\* a userdata.
Contents(o) == IF o \in Udata THEN {env[o]} ELSE ref[o]

Load(v) ==
    /\ Running /\ v \notin Stack \cup Fixed
    /\ Push(v)
    /\ UNCHANGED <<collector, lists, udstate, marked, unswept, env>>

\* Mutant: the table is to be visited again at once, not in atomic().
BarrierBackGray(t, v) ==
    IF IsWhite(v) /\ marked[t] = "black"
      THEN /\ marked' = [marked EXCEPT ![t] = "gray"]
           /\ gray' = gray \cup {t}
           /\ UNCHANGED <<grayagain, weak>>
      ELSE UNCHANGED <<marked, lists>>

\* luaC_barriert, luaC_barrierback
BarrierBack(t, v) ==
    IF IsWhite(v) /\ marked[t] = "black"
      THEN /\ marked' = [marked EXCEPT ![t] = "gray"]
           /\ grayagain' = grayagain \cup {t}
           /\ UNCHANGED <<gray, weak>>
      ELSE UNCHANGED <<marked, lists>>

\* lua_rawset: a value is popped from the stack into a table.
Store(t, v) ==
    /\ Running /\ Cardinality(Fields) < MaxFields
    /\ ref' = [ref EXCEPT ![Main] = @ \ {v}, ![t] = @ \cup {v}]
    /\ BarrierBack(t, v)
    /\ UNCHANGED <<collector, udstate, unswept, env>>

\* Mutant: no barrier.
NoBarrier(u, t) == UNCHANGED <<marked, lists>>

\* luaC_objbarrier, luaC_barrierf
BarrierForward(u, t) ==
    IF ~(IsWhite(t) /\ marked[u] = "black") THEN UNCHANGED <<marked, lists>>
    ELSE IF gcstate = "propagate" THEN Install(MarkObjects(Marks, {t}), "white")
    ELSE marked' = [marked EXCEPT ![u] = "white"] /\ UNCHANGED lists

\* lua_setfenv
SetEnv(u, t) ==
    /\ Running /\ env[u] # t
    /\ env' = [env EXCEPT ![u] = t]
    /\ BarrierForward(u, t)
    /\ UNCHANGED <<collector, udstate, unswept, ref>>

\* A value leaves the stack, or a field of a table is set to nil.
Drop(o, v) ==
    /\ Running
    /\ ref' = [ref EXCEPT ![o] = @ \ {v}]
    /\ UNCHANGED <<collector, lists, udstate, marked, unswept, env>>

\* Mutant: an unfinished marking is carried on.
FullGCGoesOn ==
    /\ Running
    /\ full' = IF gcstate = "propagate" THEN "cycle" ELSE "sweep"
    /\ gcstate' = IF gcstate = "pause" THEN "sweepstring" ELSE gcstate
    /\ unswept' = IF gcstate = "pause" THEN RootList(tmudata) ELSE unswept
    /\ UNCHANGED <<lists, udstate, marked, ref, env>>

\* luaC_fullgc: an unfinished marking is given up and everything made white.
FullGC ==
    /\ Running
    /\ full' = "sweep"
    /\ IF gcstate \in {"pause", "propagate"}
         THEN /\ gray' = {} /\ grayagain' = {} /\ weak' = {}
              /\ unswept' = RootList(tmudata)
              /\ gcstate' = "sweepstring"
         ELSE UNCHANGED <<gcstate, lists, unswept>>
    /\ UNCHANGED <<udstate, marked, ref, env>>

\* Stores into the registry are left out: the registry is a table that is
\* always reachable, and the stack holds the tables the script stores into.
Script ==
    \/ FullGC
    \/ \E o \in Tables \cup Udata : Create(o)
    \/ \E s \in Strings : Intern(s)
    \/ \E o \in Reaches : \E v \in Contents(o) : Load(v)
    \/ \E t \in Stack \cap Tables : \E v \in Stack \ {t} : Store(t, v)
    \/ \E v \in Stack \ Tables : Store(WeakTable, v)
    \/ \E u \in Stack \cap Udata, t \in Reaches \cap StrongTables : SetEnv(u, t)
    \/ \E o \in Reaches \cup {Main} : \E v \in ref[o] \ Fixed : Drop(o, v)

Next == Collect \/ Script

(***************************************************************************)
(* A running script allocates, and luaC_checkGC makes it take steps of the *)
(* collector.  One of them is enabled in every state, so that this is weak *)
(* fairness of Collect.  Nothing is asked of the script itself.            *)
(***************************************************************************)
Spec == Init /\ [][Next]_vars /\ []<><<Collect>>_vars

-----------------------------------------------------------------------------
(* Properties *)

Pending == Range(tmudata)

\* What o keeps alive.
Strong(o) ==
    (IF o = WeakTable THEN ref[o] \cap Strings ELSE ref[o])
       \cup (IF o \in Udata THEN {env[o]} ELSE {})

Reachable ==
    LET closure[S \in SUBSET Objects] ==
          LET T == S \cup UNION {Strong(o) : o \in S} IN IF T = S THEN S ELSE closure[T]
    IN  closure[{Main, Registry} \cup Pending]

\* A script never meets an object that is freed or about to be: neither what
\* it can reach, nor a finalizer, nor what it may still read from a weak table.
ReachableAlive ==
    \A o \in Reachable \cup ref[WeakTable] : Allocated(o) /\ ~IsDead(o)

\* While marking, no black object refers to a white one; a userdata left
\* waiting for its finalizer by luaC_fullgc is the exception marktmu repairs.
TriColour ==
    gcstate = "propagate" =>
      \A o \in Objects \ Pending : marked[o] = "black" =>
         \A v \in Strong(o) : ~IsWhite(v)

\* An object is on one of the lists threaded through gclist at most, and is
\* then gray; between cycles nothing is black but userdata with their
\* finalizer due (the assertions of luaC_barrierf, luaC_barrierback and sweeplist).
ListsApart ==
    /\ gray \cap grayagain = {} /\ gray \cap weak = {} /\ grayagain \cap weak = {}
    /\ gcstate = "propagate" => \A o \in gray \cup grayagain \cup weak : marked[o] = "gray"
    /\ gcstate \in {"pause", "finalize"} =>
         \A o \in Objects \ Pending : marked[o] \in {"free", "white"}

Newer(u, v) == \E i, j \in 1 .. Len(age) : i < j /\ age[i] = u /\ age[j] = v

\* A finalizer is called once, before its userdata is freed, and those found
\* dead by one cycle are queued in the reverse of the order they were created.
FinalizersInOrder ==
    [][/\ Len(tmudata') < Len(tmudata) => Head(tmudata) \notin called
       /\ \A u \in Udata : Allocated(u) /\ marked'[u] = "free" => u \in called
       /\ \A i, j \in 1 .. Len(tmudata') :
             Len(tmudata) < i /\ i < j => Newer(tmudata'[i], tmudata'[j])]_vars

\* A full collection leaves no garbage: when it comes to its finalizers, all
\* that is still allocated can be reached (luaC_fullgc; tolua++ calls it so
\* that an address is not used again before its old owner is collected).
FullCollects ==
    full = "cycle" /\ gcstate = "finalize" =>
      \A o \in Objects : Allocated(o) => o \in Reachable

\* Marking and sweeping come to an end however the script stores into tables
\* the collector has visited (luaC_barrierback, grayagain).
CyclesComplete == []<>(gcstate = "finalize")
=============================================================================
