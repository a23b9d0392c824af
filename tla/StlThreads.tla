----------------------------- MODULE StlThreads -----------------------------
(***************************************************************************)
(* The stl library's threads, condition and timer wheel (stl_thread.c,     *)
(* stl_cond.c, stl_timer.c).                                               *)
(*                                                                         *)
(* A main thread starts threads that each wait once for a datum on one     *)
(* stl_cond and return it, signals data, and joins the threads; a critical *)
(* section of cond->mtx is one step, and a waiter may wake unsignalled.    *)
(* Or the main thread drives a timer wheel, whose callbacks may add        *)
(* timers to the wheel that is being walked.                               *)
(***************************************************************************)
EXTENDS Integers, FiniteSets, SequencesExt

CONSTANTS ThrThreads,     \* the stl_thread objects
          ThrMaxSignals,  \* bound: data signalled
          ThrMaxJoins,    \* bound: joins of one object
          TmTick,         \* TICK
          TmWheels,       \* WHEEL_COUNT
          TmWheelCap,     \* capacity of a new wheel (4 in the code)
          TmDelays,       \* relative timeouts given to stl_timer_add
          TmSteps,        \* how far the clock moves between two calls
          TmMaxTimers,    \* bound: timers added
          TmMaxTime       \* bound: the clock

ASSUME ThrAssumption ==
  /\ IsFiniteSet(ThrThreads) /\ ThrMaxSignals \in Nat /\ ThrMaxJoins \in Nat
  /\ {TmTick, TmWheels, TmWheelCap} \subseteq Nat \ {0}
  /\ TmDelays \subseteq Nat /\ TmSteps \subseteq Nat /\ TmMaxTimers \in Nat /\ TmMaxTime \in Nat

VARIABLES thr_side,       \* which of the two parts this behaviour exercises
          thr_cond,       \* cond->data, cond->done
          thr_thread,     \* each object: thread->id, what runs, its value, joins so far
          thr_signals,    \* data signalled so far; the datum n is signalled n-th
          thr_lost,       \* data overwritten before anybody took them
          tm_wheel,       \* the timer: timestamp, head, wheel, count, list
          tm_scan,        \* the call of stl_timer_timeout under way
          tm_clock,       \* the caller's clock
          tm_timers       \* what became of each timer added

thrVars == <<thr_side, thr_cond, thr_thread, thr_signals, thr_lost, tm_wheel, tm_scan, tm_clock,
             tm_timers>>
condVars == <<thr_cond, thr_thread, thr_signals, thr_lost>>
timerVars == <<tm_wheel, tm_scan, tm_clock, tm_timers>>

NoDatum == 0
NoThread == 0
\* An id that pthread_create left undefined when it failed.
StrayId == -1

-----------------------------------------------------------------------------
(* Threads and the condition.                                              *)

\* stl_cond_init; on Windows and elsewhere
CondInit == [data |-> NoDatum, done |-> FALSE]

\* stl_thread_init
ThreadInit == [id |-> NoThread, pc |-> "none", value |-> NoDatum, got |-> NoDatum, joins |-> 0]

\* stl_thread_start: attr_init may fail, which leaves the id alone, or
\* pthread_create, which leaves it undefined (zero on Windows).
ThreadStart(t) ==
  /\ thr_thread[t].pc = "none" /\ thr_thread[t].id = NoThread
  /\ \/ thr_thread' = [thr_thread EXCEPT ![t].id = 1, ![t].pc = "run"]
     \/ \E id \in {NoThread, StrayId} :
          thr_thread' = [thr_thread EXCEPT ![t].id = id, ![t].pc = "failed"]
  /\ UNCHANGED <<thr_cond, thr_signals, thr_lost>>

\* stl_cond_wait, entered or woken: the datum is taken, or the thread sleeps.
CondWait(t) ==
  /\ thr_thread[t].pc \in {"run", "woken"}
  /\ IF thr_cond.done
     THEN /\ thr_thread' = [thr_thread EXCEPT ![t].pc = "returned", ![t].value = thr_cond.data]
          /\ thr_cond' = CondInit
     ELSE thr_thread' = [thr_thread EXCEPT ![t].pc = "asleep"] /\ UNCHANGED thr_cond
  /\ UNCHANGED <<thr_signals, thr_lost>>

Asleep == {t \in ThrThreads : thr_thread[t].pc = "asleep"}

\* A wake-up that nobody signalled.
CondSpurious(t) ==
  /\ t \in Asleep
  /\ thr_thread' = [thr_thread EXCEPT ![t].pc = "woken"]
  /\ UNCHANGED <<thr_cond, thr_signals, thr_lost>>

\* pthread_cond_signal, WakeConditionVariable: one sleeper wakes, if there is one.
CondWake ==
  IF Asleep = {} THEN UNCHANGED thr_thread
  ELSE \E t \in Asleep : thr_thread' = [thr_thread EXCEPT ![t].pc = "woken"]

\* stl_cond_signal; a datum not yet taken is overwritten.
CondSignal ==
  /\ thr_signals < ThrMaxSignals
  /\ thr_signals' = thr_signals + 1
  /\ thr_cond' = [data |-> thr_signals + 1, done |-> TRUE]
  /\ thr_lost' = IF thr_cond.done THEN thr_lost \cup {thr_cond.data} ELSE thr_lost
  /\ CondWake

\* stl_thread_join, stl_thread_term: -1 when the object has no thread; it
\* blocks until the thread has returned.  Joining a stray id is undefined: here
\* it fails and val is whatever it was.
ThreadJoin(t) ==
  /\ thr_thread[t].joins < ThrMaxJoins
  /\ \/ /\ thr_thread[t].id = NoThread
        /\ thr_thread' = [thr_thread EXCEPT ![t].joins = @ + 1]
     \/ /\ thr_thread[t].id = 1 /\ thr_thread[t].pc = "returned"
        /\ thr_thread' = [thr_thread EXCEPT ![t].joins = @ + 1, ![t].id = NoThread,
                                            ![t].pc = "joined", ![t].got = thr_thread[t].value]
     \/ /\ thr_thread[t].id = StrayId
        /\ \E val \in 0..thr_signals :
             thr_thread' = [thr_thread EXCEPT ![t].joins = @ + 1, ![t].id = NoThread,
                                              ![t].got = val]
  /\ UNCHANGED <<thr_cond, thr_signals, thr_lost>>

-----------------------------------------------------------------------------
(* The timer wheel.  tm_wheel.list[pos] is the wheel at pos; a free slot    *)
(* holds FreeSlot, UINT64_MAX in the code, a used one the number of its     *)
(* timer and its timeout.                                                  *)

FreeSlot == [timer |-> 0, timeout |-> TmMaxTime * 10]
NotScanning == [on |-> FALSE, left |-> 0, head |-> 0, i |-> 0, wheel |-> 0]

\* stl_timer_clear
WheelClear(w) ==
  [w EXCEPT !.head = 0, !.count = 0,
            !.list = [pos \in 0..TmWheels - 1 |-> [i \in 1..w.wheel |-> FreeSlot]]]

\* stl_timer_init
WheelInit(timestamp) ==
  WheelClear([timestamp |-> timestamp, head |-> 0, wheel |-> TmWheelCap, count |-> 0, list |-> <<>>])

\* expand: every wheel gets twice the slots.
WheelExpand(w) ==
  [w EXCEPT !.wheel = @ * 2,
            !.list = [pos \in 0..TmWheels - 1 |-> @[pos] \o [i \in 1..w.wheel |-> FreeSlot]]]

\* stl_timer_add: the slot of a new timer, and the wheel with it in place.
\* count grows first, also when the wheel cannot grow (ok is FALSE).
WheelAdd(w, timer, delay, ok) ==
  LET pos   == (delay \div TmTick + w.head) % TmWheels
      free  == {i \in 1..w.wheel : w.list[pos][i] = FreeSlot}
      seq   == IF free = {} THEN w.wheel + 1 ELSE CHOOSE i \in free : \A j \in free : i <= j
      grown == IF free = {} THEN WheelExpand(w) ELSE w
  IN IF free = {} /\ ~ok
     THEN [wheel |-> [w EXCEPT !.count = @ + 1], id |-> <<>>]
     ELSE [wheel |-> [grown EXCEPT !.count = @ + 1,
                                   !.list[pos][seq] = [timer   |-> timer,
                                                       timeout |-> delay + w.timestamp]],
           id    |-> <<pos, seq>>]

\* The record of a timer just added: pending, or refused for want of memory.
\* moved counts the wheels the head has passed since.
Added(r, w, delay) ==
  [state |-> IF r.id = <<>> THEN "refused" ELSE "pending", id |-> r.id,
   due |-> delay + w.timestamp, delay |-> delay, moved |-> 0, fired |-> 0]

TimerAdd(delay, ok) ==
  /\ ~tm_scan.on /\ Len(tm_timers) < TmMaxTimers
  /\ LET r == WheelAdd(tm_wheel, Len(tm_timers) + 1, delay, ok)
     IN /\ ok \/ r.id = <<>>
        /\ tm_wheel' = r.wheel
        /\ tm_timers' = Append(tm_timers, Added(r, tm_wheel, delay))
  /\ UNCHANGED <<tm_scan, tm_clock>>

\* stl_timer_cancel, with the id of a pending timer as its assertion demands.
TimerCancel(n) ==
  /\ ~tm_scan.on /\ tm_timers[n].state = "pending"
  /\ tm_wheel' = [tm_wheel EXCEPT !.count = @ - 1,
                                  !.list[tm_timers[n].id[1]][tm_timers[n].id[2]] = FreeSlot]
  /\ tm_timers' = [tm_timers EXCEPT ![n].state = "cancelled"]
  /\ UNCHANGED <<tm_scan, tm_clock>>

TimerClear ==
  /\ ~tm_scan.on /\ tm_timers # <<>>
  /\ tm_wheel' = WheelClear(tm_wheel)
  /\ tm_timers' = [n \in DOMAIN tm_timers |->
                     IF tm_timers[n].state = "pending"
                     THEN [tm_timers[n] EXCEPT !.state = "cancelled"] ELSE tm_timers[n]]
  /\ UNCHANGED <<tm_scan, tm_clock>>

\* The wheels that a call of stl_timer_timeout passes: stl_timer_min(time / TICK, WHEEL_COUNT).
WheelsPassed(time) == IF time \div TmTick < TmWheels THEN time \div TmTick ELSE TmWheels

\* stl_timer_timeout, up to its loop: less than a tick changes nothing, not
\* even the timestamp.
TimeoutBegin(step) ==
  /\ ~tm_scan.on /\ tm_clock + step <= TmMaxTime
  /\ tm_clock' = tm_clock + step
  /\ LET wheels == WheelsPassed(tm_clock' - tm_wheel.timestamp)
     IN IF wheels = 0 THEN UNCHANGED <<tm_wheel, tm_scan, tm_timers>>
        ELSE /\ tm_wheel' = [tm_wheel EXCEPT !.timestamp = tm_clock',
                                             !.head = (@ + wheels) % TmWheels]
             /\ tm_scan' = [on |-> TRUE, left |-> wheels, head |-> tm_wheel.head, i |-> 1,
                            wheel |-> tm_wheel.wheel]
             /\ tm_timers' = [n \in DOMAIN tm_timers |->
                                IF tm_timers[n].state = "pending"
                                THEN [tm_timers[n] EXCEPT !.moved = @ + wheels] ELSE tm_timers[n]]

\* The bug that the comment in the loop warns of: base is not calculated again
\* once a callback has expanded the list.
DueSlotsMutant ==
  {i \in tm_scan.i..tm_scan.wheel :
     LET index == tm_scan.wheel * tm_scan.head + i - 1
     IN tm_wheel.list[index \div tm_wheel.wheel][1 + (index % tm_wheel.wheel)].timeout
          <= tm_wheel.timestamp}

\* Timers that stl_timer_timeout has still to look at in the wheel it is in.
DueSlots ==
  {i \in tm_scan.i..tm_scan.wheel : tm_wheel.list[tm_scan.head][i].timeout <= tm_wheel.timestamp}

\* What a callback may add, one timer after the other: the delays.
CallbackAdds == {<<>>} \cup (TmDelays \X TmDelays) \cup {<<delay>> : delay \in TmDelays}

\* The loop meets a timer whose time has come: its slot is freed, and the
\* callback may add timers, which may expand the list.  The walk goes on in the
\* new list, up to the slots that the old one had.
TimeoutFire ==
  /\ tm_scan.on /\ DueSlots # {}
  /\ LET i     == CHOOSE j \in DueSlots : \A k \in DueSlots : j <= k
         n     == tm_wheel.list[tm_scan.head][i].timer
         freed == [tm_wheel EXCEPT !.count = @ - 1, !.list[tm_scan.head][i] = FreeSlot]
         fired == [tm_timers EXCEPT ![n].state = "fired", ![n].fired = @ + 1]
     IN /\ tm_scan' = [tm_scan EXCEPT !.i = i + 1]
        /\ \E delays \in CallbackAdds :
             /\ Len(tm_timers) + Len(delays) <= TmMaxTimers
             /\ LET add(st, delay) ==
                      LET w == WheelAdd(st.wheel, Len(st.timers) + 1, delay, TRUE)
                      IN [wheel |-> w.wheel, timers |-> Append(st.timers, Added(w, st.wheel, delay))]
                    end == FoldLeft(add, [wheel |-> freed, timers |-> fired], delays)
                IN tm_wheel' = end.wheel /\ tm_timers' = end.timers
  /\ UNCHANGED tm_clock

\* The wheel is done: on to the next, whose bound is the list's size by now.
TimeoutNext ==
  /\ tm_scan.on /\ DueSlots = {}
  /\ tm_scan' = IF tm_scan.left = 1 THEN NotScanning
                ELSE [tm_scan EXCEPT !.left = @ - 1, !.head = (@ + 1) % TmWheels, !.i = 1,
                                     !.wheel = tm_wheel.wheel]
  /\ UNCHANGED <<tm_wheel, tm_clock, tm_timers>>

-----------------------------------------------------------------------------
ThrInit ==
  /\ thr_side = "none"
  /\ thr_cond = CondInit /\ thr_thread = [t \in ThrThreads |-> ThreadInit]
  /\ thr_signals = 0 /\ thr_lost = {}
  /\ tm_wheel = WheelInit(0) /\ tm_scan = NotScanning /\ tm_clock = 0 /\ tm_timers = <<>>

\* A program uses the condition or the timer; the two share nothing.
ThrChoose ==
  /\ thr_side = "none" /\ thr_side' \in {"cond", "timer"}
  /\ UNCHANGED <<condVars, timerVars>>

ThrNext ==
  \/ ThrChoose
  \/ /\ UNCHANGED thr_side
     /\ thr_side = "cond" /\ UNCHANGED timerVars
     /\ \/ CondSignal
        \/ \E t \in ThrThreads :
             ThreadStart(t) \/ CondWait(t) \/ CondSpurious(t) \/ ThreadJoin(t)
  \/ /\ UNCHANGED thr_side
     /\ thr_side = "timer" /\ UNCHANGED condVars
     /\ \/ \E delay \in TmDelays, ok \in BOOLEAN : TimerAdd(delay, ok)
        \/ \E n \in DOMAIN tm_timers : TimerCancel(n)
        \/ \E step \in TmSteps : TimeoutBegin(step)
        \/ TimeoutFire \/ TimeoutNext \/ TimerClear

-----------------------------------------------------------------------------
\* No wake-up is lost: a datum that waits while threads sleep has woken one of
\* them.  A datum is signalled to one thread at most, and each is taken,
\* waiting or overwritten by a later signal.
CondHandsOver ==
  LET took(t) == IF thr_thread[t].pc \in {"returned", "joined"} THEN {thr_thread[t].value} ELSE {}
      taken   == UNION {took(t) : t \in ThrThreads}
  IN /\ thr_cond.done /\ Asleep # {} => \E t \in ThrThreads : thr_thread[t].pc = "woken"
     /\ \A t, u \in ThrThreads : took(t) \cap took(u) # {} => t = u
     /\ 1..thr_signals = taken \cup thr_lost \cup (IF thr_cond.done THEN {thr_cond.data} ELSE {})
     /\ taken \cap thr_lost = {}

\* stl_thread_join gives back what the thread returned, unless its start failed.
JoinReturnsValue ==
  \A t \in ThrThreads :
    thr_thread[t].pc = "joined" => thr_thread[t].got = thr_thread[t].value

\* No timer fires before its time or twice; and one that is pending has not
\* been passed by more wheels than its delay spans, so that it fires in the
\* walk that passes its slot after its time, however the calls of
\* stl_timer_timeout are spaced and whatever callbacks add meanwhile.
TimersFire ==
  \A n \in DOMAIN tm_timers : LET tm == tm_timers[n] IN
    /\ tm.fired <= 1
    /\ tm.fired = 1 => tm.due <= tm_wheel.timestamp
    /\ tm.state = "pending" =>
         /\ tm_wheel.list[tm.id[1]][tm.id[2]] = [timer |-> n, timeout |-> tm.due]
         /\ ~tm_scan.on => tm.moved <= tm.delay \div TmTick

\* timer->count counts the pending timers, and those that were refused.
TimersCounted ==
  LET in(s) == Cardinality({n \in DOMAIN tm_timers : tm_timers[n].state = s})
  IN in("pending") <= tm_wheel.count /\ tm_wheel.count <= in("pending") + in("refused")

\* The stl threads, condition and timers keep their promises: every datum
\* signalled is handed to one waiter or overwritten, no waiter sleeps through
\* one, join returns the thread's value, and a timer fires once, never early,
\* and no later than the walk past its slot.
ThreadsAndTimers == CondHandsOver /\ JoinReturnsValue /\ TimersFire /\ TimersCounted
=============================================================================
