-------------------------- MODULE BalanceProfiler --------------------------
(***************************************************************************)
(* The balance profiler (balanceprofiler/): a preloaded library that wraps *)
(* the pthread calls of a program.  A first run logs, per thread, where    *)
(* each call came from and the time since the last one; max-time.py makes  *)
(* a table of the longest times from the logs; a later run delays every    *)
(* call to the time of its table entry.  Taking a backtrace calls the      *)
(* wrapper of pthread_mutex_lock again.                                    *)
(***************************************************************************)
EXTENDS Integers, Sequences, SequencesExt, FiniteSets, FiniteSetsExt

CONSTANTS Threads,   \* the threads of the program; one starts alone
          Main,      \* that thread
          Sites,     \* the places calls are made from, > 0
          Calls,     \* the functions called
          MaxTime,   \* bound on the clock
          MaxCalls,  \* bound on the calls of a thread
          Profiles   \* the logs of earlier runs, each a sequence of the logs
                     \* of its threads; <<>> when there was none

ProfilerAssumption == Main \in Threads /\ Sites \subseteq Nat \ {0}

PROFILE == 1
ENFORCE == 2
Unset == 0

None == 0

MAX_TIME_K == 1   \* 200 in microseconds

VARIABLES profile,      \* the earlier run max-time.py was given
          pc,           \* where each thread is
          self_tid,     \* -1 before its first call
          num_threads,
          lock,         \* whether the profiler's lock is held, and by whom
          running_mode,
          app_time_table,
          clock,
          my_time,      \* the time of a thread's last update_time
          started,      \* the time of its first
          call,         \* the call a thread is in: function, site, app_time
          last_eip,
          log,          \* of each thread
          resolved      \* the fp_ pointers that are set

vars == <<profile, pc, self_tid, num_threads, lock, running_mode, app_time_table,
          clock, my_time, started, call, last_eip, log, resolved>>

ids == <<profile, self_tid, num_threads, lock, running_mode, app_time_table>>

-----------------------------------------------------------------------------
\* The wrapped functions.

MutexCalls == {"pthread_mutex_lock", "pthread_mutex_unlock",
               "pthread_mutex_trylock", "pthread_mutex_init"}

ThreadCalls == {"pthread_create", "pthread_join", "pthread_exit"}

CondCalls == {"pthread_cond_wait", "pthread_cond_destroy",
              "pthread_cond_timedwait", "pthread_cond_signal",
              "pthread_cond_broadcast"}

BarrierCalls == {"pthread_barrier_init", "pthread_barrier_wait",
                 "pthread_barrier_destroy"}

RWLockCalls == {"pthread_rwlock_trywrlock", "pthread_rwlock_wrlock",
                "pthread_rwlock_rdlock", "pthread_rwlock_tryrdlock",
                "pthread_rwlock_unlock", "pthread_rwlock_destroy",
                "pthread_rwlock_init", "pthread_rwlock_timedwrlock",
                "pthread_rwlock_timedrdlock"}

Wrapped == MutexCalls \cup ThreadCalls \cup CondCalls \cup BarrierCalls
           \cup RWLockCalls \cup {"usleep", "recv"}

\* The symbol a wrapper looks up before it calls its own pointer.
RESOLVE(f) ==
  IF f = "pthread_barrier_destroy" THEN "pthread_barrier_wait" ELSE f

-----------------------------------------------------------------------------
\* The table of delays.

\* last_eip is printed as (null) before the first call of a thread.
NULL == -1

eip_pair(last, eip) == <<last, eip>>

\* max-time.py makes an entry of every pair of consecutive calls of a thread,
\* with 0 for the place before the first: the longest time between the two,
\* how often it met them and the mean time.
Pairs(logs) ==
  {<<i, j>> \in (1 .. Len(logs)) \X (1 .. MaxCalls) : j <= Len(logs[i])}

Pair(logs, at) ==
  LET l == logs[at[1]]
  IN eip_pair(IF at[2] = 1 THEN 0 ELSE l[at[2] - 1].eip, l[at[2]].eip)

Entry(logs, pair) ==
  LET here == {at \in Pairs(logs) : Pair(logs, at) = pair}
      App(at) == logs[at[1]][at[2]].app
      count == Cardinality(here)
  IN [pair |-> pair, max |-> Max({App(at) : at \in here}), count |-> count,
      mean |-> MapThenSumSet(App, here) \div count]

SyncsTime(logs) ==
  SetToSeq({Entry(logs, Pair(logs, at)) : at \in Pairs(logs)})

\* The four words of each line of the file, a number as a sequence of one.
Words(entries) ==
  FlattenSeq([i \in 1 .. Len(entries) |->
                <<entries[i].pair, <<entries[i].max>>,
                  <<entries[i].count>>, <<entries[i].mean>>>>])

IsNumber(w) == Len(w) = 1

\* What is left of a pair when its first digit, a 0, has been read.
Rest(pair) == <<"rest">> \o pair

\* The longest time is stretched.
Stretch(max) == (max * 6) \div 5 + MAX_TIME_K

\* initTid's loop of fscanf, which reads three words at a time: a key, the
\* longest time and the count.  A pair in place of a number is read as 0 up
\* to its second character, and what is left of it is the next key.  A key
\* at the end of the file is entered with the time read last.
RECURSIVE ReadTable(_, _, _)
ReadTable(ws, max_time, table) ==
  LET With(m) == table \cup {[key |-> ws[1], max |-> Stretch(m)]}
      From(i) == SubSeq(ws, i, Len(ws))
  IN CASE ws = <<>> -> table
       [] Len(ws) = 1 -> With(max_time)
       [] Len(ws) > 1 /\ IsNumber(ws[2]) ->
            ReadTable(From(4), ws[2][1], With(ws[2][1]))
       [] OTHER -> ReadTable(<<Rest(ws[2])>> \o From(3), 0, With(0))

-----------------------------------------------------------------------------
Init ==
  /\ profile \in Profiles
  /\ pc = [t \in Threads |-> "app"]
  /\ self_tid = [t \in Threads |-> -1]
  /\ num_threads = 0 /\ lock = None
  /\ running_mode = Unset /\ app_time_table = {}
  /\ clock = 0
  /\ my_time = [t \in Threads |-> 0] /\ started = [t \in Threads |-> 0]
  /\ call = [t \in Threads |-> [fn |-> "", eip |-> None, app |-> 0]]
  /\ last_eip = [t \in Threads |-> NULL]
  /\ log = [t \in Threads |-> <<>>]
  /\ resolved = {}

\* A failed assertion and a call of a null pointer end the program.
Running == \A t \in Threads : pc[t] \notin {"stopped", "segv"}

Tick ==
  /\ clock < MaxTime
  /\ clock' = clock + 1
  /\ UNCHANGED <<pc, ids, my_time, started, call, last_eip, log, resolved>>

Goto(t, place) == pc' = [pc EXCEPT ![t] = place]

\* The main thread has created the others.
Created ==
  \/ pc[Main] = "end" /\ call[Main].fn = "pthread_create"
  \/ \E i \in DOMAIN log[Main] : log[Main][i].op = "pthread_create"

\* The program calls a wrapped function.
Call(t, f, eip) ==
  /\ pc[t] = "app" /\ Len(log[t]) < MaxCalls
  /\ t # Main => Created
  /\ call' = [call EXCEPT ![t] = [fn |-> f, eip |-> eip, app |-> 0]]
  /\ Goto(t, IF self_tid[t] = -1 THEN "lock" ELSE "start")
  /\ UNCHANGED <<ids, clock, my_time, started, last_eip, log, resolved>>

\* initTid: the ids are given out under the lock.
Acquire(t) ==
  /\ pc[t] = "lock" /\ lock = None
  /\ lock' = t
  /\ Goto(t, "id")
  /\ UNCHANGED <<profile, self_tid, num_threads, running_mode,
                 app_time_table, clock, my_time, started, call, last_eip,
                 log, resolved>>

TakeId(t) ==
  /\ pc[t] = "id"
  /\ self_tid' = [self_tid EXCEPT ![t] = num_threads]
  /\ Goto(t, "count")
  /\ UNCHANGED <<profile, num_threads, lock, running_mode, app_time_table,
                 clock, my_time, started, call, last_eip, log, resolved>>

\* The id after the first is left to the idle thread.  The first thread
\* decides the mode, and reads the table if there is one.
Count(t) ==
  /\ pc[t] = "count"
  /\ num_threads' = IF num_threads = 0 THEN 2 ELSE num_threads + 1
  /\ IF self_tid[t] = 0
       THEN /\ app_time_table' =
                 ReadTable(Words(SyncsTime(profile)), 0, {})
            /\ running_mode' = IF profile = <<>> THEN PROFILE ELSE ENFORCE
       ELSE UNCHANGED <<app_time_table, running_mode>>
  /\ lock' = None
  /\ my_time' = [my_time EXCEPT ![t] = clock]
  /\ started' = [started EXCEPT ![t] = clock]
  /\ Goto(t, "start")
  /\ UNCHANGED <<profile, self_tid, clock, call, last_eip, log, resolved>>

\* Faulty variant: the time of the last call is kept.
update_time_kept(t) == my_time' = my_time

\* The time since the last update, which this one replaces.
update_time(t) == my_time' = [my_time EXCEPT ![t] = clock]

Elapsed(t) == clock - my_time[t]

\* OPERATION_START takes the time and then a backtrace.
Start(t) ==
  /\ pc[t] = "start"
  /\ call' = [call EXCEPT ![t].app = Elapsed(t)]
  /\ update_time(t)
  /\ Goto(t, "backtrace")
  /\ UNCHANGED <<ids, clock, started, last_eip, log, resolved>>

\* The backtrace may enter pthread_mutex_lock and its unlock again.  They
\* take the time, which nobody logs, and no backtrace of their own.
Backtrace(t) ==
  /\ pc[t] = "backtrace"
  /\ \/ /\ update_time(t)
        /\ resolved' =
             resolved \cup {"pthread_mutex_lock", "pthread_mutex_unlock"}
     \/ UNCHANGED <<my_time, resolved>>
  /\ Goto(t, IF running_mode = ENFORCE THEN "enforce" ELSE "resolve")
  /\ UNCHANGED <<ids, clock, started, call, last_eip, log>>

Entries(t) ==
  {e \in app_time_table : e.key = eip_pair(last_eip[t], call[t].eip)}

\* The call is delayed to the time of its entry.  Without one, or when it
\* came later than that, the program is stopped.
Enforce(t) ==
  /\ pc[t] = "enforce"
  /\ IF \E e \in Entries(t) : call[t].app <= e.max
       THEN /\ \E e \in Entries(t) : clock >= my_time[t] + e.max - call[t].app
            /\ Goto(t, "resolve")
       ELSE Goto(t, "stopped")
  /\ UNCHANGED <<ids, clock, my_time, started, call, last_eip, log, resolved>>

\* The pointer is looked up, and called once it is: what is called is the
\* pointer of the wrapper itself.
Resolve(t) ==
  /\ pc[t] = "resolve"
  /\ resolved' = resolved \cup {RESOLVE(call[t].fn)}
  /\ Goto(t, IF call[t].fn \in resolved' THEN "end" ELSE "segv")
  /\ UNCHANGED <<ids, clock, my_time, started, call, last_eip, log>>

\* OPERATION_END logs the call; pthread_exit is logged before it is called.
End(t) ==
  /\ pc[t] = "end"
  /\ log' = [log EXCEPT ![t] = Append(@,
               [op |-> call[t].fn, eip |-> call[t].eip,
                app |-> call[t].app, syscall |-> Elapsed(t)])]
  /\ update_time(t)
  /\ last_eip' = [last_eip EXCEPT ![t] = call[t].eip]
  /\ Goto(t, IF call[t].fn = "pthread_exit" THEN "exited" ELSE "app")
  /\ UNCHANGED <<ids, clock, started, call, resolved>>

Next ==
  /\ Running
  /\ \/ Tick
     \/ \E t \in Threads :
          \/ \E f \in Calls \cap Wrapped, eip \in Sites : Call(t, f, eip)
          \/ Acquire(t) \/ TakeId(t) \/ Count(t)
          \/ Start(t) \/ Backtrace(t) \/ Enforce(t) \/ Resolve(t) \/ End(t)

Spec == Init /\ [][Next]_vars

-----------------------------------------------------------------------------
Logged(t) == FoldLeft(LAMBDA s, l : s + l.app + l.syscall, 0, log[t])

\* No time is counted twice: the times OPERATION_START and OPERATION_END log
\* for a thread add up to no more than has passed since its first call,
\* although backtraces restart its clock in between.
TimeCountedOnce == \A t \in Threads : Logged(t) <= my_time[t] - started[t]

\* initTid gives no two threads one id, and none the id of the idle thread.
IdsDistinct ==
  \A t \in Threads :
    self_tid[t] # -1 => /\ self_tid[t] # 1
                        /\ \A u \in Threads \ {t} : self_tid[u] # self_tid[t]

\* A wrapper calls the function it wraps: RESOLVE has set its pointer.
WrapperResolved == \A t \in Threads : pc[t] # "segv"

\* Every line max-time.py wrote is an entry of the table of a later run.
LinesLoaded ==
  running_mode = ENFORCE =>
    \A i \in DOMAIN SyncsTime(profile) :
      \E e \in app_time_table :
        /\ e.key = SyncsTime(profile)[i].pair
        /\ e.max = Stretch(SyncsTime(profile)[i].max)

\* A call that repeats the first call of a profiled thread, and is no later
\* than that, is not stopped by OPERATION_START.
ProfiledCallsPass ==
  \A t \in Threads :
    pc[t] = "stopped" /\ last_eip[t] = NULL =>
      ~\E i \in DOMAIN profile :
         /\ profile[i] # <<>>
         /\ profile[i][1].eip = call[t].eip
         /\ call[t].app <= profile[i][1].app

=============================================================================
