---------------------------- MODULE HookedCalls ----------------------------
(***************************************************************************)
(* The calls minSMT interposes, grouped the way the source groups them:    *)
(* what the tern_* hook of a call does around it (hooks.cpp), whether the  *)
(* default runtime hands errno to the libc function and back (runtime.cpp) *)
(* and which of its patterns RecorderRT uses for it (record-runtime.cpp).  *)
(* Every set lists the functions of one stretch of one file.               *)
(***************************************************************************)

(***************************************************************************)
(* hooks.cpp.  A standard hook saves errno in its local error, enters Sys  *)
(* space, calls Runtime::the, leaves Sys space and restores errno.         *)
(***************************************************************************)
ThreadHooks == {"pthread_cancel", "pthread_create", "pthread_join", "pthread_detach"}

MutexHooks ==
  {"pthread_mutex_init", "pthread_mutex_destroy", "pthread_mutex_lock",
   "pthread_mutex_trylock", "pthread_mutex_timedlock", "pthread_mutex_unlock"}

CondHooks ==
  {"pthread_cond_wait", "pthread_cond_timedwait", "pthread_cond_signal",
   "pthread_cond_broadcast"}

BarrierHooks == {"pthread_barrier_init", "pthread_barrier_wait", "pthread_barrier_destroy"}

SemHooks == {"sem_init", "sem_wait", "sem_trywait", "sem_timedwait", "sem_post"}

LineupHooks ==
  {"lineup_init", "lineup_destroy", "lineup_start", "lineup_end",
   "non_det_start", "non_det_end"}

TurnHooks ==
  {"propose_thread_role", "ext_get_turn", "ext_put_turn", "detach",
   "set_base_time", "non_det_barrier_end"}

SocketHooks ==
  {"sigwait", "socket", "listen", "accept", "accept4", "connect",
   "gethostbyname", "gethostbyname_r", "getaddrinfo", "freeaddrinfo",
   "gethostbyaddr", "inet_ntoa", "strtok", "send"}

MessageHooks ==
  {"sendto", "sendmsg", "recv", "recvfrom", "recvmsg", "shutdown",
   "getpeername", "getsockopt", "setsockopt", "pipe", "fcntl"}

FileHooks ==
  {"close", "read", "write", "pread", "pwrite", "epoll_wait", "epoll_create",
   "epoll_ctl", "select", "poll", "bind"}

SleepHooks == {"sched_yield", "sleep", "usleep", "nanosleep", "fgets"}

ProcessHooks == {"kill", "fork", "execv", "wait", "waitpid"}

ClockHooks ==
  {"time", "clock_getres", "clock_gettime", "clock_settime", "gettimeofday",
   "settimeofday"}

RWLockHooks ==
  {"pthread_rwlock_rdlock", "pthread_rwlock_tryrdlock", "pthread_rwlock_wrlock",
   "pthread_rwlock_trywrlock", "pthread_rwlock_unlock", "pthread_rwlock_destroy",
   "pthread_rwlock_init"}

SlockHooks == {"slock_next_n"}

\* These hooks only save and restore errno ...
TaskHooks == {"mark_task_start", "mark_task_end", "unmark_task"}

\* ... and these do not even do that.
NoWaitHooks == {"no_wait_non_det_start", "no_wait_non_det_end"}

StandardHooks ==
  ThreadHooks \cup MutexHooks \cup CondHooks \cup BarrierHooks \cup SemHooks
  \cup LineupHooks \cup SlockHooks \cup TurnHooks \cup SocketHooks
  \cup MessageHooks \cup FileHooks \cup SleepHooks \cup ProcessHooks
  \cup ClockHooks \cup RWLockHooks

(***************************************************************************)
(* annotation_hooks.cpp.  An annotation is its hook in App space, with the *)
(* options on, and nothing in Sys space.                                   *)
(***************************************************************************)
RegionAnnotations == LineupHooks \cup NoWaitHooks \cup SlockHooks

TurnAnnotations == TaskHooks \cup TurnHooks

Annotations == RegionAnnotations \cup TurnAnnotations

(***************************************************************************)
(* runtime.cpp.  Runtime::__op sets errno from error, calls the libc       *)
(* function and stores errno in error again.                               *)
(***************************************************************************)
CancelPass == {"pthread_cancel", "pthread_mutex_init", "pthread_mutex_destroy"}

DetachPass == {"pthread_detach"}

SocketPass ==
  {"socket", "getsockopt", "setsockopt", "pipe", "fcntl", "listen", "accept",
   "accept4"}

NamePass ==
  {"connect", "gethostbyname", "gethostbyname_r", "getaddrinfo", "freeaddrinfo",
   "gethostbyaddr", "inet_ntoa", "strtok"}

\* recv is a single call as long as non_block_recv is off, its default.
SendPass == {"send", "sendto", "sendmsg", "recv"}

RecvPass == {"recvfrom", "recvmsg", "shutdown", "getpeername", "close", "read"}

IOPass == {"write", "pread", "pwrite", "select", "poll", "bind", "sigwait"}

PollPass == {"epoll_wait", "epoll_create", "epoll_ctl", "sleep", "usleep", "fgets"}

ProcessPass ==
  {"kill", "fork", "execv", "wait", "waitpid", "sched_yield", "nanosleep"}

ClockPass ==
  {"time", "clock_getres", "clock_gettime", "clock_settime", "gettimeofday",
   "settimeofday"}

SyncPass ==
  {"sem_init", "sem_wait", "sem_post", "pthread_mutex_init",
   "pthread_mutex_destroy", "pthread_mutex_lock", "pthread_mutex_unlock"}

RuntimePasses ==
  CancelPass \cup DetachPass \cup SocketPass \cup NamePass \cup SendPass
  \cup RecvPass \cup IOPass \cup PollPass \cup ProcessPass \cup ClockPass
  \cup SyncPass

(***************************************************************************)
(* record-runtime.cpp.  Blocked calls leave the run queue for the time of  *)
(* the libc call (BLOCK_TIMER_START / BLOCK_TIMER_END); in a               *)
(* non-deterministic region they are Runtime::__op and nothing else.       *)
(***************************************************************************)
BlockedSockets ==
  {"accept", "accept4", "connect", "send", "sendto", "sendmsg", "recv",
   "recvfrom", "recvmsg"}

BlockedPolls ==
  {"select", "epoll_wait", "epoll_create", "epoll_ctl", "poll", "bind", "sigwait"}

BlockedProcess == {"kill"}

BlockedWaits == {"wait", "waitpid"}

BlockedNames ==
  {"gethostbyname", "gethostbyname_r", "getaddrinfo", "freeaddrinfo",
   "gethostbyaddr", "inet_ntoa", "strtok"}

BlockedSetup ==
  {"socket", "listen", "shutdown", "getsockopt", "setsockopt", "pipe", "fcntl"}

BlockedDetach == {"pthread_detach"}

\* Calls on a descriptor: blocked like the others unless the file is regular.
FileCalls == {"read", "write", "pread", "pwrite"}

FgetsCall == {"fgets"}

CloseCall == {"close"}

DescriptorCalls == FileCalls \cup FgetsCall \cup CloseCall

Blocked ==
  BlockedSockets \cup BlockedPolls \cup BlockedProcess \cup BlockedWaits
  \cup BlockedNames \cup BlockedSetup \cup BlockedDetach

\* Runtime::__op with no turn and no blocking.
DirectClocks == ClockHooks

DirectCalls == DirectClocks \cup {"getpeername", "pthread_cancel"}

\* Calls that change a field of the runtime and take no turn.
Unscheduled ==
  {"slock_next_n", "propose_thread_role", "detach", "set_base_time"} \cup TaskHooks
  \cup NoWaitHooks

\* Of those, the calls without a branch for non-deterministic regions.
NoRegionBranch ==
  {"pthread_create", "pthread_join", "sleep", "usleep", "nanosleep", "fork",
   "execv"}

\* The scheduled calls that hand errno to the libc function and back.
ScheduledKeep ==
  {"pthread_join", "pthread_cond_wait", "pthread_cond_timedwait",
   "pthread_barrier_init", "pthread_barrier_destroy", "sem_trywait", "fork",
   "execv"} \cup MutexHooks \cup RWLockHooks
=============================================================================
