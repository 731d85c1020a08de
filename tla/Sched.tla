------------------------------- MODULE Sched --------------------------------
(***************************************************************************)
(* The kernel thread scheduler, src/kernel/sched.c, with the timer         *)
(* interrupt that drives it (idt.c, timer.c) on the one processor the      *)
(* kernel runs on.                                                         *)
(*                                                                         *)
(* A step is what the running thread does between two points where the     *)
(* timer interrupt can strike.  sched_yield() runs with interrupts off and *)
(* is one step; so is the interrupt, with the sched_yield() it calls when  *)
(* it has asked for a reschedule.  sched_sleep_ms(), sched_exit() and      *)
(* sched_create_thread_prio() run with interrupts on and are cut into the  *)
(* steps that matter.                                                      *)
(*                                                                         *)
(* Time is relative: sleep_until[t] counts the ticks that are left until   *)
(* the absolute time the code stores, and so does the local `wake'.        *)
(*                                                                         *)
(* sched_in_yield is 0 whenever the lock is free and is left out; so are   *)
(* the list of all threads (nothing but the reaper's own unlinking reads   *)
(* it), the CPU time counters, the FPU state and the stacks' contents.     *)
(***************************************************************************)
EXTENDS Integers, FiniteSets, Sequences, SequencesExt

CONSTANTS
  THREAD_MAX,     (* slots of the thread table; slot 0 is idle_thread      *)
  Ops,            (* what the threads of the workload do besides computing *)
  Sleeps,         (* the sleeps they ask for, in ticks                     *)
  StackAllocFails,(* may pmm_alloc_pages fail for a new thread's stacks?   *)
  InitialThreads, (* threads the boot thread has created before Init       *)
  NIL

ASSUME SchedAssumption ==
  /\ THREAD_MAX \in Nat \ {0}
  /\ Ops \subseteq {"yield", "sleep", "exit", "create", "syscall", "syscall_blocks",
             "alloc"}
  /\ Sleeps \subseteq Nat
  /\ StackAllocFails \in BOOLEAN
  /\ InitialThreads \in 0 .. THREAD_MAX - 1
  /\ NIL \notin Nat

VARIABLES
  state,          (* per slot: thread_state_t                              *)
  used,           (* per slot: tid # 0                                     *)
  priority,       (* per slot                                              *)
  sleep_until,    (* per slot: ticks left                                  *)
  ready,          (* ready_head, ready_tail, and ready_next of every slot  *)
  current_thread,
  thread_count,
  preemption_enabled,
  sched_lock,
  in_syscall,     (* per slot: inside int 0x80                             *)
  irq_off,        (* the processor's interrupt flag is clear               *)
  pc,             (* per slot: where its context stands, "none" without one*)
  wake,           (* per slot: local `wake' of sched_sleep_ms, ticks left  *)
  creating,       (* the slot the boot thread is filling in                *)
  panic           (* why the machine is dead, or "none"                    *)

threadVars == <<state, used, priority, sleep_until, thread_count>>
syscallVars == <<preemption_enabled, in_syscall, irq_off>>
localVars  == <<pc, wake, creating>>
vars == <<state, used, priority, sleep_until, ready, current_thread, thread_count,
          preemption_enabled, sched_lock, in_syscall, irq_off, pc, wake, creating, panic>>

idle_thread == 0

Slots == 0 .. THREAD_MAX - 1

(* The boot thread's priority, and the one every caller creates with.      *)
SCHED_PRIO_IDLE   == 0
SCHED_PRIO_NORMAL == 2
Priorities == {SCHED_PRIO_IDLE, SCHED_PRIO_NORMAL}

States == {"READY", "RUNNING", "BLOCKED", "ZOMBIE"}

(* Labels of the code a thread is about to run.                            *)
Labels == {"none", "run", "sleep_lock", "sleep_block", "sleep_until", "sleep_unlock",
           "sleep_check", "sleep_hlt", "exit_yield", "exit_halt", "push", "push_head", "push_link",
           "push_tail", "create_count", "pmm"}

-----------------------------------------------------------------------------
(* Ready queues: a record of the heads, the tails and the ready_next links. *)

(* ready_queue_push: the cleared link of t comes before the link to t.     *)
ready_queue_push(q, t, p) ==
  IF q.head[p] = NIL
  THEN [q EXCEPT !.next[t] = NIL, !.head[p] = t, !.tail[p] = t]
  ELSE [q EXCEPT !.next[t] = NIL, !.next[q.tail[p]] = t, !.tail[p] = t]

(* It dereferences a null tail under a head that is not.                   *)
PushFaults(q, p) == q.head[p] # NIL /\ q.tail[p] = NIL

(* Faulty variant, for mutation: the tail survives the last pop.           *)
PopKeepsTail(q, p) ==
  LET t == q.head[p] IN [q EXCEPT !.head[p] = q.next[t], !.next[t] = NIL]

(* What ready_queue_pop leaves.                                            *)
ready_queue_pop(q, p) ==
  LET t == q.head[p]
  IN  [q EXCEPT !.head[p] = q.next[t],
                !.tail[p] = IF q.next[t] = NIL THEN NIL ELSE @,
                !.next[t] = NIL]

(* A scan of the thread table, from slot 0 on, pushes the slots of S.       *)
Scan == [i \in 1 .. THREAD_MAX |-> i - 1]

PushInOrder(q, prio, S) ==
  FoldLeft(LAMBDA acc, t : IF t \in S THEN ready_queue_push(acc, t, prio[t]) ELSE acc, q, Scan)

-----------------------------------------------------------------------------
(* pmm_lock is held: by a thread inside an operation of pmm.c.             *)
PmmHeld == \E t \in Slots : pc[t] = "pmm"

-----------------------------------------------------------------------------
(* sched_yield, called with interrupts off on thread table `st' and queues *)
(* `q' (the interrupt handler has already changed them when it calls it).  *)

(* Faulty variant, for mutation: the reaper may take the running thread.   *)
ReapableRunning(st) == {t \in Slots : st[t] = "ZOMBIE" /\ t # idle_thread}

Reapable(st) == {t \in Slots : st[t] = "ZOMBIE" /\ t # idle_thread /\ t # current_thread}

(* memset of every reaped slot.                                            *)
Clear(f, S, zero) == [t \in Slots |-> IF t \in S THEN zero ELSE f[t]]

(* Faulty variants, for mutation: a zombie goes back on its queue; the     *)
(* boot thread keeps its state.                                            *)
RequeuesZombie(st, t) == st[t] # "BLOCKED"
RequeuesUnlessIdle(st, t) == st[t] = "RUNNING" /\ t # idle_thread

(* Only a running caller goes back on a queue.                             *)
Requeues(st, t) == st[t] = "RUNNING"

NonEmpty(q) == {p \in Priorities : q.head[p] # NIL}

Highest(P) == CHOOSE p \in P : \A r \in P : r <= p

(* Under sched_lock.  The caller goes on at `after', now or when it is     *)
(* scheduled again; a slot without a context has no stack to switch to.    *)
Reschedule(st, q, sleep, after) ==
  LET dead    == Reapable(st)
      st1     == Clear(st, dead, "READY")
      prio1   == Clear(priority, dead, 0)
      pc1     == Clear(pc, dead, "none")
      q1      == [q EXCEPT !.next = Clear(@, dead, NIL)]
      some    == NonEmpty(q1) # {}
      top     == Highest(NonEmpty(q1))
      next    == IF some THEN q1.head[top] ELSE idle_thread
      q2      == IF some THEN ready_queue_pop(q1, top) ELSE q1
      prev    == current_thread
      runs    == st1[next] = "READY" \/ next = idle_thread
      requeue == runs /\ Requeues(st1, prev)
  IN  /\ used' = Clear(used, dead, FALSE)
      /\ priority' = prio1
      /\ sleep_until' = Clear(sleep, dead, 0)
      /\ thread_count' = thread_count - Cardinality(dead)
      /\ state' = IF runs
                  THEN [st1 EXCEPT ![prev] = IF requeue THEN "READY" ELSE @,
                                   ![next] = "RUNNING"]
                  ELSE st1
      /\ ready' = IF requeue THEN ready_queue_push(q2, prev, prio1[prev]) ELSE q2
      /\ current_thread' = IF runs THEN next ELSE prev
      /\ pc' = [pc1 EXCEPT ![prev] = after]
      /\ irq_off' = FALSE
      /\ panic' = IF runs /\ pc1[next] = "none" THEN "no_stack"
                  ELSE IF requeue /\ PushFaults(q2, prio1[prev]) THEN "null_deref"
                  ELSE panic

(* With interrupts off a lock that is held is never released: sched_lock,  *)
(* or the pmm_lock that the reaper takes to free the stacks of the dead.   *)
sched_yield(st, q, sleep, after) ==
  LET reaper_waits == Reapable(st) # {} /\ PmmHeld
  IN  \/ /\ sched_lock \/ reaper_waits
         /\ panic' = IF sched_lock THEN "spin" ELSE "pmm_spin"
         /\ state' = st /\ ready' = q /\ sleep_until' = sleep
         /\ UNCHANGED <<used, priority, thread_count, current_thread, irq_off, pc>>
      \/ /\ ~ sched_lock /\ ~ reaper_waits
         /\ Reschedule(st, q, sleep, after)

-----------------------------------------------------------------------------
(* Init: sched_init, then InitialThreads threads created before any timer  *)
(* interrupt; they are on the queue in order.                              *)

Init ==
  LET created == 1 .. InitialThreads
      empty   == [head |-> [p \in Priorities |-> NIL],
                  tail |-> [p \in Priorities |-> NIL],
                  next |-> [t \in Slots |-> NIL]]
  IN  /\ state = [t \in Slots |-> "READY"]
      /\ used = [t \in Slots |-> t \in created]
      /\ priority = [t \in Slots |-> IF t \in created THEN SCHED_PRIO_NORMAL ELSE 0]
      /\ sleep_until = [t \in Slots |-> 0]
      /\ ready = PushInOrder(empty, priority, created)
      /\ current_thread = idle_thread
      /\ thread_count = 1 + InitialThreads
      /\ preemption_enabled = TRUE
      /\ sched_lock = FALSE
      /\ in_syscall = [t \in Slots |-> FALSE] /\ irq_off = FALSE
      /\ pc = [t \in Slots |-> IF t \in created \cup {idle_thread} THEN "run" ELSE "none"]
      /\ wake = [t \in Slots |-> 0]
      /\ creating = NIL
      /\ panic = "none"

(* Thread t is on the processor, about to run the code at label.           *)
At(t, label) == panic = "none" /\ current_thread = t /\ pc[t] = label

Goto(t, label) == pc' = [pc EXCEPT ![t] = label]

-----------------------------------------------------------------------------
(* What a thread calls.                                                    *)

(* May t wait for something?  In a system call only in some workloads.     *)
MayBlock(t) == in_syscall[t] => "syscall_blocks" \in Ops

Yield(t) ==
  /\ "yield" \in Ops /\ At(t, "run") /\ MayBlock(t)
  /\ sched_yield(state, ready, sleep_until, "run")
  /\ UNCHANGED <<preemption_enabled, sched_lock, in_syscall, wake, creating>>

(* int 0x80 is an interrupt gate, and syscall_irq switches preemption off  *)
(* for the length of the call, for whichever thread runs until it returns. *)
EnterSyscall(t) ==
  /\ "syscall" \in Ops /\ At(t, "run") /\ ~ in_syscall[t]
  /\ in_syscall' = [in_syscall EXCEPT ![t] = TRUE]
  /\ preemption_enabled' = FALSE
  /\ irq_off' = TRUE
  /\ UNCHANGED <<threadVars, ready, current_thread, sched_lock, localVars, panic>>

(* Faulty variant, for mutation: preemption is not switched on again.      *)
LeaveSyscallUnpreemptible(t) ==
  /\ At(t, "run") /\ in_syscall[t]
  /\ in_syscall' = [in_syscall EXCEPT ![t] = FALSE]
  /\ irq_off' = FALSE
  /\ UNCHANGED <<threadVars, ready, current_thread, preemption_enabled, sched_lock,
                 localVars, panic>>

LeaveSyscall(t) ==
  /\ At(t, "run") /\ in_syscall[t]
  /\ in_syscall' = [in_syscall EXCEPT ![t] = FALSE]
  /\ preemption_enabled' = TRUE
  /\ irq_off' = FALSE
  /\ UNCHANGED <<threadVars, ready, current_thread, sched_lock, localVars, panic>>

(* sched_sleep_ms, from computing `wake' to leaving the loop.              *)
SleepBegin(t) ==
  /\ "sleep" \in Ops /\ At(t, "run") /\ MayBlock(t)
  /\ \E d \in Sleeps : wake' = [wake EXCEPT ![t] = d]
  /\ Goto(t, "sleep_lock")
  /\ UNCHANGED <<threadVars, ready, current_thread, syscallVars, sched_lock,
                 creating, panic>>

(* Faulty variant, for mutation: the lock is not taken.                    *)
SleepWithoutLock(t) ==
  /\ At(t, "sleep_lock")
  /\ Goto(t, "sleep_block")
  /\ UNCHANGED <<threadVars, ready, current_thread, syscallVars, sched_lock, wake,
                 creating, panic>>

SleepLock(t) ==
  /\ At(t, "sleep_lock")
  /\ ~ sched_lock
  /\ sched_lock' = TRUE
  /\ Goto(t, "sleep_block")
  /\ UNCHANGED <<threadVars, ready, current_thread, syscallVars, wake,
                 creating, panic>>

SleepBlock(t) ==
  /\ At(t, "sleep_block")
  /\ state' = [state EXCEPT ![t] = "BLOCKED"]
  /\ Goto(t, "sleep_until")
  /\ UNCHANGED <<used, priority, sleep_until, thread_count, ready, current_thread,
                 syscallVars, sched_lock, wake, creating, panic>>

SleepUntil(t) ==
  /\ At(t, "sleep_until")
  /\ sleep_until' = [sleep_until EXCEPT ![t] = wake[t]]
  /\ Goto(t, "sleep_unlock")
  /\ UNCHANGED <<state, used, priority, thread_count, ready, current_thread,
                 syscallVars, sched_lock, wake, creating, panic>>

(* Faulty variant, for mutation: the lock is kept.                         *)
SleepKeepsLock(t) ==
  /\ At(t, "sleep_unlock")
  /\ Goto(t, "sleep_check")
  /\ UNCHANGED <<threadVars, ready, current_thread, syscallVars, sched_lock, wake,
                 creating, panic>>

SleepUnlock(t) ==
  /\ At(t, "sleep_unlock")
  /\ sched_lock' = FALSE
  /\ Goto(t, "sleep_check")
  /\ UNCHANGED <<threadVars, ready, current_thread, syscallVars, wake,
                 creating, panic>>

SleepCheck(t) ==
  /\ At(t, "sleep_check")
  /\ Goto(t, IF state[t] = "BLOCKED" THEN "sleep_hlt" ELSE "run")
  /\ UNCHANGED <<threadVars, ready, current_thread, syscallVars, sched_lock,
                 wake, creating, panic>>

(* hlt ends with any interrupt, the timer's or a device's.                 *)
SleepHlt(t) ==
  /\ At(t, "sleep_hlt")
  /\ sched_yield(state, ready, sleep_until, "sleep_check")
  /\ UNCHANGED <<preemption_enabled, sched_lock, in_syscall, wake, creating>>

(* pmm_alloc_page and the other operations of pmm.c, under their lock.     *)
(* spin_lock leaves interrupts as they are: waiting with interrupts on is  *)
(* waiting until the holder is scheduled, with interrupts off it has no end. *)
PmmLock(t) ==
  /\ "alloc" \in Ops /\ At(t, "run")
  /\ \/ ~ PmmHeld /\ Goto(t, "pmm") /\ UNCHANGED panic
     \/ PmmHeld /\ irq_off /\ panic' = "pmm_spin" /\ UNCHANGED pc
  /\ UNCHANGED <<threadVars, ready, current_thread, syscallVars, sched_lock, wake,
                 creating>>

PmmUnlock(t) ==
  /\ At(t, "pmm")
  /\ Goto(t, "run")
  /\ UNCHANGED <<threadVars, ready, current_thread, syscallVars, sched_lock, wake,
                 creating, panic>>

(* sched_exit; a thread the scheduler comes back to halts the processor.   *)
ExitZombie(t) ==
  /\ "exit" \in Ops /\ t # idle_thread /\ At(t, "run") /\ ~ in_syscall[t]
  /\ state' = [state EXCEPT ![t] = "ZOMBIE"]
  /\ Goto(t, "exit_yield")
  /\ UNCHANGED <<used, priority, sleep_until, thread_count, ready, current_thread,
                 syscallVars, sched_lock, wake, creating, panic>>

ExitYield(t) ==
  /\ At(t, "exit_yield")
  /\ sched_yield(state, ready, sleep_until, "exit_halt")
  /\ UNCHANGED <<preemption_enabled, sched_lock, in_syscall, wake, creating>>

ExitHalt(t) ==
  /\ At(t, "exit_halt")
  /\ panic' = "halted"
  /\ UNCHANGED <<threadVars, ready, current_thread, syscallVars, sched_lock, localVars>>

-----------------------------------------------------------------------------
(* sched_create_thread_prio, on the boot thread, where every call site is. *)

(* Up to the stacks: a slot whose stacks cannot be had stays filled in.    *)
CreateBegin ==
  /\ "create" \in Ops /\ At(idle_thread, "run") /\ ~ in_syscall[idle_thread]
  /\ thread_count < THREAD_MAX
  /\ ~ PmmHeld
  /\ LET dead  == Reapable(state)
         st1   == Clear(state, dead, "READY")
         used1 == Clear(used, dead, FALSE)
         free  == {t \in Slots \ {idle_thread} : st1[t] = "READY" /\ ~ used1[t]}
         pc1   == Clear(pc, dead, "none")
         prio1 == Clear(priority, dead, 0)
         until == Clear(sleep_until, dead, 0)
         q1    == [ready EXCEPT !.next = Clear(@, dead, NIL)]
     IN  /\ thread_count' = thread_count - Cardinality(dead)
         /\ \/ /\ free = {}
               /\ state' = st1 /\ used' = used1 /\ priority' = prio1
               /\ sleep_until' = until /\ ready' = q1 /\ pc' = pc1
               /\ UNCHANGED creating
            \/ \E t \in free, fails \in {FALSE, StackAllocFails} :
                 /\ \A u \in free : t <= u
                 /\ state' = st1
                 /\ used' = [used1 EXCEPT ![t] = TRUE]
                 /\ priority' = [prio1 EXCEPT ![t] = SCHED_PRIO_NORMAL]
                 /\ sleep_until' = [until EXCEPT ![t] = 0]
                 /\ ready' = [q1 EXCEPT !.next[t] = NIL]
                 /\ IF fails
                    THEN pc' = pc1 /\ UNCHANGED creating
                    ELSE /\ pc' = [pc1 EXCEPT ![t] = "run", ![idle_thread] = "push"]
                         /\ creating' = t
  /\ UNCHANGED <<current_thread, syscallVars, sched_lock, wake, panic>>

(* ready_queue_push of the new thread, without the lock.                   *)
CreatePush ==
  /\ At(idle_thread, "push")
  /\ ready' = [ready EXCEPT !.next[creating] = NIL]
  /\ Goto(idle_thread, IF ready.head[SCHED_PRIO_NORMAL] = NIL THEN "push_head" ELSE "push_link")
  /\ UNCHANGED <<threadVars, current_thread, syscallVars, sched_lock, wake,
                 creating, panic>>

CreatePushHead ==
  /\ At(idle_thread, "push_head")
  /\ ready' = [ready EXCEPT !.head[SCHED_PRIO_NORMAL] = creating]
  /\ Goto(idle_thread, "push_tail")
  /\ UNCHANGED <<threadVars, current_thread, syscallVars, sched_lock, wake,
                 creating, panic>>

CreatePushLink ==
  LET tail == ready.tail[SCHED_PRIO_NORMAL]
  IN  /\ At(idle_thread, "push_link")
      /\ IF tail = NIL
         THEN panic' = "null_deref" /\ UNCHANGED ready
         ELSE ready' = [ready EXCEPT !.next[tail] = creating] /\ UNCHANGED panic
      /\ Goto(idle_thread, "push_tail")
      /\ UNCHANGED <<threadVars, current_thread, syscallVars, sched_lock, wake,
                     creating>>

CreatePushTail ==
  /\ At(idle_thread, "push_tail")
  /\ ready' = [ready EXCEPT !.tail[SCHED_PRIO_NORMAL] = creating]
  /\ Goto(idle_thread, "create_count")
  /\ UNCHANGED <<threadVars, current_thread, syscallVars, sched_lock, wake,
                 creating, panic>>

(* Faulty variant, for mutation: the new thread is not counted.            *)
CreateUncounted ==
  /\ At(idle_thread, "create_count")
  /\ creating' = NIL
  /\ Goto(idle_thread, "run")
  /\ UNCHANGED <<threadVars, ready, current_thread, syscallVars, sched_lock, wake, panic>>

CreateCount ==
  /\ At(idle_thread, "create_count")
  /\ thread_count' = thread_count + 1
  /\ creating' = NIL
  /\ Goto(idle_thread, "run")
  /\ UNCHANGED <<state, used, priority, sleep_until, ready, current_thread,
                 syscallVars, sched_lock, wake, panic>>

-----------------------------------------------------------------------------
(* The timer interrupt: timer_irq, sched_timer_tick, and the sched_yield   *)
(* of isr_dispatch_c when the running thread was put back on its queue.    *)

Elapse(f) == [t \in Slots |-> IF f[t] = 0 THEN 0 ELSE f[t] - 1]

Woken == {t \in Slots : state[t] = "BLOCKED" /\ Elapse(sleep_until)[t] = 0}

(* Faulty variant, for mutation: a thread is preempted in whatever state.  *)
PreemptsAnyState(st) == preemption_enabled /\ current_thread # idle_thread

(* Does the tick take the processor from the running thread?               *)
Preempts(st) ==
  preemption_enabled /\ current_thread # idle_thread /\ st[current_thread] = "RUNNING"

TickWhileLocked ==
  /\ sched_lock
  /\ sleep_until' = Elapse(sleep_until)
  /\ UNCHANGED <<state, used, priority, thread_count, ready, current_thread, irq_off, pc, panic>>

TickUnlocked ==
  LET cur   == current_thread
      woken == Woken
      q1    == PushInOrder(ready, priority, woken)
      st1   == [t \in Slots |-> IF t \in woken THEN "READY" ELSE state[t]]
      need_resched == Preempts(st1)
      st2   == [st1 EXCEPT ![cur] = "READY"]
      q2    == ready_queue_push(q1, cur, priority[cur])
      queued == IF need_resched THEN woken \cup {cur} ELSE woken
  IN  /\ ~ sched_lock
      /\ IF \E t \in queued : PushFaults(ready, priority[t])
         THEN /\ panic' = "null_deref"
              /\ sleep_until' = Elapse(sleep_until)
              /\ UNCHANGED <<state, used, priority, thread_count, ready, current_thread,
                             irq_off, pc>>
         ELSE IF need_resched
              THEN sched_yield(st2, q2, Elapse(sleep_until), pc[cur])
              ELSE /\ state' = st1
                   /\ ready' = q1
                   /\ sleep_until' = Elapse(sleep_until)
                   /\ UNCHANGED <<used, priority, thread_count, current_thread, irq_off,
                                   pc, panic>>

(* It waits while interrupts are off; hlt is preceded by sti.              *)
Tick ==
  /\ panic = "none"
  /\ irq_off => pc[current_thread] = "sleep_hlt"
  /\ TickWhileLocked \/ TickUnlocked
  /\ wake' = Elapse(wake)
  /\ UNCHANGED <<preemption_enabled, in_syscall, sched_lock, creating>>

-----------------------------------------------------------------------------

CreateStep == CreatePush \/ CreatePushHead \/ CreatePushLink \/ CreatePushTail \/ CreateCount

SleepStep(t) ==
  \/ SleepLock(t) \/ SleepBlock(t) \/ SleepUntil(t) \/ SleepUnlock(t)
  \/ SleepCheck(t) \/ SleepHlt(t)

Next ==
  \/ Tick
  \/ CreateBegin \/ CreateStep
  \/ \E t \in Slots :
       \/ Yield(t) \/ EnterSyscall(t) \/ LeaveSyscall(t)
       \/ SleepBegin(t) \/ SleepStep(t)
       \/ PmmLock(t) \/ PmmUnlock(t)
       \/ ExitZombie(t) \/ ExitYield(t) \/ ExitHalt(t)

Spec == Init /\ [][Next]_vars

(* The timer keeps ticking, and a tick that interrupts-off delayed strikes *)
(* as soon as they are on again; a thread inside a kernel service gets to  *)
(* its end when it is on the processor, the holder of a spinlock even if   *)
(* ticks strike inside the critical section (SF); the boot thread's        *)
(* waiting loops (the shell's input_getchar, the boot waits) yield again   *)
(* and again.                                                              *)
Fairness ==
  /\ SF_vars(Tick)
  /\ WF_vars(CreateStep)
  /\ SF_vars(Yield(idle_thread))
  /\ \A t \in Slots :
       /\ WF_vars(SleepStep(t))
       /\ WF_vars(ExitYield(t))
       /\ WF_vars(LeaveSyscall(t))
       /\ SF_vars(PmmUnlock(t))

FairSpec == Spec /\ Fairness

-----------------------------------------------------------------------------

TypeOK ==
  /\ state \in [Slots -> States]
  /\ used \in [Slots -> BOOLEAN]
  /\ priority \in [Slots -> Priorities]
  /\ sleep_until \in [Slots -> Nat] /\ wake \in [Slots -> Nat]
  /\ ready \in [head : [Priorities -> Slots \cup {NIL}],
                tail : [Priorities -> Slots \cup {NIL}],
                next : [Slots -> Slots \cup {NIL}]]
  /\ current_thread \in Slots
  /\ thread_count \in 0 .. THREAD_MAX
  /\ preemption_enabled \in BOOLEAN /\ sched_lock \in BOOLEAN
  /\ in_syscall \in [Slots -> BOOLEAN] /\ irq_off \in BOOLEAN
  /\ pc \in [Slots -> Labels]
  /\ creating \in Slots \cup {NIL}
  /\ panic \in {"none", "spin", "pmm_spin", "no_stack", "null_deref", "halted"}

(* What a walk down the ready_next links of priority p visits.             *)
Chain(p) ==
  LET walk[i \in 0 .. THREAD_MAX] ==
        IF i = 0 THEN ready.head[p]
        ELSE IF walk[i - 1] = NIL THEN NIL ELSE ready.next[walk[i - 1]]
  IN  walk

OnQueue(p) == {Chain(p)[i] : i \in 0 .. THREAD_MAX} \ {NIL}

Runnable == {t \in Slots \ {idle_thread, creating} : used[t] /\ state[t] = "READY"}

(* "@THREAD_READY: On the run queue." (sched.h): a created thread that is  *)
(* ready and not on the processor can be reached from its queue's head.    *)
ReadyIsOnRunQueue ==
  panic = "none" => \A t \in Runnable \ {current_thread} : t \in OnQueue(priority[t])

(* Between two creations the normal queue is exactly the ready threads,    *)
(* each once, it ends, and its tail is its last: pushes, pops, reaping and *)
(* the reuse of slots never leave a stale or a lost entry.                 *)
QueueIsSound ==
  creating = NIL =>
    LET p == SCHED_PRIO_NORMAL
        n == Cardinality(Runnable)
    IN  /\ OnQueue(p) = Runnable
        /\ Chain(p)[n] = NIL
        /\ ready.tail[p] = IF n = 0 THEN NIL ELSE Chain(p)[n - 1]

(* thread_count is the threads there are: created, not yet reaped.         *)
ThreadCountExact ==
  thread_count = 1 + Cardinality({t \in Slots \ {idle_thread, creating} : used[t]})

(* No step dereferences null, switches to a slot without a stack, spins    *)
(* with interrupts off, or comes back to a thread that exited.             *)
NoPanic == panic = "none"

(* sched_yield never finds the lock held: it would spin for ever with      *)
(* interrupts off.                                                         *)
NoSpinWithInterruptsOff == panic # "spin"

(* One thread is RUNNING at most, and it is the one on the processor.      *)
RunningIsCurrent ==
  \A t \in Slots : state[t] = "RUNNING" => t = current_thread

(* The stacks a context is saved on belong to a thread that is not reaped. *)
(* (A zombie runs on its own until sched_yield has switched away from it.) *)
ContextHasStacks ==
  \A t \in Slots \ {idle_thread} : pc[t] # "none" => used[t]

(* A thread leaves sched_sleep_ms only when its time is up.  The boot      *)
(* thread is not covered: see BlockedUntilWoken.                           *)
NoEarlyWake ==
  \A t \in Slots \ {idle_thread} :
    pc[t] = "sleep_check" /\ state[t] # "BLOCKED" => wake[t] = 0

(* "@THREAD_BLOCKED: Waiting for an event" (sched.h): a thread that went   *)
(* to sleep is blocked until the tick that ends the sleep.                 *)
BlockedUntilWoken ==
  [][\A t \in Slots : state[t] = "BLOCKED" /\ state'[t] # "BLOCKED" => wake'[t] = 0]_vars

(* Every thread that is ready gets the processor.                          *)
ReadyEventuallyRuns ==
  \A t \in Slots \ {idle_thread} :
    (t \in Runnable) ~> (t = current_thread)

(* Every thread that exits gives its slot and its stacks back.             *)
ZombieEventuallyReaped ==
  \A t \in Slots \ {idle_thread} :
    (state[t] = "ZOMBIE") ~> (~ used[t] \/ t = creating)

=============================================================================
