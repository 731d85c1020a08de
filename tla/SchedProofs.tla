----------------------------- MODULE SchedProofs ----------------------------
(***************************************************************************)
(* Proofs about the scheduler, for every size of the thread table and      *)
(* every workload.  The first part depends on nothing the queues hold:     *)
(* the queues can be corrupted (see ReadyIsOnRunQueue), and these          *)
(* properties hold all the same.                                           *)
(*                                                                         *)
(* LockInv says where the lock is held: only between sched_sleep_ms's lock *)
(* and unlock, by the thread on the processor.  SleepInv follows a sleeper *)
(* through sched_sleep_ms: as long as it is blocked, the deadline in its   *)
(* slot is the one it asked for; from sleep_block to sleep_unlock that     *)
(* needs the lock, which keeps the tick from reading a stale deadline.     *)
(***************************************************************************)
EXTENDS Sched, TLAPS, FiniteSetTheorems, WellFoundedInduction

Critical == {"sleep_block", "sleep_until", "sleep_unlock"}

Asleep == {"sleep_check", "sleep_hlt"}

Types ==
  /\ state \in [Slots -> States]
  /\ used \in [Slots -> BOOLEAN]
  /\ sleep_until \in [Slots -> Nat]
  /\ wake \in [Slots -> Nat]
  /\ pc \in [Slots -> Labels]
  /\ sched_lock \in BOOLEAN

LockInv ==
  /\ sched_lock => current_thread \in Slots /\ pc[current_thread] \in Critical
  /\ \A t \in Slots : pc[t] \in Critical => sched_lock /\ t = current_thread

(* A sleeper and its deadline, on any thread table.                        *)
Sleeper(st, until, left, t) ==
  \/ st[t] = "BLOCKED" /\ until[t] = left[t]
  \/ st[t] # "BLOCKED" /\ left[t] = 0

SleepInv ==
  \A t \in Slots \ {idle_thread} :
    /\ pc[t] = "sleep_until" => state[t] = "BLOCKED"
    /\ pc[t] = "sleep_unlock" => state[t] = "BLOCKED" /\ sleep_until[t] = wake[t]
    /\ pc[t] \in Asleep => Sleeper(state, sleep_until, wake, t)

SInv ==
  /\ Types
  /\ RunningIsCurrent
  /\ LockInv
  /\ NoSpinWithInterruptsOff
  /\ ContextHasStacks
  /\ SleepInv

-----------------------------------------------------------------------------

(* sched_init and the first creations satisfy the invariant.               *)
LEMMA InitSInv == Init => SInv
<1> SUFFICES ASSUME Init PROVE SInv
  OBVIOUS
<1>1. Types
  <2>1. state \in [Slots -> States] /\ pc \in [Slots -> Labels]
    BY DEF Init, States, Labels
  <2>2. used \in [Slots -> BOOLEAN]
    BY DEF Init
  <2>3. sleep_until \in [Slots -> Nat] /\ wake \in [Slots -> Nat] /\ sched_lock \in BOOLEAN
    BY DEF Init
  <2> QED BY <2>1, <2>2, <2>3 DEF Types
<1>2. \A t \in Slots : state[t] = "READY" /\ pc[t] \in {"run", "none"}
  BY DEF Init
<1>3. RunningIsCurrent /\ LockInv /\ SleepInv
  BY <1>2 DEF Init, RunningIsCurrent, LockInv, SleepInv, Critical, Asleep
<1>4. NoSpinWithInterruptsOff /\ ContextHasStacks
  BY DEF Init, NoSpinWithInterruptsOff, ContextHasStacks
<1> QED BY <1>1, <1>3, <1>4 DEF SInv

(* Under sched_lock, on the thread table the caller of sched_yield left:   *)
(* what is reaped had exited, what is switched to was ready or is the boot *)
(* thread.                                                                 *)
LEMMA RescheduleStep ==
  ASSUME NEW st \in [Slots -> States], NEW q, NEW until \in [Slots -> Nat],
         NEW after, current_thread \in Slots => after \in Labels \ Critical,
         Types, LockInv, ContextHasStacks, NoSpinWithInterruptsOff,
         ~ sched_lock, sched_lock' = sched_lock, wake' \in [Slots -> Nat],
         \A t \in Slots : st[t] = "RUNNING" => t = current_thread,
         after # "none" /\ current_thread \in Slots \ {idle_thread}
           => used[current_thread],
         \A t \in Slots \ {idle_thread} :
           [pc EXCEPT ![current_thread] = after][t] \in Asleep
             => Sleeper(st, until, wake', t),
         Reschedule(st, q, until, after)
  PROVE  SInv'
<1> DEFINE dead == Reapable(st)
           prev == current_thread
           st1  == Clear(st, dead, "READY")
<1>1. /\ used' = Clear(used, dead, FALSE)
      /\ sleep_until' = Clear(until, dead, 0)
      /\ pc' = [Clear(pc, dead, "none") EXCEPT ![prev] = after]
      /\ panic' # "spin"
  BY DEF Reschedule, NoSpinWithInterruptsOff
<1>2. \/ state' = st1 /\ current_thread' = prev
      \/ \E next, old :
           /\ st1[next] = "READY" \/ next = idle_thread
           /\ old = IF st1[prev] = "RUNNING" THEN "READY" ELSE st1[prev]
           /\ state' = [st1 EXCEPT ![prev] = old, ![next] = "RUNNING"]
           /\ current_thread' = next
  BY DEF Reschedule, Requeues
<1>3. dead \subseteq Slots /\ prev \notin dead /\ \A t \in dead : st[t] = "ZOMBIE"
  BY DEF Reapable
<1>4. \A t \in Slots : st1[t] = IF t \in dead THEN "READY" ELSE st[t]
  BY DEF Clear
<1>5. st1 \in [Slots -> States]
  BY <1>4 DEF Clear, States
<1> HIDE DEF dead, st1
<1>6. Types'
  <2>1. state' \in [Slots -> States]
    <3>1. CASE state' = st1
      BY <3>1, <1>5
    <3>2. CASE state' # st1
      <4>1. PICK next, old :
              /\ old = IF st1[prev] = "RUNNING" THEN "READY" ELSE st1[prev]
              /\ state' = [st1 EXCEPT ![prev] = old, ![next] = "RUNNING"]
        BY <3>2, <1>2
      <4>2. prev \in Slots => old \in States
        BY <4>1, <1>5 DEF States
      <4> QED BY <4>1, <4>2, <1>5 DEF States
    <3> QED BY <3>1, <3>2
  <2>2. used' \in [Slots -> BOOLEAN] /\ sleep_until' \in [Slots -> Nat]
    BY <1>1 DEF Types, Clear
  <2>3. pc' \in [Slots -> Labels]
    BY <1>1 DEF Types, Clear, Labels
  <2> QED BY <2>1, <2>2, <2>3 DEF Types
<1>7. RunningIsCurrent'
  <2>1. SUFFICES ASSUME NEW t \in Slots, state'[t] = "RUNNING"
                 PROVE  t = current_thread'
    BY DEF RunningIsCurrent, Slots
  <2>2. CASE state' = st1 /\ current_thread' = prev
    BY <2>1, <2>2, <1>4
  <2>3. CASE ~ (state' = st1 /\ current_thread' = prev)
    <3>1. PICK next, old :
            /\ old = IF st1[prev] = "RUNNING" THEN "READY" ELSE st1[prev]
            /\ state' = [st1 EXCEPT ![prev] = old, ![next] = "RUNNING"]
            /\ current_thread' = next
      BY <2>3, <1>2
    <3>2. t # next => t # prev
      BY <2>1, <3>1, <1>5
    <3> QED BY <2>1, <3>1, <3>2, <1>4, <1>5
  <2> QED BY <2>2, <2>3
<1>8. \A t \in Slots : pc'[t] = IF t = prev THEN after
                                ELSE IF t \in dead THEN "none" ELSE pc[t]
  BY <1>1 DEF Clear
<1>9. LockInv'
  BY <1>8 DEF LockInv, Critical
<1>10. ContextHasStacks'
  BY <1>8, <1>1, <1>3 DEF ContextHasStacks, Clear
<1>11. ASSUME NEW t \in Slots \ {idle_thread}
       PROVE  /\ pc'[t] \notin Critical
              /\ pc'[t] \in Asleep => Sleeper(state', sleep_until', wake', t)
  <2>1. pc'[t] \notin Critical
    BY <1>8 DEF LockInv, Critical
  <2>2. ASSUME pc'[t] \in Asleep PROVE Sleeper(state', sleep_until', wake', t)
    <3>1. t \notin dead
      BY <2>2, <1>8, <1>3 DEF Asleep
    <3>2. [pc EXCEPT ![current_thread] = after][t] = pc'[t]
      BY <1>8, <3>1 DEF Types
    <3>3. Sleeper(st, until, wake', t)
      BY <2>2, <3>2
    <3>4. sleep_until'[t] = until[t] /\ st1[t] = st[t]
      BY <3>1, <1>1, <1>4 DEF Clear
    <3>5. (state'[t] = "BLOCKED") <=> (st[t] = "BLOCKED")
      <4>1. CASE state' = st1
        BY <4>1, <3>4
      <4>2. CASE state' # st1
        <5>1. PICK next, old :
                /\ st1[next] = "READY" \/ next = idle_thread
                /\ old = IF st1[prev] = "RUNNING" THEN "READY" ELSE st1[prev]
                /\ state' = [st1 EXCEPT ![prev] = old, ![next] = "RUNNING"]
          BY <4>2, <1>2
        <5> QED BY <5>1, <3>4, <1>5
      <4> QED BY <4>1, <4>2
    <3> QED BY <3>3, <3>4, <3>5 DEF Sleeper
  <2> QED BY <2>1, <2>2
<1>12. SleepInv'
  BY <1>11 DEF SleepInv, Slots, Critical, idle_thread, Asleep
<1> QED BY <1>1, <1>6, <1>7, <1>9, <1>10, <1>12 DEF SInv, NoSpinWithInterruptsOff

(* sched_yield: it waits for pmm_lock for ever, or it reschedules.         *)
LEMMA YieldStep ==
  ASSUME NEW st \in [Slots -> States], NEW q, NEW until \in [Slots -> Nat],
         NEW after, current_thread \in Slots => after \in Labels \ Critical,
         Types, LockInv, ContextHasStacks, NoSpinWithInterruptsOff,
         ~ sched_lock, sched_lock' = sched_lock, wake' \in [Slots -> Nat],
         \A t \in Slots : st[t] = "RUNNING" => t = current_thread,
         after # "none" /\ current_thread \in Slots \ {idle_thread}
           => used[current_thread],
         \A t \in Slots \ {idle_thread} :
           pc[t] \in Asleep => Sleeper(st, until, wake', t),
         \A t \in Slots \ {idle_thread} :
           [pc EXCEPT ![current_thread] = after][t] \in Asleep
             => Sleeper(st, until, wake', t),
         sched_yield(st, q, until, after)
  PROVE  SInv'
<1>1. CASE Reschedule(st, q, until, after)
  BY <1>1, RescheduleStep
<1>2. CASE ~ Reschedule(st, q, until, after)
  <2>1. /\ panic' = "pmm_spin" /\ state' = st /\ sleep_until' = until
        /\ UNCHANGED <<used, current_thread, pc>>
    BY <1>2 DEF sched_yield
  <2>2. Types'
    BY <2>1 DEF Types
  <2>3. RunningIsCurrent' /\ NoSpinWithInterruptsOff'
    BY <2>1 DEF RunningIsCurrent, NoSpinWithInterruptsOff, Slots
  <2>4. LockInv' /\ ContextHasStacks'
    BY <2>1 DEF LockInv, ContextHasStacks, Slots
  <2>5. SleepInv'
    BY <2>1 DEF SleepInv, LockInv, Critical, Slots, idle_thread
  <2> QED BY <2>2, <2>3, <2>4, <2>5 DEF SInv
<1> QED BY <1>1, <1>2

(* Steps that leave the table alone, whatever they do to the queues and    *)
(* the flags: the label moves between labels that hold no lock and do not  *)
(* sleep.                                                                  *)
LEMMA GotoStep ==
  ASSUME SInv, NEW t \in Slots, NEW label \in Labels \ (Critical \cup Asleep \cup {"none"}),
         current_thread = t, pc[t] \notin Critical \cup {"none"},
         Goto(t, label), wake' \in [Slots -> Nat],
         \A u \in Slots \ {t} : wake'[u] = wake[u],
         UNCHANGED <<state, used, sleep_until, current_thread, sched_lock>>,
         panic' # "spin"
  PROVE  SInv'
<1>1. ~ sched_lock
  BY DEF SInv, LockInv
<1>2. \A u \in Slots : pc'[u] = IF u = t THEN label ELSE pc[u]
  BY DEF Goto, SInv, Types
<1>3. Types'
  BY DEF SInv, Types, Goto
<1>4. LockInv'
  BY <1>1, <1>2 DEF SInv, LockInv
<1>5. RunningIsCurrent' /\ NoSpinWithInterruptsOff'
  BY DEF SInv, RunningIsCurrent, NoSpinWithInterruptsOff, Slots
<1>6. ContextHasStacks'
  BY <1>2 DEF SInv, ContextHasStacks, Slots
<1>7. SleepInv'
  BY <1>2 DEF SInv, SleepInv, Sleeper, Slots, Critical, Asleep
<1> QED BY <1>3, <1>4, <1>5, <1>6, <1>7 DEF SInv

(* A step that touches nothing the invariant reads.                        *)
LEMMA FrameStep ==
  ASSUME SInv, UNCHANGED <<state, used, sleep_until, current_thread, sched_lock, pc, wake>>,
         panic' # "spin"
  PROVE  SInv'
<1>1. Types' /\ RunningIsCurrent' /\ NoSpinWithInterruptsOff'
  BY DEF SInv, Types, RunningIsCurrent, NoSpinWithInterruptsOff, Slots
<1>2. LockInv' /\ ContextHasStacks' /\ SleepInv'
  BY DEF SInv, LockInv, ContextHasStacks, SleepInv, Sleeper, Slots
<1> QED BY <1>1, <1>2 DEF SInv

(* A voluntary call of sched_yield.                                        *)
LEMMA VoluntaryYield ==
  ASSUME SInv, NEW t \in Slots, NEW from \in Labels \ (Critical \cup {"none"}),
         NEW after \in Labels \ Critical, after \in Asleep => from \in Asleep,
         At(t, from), sched_yield(state, ready, sleep_until, after),
         UNCHANGED <<sched_lock, wake>>
  PROVE  SInv'
<1>1. current_thread = t /\ pc[t] = from
  BY DEF At
<1>2. ~ sched_lock
  BY <1>1 DEF SInv, LockInv
<1>3. t # idle_thread => used[t]
  BY <1>1 DEF SInv, ContextHasStacks
<1>4. ASSUME NEW u \in Slots \ {idle_thread},
             pc[u] \in Asleep \/ [pc EXCEPT ![current_thread] = after][u] \in Asleep
      PROVE  Sleeper(state, sleep_until, wake', u)
  BY <1>1, <1>4 DEF SInv, SleepInv, Sleeper, Types
<1>5. Types /\ LockInv /\ ContextHasStacks /\ NoSpinWithInterruptsOff /\ RunningIsCurrent
  BY DEF SInv
<1> QED BY <1>1, <1>2, <1>3, <1>4, <1>5, YieldStep DEF Types, RunningIsCurrent

(* The critical section of sched_sleep_ms and its loop.                    *)
LEMMA SleepStepInv ==
  ASSUME SInv, NEW t \in Slots, SleepStep(t)
  PROVE  SInv'
<1>1. CASE SleepHlt(t)
  BY <1>1, VoluntaryYield DEF SleepHlt, Labels, Critical, Asleep
<1>2. CASE SleepLock(t) \/ SleepBlock(t) \/ SleepUntil(t) \/ SleepUnlock(t) \/ SleepCheck(t)
  <2> DEFINE Acts == {"sleep_block", "sleep_until", "sleep_unlock", "sleep_check", "sleep_hlt", "run"}
  <2>1. PICK label \in Acts : Goto(t, label)
    BY <1>2 DEF SleepLock, SleepBlock, SleepUntil, SleepUnlock, SleepCheck
  <2>2. /\ current_thread = t /\ UNCHANGED <<current_thread, used, wake, panic>>
        /\ panic = "none" /\ pc[t] # "none"
    BY <1>2 DEF SleepLock, SleepBlock, SleepUntil, SleepUnlock, SleepCheck, At, threadVars
  <2>3. \A u \in Slots : pc'[u] = IF u = t THEN label ELSE pc[u]
    BY <2>1 DEF Goto, SInv, Types
  <2>4. /\ state' = state \/ state' = [state EXCEPT ![t] = "BLOCKED"]
        /\ sleep_until' = sleep_until \/ sleep_until' = [sleep_until EXCEPT ![t] = wake[t]]
        /\ sched_lock' \in BOOLEAN
    BY <1>2 DEF SleepLock, SleepBlock, SleepUntil, SleepUnlock, SleepCheck, threadVars, SInv, Types
  <2>5. Types'
    <3>1. state' \in [Slots -> States] /\ pc' \in [Slots -> Labels]
      BY <2>1, <2>4 DEF SInv, Types, States, Labels, Goto
    <3>2. sleep_until' \in [Slots -> Nat] /\ wake' \in [Slots -> Nat]
      BY <2>2, <2>4 DEF SInv, Types
    <3> QED BY <3>1, <3>2, <2>2, <2>4 DEF SInv, Types
  <2>6. RunningIsCurrent' /\ NoSpinWithInterruptsOff'
    BY <2>2, <2>4 DEF SInv, Types, RunningIsCurrent, NoSpinWithInterruptsOff, Slots
  <2>7. ContextHasStacks'
    BY <2>2, <2>3 DEF SInv, ContextHasStacks, Slots
  <2>8. LockInv'
    <3>1. \A u \in Slots \ {t} : pc'[u] \notin Critical
      BY <2>2, <2>3 DEF SInv, LockInv
    <3>2. sched_lock' <=> pc'[t] \in Critical
      <4>1. pc[t] \in Critical <=> sched_lock
        BY <2>2 DEF SInv, LockInv
      <4>2. CASE SleepLock(t)
        BY <4>2, <2>3 DEF SleepLock, Goto, Critical, SInv, Types
      <4>3. CASE SleepBlock(t) \/ SleepUntil(t)
        BY <4>3, <4>1, <2>3 DEF SleepBlock, SleepUntil, Goto, Critical, SInv, Types, At
      <4>4. CASE SleepUnlock(t)
        BY <4>4, <2>3 DEF SleepUnlock, Goto, Critical, SInv, Types
      <4>5. CASE SleepCheck(t)
        BY <4>5, <4>1, <2>3 DEF SleepCheck, Goto, Critical, SInv, Types, At
      <4> QED BY <1>2, <4>2, <4>3, <4>4, <4>5
    <3> QED BY <3>1, <3>2, <2>2 DEF LockInv
  <2>9. SleepInv'
    <3>1. ASSUME NEW u \in Slots \ {idle_thread}, u # t
          PROVE  /\ pc'[u] = pc[u] /\ state'[u] = state[u] /\ wake'[u] = wake[u]
                 /\ sleep_until'[u] = sleep_until[u]
      BY <3>1, <2>2, <2>3, <2>4 DEF SInv, Types
    <3>2. ASSUME t # idle_thread
          PROVE  /\ pc'[t] = "sleep_until" => state'[t] = "BLOCKED"
                 /\ pc'[t] = "sleep_unlock" => state'[t] = "BLOCKED" /\ sleep_until'[t] = wake'[t]
                 /\ pc'[t] \in Asleep => Sleeper(state', sleep_until', wake', t)
      <4>1. CASE SleepLock(t)
        BY <4>1, <2>3 DEF SleepLock, Goto, Asleep, SInv, Types
      <4>2. CASE SleepBlock(t)
        BY <4>2 DEF SleepBlock, Goto, Asleep, SInv, Types
      <4>3. CASE SleepUntil(t)
        BY <4>3, <3>2 DEF SleepUntil, Goto, Asleep, SInv, Types, SleepInv, At
      <4>4. CASE SleepUnlock(t)
        BY <4>4, <3>2 DEF SleepUnlock, Goto, Asleep, SInv, Types, SleepInv, At, Sleeper, threadVars
      <4>5. CASE SleepCheck(t)
        BY <4>5, <3>2 DEF SleepCheck, Goto, Asleep, SInv, Types, SleepInv, At, Sleeper, threadVars
      <4> QED BY <1>2, <4>1, <4>2, <4>3, <4>4, <4>5
    <3> QED BY <3>1, <3>2 DEF SInv, SleepInv, Sleeper, Slots, idle_thread
  <2> QED BY <2>5, <2>6, <2>7, <2>8, <2>9 DEF SInv
<1> QED BY <1>1, <1>2 DEF SleepStep

(* The timer interrupt, with the lock held, with and without a reschedule. *)
LEMMA TickStep ==
  ASSUME SInv, Tick
  PROVE  SInv'
<1>1. /\ wake' = Elapse(wake) /\ sched_lock' = sched_lock
      /\ wake' \in [Slots -> Nat] /\ Elapse(sleep_until) \in [Slots -> Nat]
      /\ panic = "none"
  BY DEF Tick, SInv, Types, Elapse
<1>2. \A f \in [Slots -> Nat], t \in Slots : f[t] = 0 => Elapse(f)[t] = 0
  BY DEF Elapse
<1>3. \A t \in Slots : sleep_until[t] = wake[t] => Elapse(sleep_until)[t] = Elapse(wake)[t]
  BY DEF Elapse
<1>4. Types /\ LockInv /\ ContextHasStacks /\ NoSpinWithInterruptsOff
  BY DEF SInv
<1>5. CASE TickWhileLocked
  <2>1. sleep_until' = Elapse(sleep_until)
        /\ UNCHANGED <<state, used, current_thread, pc, panic>>
    BY <1>5 DEF TickWhileLocked
  <2>2. Types' /\ RunningIsCurrent' /\ NoSpinWithInterruptsOff'
    BY <2>1, <1>1 DEF SInv, Types, RunningIsCurrent, NoSpinWithInterruptsOff, Slots
  <2>3. LockInv' /\ ContextHasStacks'
    BY <2>1, <1>1 DEF SInv, LockInv, ContextHasStacks, Slots
  <2>4. ASSUME NEW t \in Slots \ {idle_thread}
        PROVE  /\ pc'[t] = "sleep_until" => state'[t] = "BLOCKED"
               /\ pc'[t] = "sleep_unlock" => state'[t] = "BLOCKED" /\ sleep_until'[t] = wake'[t]
               /\ pc'[t] \in Asleep => Sleeper(state', sleep_until', wake', t)
    BY <2>1, <1>1, <1>2, <1>3 DEF SInv, SleepInv, Sleeper, Types
  <2>5. SleepInv'
    BY <2>4 DEF SleepInv, Slots, idle_thread
  <2> QED BY <2>2, <2>3, <2>5 DEF SInv
<1>6. CASE TickUnlocked
  <2> DEFINE cur == current_thread
             st1 == [t \in Slots |-> IF t \in Woken THEN "READY" ELSE state[t]]
             st2 == [st1 EXCEPT ![cur] = "READY"]
  <2>1. ~ sched_lock
    BY <1>6 DEF TickUnlocked
  <2>2. st1 \in [Slots -> States] /\ st2 \in [Slots -> States]
    BY DEF SInv, Types, States
  <2>3. ASSUME NEW t \in Slots \ {idle_thread}, pc[t] \in Asleep
        PROVE  Sleeper(st1, Elapse(sleep_until), wake', t)
    <3>1. Sleeper(state, sleep_until, wake, t)
      BY <2>3 DEF SInv, SleepInv
    <3>2. CASE t \in Woken
      BY <3>1, <3>2, <1>1, <1>3 DEF Sleeper, Woken
    <3>3. CASE t \notin Woken
      BY <3>1, <3>3, <1>1, <1>2, <1>3 DEF Sleeper, SInv, Types
    <3> QED BY <3>2, <3>3
  <2>4. \A t \in Slots : pc[t] \notin Critical
    BY <2>1 DEF SInv, LockInv
  <2>5. CASE /\ state' = st1 \/ state' = state
             /\ sleep_until' = Elapse(sleep_until)
             /\ UNCHANGED <<used, current_thread, pc>>
             /\ panic' # "spin"
    <3>1. Types' /\ RunningIsCurrent' /\ NoSpinWithInterruptsOff'
      BY <2>2, <2>5, <1>1 DEF SInv, Types, RunningIsCurrent, NoSpinWithInterruptsOff, Slots
    <3>2. LockInv' /\ ContextHasStacks'
      BY <2>5, <1>1 DEF SInv, LockInv, ContextHasStacks, Slots
    <3>3. ASSUME NEW t \in Slots \ {idle_thread}, pc[t] \in Asleep
          PROVE  Sleeper(state', sleep_until', wake', t)
      <4>1. Sleeper(state, sleep_until, wake, t)
        BY <3>3 DEF SInv, SleepInv
      <4>2. Sleeper(state, Elapse(sleep_until), wake', t)
        BY <4>1, <1>1, <1>2, <1>3 DEF Sleeper, SInv, Types
      <4> QED BY <4>2, <3>3, <2>3, <2>5 DEF Sleeper
    <3>4. SleepInv'
      BY <3>3, <2>4, <2>5 DEF SleepInv, Slots, idle_thread, Critical
    <3> QED BY <3>1, <3>2, <3>4 DEF SInv
  <2>6. CASE /\ Preempts(st1)
             /\ \E q : sched_yield(st2, q, Elapse(sleep_until), pc[cur])
    <3>1. PICK q : sched_yield(st2, q, Elapse(sleep_until), pc[cur])
      BY <2>6
    <3>2. st1[cur] = "RUNNING"
      BY <2>6 DEF Preempts
    <3>3. \A t \in Slots : st2[t] = "RUNNING" => t = current_thread
      BY DEF SInv, RunningIsCurrent
    <3>4. ASSUME NEW t \in Slots \ {idle_thread},
                 pc[t] \in Asleep \/ [pc EXCEPT ![cur] = pc[cur]][t] \in Asleep
          PROVE  Sleeper(st2, Elapse(sleep_until), wake', t)
      <4>1. pc[t] \in Asleep
        BY <3>4 DEF SInv, Types
      <4>2. Sleeper(st1, Elapse(sleep_until), wake', t)
        BY <4>1, <2>3
      <4> QED BY <4>2, <3>2 DEF Sleeper
    <3>5. pc[cur] # "none" /\ cur \in Slots \ {idle_thread} => used[cur]
      BY DEF SInv, ContextHasStacks
    <3>6. cur \in Slots => pc[cur] \in Labels \ Critical
      BY <2>4 DEF SInv, Types
    <3> HIDE DEF st1, st2
    <3> QED BY <3>1, <3>3, <3>4, <3>5, <3>6, <2>1, <2>2, <1>1, <1>4, YieldStep
  <2>7. \/ /\ state' = state /\ panic' = "null_deref"
           /\ sleep_until' = Elapse(sleep_until)
           /\ UNCHANGED <<used, current_thread, pc>>
        \/ /\ Preempts(st1)
           /\ sched_yield(st2, ready_queue_push(PushInOrder(ready, priority, Woken),
                                                cur, priority[cur]),
                          Elapse(sleep_until), pc[cur])
        \/ /\ state' = st1 /\ panic' = panic
           /\ sleep_until' = Elapse(sleep_until)
           /\ UNCHANGED <<used, current_thread, pc>>
    BY <1>6, Zenon DEF TickUnlocked
  <2> HIDE DEF st1, st2
  <2>8. CASE /\ Preempts(st1)
             /\ sched_yield(st2, ready_queue_push(PushInOrder(ready, priority, Woken),
                                                  cur, priority[cur]),
                            Elapse(sleep_until), pc[cur])
    <3>1. \E q : sched_yield(st2, q, Elapse(sleep_until), pc[cur])
      BY <2>8, Zenon
    <3> QED BY <2>6, <2>8, <3>1, Zenon
  <2>9. CASE ~ (/\ Preempts(st1)
                /\ sched_yield(st2, ready_queue_push(PushInOrder(ready, priority, Woken),
                                                     cur, priority[cur]),
                               Elapse(sleep_until), pc[cur]))
    <3>1. panic' = "null_deref" \/ panic' = "none"
      BY <2>7, <2>9, <1>1, Zenon
    <3>2. panic' # "spin"
      BY <3>1
    <3>3. /\ state' = st1 \/ state' = state
          /\ sleep_until' = Elapse(sleep_until)
          /\ UNCHANGED <<used, current_thread, pc>>
      BY <2>7, <2>9, Zenon
    <3> QED BY <2>5, <3>2, <3>3
  <2> QED BY <2>8, <2>9
<1> QED BY <1>5, <1>6 DEF Tick

(* sched_exit marks the thread that runs; it does not sleep.               *)
LEMMA ExitZombieStep ==
  ASSUME SInv, NEW t \in Slots, ExitZombie(t)
  PROVE  SInv'
<1>1. /\ current_thread = t /\ pc[t] = "run" /\ panic' = "none"
      /\ state' = [state EXCEPT ![t] = "ZOMBIE"]
      /\ pc' = [pc EXCEPT ![t] = "exit_yield"]
      /\ UNCHANGED <<used, sleep_until, wake, current_thread, sched_lock>>
  BY DEF ExitZombie, At, Goto
<1>2. Types'
  BY <1>1 DEF SInv, Types, States, Labels
<1>3. RunningIsCurrent' /\ NoSpinWithInterruptsOff'
  BY <1>1 DEF SInv, Types, RunningIsCurrent, NoSpinWithInterruptsOff, Slots
<1>4. LockInv'
  BY <1>1 DEF SInv, Types, LockInv, Critical
<1>5. ContextHasStacks'
  BY <1>1 DEF SInv, Types, ContextHasStacks, Slots
<1>6. SleepInv'
  BY <1>1 DEF SInv, Types, SleepInv, Sleeper, Slots, Asleep
<1> QED BY <1>2, <1>3, <1>4, <1>5, <1>6 DEF SInv

(* The first part of a creation: a reaping, and a slot nobody's context    *)
(* stands on is filled in.                                                 *)
LEMMA CreateBeginStep ==
  ASSUME SInv, CreateBegin
  PROVE  SInv'
<1> DEFINE dead == Reapable(state)
           st1  == Clear(state, dead, "READY")
<1>1. /\ current_thread = idle_thread /\ pc[idle_thread] = "run"
      /\ UNCHANGED <<current_thread, sched_lock, wake, panic>>
      /\ panic = "none" /\ state' = st1
  BY DEF CreateBegin, At
<1>2. \/ /\ used' = Clear(used, dead, FALSE) /\ sleep_until' = Clear(sleep_until, dead, 0)
         /\ pc' = Clear(pc, dead, "none")
      \/ \E n \in Slots \ {idle_thread} :
           /\ used' = [Clear(used, dead, FALSE) EXCEPT ![n] = TRUE]
           /\ ~ Clear(used, dead, FALSE)[n]
           /\ sleep_until' = [Clear(sleep_until, dead, 0) EXCEPT ![n] = 0]
           /\ \/ pc' = Clear(pc, dead, "none")
              \/ pc' = [Clear(pc, dead, "none") EXCEPT ![n] = "run", ![idle_thread] = "push"]
  BY Zenon DEF CreateBegin
<1>3. dead \subseteq Slots /\ idle_thread \notin dead /\ \A t \in dead : state[t] = "ZOMBIE"
  BY DEF Reapable
<1> HIDE DEF dead
<1>4. idle_thread \in Slots
  BY SchedAssumption DEF Slots, idle_thread
<1>5. ~ sched_lock /\ \A t \in Slots : pc[t] \notin Critical
  BY <1>1 DEF SInv, LockInv, Critical
<1>6. Types'
  <2>1. state' \in [Slots -> States]
    BY <1>1 DEF Clear, SInv, Types, States
  <2>2. used' \in [Slots -> BOOLEAN]
    BY <1>2 DEF Clear, SInv, Types
  <2>3. sleep_until' \in [Slots -> Nat]
    <3>1. Clear(sleep_until, dead, 0) \in [Slots -> Nat]
      BY DEF Clear, SInv, Types
    <3>2. \/ sleep_until' = Clear(sleep_until, dead, 0)
          \/ \E n \in Slots : sleep_until' = [Clear(sleep_until, dead, 0) EXCEPT ![n] = 0]
      BY <1>2, Zenon
    <3> QED BY <3>1, <3>2
  <2>4. pc' \in [Slots -> Labels]
    BY <1>2, ZenonT(60) DEF Clear, SInv, Types, Labels
  <2> QED BY <2>1, <2>2, <2>3, <2>4, <1>1 DEF SInv, Types
<1>7. ASSUME NEW t \in Slots
      PROVE  /\ pc'[t] \in {pc[t], "none", "run", "push"}
             /\ pc'[t] \in Asleep => pc'[t] = pc[t] /\ t \notin dead
  <2>1. Clear(pc, dead, "none")[t] = IF t \in dead THEN "none" ELSE pc[t]
    BY DEF Clear
  <2>2. \/ pc' = Clear(pc, dead, "none")
        \/ \E n \in Slots \ {idle_thread} :
             pc' = [Clear(pc, dead, "none") EXCEPT ![n] = "run", ![idle_thread] = "push"]
    BY <1>2, Zenon
  <2>3. /\ pc'[t] \in {pc[t], "none", "run", "push"}
        /\ t \in dead => pc'[t] \in {"none", "run"}
    BY <2>1, <2>2, <1>3 DEF Clear
  <2>4. pc'[t] \in Asleep => pc'[t] = pc[t]
    BY <2>3 DEF Asleep
  <2>5. pc'[t] \in Asleep => t \notin dead
    BY <2>3 DEF Asleep
  <2> QED BY <2>3, <2>4, <2>5
<1>8. ASSUME NEW n \in Slots \ {idle_thread}, ~ Clear(used, dead, FALSE)[n]
       PROVE  Clear(pc, dead, "none")[n] = "none"
  <2>1. n \in dead \/ ~ used[n]
    BY <1>8, Zenon DEF Clear
  <2>2. n \in dead \/ pc[n] = "none"
    BY <2>1, Zenon DEF SInv, ContextHasStacks
  <2> QED BY <2>2 DEF Clear
<1>9. ASSUME NEW t \in Slots \ {idle_thread}, pc'[t] \in Asleep
       PROVE  sleep_until'[t] = sleep_until[t]
  <2>1. t \notin dead /\ t \in Slots
    BY <1>7, <1>9
  <2>2. Clear(sleep_until, dead, 0)[t] = sleep_until[t]
    BY <2>1 DEF Clear
  <2>3. CASE sleep_until' = Clear(sleep_until, dead, 0)
    BY <2>2, <2>3
  <2>4. ASSUME NEW n \in Slots \ {idle_thread}, ~ Clear(used, dead, FALSE)[n],
               sleep_until' = [Clear(sleep_until, dead, 0) EXCEPT ![n] = 0],
               \/ pc' = Clear(pc, dead, "none")
               \/ pc' = [Clear(pc, dead, "none") EXCEPT ![n] = "run", ![idle_thread] = "push"]
        PROVE  sleep_until'[t] = sleep_until[t]
    <3>1. Clear(pc, dead, "none")[n] = "none"
      BY <2>4, <1>8, Zenon
    <3>2. pc'[n] \in {"none", "run"}
      BY <2>4, <3>1 DEF Clear
    <3>3. t # n
      BY <3>2, <1>9 DEF Asleep
    <3> QED BY <3>3, <2>2, <2>4 DEF Clear
  <2> QED BY <1>2, <2>3, <2>4, Zenon
<1>10. ASSUME NEW t \in Slots \ {idle_thread}, pc'[t] # "none"
       PROVE  used'[t]
  <2>1. CASE used' = Clear(used, dead, FALSE) /\ pc' = Clear(pc, dead, "none")
    <3>1. t \notin dead /\ pc[t] # "none"
      BY <2>1, <1>10, Zenon DEF Clear
    <3>2. used[t]
      BY <3>1, Zenon DEF SInv, ContextHasStacks
    <3> QED BY <2>1, <3>1, <3>2, Zenon DEF Clear
  <2>2. ASSUME NEW n \in Slots \ {idle_thread},
               used' = [Clear(used, dead, FALSE) EXCEPT ![n] = TRUE],
               \/ pc' = Clear(pc, dead, "none")
               \/ pc' = [Clear(pc, dead, "none") EXCEPT ![n] = "run", ![idle_thread] = "push"]
        PROVE  used'[t]
    <3>1. DOMAIN Clear(used, dead, FALSE) = Slots
      BY Zenon DEF Clear
    <3>2. CASE t = n
      BY <2>2, <3>1, <3>2, Zenon
    <3>3. CASE t # n
      <4>1. pc'[t] = Clear(pc, dead, "none")[t]
        BY <2>2, <3>3 DEF Clear
      <4>2. t \notin dead /\ pc[t] # "none"
        BY <4>1, <1>10, Zenon DEF Clear
      <4>3. used[t]
        BY <4>2, Zenon DEF SInv, ContextHasStacks
      <4>4. Clear(used, dead, FALSE)[t]
        BY <4>2, <4>3, Zenon DEF Clear
      <4> QED BY <2>2, <3>1, <3>3, <4>4, Zenon
    <3> QED BY <3>2, <3>3
  <2> QED BY <1>2, <2>1, <2>2, Zenon
<1>11. LockInv'
  BY <1>1, <1>5, <1>7 DEF LockInv, Critical
<1>12. RunningIsCurrent' /\ NoSpinWithInterruptsOff'
  BY <1>1 DEF SInv, RunningIsCurrent, NoSpinWithInterruptsOff, Slots, Clear
<1>13. ContextHasStacks'
  BY <1>10, Zenon DEF ContextHasStacks, Slots, idle_thread
<1>14. SleepInv'
  <2>1. ASSUME NEW t \in Slots \ {idle_thread}
        PROVE  /\ pc'[t] \notin Critical
               /\ pc'[t] \in Asleep => Sleeper(state', sleep_until', wake', t)
    <3>1. pc'[t] \notin Critical
      BY <1>5, <1>7 DEF Critical
    <3>2. ASSUME pc'[t] \in Asleep PROVE Sleeper(state', sleep_until', wake', t)
      <4>1. pc[t] \in Asleep /\ t \notin dead /\ sleep_until'[t] = sleep_until[t]
        <5>1. t \in Slots /\ t # idle_thread
          OBVIOUS
        <5>2. pc'[t] = pc[t] /\ t \notin dead /\ sleep_until'[t] = sleep_until[t]
          BY <5>1, <1>7, <1>9, <3>2
        <5> QED BY <5>2, <3>2
      <4>2. state'[t] = state[t]
        BY <4>1, <1>1 DEF Clear
      <4> QED BY <4>1, <4>2, <1>1 DEF SInv, SleepInv, Sleeper
    <3> QED BY <3>1, <3>2
  <2> QED BY <2>1 DEF SleepInv, Slots, idle_thread, Critical
<1> QED BY <1>6, <1>11, <1>12, <1>13, <1>14 DEF SInv

(* Every step of the scheduler keeps the invariant.                        *)
LEMMA NextSInv == SInv /\ [Next]_vars => SInv'
<1> SUFFICES ASSUME SInv, [Next]_vars PROVE SInv'
  OBVIOUS
<1>1. CASE Tick
  BY <1>1, TickStep
<1>2. CASE CreateBegin
  BY <1>2, CreateBeginStep
<1>3. CASE CreateStep
  <2>1. idle_thread \in Slots
    BY SchedAssumption DEF Slots, idle_thread
  <2>2. PICK label \in {"push_head", "push_link", "push_tail", "create_count", "run"} :
          Goto(idle_thread, label)
    BY <1>3 DEF CreateStep, CreatePush, CreatePushHead, CreatePushLink, CreatePushTail, CreateCount
  <2>3. /\ current_thread = idle_thread
        /\ pc[idle_thread] \in {"push", "push_head", "push_link", "push_tail", "create_count"}
        /\ UNCHANGED <<state, used, sleep_until, wake, current_thread, sched_lock>>
        /\ panic' # "spin"
    BY <1>3 DEF CreateStep, CreatePush, CreatePushHead, CreatePushLink, CreatePushTail,
       CreateCount, At, threadVars
  <2>4. wake' \in [Slots -> Nat]
    BY <2>3 DEF SInv, Types
  <2>5. /\ label \in Labels \ (Critical \cup Asleep \cup {"none"})
        /\ pc[idle_thread] \notin Critical \cup {"none"}
    BY <2>2, <2>3 DEF Labels, Critical, Asleep
  <2> QED BY <2>1, <2>2, <2>3, <2>4, <2>5, GotoStep
<1>4. ASSUME NEW t \in Slots, Yield(t) PROVE SInv'
  BY <1>4, VoluntaryYield DEF Yield, Labels, Critical, Asleep
<1>5. ASSUME NEW t \in Slots, EnterSyscall(t) \/ LeaveSyscall(t) PROVE SInv'
  BY <1>5, FrameStep DEF EnterSyscall, LeaveSyscall, threadVars, localVars, At
<1>6. ASSUME NEW t \in Slots, SleepBegin(t) PROVE SInv'
  <2>1. PICK d \in Sleeps : wake' = [wake EXCEPT ![t] = d]
    BY <1>6 DEF SleepBegin
  <2>2. wake' \in [Slots -> Nat] /\ \A u \in Slots \ {t} : wake'[u] = wake[u]
    BY <2>1, SchedAssumption DEF SInv, Types
  <2>3. /\ current_thread = t /\ pc[t] = "run" /\ Goto(t, "sleep_lock")
        /\ UNCHANGED <<state, used, sleep_until, current_thread, sched_lock>>
        /\ panic' # "spin"
    BY <1>6 DEF SleepBegin, At, threadVars
  <2>4. "sleep_lock" \in Labels \ (Critical \cup Asleep \cup {"none"})
        /\ pc[t] \notin Critical \cup {"none"}
    BY <2>3 DEF Labels, Critical, Asleep
  <2> QED BY <2>2, <2>3, <2>4, GotoStep
<1>7. ASSUME NEW t \in Slots, SleepStep(t) PROVE SInv'
  BY <1>7, SleepStepInv
<1>8. ASSUME NEW t \in Slots, ExitZombie(t) PROVE SInv'
  BY <1>8, ExitZombieStep
<1>9. ASSUME NEW t \in Slots, ExitYield(t) PROVE SInv'
  BY <1>9, VoluntaryYield DEF ExitYield, Labels, Critical, Asleep
<1>10. ASSUME NEW t \in Slots, ExitHalt(t) PROVE SInv'
  BY <1>10, FrameStep DEF ExitHalt, threadVars, localVars
<1>11. ASSUME NEW t \in Slots, PmmLock(t) \/ PmmUnlock(t) PROVE SInv'
  <2>1. /\ current_thread = t /\ pc[t] \in {"run", "pmm"}
        /\ UNCHANGED <<state, used, sleep_until, wake, current_thread, sched_lock>>
        /\ panic' # "spin"
        /\ pc' = pc \/ Goto(t, "pmm") \/ Goto(t, "run")
    BY <1>11 DEF PmmLock, PmmUnlock, At, threadVars
  <2>2. CASE pc' = pc
    BY <2>1, <2>2, FrameStep
  <2>3. ASSUME NEW label \in {"pmm", "run"}, Goto(t, label) PROVE SInv'
    <3>1. /\ label \in Labels \ (Critical \cup Asleep \cup {"none"})
          /\ pc[t] \notin Critical \cup {"none"}
      BY <2>1 DEF Labels, Critical, Asleep
    <3>2. wake' \in [Slots -> Nat]
      BY <2>1 DEF SInv, Types
    <3> QED BY <2>1, <2>3, <3>1, <3>2, GotoStep
  <2> QED BY <2>1, <2>2, <2>3
<1>12. CASE UNCHANGED vars
  BY <1>12, FrameStep DEF vars, SInv, NoSpinWithInterruptsOff
<1> QED BY <1>1, <1>2, <1>3, <1>4, <1>5, <1>6, <1>7, <1>8, <1>9, <1>10, <1>11, <1>12 DEF Next

-----------------------------------------------------------------------------
(* The theorems.                                                           *)

(* The inductive invariant, on which the theorems below rest.              *)
THEOREM Inductive == Spec => []SInv
<1>1. Init => SInv
  BY InitSInv
<1>2. SInv /\ [Next]_vars => SInv'
  BY NextSInv
<1> QED BY <1>1, <1>2, PTL DEF Spec

(* At most one thread is RUNNING, and it is the one on the processor,      *)
(* whatever stale entries the queues hold.                                 *)
THEOREM OneRunningThread == Spec => []RunningIsCurrent
<1>1. SInv => RunningIsCurrent
  BY DEF SInv
<1> QED BY <1>1, Inductive, PTL

(* sched_yield never spins on its own lock with interrupts off: the tick   *)
(* does not reschedule while sched_sleep_ms holds the lock.                *)
THEOREM LockNeverDeadlocks == Spec => []NoSpinWithInterruptsOff
<1>1. SInv => NoSpinWithInterruptsOff
  BY DEF SInv
<1> QED BY <1>1, Inductive, PTL

(* The reaper frees no stacks that a context is saved on.                  *)
THEOREM ReaperIsSafe == Spec => []ContextHasStacks
<1>1. SInv => ContextHasStacks
  BY DEF SInv
<1> QED BY <1>1, Inductive, PTL

(* sched_sleep_ms never returns before the deadline on any thread but the  *)
(* boot thread.                                                            *)
THEOREM SleepersSleep == Spec => []NoEarlyWake
<1>1. SInv => NoEarlyWake
  BY DEF SInv, SleepInv, NoEarlyWake, Sleeper, Asleep
<1> QED BY <1>1, Inductive, PTL

-----------------------------------------------------------------------------
(* What the first part leaves out: the ready queues and the count of the   *)
(* threads.                                                                *)

-----------------------------------------------------------------------------
(* Induction, from the well-foundedness of < on the natural numbers.       *)

LEMMA LeastNatural ==
  ASSUME NEW T \in SUBSET Nat, T # {}
  PROVE  \E n \in T : \A m \in T : n <= m
<1> DEFINE Before == OpToRel(<, Nat)
<1>1. IsWellFoundedOn(Before, Nat)
  BY NatLessThanWellFounded
<1>2. \A m, n \in Nat : m < n => <<m, n>> \in Before
  BY DEF OpToRel
<1> HIDE DEF Before
<1>3. PICK n \in T : \A m \in T : ~ (<<m, n>> \in Before)
  BY <1>1, WFMin
<1>4. ASSUME NEW m \in T PROVE n <= m
  <2>1. m \in Nat /\ n \in Nat
    OBVIOUS
  <2>2. ~ (m < n)
    BY <1>2, <1>3, <2>1, Zenon
  <2> QED BY <2>1, <2>2
<1> QED BY <1>4

LEMMA InductionUpTo ==
  ASSUME NEW N \in Nat, NEW P, 0 \in P, \A k \in 0 .. N - 1 : k \in P => k + 1 \in P
  PROVE  \A k \in 0 .. N : k \in P
<1> SUFFICES ASSUME NEW c \in 0 .. N, c \notin P PROVE FALSE
  OBVIOUS
<1> DEFINE T == {k \in 0 .. N : k \notin P}
<1>1. T \in SUBSET Nat /\ T # {}
  OBVIOUS
<1>2. PICK n \in T : \A m \in T : n <= m
  BY <1>1, LeastNatural
<1>3. n # 0 /\ n \in 0 .. N /\ n \notin P
  BY <1>2
<1>4. n - 1 \in 0 .. N - 1 /\ n - 1 \in 0 .. N
  BY <1>3
<1>5. n - 1 \in P
  BY <1>2, <1>4
<1>6. (n - 1) + 1 \in P
  BY <1>4, <1>5
<1> QED BY <1>3, <1>6

-----------------------------------------------------------------------------
(* The fold of PushInOrder, as far as it has come after k slots.           *)

Push(q, prio, S, t) == IF t \in S THEN ready_queue_push(q, t, prio[t]) ELSE q

PushBody(q, prio, S, f, s) ==
  IF s = {} THEN q ELSE Push(f[s \ {Max(s)}], prio, S, Scan[Max(s)])

Pushes(q, prio, S, X) ==
  CHOOSE f : f = [s \in SUBSET X |-> PushBody(q, prio, S, f, s)]

LEMMA PushInOrderIs ==
  ASSUME NEW q, NEW prio, NEW S
  PROVE  PushInOrder(q, prio, S) = Pushes(q, prio, S, 1 .. THREAD_MAX)[1 .. THREAD_MAX]
<1>1. DOMAIN Scan = 1 .. THREAD_MAX
  BY DEF Scan
<1>2. PushInOrder(q, prio, S) = Pushes(q, prio, S, DOMAIN Scan)[DOMAIN Scan]
  BY Zenon DEF PushInOrder, FoldLeft, MapThenFoldSet, Pushes, PushBody, Push
<1> QED BY <1>1, <1>2

(* The greatest of a nonempty set of slot numbers is one of them.          *)
LEMMA MaxIn ==
  ASSUME NEW n \in Nat, NEW s \in SUBSET (1 .. n), s # {}
  PROVE  Max(s) \in s /\ \A y \in s : Max(s) >= y
<1> DEFINE T == {n - y : y \in s}
<1>1. T \in SUBSET Nat /\ T # {}
  <2>1. \A y \in s : y \in Nat /\ n - y \in Nat
    OBVIOUS
  <2> QED BY <2>1
<1>2. PICK m \in T : \A k \in T : m <= k
  BY <1>1, LeastNatural
<1>3. PICK x \in s : m = n - x
  BY <1>2
<1>4. ASSUME NEW y \in s PROVE x >= y
  <2>1. n - y \in T /\ x \in Nat /\ y \in Nat
    OBVIOUS
  <2>2. n - x <= n - y
    BY <1>2, <1>3, <2>1, Zenon
  <2> QED BY <2>1, <2>2
<1> QED BY <1>4, Zenon DEF Max

LEMMA MaxInterval == ASSUME NEW k \in Nat \ {0} PROVE Max(1 .. k) = k
<1>1. Max(1 .. k) \in 1 .. k /\ \A y \in 1 .. k : Max(1 .. k) >= y
  <2>1. k \in Nat /\ 1 .. k \in SUBSET (1 .. k) /\ 1 .. k # {}
    OBVIOUS
  <2> QED BY <2>1, MaxIn, Zenon
<1> QED BY <1>1

(* The recursion is well defined.                                          *)
LEMMA PushesExist ==
  ASSUME NEW q, NEW prio, NEW S, NEW n \in Nat
  PROVE  \A s \in SUBSET (1 .. n) :
           Pushes(q, prio, S, 1 .. n)[s] = PushBody(q, prio, S, Pushes(q, prio, S, 1 .. n), s)
<1> DEFINE Fix(k) == \E f : f = [s \in SUBSET (1 .. k) |-> PushBody(q, prio, S, f, s)]
           P == {k \in 0 .. n : Fix(k)}
<1>1. 0 \in P
  <2> DEFINE f == [s \in SUBSET (1 .. 0) |-> q]
  <2>1. \A s \in SUBSET (1 .. 0) : PushBody(q, prio, S, f, s) = q
    BY DEF PushBody
  <2>2. f = [s \in SUBSET (1 .. 0) |-> PushBody(q, prio, S, f, s)]
    BY <2>1
  <2>3. Fix(0)
    BY <2>2
  <2> QED BY <2>3
<1>2. ASSUME NEW k \in 0 .. n - 1, k \in P PROVE k + 1 \in P
  <2>1. PICK g : g = [s \in SUBSET (1 .. k) |-> PushBody(q, prio, S, g, s)]
    BY <1>2
  <2> DEFINE f == [s \in SUBSET (1 .. k + 1) |-> PushBody(q, prio, S, g, s)]
  <2>2. ASSUME NEW s \in SUBSET (1 .. k + 1)
        PROVE  PushBody(q, prio, S, g, s) = PushBody(q, prio, S, f, s)
    <3>1. CASE s = {}
      BY <3>1 DEF PushBody
    <3>2. CASE s # {}
      <4>1. Max(s) \in s /\ (\A y \in s : Max(s) >= y) /\ s \subseteq 1 .. k + 1
        BY <3>2, MaxIn, k + 1 \in Nat
      <4>2. s \ {Max(s)} \subseteq 1 .. k
        <5>1. ASSUME NEW y \in s, y # Max(s) PROVE y \in 1 .. k
          <6>1. y <= Max(s) /\ y \in 1 .. k + 1 /\ Max(s) \in 1 .. k + 1
            BY <4>1
          <6> QED BY <6>1, <5>1
        <5> QED BY <5>1
      <4>3. s \ {Max(s)} \in SUBSET (1 .. k) /\ s \ {Max(s)} \in SUBSET (1 .. k + 1)
        BY <4>2
      <4>4. g[s \ {Max(s)}] = PushBody(q, prio, S, g, s \ {Max(s)})
        BY <2>1, <4>3, Zenon
      <4>5. f[s \ {Max(s)}] = PushBody(q, prio, S, g, s \ {Max(s)})
        BY <4>3, Zenon
      <4>6. g[s \ {Max(s)}] = f[s \ {Max(s)}]
        BY <4>4, <4>5, Zenon
      <4> HIDE DEF f
      <4> QED BY <4>6, Zenon DEF PushBody
    <3> QED BY <3>1, <3>2
  <2>3. f = [s \in SUBSET (1 .. k + 1) |-> PushBody(q, prio, S, f, s)]
    BY <2>2, Zenon
  <2>4. Fix(k + 1)
    BY <2>3, Zenon
  <2> QED BY <2>4
<1> HIDE DEF P
<1>3. \A k \in 0 .. n : k \in P
  BY <1>1, <1>2, InductionUpTo
<1>4. Fix(n)
  <2>1. n \in P
    BY <1>3
  <2> QED BY <2>1, Zenon DEF P
<1> DEFINE h == Pushes(q, prio, S, 1 .. n)
<1>5. h = [s \in SUBSET (1 .. n) |-> PushBody(q, prio, S, h, s)]
  BY <1>4, Zenon DEF Pushes
<1> HIDE DEF h
<1>6. \A s \in SUBSET (1 .. n) : h[s] = PushBody(q, prio, S, h, s)
  BY <1>5, Zenon
<1> QED BY <1>6 DEF h

(* What the scan has done after k slots.                                   *)
Pushed(q, prio, S, k) == Pushes(q, prio, S, 1 .. THREAD_MAX)[1 .. k]

LEMMA PushedEnds ==
  ASSUME NEW q, NEW prio, NEW S
  PROVE  /\ Pushed(q, prio, S, 0) = q
         /\ PushInOrder(q, prio, S) = Pushed(q, prio, S, THREAD_MAX)
<1>1. THREAD_MAX \in Nat /\ 1 .. 0 = {} /\ {} \in SUBSET (1 .. THREAD_MAX)
  BY SchedAssumption
<1>2. Pushes(q, prio, S, 1 .. THREAD_MAX)[{}]
        = PushBody(q, prio, S, Pushes(q, prio, S, 1 .. THREAD_MAX), {})
  BY <1>1, PushesExist
<1> QED BY <1>1, <1>2, PushInOrderIs DEF Pushed, PushBody

LEMMA PushedStep ==
  ASSUME NEW q, NEW prio, NEW S, NEW k \in Slots
  PROVE  Pushed(q, prio, S, k + 1) = Push(Pushed(q, prio, S, k), prio, S, k)
<1> DEFINE f == Pushes(q, prio, S, 1 .. THREAD_MAX)
<1>1. THREAD_MAX \in Nat
  BY SchedAssumption
<1>3. \A s \in SUBSET (1 .. THREAD_MAX) : f[s] = PushBody(q, prio, S, f, s)
  BY <1>1, PushesExist
<1> HIDE DEF f
<1>5. f[1 .. k + 1] = Push(f[1 .. k], prio, S, k)
  <2>1. k + 1 \in Nat \ {0} /\ k + 1 \in 1 .. THREAD_MAX
    BY <1>1 DEF Slots
  <2>2. 1 .. k + 1 \in SUBSET (1 .. THREAD_MAX) /\ 1 .. k + 1 # {}
    BY <2>1, <1>1
  <2>3. Max(1 .. k + 1) = k + 1
    BY <2>1, MaxInterval
  <2>4. (1 .. k + 1) \ {k + 1} = 1 .. k
    BY <1>1 DEF Slots
  <2>5. Scan[k + 1] = k
    BY <2>1, <1>1 DEF Scan, Slots
  <2>6. f[1 .. k + 1] = PushBody(q, prio, S, f, 1 .. k + 1)
    BY <1>3, <2>2, Zenon
  <2> QED BY <2>6, <2>2, <2>3, <2>4, <2>5, Zenon DEF PushBody
<1> QED BY <1>5 DEF Pushed, f

-----------------------------------------------------------------------------
(* Types of the queues: in bounds whatever stale entries they hold.        *)

Queues == [head : [Priorities -> Slots \cup {NIL}],
           tail : [Priorities -> Slots \cup {NIL}],
           next : [Slots -> Slots \cup {NIL}]]

LEMMA PushTyped ==
  ASSUME NEW q \in Queues, NEW t \in Slots, NEW p
  PROVE  ready_queue_push(q, t, p) \in Queues
BY DEF Queues, ready_queue_push

LEMMA PopTyped ==
  ASSUME NEW q \in Queues, NEW p \in NonEmpty(q)
  PROVE  ready_queue_pop(q, p) \in Queues /\ q.head[p] \in Slots
BY DEF Queues, ready_queue_pop, NonEmpty

LEMMA PushInOrderTyped ==
  ASSUME NEW q \in Queues, NEW prio, NEW S
  PROVE  PushInOrder(q, prio, S) \in Queues
<1> DEFINE P == {k \in 0 .. THREAD_MAX : Pushed(q, prio, S, k) \in Queues}
<1>1. THREAD_MAX \in Nat
  BY SchedAssumption
<1>2. 0 \in P
  BY <1>1, PushedEnds
<1>3. ASSUME NEW k \in 0 .. THREAD_MAX - 1, k \in P PROVE k + 1 \in P
  <2>1. k \in Slots /\ k + 1 \in 0 .. THREAD_MAX
    BY <1>1 DEF Slots
  <2>2. Pushed(q, prio, S, k + 1) = Push(Pushed(q, prio, S, k), prio, S, k)
    BY <2>1, PushedStep
  <2>3. Pushed(q, prio, S, k) \in Queues
    BY <1>3
  <2>4. Push(Pushed(q, prio, S, k), prio, S, k) \in Queues
    BY <2>1, <2>3, PushTyped DEF Push
  <2> QED BY <2>1, <2>2, <2>4
<1> HIDE DEF P
<1>4. THREAD_MAX \in P
  BY <1>1, <1>2, <1>3, InductionUpTo
<1> QED BY <1>4, PushedEnds DEF P

-----------------------------------------------------------------------------
(* Counting the threads.  A thread counts from its creation's last step    *)
(* until it is reaped, which is while it has a context: a slot whose       *)
(* stacks could not be had has none.                                       *)

PushLabels == {"push", "push_head", "push_link", "push_tail", "create_count"}

MoreTypes ==
  /\ priority \in [Slots -> Priorities]
  /\ ready \in Queues
  /\ current_thread \in Slots
  /\ preemption_enabled \in BOOLEAN
  /\ in_syscall \in [Slots -> BOOLEAN] /\ irq_off \in BOOLEAN
  /\ creating \in Slots \cup {NIL}
  /\ panic \in {"none", "spin", "pmm_spin", "no_stack", "null_deref", "halted"}

Counted == {t \in Slots \ {idle_thread, creating} : pc[t] # "none"}

(* The slot that is being filled in: only the boot thread fills one in,    *)
(* and nothing takes the processor from it meanwhile.                      *)
CreatingInv ==
  /\ creating # NIL <=> pc[idle_thread] \in PushLabels
  /\ \A t \in Slots \ {idle_thread} : pc[t] \notin PushLabels
  /\ creating # NIL => /\ current_thread = idle_thread /\ creating # idle_thread
                       /\ state[creating] = "READY" /\ pc[creating] = "run"

ContextInv ==
  /\ panic = "none" => pc[current_thread] # "none"
  /\ \A t \in Slots : state[t] = "ZOMBIE" => pc[t] # "none"
  /\ ~ StackAllocFails => \A t \in Slots \ {idle_thread} : used[t] => pc[t] # "none"

CInv ==
  /\ MoreTypes
  /\ CreatingInv
  /\ ContextInv
  /\ thread_count = 1 + Cardinality(Counted)

(* The table is finite, and the threads counted leave room for the boot    *)
(* thread and the slot being filled in.                                    *)
LEMMA CountedFinite ==
  ASSUME NEW T \in SUBSET (Slots \ {idle_thread})
  PROVE  /\ IsFiniteSet(T) /\ Cardinality(T) \in Nat
         /\ Cardinality(T) <= THREAD_MAX - 1
<1>1. THREAD_MAX - 1 \in Nat /\ THREAD_MAX - 1 \in Int /\ 1 \in Int
  BY SchedAssumption
<1>2. Slots \ {idle_thread} = 1 .. THREAD_MAX - 1
  BY SchedAssumption DEF Slots, idle_thread
<1>3. /\ IsFiniteSet(1 .. THREAD_MAX - 1)
      /\ Cardinality(1 .. THREAD_MAX - 1) = THREAD_MAX - 1
  BY <1>1, FS_Interval
<1>4. T \in SUBSET (1 .. THREAD_MAX - 1)
  BY <1>2
<1>5. IsFiniteSet(T) /\ Cardinality(T) <= Cardinality(1 .. THREAD_MAX - 1)
  BY <1>3, <1>4, FS_Subset, Zenon
<1>6. Cardinality(T) \in Nat
  BY <1>5, FS_CardinalityType
<1> QED BY <1>3, <1>5, <1>6

LEMMA CountTyped == ASSUME CInv PROVE thread_count \in 1 .. THREAD_MAX
<1>1. Counted \in SUBSET (Slots \ {idle_thread})
  BY DEF Counted
<1>2. Cardinality(Counted) \in Nat /\ Cardinality(Counted) <= THREAD_MAX - 1
  BY <1>1, CountedFinite
<1> QED BY <1>2, SchedAssumption DEF CInv

LEMMA HighestIn ==
  ASSUME NEW P \in SUBSET Priorities, P # {}
  PROVE  Highest(P) \in P /\ \A p \in P : p <= Highest(P)
<1>1. \E p \in P : \A r \in P : r <= p
  <2>1. \A p \in P : p \in {0, 2}
    BY DEF Priorities, SCHED_PRIO_IDLE, SCHED_PRIO_NORMAL
  <2>2. CASE 2 \in P
    BY <2>1, <2>2
  <2>3. CASE 2 \notin P
    <3>1. \A p \in P : p = 0
      BY <2>1, <2>3
    <3> QED BY <3>1
  <2> QED BY <2>2, <2>3
<1> QED BY <1>1, Zenon DEF Highest

(* sched_yield under its lock: the reaped do not count any more, and what  *)
(* is switched to has a context, or the machine is dead.                   *)
LEMMA RescheduleCount ==
  ASSUME NEW st \in [Slots -> States], NEW q \in Queues, NEW until,
         NEW after \in Labels \ (PushLabels \cup {"none"}),
         CInv, Types, creating = NIL, panic = "none",
         \A t \in Slots : st[t] = "ZOMBIE" => state[t] = "ZOMBIE",
         Reschedule(st, q, until, after),
         UNCHANGED <<preemption_enabled, in_syscall, creating>>
  PROVE  CInv'
<1> DEFINE dead == Reapable(st)
           prev == current_thread
           st1  == Clear(st, dead, "READY")
           pc1  == Clear(pc, dead, "none")
           q1   == [q EXCEPT !.next = Clear(@, dead, NIL)]
           top  == Highest(NonEmpty(q1))
           next == IF NonEmpty(q1) # {} THEN q1.head[top] ELSE idle_thread
           q2   == IF NonEmpty(q1) # {} THEN ready_queue_pop(q1, top) ELSE q1
<1>1. /\ used' = Clear(used, dead, FALSE)
      /\ priority' = Clear(priority, dead, 0)
      /\ thread_count' = thread_count - Cardinality(dead)
      /\ pc' = [pc1 EXCEPT ![prev] = after]
      /\ irq_off' = FALSE
  BY DEF Reschedule
<1>2. /\ ready' = q2 \/ \E p : ready' = ready_queue_push(q2, prev, p)
      /\ \/ current_thread' = prev /\ state' = st1
         \/ /\ current_thread' = next
            /\ \E old : /\ old = IF st1[prev] = "RUNNING" THEN "READY" ELSE st1[prev]
                        /\ state' = [st1 EXCEPT ![prev] = old, ![next] = "RUNNING"]
      /\ panic' \in {"no_stack", "null_deref", panic}
      /\ panic' = "none" => current_thread' = prev \/ pc1[next] # "none"
  BY DEF Reschedule, Requeues
<1>3. dead \subseteq Slots \ {idle_thread, prev} /\ \A t \in dead : st[t] = "ZOMBIE"
  BY DEF Reapable
<1>4. prev \in Slots /\ pc[prev] # "none" /\ pc \in [Slots -> Labels]
  BY DEF CInv, MoreTypes, ContextInv, Types
<1>5. q1 \in Queues
  BY DEF Queues, Clear
<1> HIDE DEF dead
<1>6. next \in Slots /\ q2 \in Queues
  <2>1. idle_thread \in Slots
    BY SchedAssumption DEF Slots, idle_thread
  <2>2. CASE NonEmpty(q1) # {}
    <3>1. top \in NonEmpty(q1)
      BY <2>2, HighestIn DEF NonEmpty
    <3> HIDE DEF q1, top
    <3>2. ready_queue_pop(q1, top) \in Queues /\ q1.head[top] \in Slots
      BY <3>1, <1>5, PopTyped
    <3> QED BY <3>2, <2>2
  <2>3. CASE NonEmpty(q1) = {}
    BY <2>1, <2>3, <1>5, Zenon
  <2> QED BY <2>2, <2>3
<1> HIDE DEF next, q1, q2, st1
<1>7. \A t \in Slots : pc'[t] = IF t = prev THEN after
                                ELSE IF t \in dead THEN "none" ELSE pc[t]
  BY <1>1, <1>4 DEF Clear
<1>8. MoreTypes'
  <2>1. priority' \in [Slots -> Priorities]
    BY <1>1 DEF CInv, MoreTypes, Clear, Priorities, SCHED_PRIO_IDLE
  <2>2. ready' \in Queues
    BY <1>2, <1>4, <1>6, PushTyped
  <2>3. current_thread' \in Slots
    BY <1>2, <1>4, <1>6
  <2> QED BY <2>1, <2>2, <2>3, <1>1, <1>2 DEF CInv, MoreTypes
<1>9. CreatingInv'
  <2>1. \A t \in Slots : pc'[t] \notin PushLabels
    BY <1>7 DEF CInv, CreatingInv, PushLabels
  <2>2. idle_thread \in Slots
    BY SchedAssumption DEF Slots, idle_thread
  <2> QED BY <2>1, <2>2 DEF CreatingInv, Slots, idle_thread
<1>10. ContextInv'
  <2>1. panic' = "none" => pc'[current_thread'] # "none"
    <3>1. CASE current_thread' = prev
      BY <3>1, <1>4, <1>7
    <3>2. CASE current_thread' # prev
      <4>1. panic' = "none" => pc1[next] # "none" /\ current_thread' = next
        BY <3>2, <1>2
      <4> QED BY <3>2, <4>1, <1>6, <1>7 DEF Clear
    <3> QED BY <3>1, <3>2
  <2>2. ASSUME NEW t \in Slots, state'[t] = "ZOMBIE" PROVE pc'[t] # "none"
    <3>1. st1[t] = "ZOMBIE"
      <4>1. \A u \in Slots : st1[u] \in States
        BY DEF st1, Clear, States
      <4>2. DOMAIN st1 = Slots
        BY DEF st1, Clear
      <4> QED BY <2>2, <1>2, <1>4, <1>6, <4>2
    <3>2. t \notin dead /\ st[t] = "ZOMBIE"
      BY <3>1 DEF st1, Clear
    <3> QED BY <3>2, <1>7 DEF CInv, ContextInv
  <2>3. ASSUME ~ StackAllocFails, NEW t \in Slots \ {idle_thread}, used'[t]
        PROVE  pc'[t] # "none"
    <3>1. t \notin dead /\ used[t]
      BY <2>3, <1>1 DEF Clear
    <3> QED BY <3>1, <2>3, <1>7 DEF CInv, ContextInv
  <2>4. ~ StackAllocFails => \A t \in Slots \ {idle_thread} : used'[t] => pc'[t] # "none"
    BY <2>3
  <2> QED BY <2>1, <2>2, <2>4 DEF ContextInv, Slots, idle_thread
<1>11. thread_count' = 1 + Cardinality(Counted')
  <2>1. Counted' = Counted \ dead /\ dead \subseteq Counted
    <3>1. creating' = creating /\ creating \notin Slots
      BY SchedAssumption DEF Slots
    <3>2. \A t \in dead : pc[t] # "none"
      BY <1>3 DEF CInv, ContextInv
    <3>3. dead \subseteq Counted
      BY <1>3, <3>1, <3>2 DEF Counted
    <3>4. \A t \in Slots : pc'[t] # "none" <=> pc[t] # "none" /\ t \notin dead
      BY <1>3, <1>4, <1>7
    <3>5. Counted' = Counted \ dead
      BY <3>1, <3>4 DEF Counted, Slots, idle_thread
    <3> QED BY <3>3, <3>5
  <2>2. IsFiniteSet(Counted) /\ Cardinality(Counted) \in Nat
    BY CountedFinite DEF Counted
  <2>3. Cardinality(Counted \ dead) = Cardinality(Counted) - Cardinality(Counted \cap dead)
    BY <2>2, FS_Difference
  <2>4. Counted \cap dead = dead
    BY <2>1
  <2>5. IsFiniteSet(dead) /\ Cardinality(dead) \in Nat
    BY <1>3, CountedFinite
  <2> QED BY <2>1, <2>2, <2>3, <2>4, <2>5, <1>1 DEF CInv
<1> QED BY <1>8, <1>9, <1>10, <1>11 DEF CInv

LEMMA YieldCount ==
  ASSUME NEW st \in [Slots -> States], NEW q \in Queues, NEW until,
         NEW after \in Labels \ (PushLabels \cup {"none"}),
         CInv, Types, creating = NIL, panic = "none",
         \A t \in Slots : st[t] = "ZOMBIE" => state[t] = "ZOMBIE",
         sched_yield(st, q, until, after),
         UNCHANGED <<preemption_enabled, in_syscall, creating>>
  PROVE  CInv'
<1>1. CASE Reschedule(st, q, until, after)
  BY <1>1, RescheduleCount
<1>2. CASE ~ Reschedule(st, q, until, after)
  <2>1. /\ panic' \in {"spin", "pmm_spin"} /\ state' = st /\ ready' = q
        /\ UNCHANGED <<used, priority, thread_count, current_thread, irq_off, pc>>
    BY <1>2 DEF sched_yield
  <2>2. MoreTypes'
    BY <2>1 DEF CInv, MoreTypes
  <2>3. CreatingInv'
    BY <2>1 DEF CInv, CreatingInv, Slots, idle_thread
  <2>4. ContextInv'
    BY <2>1 DEF CInv, ContextInv, Slots
  <2>5. Counted' = Counted
    BY <2>1 DEF Counted, Slots
  <2> QED BY <2>1, <2>2, <2>3, <2>4, <2>5 DEF CInv
<1> QED BY <1>1, <1>2

(* A step of the thread on the processor, outside the creation of a        *)
(* thread: it moves on, and it may change its own state.                   *)
LEMMA GotoCount ==
  ASSUME CInv, Types, NEW t \in Slots, current_thread = t, pc[t] \notin PushLabels,
         NEW label \in Labels \ (PushLabels \cup {"none"}),
         pc' = pc \/ Goto(t, label),
         \/ state' = state
         \/ state' = [state EXCEPT ![t] = "BLOCKED"]
         \/ state' = [state EXCEPT ![t] = "ZOMBIE"] /\ Goto(t, label),
         UNCHANGED <<used, priority, thread_count, ready, current_thread, creating>>,
         preemption_enabled' \in BOOLEAN, in_syscall' \in [Slots -> BOOLEAN],
         irq_off' \in BOOLEAN, panic = "none",
         panic' \in {"none", "pmm_spin", "halted"}
  PROVE  CInv'
<1>1. creating = NIL
  BY DEF CInv, CreatingInv
<1>2. pc[t] # "none"
  BY DEF CInv, ContextInv
<1>3. \A u \in Slots : pc'[u] = pc[u] \/ (u = t /\ pc'[u] = label)
  BY DEF Goto, Types
<1>4. MoreTypes'
  BY DEF CInv, MoreTypes
<1>5. CreatingInv'
  <2>1. \A u \in Slots : pc'[u] \notin PushLabels
    BY <1>1, <1>3 DEF CInv, CreatingInv
  <2>2. idle_thread \in Slots
    BY SchedAssumption DEF Slots, idle_thread
  <2> QED BY <1>1, <2>1, <2>2 DEF CreatingInv, Slots, idle_thread
<1>6. ContextInv'
  <2>1. panic' = "none" => pc'[current_thread'] # "none"
    BY <1>2, <1>3
  <2>2. ASSUME NEW u \in Slots, state'[u] = "ZOMBIE" PROVE pc'[u] # "none"
    BY <2>2, <1>3 DEF CInv, ContextInv, Types
  <2>3. ASSUME NEW u \in Slots, pc[u] # "none" PROVE pc'[u] # "none"
    BY <2>3, <1>3
  <2> QED BY <2>1, <2>2, <2>3 DEF CInv, ContextInv, Slots, idle_thread
<1>7. Counted' = Counted
  BY <1>1, <1>2, <1>3 DEF Counted, Slots, idle_thread
<1> QED BY <1>4, <1>5, <1>6, <1>7 DEF CInv

(* The steps of a creation after its first.                                *)
LEMMA CreateStepCount ==
  ASSUME CInv, Types, CreateStep
  PROVE  CInv'
<1>1. /\ current_thread = idle_thread /\ panic = "none"
      /\ pc[idle_thread] \in PushLabels
      /\ UNCHANGED <<state, used, priority, current_thread, preemption_enabled, in_syscall,
                     irq_off>>
      /\ panic' \in {"none", "null_deref"}
  BY DEF CreateStep, CreatePush, CreatePushHead, CreatePushLink, CreatePushTail, CreateCount,
     At, PushLabels, threadVars, syscallVars
<1>2. creating \in Slots \ {idle_thread} /\ state[creating] = "READY" /\ pc[creating] = "run"
      /\ idle_thread \in Slots
  BY <1>1, SchedAssumption DEF CInv, CreatingInv, MoreTypes, Slots, idle_thread
<1>3. CASE CreateCount
  <2>1. /\ thread_count' = thread_count + 1 /\ creating' = NIL
        /\ pc' = [pc EXCEPT ![idle_thread] = "run"] /\ UNCHANGED <<ready, panic>>
    BY <1>3 DEF CreateCount, Goto
  <2>2. \A t \in Slots : pc'[t] = IF t = idle_thread THEN "run" ELSE pc[t]
    BY <2>1 DEF Types
  <2>3. MoreTypes'
    BY <1>1, <2>1 DEF CInv, MoreTypes
  <2>4. CreatingInv' /\ ContextInv'
    BY <1>1, <1>2, <2>1, <2>2 DEF CInv, CreatingInv, ContextInv, PushLabels, Slots, idle_thread
  <2>5. Counted' = Counted \cup {creating} /\ creating \notin Counted
    <3>1. NIL \notin Slots
      BY SchedAssumption DEF Slots
    <3> QED BY <1>2, <2>1, <2>2, <3>1 DEF Counted, Slots, idle_thread
  <2>6. IsFiniteSet(Counted) /\ Cardinality(Counted) \in Nat
    BY CountedFinite DEF Counted
  <2>7. Cardinality(Counted') = Cardinality(Counted) + 1
    BY <2>5, <2>6, FS_AddElement
  <2>8. thread_count' = 1 + Cardinality(Counted')
    BY <2>1, <2>6, <2>7 DEF CInv
  <2> QED BY <2>3, <2>4, <2>8 DEF CInv
<1>4. CASE CreatePush \/ CreatePushHead \/ CreatePushLink \/ CreatePushTail
  <2>1. \E label \in PushLabels : pc' = [pc EXCEPT ![idle_thread] = label]
    BY <1>4 DEF CreatePush, CreatePushHead, CreatePushLink, CreatePushTail, Goto, PushLabels
  <2>2. UNCHANGED <<thread_count, creating>>
    BY <1>4 DEF CreatePush, CreatePushHead, CreatePushLink, CreatePushTail, threadVars
  <2>3. ready' \in Queues
    <3>1. ready \in Queues
      BY DEF CInv, MoreTypes
    <3>2. CASE CreatePush
      BY <3>1, <3>2 DEF CreatePush, Queues
    <3>3. CASE CreatePushHead
      BY <3>1, <3>3, <1>2 DEF CreatePushHead, Queues
    <3>4. CASE CreatePushLink
      BY <3>1, <3>4, <1>2 DEF CreatePushLink, Queues
    <3>5. CASE CreatePushTail
      BY <3>1, <3>5, <1>2 DEF CreatePushTail, Queues
    <3> QED BY <1>4, <3>2, <3>3, <3>4, <3>5
  <2>4. \A t \in Slots : pc'[t] = pc[t] \/ (t = idle_thread /\ pc'[t] \in PushLabels)
    BY <2>1 DEF Types
  <2>5. MoreTypes'
    BY <1>1, <2>2, <2>3 DEF CInv, MoreTypes
  <2>6. CreatingInv' /\ ContextInv'
    BY <1>1, <1>2, <2>2, <2>4 DEF CInv, CreatingInv, ContextInv, PushLabels, Slots, idle_thread
  <2>7. Counted' = Counted
    BY <2>2, <2>4 DEF Counted, Slots, idle_thread
  <2> QED BY <2>2, <2>5, <2>6, <2>7 DEF CInv
<1> QED BY <1>3, <1>4 DEF CreateStep

(* The timer interrupt.                                                    *)
LEMMA TickCount ==
  ASSUME CInv, Types, Tick
  PROVE  CInv'
<1>1. /\ panic = "none" /\ UNCHANGED <<preemption_enabled, in_syscall, creating>>
      /\ ready \in Queues /\ current_thread \in Slots
  BY DEF Tick, CInv, MoreTypes
<1> DEFINE cur == current_thread
           st1 == [t \in Slots |-> IF t \in Woken THEN "READY" ELSE state[t]]
           st2 == [st1 EXCEPT ![cur] = "READY"]
           q1  == PushInOrder(ready, priority, Woken)
           q2  == ready_queue_push(q1, cur, priority[cur])
<1>2. \/ /\ Preempts(st1)
         /\ sched_yield(st2, q2, Elapse(sleep_until), pc[cur])
      \/ /\ state' \in {state, st1} /\ ready' \in {ready, q1}
         /\ panic' \in {"none", "null_deref"}
         /\ UNCHANGED <<used, priority, thread_count, current_thread, irq_off, pc>>
  <2>1. CASE TickWhileLocked
    BY <2>1, <1>1, Zenon DEF TickWhileLocked
  <2>2. CASE TickUnlocked
    <3>1. CASE \E t \in (IF Preempts(st1) THEN Woken \cup {cur} ELSE Woken) :
                 PushFaults(ready, priority[t])
      BY <2>2, <3>1, Zenon DEF TickUnlocked
    <3>2. CASE ~ \E t \in (IF Preempts(st1) THEN Woken \cup {cur} ELSE Woken) :
                   PushFaults(ready, priority[t])
      BY <2>2, <3>2, <1>1, Zenon DEF TickUnlocked
    <3> QED BY <3>1, <3>2
  <2> QED BY <2>1, <2>2 DEF Tick
<1>3. q1 \in Queues
  BY <1>1, PushInOrderTyped
<1>4. q2 \in Queues
  BY <1>1, <1>3, PushTyped
<1>5. st1 \in [Slots -> States] /\ st2 \in [Slots -> States]
  BY DEF Types, States
<1>6. \A t \in Slots : /\ st1[t] = "ZOMBIE" <=> state[t] = "ZOMBIE"
                       /\ st1[t] # state[t] => state[t] = "BLOCKED"
                       /\ st2[t] = "ZOMBIE" => state[t] = "ZOMBIE"
  BY <1>5 DEF Woken
<1> HIDE DEF st1, st2, q1, q2
<1>7. CASE Preempts(st1) /\ sched_yield(st2, q2, Elapse(sleep_until), pc[cur])
  <2>1. cur # idle_thread
    BY <1>7 DEF Preempts
  <2>2. creating = NIL
    BY <2>1 DEF CInv, CreatingInv
  <2>3. pc[cur] \in Labels \ (PushLabels \cup {"none"})
    BY <1>1, <2>1 DEF CInv, CreatingInv, ContextInv, Types
  <2>4. \A t \in Slots : st2[t] = "ZOMBIE" => state[t] = "ZOMBIE"
    BY <1>6
  <2>5. sched_yield(st2, q2, Elapse(sleep_until), pc[cur])
    BY <1>7
  <2> HIDE DEF cur
  <2> QED BY <2>2, <2>3, <2>4, <2>5, <1>1, <1>4, <1>5, YieldCount
<1>8. CASE /\ state' \in {state, st1} /\ ready' \in {ready, q1}
           /\ panic' \in {"none", "null_deref"}
           /\ UNCHANGED <<used, priority, thread_count, current_thread, irq_off, pc>>
  <2>1. MoreTypes'
    BY <1>1, <1>3, <1>8 DEF CInv, MoreTypes
  <2>5. \A t \in Slots : /\ state'[t] = "ZOMBIE" => state[t] = "ZOMBIE"
                         /\ state[t] = "READY" => state'[t] = "READY"
    <3>1. CASE state' = state
      BY <3>1
    <3>2. CASE state' = st1
      BY <3>2, <1>6
    <3> QED BY <3>1, <3>2, <1>8
  <2>2. CreatingInv'
    <3>1. creating # NIL => creating \in Slots
      BY DEF CInv, MoreTypes
    <3>2. UNCHANGED <<creating, current_thread, pc>>
      BY <1>1, <1>8
    <3> QED BY <3>1, <3>2, <2>5 DEF CInv, CreatingInv, Slots, idle_thread
  <2>3. ContextInv'
    <3>1. UNCHANGED <<used, current_thread, pc>> /\ panic = "none"
      BY <1>1, <1>8
    <3> QED BY <3>1, <2>5 DEF CInv, ContextInv, Slots, idle_thread
  <2>4. Counted' = Counted
    BY <1>1, <1>8 DEF Counted, Slots
  <2> QED BY <2>1, <2>2, <2>3, <2>4, <1>8 DEF CInv
<1> QED BY <1>2, <1>7, <1>8

(* The first step of a creation: what it reaps does not count any more,    *)
(* what it fills in does not count yet.                                    *)
LEMMA CreateBeginCount ==
  ASSUME CInv, Types, ContextHasStacks, CreateBegin
  PROVE  CInv'
<1> DEFINE dead  == Reapable(state)
           used1 == Clear(used, dead, FALSE)
           pc1   == Clear(pc, dead, "none")
           q1    == [ready EXCEPT !.next = Clear(@, dead, NIL)]
           prio1 == Clear(priority, dead, 0)
<1>1. /\ current_thread = idle_thread /\ pc[idle_thread] = "run" /\ panic = "none"
      /\ UNCHANGED <<current_thread, preemption_enabled, in_syscall, irq_off, panic>>
      /\ thread_count' = thread_count - Cardinality(dead)
      /\ state' = Clear(state, dead, "READY")
  BY DEF CreateBegin, At, syscallVars
<1>2. \/ /\ used' = used1 /\ priority' = prio1 /\ ready' = q1 /\ pc' = pc1
         /\ UNCHANGED creating
      \/ \E n \in Slots \ {idle_thread}, fails \in {FALSE, StackAllocFails} :
           /\ state'[n] = "READY" /\ ~ used1[n]
           /\ used' = [used1 EXCEPT ![n] = TRUE]
           /\ priority' = [prio1 EXCEPT ![n] = SCHED_PRIO_NORMAL]
           /\ ready' = [q1 EXCEPT !.next[n] = NIL]
           /\ IF fails THEN pc' = pc1 /\ UNCHANGED creating
              ELSE /\ pc' = [pc1 EXCEPT ![n] = "run", ![idle_thread] = "push"]
                   /\ creating' = n
  BY Zenon DEF CreateBegin
<1>3. dead \subseteq Slots \ {idle_thread} /\ \A t \in dead : state[t] = "ZOMBIE"
  BY DEF Reapable
<1>4. creating = NIL /\ NIL \notin Slots /\ idle_thread \in Slots
  BY <1>1, SchedAssumption DEF CInv, CreatingInv, PushLabels, Slots, idle_thread
<1>5. pc \in [Slots -> Labels] /\ pc1 \in [Slots -> Labels]
      /\ \A t \in Slots : pc1[t] = IF t \in dead THEN "none" ELSE pc[t]
  BY DEF Types, Clear, Labels
<1>6. q1 \in Queues
  BY DEF CInv, MoreTypes, Queues, Clear
<1>7. prio1 \in [Slots -> Priorities]
  BY DEF CInv, MoreTypes, Clear, Priorities, SCHED_PRIO_IDLE
<1>8. used1 \in [Slots -> BOOLEAN] /\ \A t \in Slots : used1[t] <=> used[t] /\ t \notin dead
  BY DEF Types, Clear
<1> HIDE DEF dead, used1, pc1, q1, prio1
<1>9. \A t \in dead : pc[t] # "none"
  BY <1>3 DEF CInv, ContextInv
<1>10. \A t \in Slots : state'[t] = IF t \in dead THEN "READY" ELSE state[t]
  BY <1>1 DEF Clear
<1>11. MoreTypes'
  <2>1. priority' \in [Slots -> Priorities]
    BY <1>2, <1>7 DEF Priorities
  <2>2. ready' \in Queues
    BY <1>2, <1>6 DEF Queues
  <2>3. creating' \in Slots \cup {NIL}
    BY <1>2, <1>4
  <2> QED BY <1>1, <2>1, <2>2, <2>3 DEF CInv, MoreTypes
<1>12. \/ /\ UNCHANGED creating /\ \A t \in Slots : pc'[t] = pc1[t]
       \/ \E n \in Slots \ {idle_thread} :
            /\ creating' = n /\ state'[n] = "READY" /\ pc1[n] = "none"
            /\ \A t \in Slots : pc'[t] = CASE t = idle_thread -> "push" [] t = n -> "run"
                                          [] OTHER -> pc1[t]
  <2>1. CASE UNCHANGED creating /\ pc' = pc1
    BY <2>1
  <2>2. ASSUME NEW n \in Slots \ {idle_thread}, state'[n] = "READY", ~ used1[n],
               pc' = [pc1 EXCEPT ![n] = "run", ![idle_thread] = "push"], creating' = n
        PROVE  /\ pc1[n] = "none"
               /\ \A t \in Slots : pc'[t] = CASE t = idle_thread -> "push" [] t = n -> "run"
                                             [] OTHER -> pc1[t]
    <3>1. pc1[n] = "none"
      BY <2>2, <1>5, <1>8 DEF ContextHasStacks
    <3> QED BY <3>1, <2>2, <1>5
  <2>3. \/ UNCHANGED creating /\ pc' = pc1
        \/ \E n \in Slots \ {idle_thread} :
             /\ state'[n] = "READY" /\ ~ used1[n] /\ creating' = n
             /\ pc' = [pc1 EXCEPT ![n] = "run", ![idle_thread] = "push"]
    BY <1>2, Zenon
  <2> QED BY <2>1, <2>2, <2>3, Zenon
<1>13. CreatingInv'
  <2>1. \A t \in Slots : pc1[t] \notin PushLabels
    BY <1>1, <1>5 DEF CInv, CreatingInv, PushLabels
  <2> QED BY <2>1, <1>1, <1>4, <1>12 DEF CreatingInv, PushLabels, Slots, idle_thread
<1>14. ContextInv'
  <2>1. pc'[idle_thread] # "none"
    BY <1>1, <1>3, <1>4, <1>5, <1>12
  <2>2. ASSUME NEW t \in Slots, state'[t] = "ZOMBIE" PROVE pc'[t] # "none"
    <3>1. pc1[t] # "none"
      BY <2>2, <1>5, <1>10 DEF CInv, ContextInv
    <3> QED BY <3>1, <1>12
  <2>3. ASSUME ~ StackAllocFails, NEW t \in Slots \ {idle_thread}, used'[t]
        PROVE  pc'[t] # "none"
    <3>1. used1[t] => pc1[t] # "none"
      BY <2>3, <1>5, <1>8 DEF CInv, ContextInv
    <3>2. CASE used' = used1
      BY <2>3, <3>1, <3>2, <1>12
    <3>3. ASSUME NEW n \in Slots, used' = [used1 EXCEPT ![n] = TRUE], pc'[n] = "run"
          PROVE  pc'[t] # "none"
      BY <2>3, <3>1, <3>3, <1>8, <1>12
    <3>4. \/ used' = used1
          \/ \E n \in Slots \ {idle_thread} :
               /\ used' = [used1 EXCEPT ![n] = TRUE]
               /\ pc' = [pc1 EXCEPT ![n] = "run", ![idle_thread] = "push"]
      <4>1. ASSUME NEW fails \in {FALSE, StackAllocFails} PROVE ~ fails
        BY <4>1, <2>3
      <4> QED BY <1>2, <4>1, Zenon
    <3>5. ASSUME NEW n \in Slots \ {idle_thread},
                 pc' = [pc1 EXCEPT ![n] = "run", ![idle_thread] = "push"]
          PROVE  pc'[n] = "run"
      BY <3>5, <1>5
    <3> QED BY <3>2, <3>3, <3>4, <3>5
  <2>4. ~ StackAllocFails => \A t \in Slots \ {idle_thread} : used'[t] => pc'[t] # "none"
    BY <2>3
  <2> QED BY <2>1, <2>2, <2>4, <1>1 DEF ContextInv, Slots, idle_thread
<1>15. thread_count' = 1 + Cardinality(Counted')
  <2>1. dead \subseteq Counted
    BY <1>3, <1>4, <1>9 DEF Counted
  <2>2. Counted' = Counted \ dead
    <3>1. ASSUME NEW t \in Slots \ {idle_thread}
          PROVE  t # creating' /\ pc'[t] # "none" <=> t # creating /\ pc[t] # "none" /\ t \notin dead
      BY <1>4, <1>5, <1>12
    <3> QED BY <3>1 DEF Counted, Slots, idle_thread
  <2>3. IsFiniteSet(Counted) /\ Cardinality(Counted) \in Nat
    BY CountedFinite DEF Counted
  <2>4. Cardinality(Counted \ dead) = Cardinality(Counted) - Cardinality(Counted \cap dead)
    BY <2>3, FS_Difference
  <2>5. Counted \cap dead = dead
    BY <2>1
  <2>6. IsFiniteSet(dead) /\ Cardinality(dead) \in Nat
    BY <1>3, CountedFinite
  <2> QED BY <2>2, <2>3, <2>4, <2>5, <2>6, <1>1 DEF CInv
<1> QED BY <1>11, <1>13, <1>14, <1>15 DEF CInv

LEMMA InitCInv == Init => CInv
<1> SUFFICES ASSUME Init PROVE CInv
  OBVIOUS
<1> DEFINE created == 1 .. InitialThreads
<1>1. InitialThreads \in Nat /\ created \subseteq Slots \ {idle_thread} /\ idle_thread \in Slots
      /\ NIL \notin Slots
  BY SchedAssumption DEF Slots, idle_thread
<1>2. /\ creating = NIL /\ current_thread = idle_thread /\ panic = "none"
      /\ \A t \in Slots : /\ state[t] = "READY"
                          /\ used[t] <=> t \in created
                          /\ pc[t] = IF t \in created \cup {idle_thread} THEN "run" ELSE "none"
  BY DEF Init
<1>3. MoreTypes
  <2>1. ready \in Queues
    <3> DEFINE empty == [head |-> [p \in Priorities |-> NIL],
                         tail |-> [p \in Priorities |-> NIL],
                         next |-> [t \in Slots |-> NIL]]
    <3>1. empty \in Queues
      BY DEF Queues
    <3>2. ready = PushInOrder(empty, priority, created)
      BY Zenon DEF Init
    <3> QED BY <3>1, <3>2, PushInOrderTyped
  <2>2. priority \in [Slots -> Priorities]
    BY DEF Init, Priorities, SCHED_PRIO_IDLE
  <2>3. current_thread \in Slots /\ creating = NIL /\ panic = "none"
    BY <1>1, <1>2
  <2>4. preemption_enabled \in BOOLEAN /\ in_syscall \in [Slots -> BOOLEAN] /\ irq_off \in BOOLEAN
    BY DEF Init
  <2> QED BY <2>1, <2>2, <2>3, <2>4 DEF MoreTypes
<1>4. CreatingInv /\ ContextInv
  BY <1>1, <1>2 DEF CreatingInv, ContextInv, PushLabels
<1>5. thread_count = 1 + Cardinality(Counted)
  <2>1. Counted = created
    BY <1>1, <1>2 DEF Counted
  <2>2. Cardinality(1 .. InitialThreads) = InitialThreads
    BY <1>1, FS_Interval
  <2>3. thread_count = 1 + InitialThreads
    BY DEF Init
  <2> QED BY <2>1, <2>2, <2>3
<1> QED BY <1>3, <1>4, <1>5 DEF CInv

LEMMA NextCInv ==
  ASSUME CInv, SInv, [Next]_vars
  PROVE  CInv'
<1>1. Types /\ ContextHasStacks
  BY DEF SInv
<1>2. /\ preemption_enabled \in BOOLEAN /\ in_syscall \in [Slots -> BOOLEAN]
      /\ irq_off \in BOOLEAN /\ ready \in Queues
  BY DEF CInv, MoreTypes
<1>3. CASE Tick
  BY <1>1, <1>3, TickCount
<1>4. CASE CreateBegin
  BY <1>1, <1>4, CreateBeginCount
<1>5. CASE CreateStep
  BY <1>1, <1>5, CreateStepCount
<1>6. ASSUME NEW t \in Slots, Yield(t) \/ SleepHlt(t) \/ ExitYield(t) PROVE CInv'
  <2>1. /\ current_thread = t /\ panic = "none" /\ pc[t] \in {"run", "sleep_hlt", "exit_yield"}
        /\ UNCHANGED <<preemption_enabled, in_syscall, creating>>
    BY <1>6 DEF Yield, SleepHlt, ExitYield, At
  <2>2. PICK after \in {"run", "sleep_check", "exit_halt"} :
          sched_yield(state, ready, sleep_until, after)
    BY <1>6, Zenon DEF Yield, SleepHlt, ExitYield
  <2>3. creating = NIL
    BY <2>1 DEF CInv, CreatingInv, PushLabels
  <2>4. after \in Labels \ (PushLabels \cup {"none"})
    BY DEF Labels, PushLabels
  <2>5. state \in [Slots -> States] /\ \A u \in Slots : state[u] = "ZOMBIE" => state[u] = "ZOMBIE"
    BY <1>1 DEF Types
  <2> QED BY <2>1, <2>2, <2>3, <2>4, <2>5, <1>1, <1>2, YieldCount
<1>7. ASSUME NEW t \in Slots,
             \/ EnterSyscall(t) \/ LeaveSyscall(t) \/ ExitHalt(t)
             \/ SleepBegin(t) \/ SleepLock(t) \/ SleepBlock(t) \/ SleepUntil(t)
             \/ SleepUnlock(t) \/ SleepCheck(t) \/ PmmLock(t) \/ PmmUnlock(t) \/ ExitZombie(t)
      PROVE  CInv'
  <2> DEFINE After == {"run", "sleep_lock", "sleep_block", "sleep_until", "sleep_unlock",
                       "sleep_check", "sleep_hlt", "pmm", "exit_yield"}
             Before == After \cup {"exit_halt"}
             Frame == UNCHANGED <<used, priority, thread_count, ready, current_thread, creating>>
             Flags == /\ preemption_enabled' \in BOOLEAN
                      /\ in_syscall' \in [Slots -> BOOLEAN] /\ irq_off' \in BOOLEAN
                      /\ panic' \in {"none", "pmm_spin", "halted"}
             Moves(label) ==
               /\ pc' = pc \/ Goto(t, label)
               /\ \/ state' = state
                  \/ state' = [state EXCEPT ![t] = "BLOCKED"]
                  \/ state' = [state EXCEPT ![t] = "ZOMBIE"] /\ Goto(t, label)
  <2>1. panic = "none" /\ current_thread = t /\ \E from \in Before : pc[t] = from
    BY <1>7 DEF EnterSyscall, LeaveSyscall, ExitHalt, SleepBegin, SleepLock, SleepBlock,
       SleepUntil, SleepUnlock, SleepCheck, PmmLock, PmmUnlock, ExitZombie, At
  <2>2. pc[t] \notin PushLabels
    BY <2>1 DEF PushLabels
  <2>3. Frame /\ Flags /\ \E label \in After : Moves(label)
    <3>1. CASE EnterSyscall(t) \/ LeaveSyscall(t) \/ ExitHalt(t)
      <4>1. UNCHANGED <<pc, state>> /\ Frame
        BY <3>1 DEF EnterSyscall, LeaveSyscall, ExitHalt, threadVars, localVars
      <4>2. Flags
        BY <3>1, <1>2, <2>1 DEF EnterSyscall, LeaveSyscall, ExitHalt, syscallVars
      <4>3. Moves("run")
        BY <4>1
      <4> QED BY <4>1, <4>2, <4>3
    <3>2. CASE PmmLock(t) \/ PmmUnlock(t)
      <4>1. Frame /\ state' = state /\ Flags
        BY <3>2, <1>2, <2>1 DEF PmmLock, PmmUnlock, threadVars, syscallVars
      <4>2. pc' = pc \/ Goto(t, "pmm") \/ Goto(t, "run")
        BY <3>2 DEF PmmLock, PmmUnlock
      <4>3. Moves("pmm") \/ Moves("run")
        BY <4>1, <4>2
      <4> QED BY <4>1, <4>3
    <3>3. CASE SleepBegin(t) \/ SleepLock(t) \/ SleepUntil(t) \/ SleepUnlock(t) \/ SleepCheck(t)
      <4>1. Frame /\ state' = state /\ Flags
        BY <3>3, <1>2, <2>1 DEF SleepBegin, SleepLock, SleepUntil, SleepUnlock, SleepCheck,
           threadVars, syscallVars
      <4>2. \E label \in After : Goto(t, label)
        BY <3>3 DEF SleepBegin, SleepLock, SleepUntil, SleepUnlock, SleepCheck
      <4> QED BY <4>1, <4>2
    <3>4. CASE SleepBlock(t) \/ ExitZombie(t)
      <4>1. Frame /\ Flags
        BY <3>4, <1>2, <2>1 DEF SleepBlock, ExitZombie, syscallVars
      <4>2. Moves("sleep_until") \/ Moves("exit_yield")
        BY <3>4 DEF SleepBlock, ExitZombie
      <4> QED BY <4>1, <4>2
    <3> QED BY <1>7, <3>1, <3>2, <3>3, <3>4
  <2>4. After \subseteq Labels \ (PushLabels \cup {"none"})
    BY DEF Labels, PushLabels
  <2> HIDE DEF After
  <2>5. PICK label \in After : Moves(label)
    BY <2>3
  <2>6. label \in Labels \ (PushLabels \cup {"none"})
    BY <2>4, <2>5
  <2> QED BY <2>1, <2>2, <2>3, <2>5, <2>6, <1>1, GotoCount
<1>8. CASE UNCHANGED vars
  <2>1. MoreTypes' /\ CreatingInv' /\ ContextInv'
    BY <1>8 DEF vars, CInv, MoreTypes, CreatingInv, ContextInv, Slots, idle_thread
  <2>2. Counted' = Counted
    BY <1>8 DEF vars, Counted, Slots, idle_thread
  <2> QED BY <2>1, <2>2, <1>8 DEF vars, CInv
<1> QED BY <1>3, <1>4, <1>5, <1>6, <1>7, <1>8 DEF Next, SleepStep

(* The invariant of the count, on which the theorems below rest.           *)
THEOREM CountInductive == Spec => []CInv
<1>1. Init => CInv
  BY InitCInv
<1>2. CInv /\ SInv /\ [Next]_vars => CInv'
  BY NextCInv
<1> QED BY <1>1, <1>2, Inductive, PTL DEF Spec

(* Every field of the scheduler stays in its range, whatever the races do  *)
(* to the queues; the count never exceeds the table.                       *)
THEOREM TypeCorrect == Spec => []TypeOK
<1>1. SInv /\ CInv => TypeOK
  <2> SUFFICES ASSUME SInv, CInv PROVE TypeOK
    OBVIOUS
  <2>1. thread_count \in 0 .. THREAD_MAX
    BY CountTyped, SchedAssumption
  <2> QED BY <2>1 DEF SInv, Types, CInv, MoreTypes, Queues, TypeOK
<1> QED BY <1>1, Inductive, CountInductive, PTL

(* As long as stacks can be had, thread_count is the number of threads:    *)
(* every creation is counted once and every exit uncounted once.           *)
THEOREM CountIsExact ==
  ASSUME ~ StackAllocFails
  PROVE  Spec => []ThreadCountExact
<1>1. SInv /\ CInv => ThreadCountExact
  <2> SUFFICES ASSUME SInv, CInv PROVE ThreadCountExact
    OBVIOUS
  <2>1. \A t \in Slots \ {idle_thread} : used[t] <=> pc[t] # "none"
    BY DEF SInv, CInv, ContextInv, ContextHasStacks
  <2>2. Counted = {t \in Slots \ {idle_thread, creating} : used[t]}
    BY <2>1 DEF Counted
  <2> QED BY <2>2 DEF CInv, ThreadCountExact
<1> QED BY <1>1, Inductive, CountInductive, PTL

-----------------------------------------------------------------------------
(* The queue of the created threads.  It is sound for M if it is a list of *)
(* the members of M, each once, that ends, with its tail the last of them. *)

Line(q, n, s) ==
  /\ q.head[SCHED_PRIO_NORMAL] = IF n = 0 THEN NIL ELSE s[1]
  /\ q.tail[SCHED_PRIO_NORMAL] = IF n = 0 THEN NIL ELSE s[n]
  /\ \A i \in 1 .. n : q.next[s[i]] = IF i = n THEN NIL ELSE s[i + 1]

Enumerates(s, n, M) ==
  /\ s \in [1 .. n -> M]
  /\ \A i, j \in 1 .. n : s[i] = s[j] => i = j
  /\ \A t \in M : \E i \in 1 .. n : s[i] = t

Sound(q, M) == \E n \in Nat : \E s \in [1 .. n -> M] : Enumerates(s, n, M) /\ Line(q, n, s)

(* The boot thread's queue holds the boot thread or nothing.               *)
IdleQueue(q) ==
  /\ q.head[SCHED_PRIO_IDLE] \in {NIL, idle_thread}
  /\ q.tail[SCHED_PRIO_IDLE] = q.head[SCHED_PRIO_IDLE]
  /\ q.next[idle_thread] \in {NIL, idle_thread}

Threads == Slots \ {idle_thread}

LEMMA NilIsNoSlot == NIL \notin Slots /\ idle_thread \in Slots /\ Threads \subseteq Slots
BY SchedAssumption DEF Slots, idle_thread, Threads

LEMMA SoundEnds ==
  ASSUME NEW q, NEW M \in SUBSET Threads, Sound(q, M)
  PROVE  /\ q.head[SCHED_PRIO_NORMAL] \in M \cup {NIL}
         /\ q.tail[SCHED_PRIO_NORMAL] \in M \cup {NIL}
         /\ q.head[SCHED_PRIO_NORMAL] = NIL <=> M = {}
         /\ q.tail[SCHED_PRIO_NORMAL] = NIL <=> M = {}
<1>0. PICK n \in Nat : \E s \in [1 .. n -> M] : Enumerates(s, n, M) /\ Line(q, n, s)
  BY DEF Sound
<1>1. PICK s \in [1 .. n -> M] : Enumerates(s, n, M) /\ Line(q, n, s)
  BY <1>0
<1>2. NIL \notin M
  BY NilIsNoSlot
<1>3. CASE n = 0
  BY <1>1, <1>3 DEF Enumerates, Line
<1>4. CASE n # 0
  <2>1. 1 \in 1 .. n /\ n \in 1 .. n
    BY <1>4
  <2>2. s[1] \in M /\ s[n] \in M
    BY <2>1
  <2> QED BY <1>1, <1>2, <1>4, <2>2 DEF Line
<1> QED BY <1>3, <1>4

(* Only the links of its members matter.                                   *)
LEMMA SoundFrame ==
  ASSUME NEW q, NEW r, NEW M, Sound(q, M),
         r.head[SCHED_PRIO_NORMAL] = q.head[SCHED_PRIO_NORMAL],
         r.tail[SCHED_PRIO_NORMAL] = q.tail[SCHED_PRIO_NORMAL],
         \A t \in M : r.next[t] = q.next[t]
  PROVE  Sound(r, M)
<1>0. PICK n \in Nat : \E s \in [1 .. n -> M] : Enumerates(s, n, M) /\ Line(q, n, s)
  BY DEF Sound
<1>1. PICK s \in [1 .. n -> M] : Enumerates(s, n, M) /\ Line(q, n, s)
  BY <1>0
<1>2. \A i \in 1 .. n : r.next[s[i]] = q.next[s[i]]
  OBVIOUS
<1>3. Line(r, n, s)
  BY <1>1, <1>2 DEF Line
<1> QED BY <1>1, <1>3 DEF Sound

LEMMA SoundPush ==
  ASSUME NEW q \in Queues, NEW M \in SUBSET Threads, Sound(q, M), NEW t \in Threads, t \notin M
  PROVE  /\ Sound(ready_queue_push(q, t, SCHED_PRIO_NORMAL), M \cup {t})
         /\ ~ PushFaults(q, SCHED_PRIO_NORMAL)
<1> DEFINE p == SCHED_PRIO_NORMAL
           r == ready_queue_push(q, t, p)
<1>0. PICK n \in Nat : \E s \in [1 .. n -> M] : Enumerates(s, n, M) /\ Line(q, n, s)
  BY DEF Sound
<1>1. PICK s \in [1 .. n -> M] : Enumerates(s, n, M) /\ Line(q, n, s)
  BY <1>0
<1>2. t \in Slots /\ p \in Priorities /\ NIL \notin M
  BY NilIsNoSlot DEF Priorities
<1> DEFINE z == [i \in 1 .. n + 1 |-> IF i = n + 1 THEN t ELSE s[i]]
<1>3. z \in [1 .. n + 1 -> M \cup {t}] /\ n + 1 \in Nat
  OBVIOUS
<1>4. Enumerates(z, n + 1, M \cup {t})
  <2>1. ASSUME NEW i \in 1 .. n + 1, NEW j \in 1 .. n + 1, z[i] = z[j] PROVE i = j
    <3>1. i # n + 1 => i \in 1 .. n /\ s[i] \in M
      OBVIOUS
    <3>2. j # n + 1 => j \in 1 .. n /\ s[j] \in M
      OBVIOUS
    <3> QED BY <2>1, <3>1, <3>2, <1>1 DEF Enumerates
  <2>2. ASSUME NEW u \in M \cup {t} PROVE \E i \in 1 .. n + 1 : z[i] = u
    <3>1. CASE u = t
      <4>1. n + 1 \in 1 .. n + 1 /\ z[n + 1] = t
        OBVIOUS
      <4> QED BY <4>1, <3>1
    <3>2. CASE u \in M
      <4>1. PICK i \in 1 .. n : s[i] = u
        BY <3>2, <1>1 DEF Enumerates
      <4>2. i \in 1 .. n + 1 /\ z[i] = u
        BY <4>1
      <4> QED BY <4>2
    <3> QED BY <3>1, <3>2
  <2> QED BY <1>3, <2>1, <2>2 DEF Enumerates
<1>5. CASE n = 0
  <2>1. q.head[p] = NIL
    BY <1>1, <1>5 DEF Line
  <2>2. r.head[p] = t /\ r.tail[p] = t /\ r.next[t] = NIL
    BY <2>1, <1>2 DEF ready_queue_push, Queues
  <2>3. z[1] = t /\ z[n + 1] = t
    BY <1>5
  <2>4. Line(r, n + 1, z)
    BY <1>5, <2>2, <2>3 DEF Line
  <2> QED BY <1>3, <1>4, <2>1, <2>4 DEF Sound, PushFaults
<1>6. CASE n # 0
  <2>1. /\ 1 \in 1 .. n /\ n \in 1 .. n /\ s[1] \in M /\ s[n] \in M
        /\ q.head[p] = s[1] /\ q.tail[p] = s[n]
    BY <1>1, <1>6 DEF Line
  <2>2. s[1] # NIL /\ s[n] # NIL /\ s[n] # t /\ s[n] \in Slots
    BY <2>1, <1>2, NilIsNoSlot
  <2>3. /\ r.head[p] = s[1] /\ r.tail[p] = t
        /\ r.next[t] = NIL /\ r.next[s[n]] = t
        /\ \A u \in Slots \ {t, s[n]} : r.next[u] = q.next[u]
    BY <2>1, <2>2, <1>2 DEF ready_queue_push, Queues
  <2>4. z[1] = s[1] /\ z[n] = s[n] /\ z[n + 1] = t
    BY <1>6
  <2>5. ASSUME NEW i \in 1 .. n + 1
        PROVE  r.next[z[i]] = IF i = n + 1 THEN NIL ELSE z[i + 1]
    <3>1. CASE i = n + 1
      BY <3>1, <2>3, <2>4
    <3>2. CASE i = n
      BY <3>2, <2>3, <2>4
    <3>3. CASE i \in 1 .. n - 1
      <4>1. i \in 1 .. n /\ s[i] \in M /\ i # n
        BY <3>3
      <4>2. s[i] # s[n]
        BY <4>1, <2>1, <1>1 DEF Enumerates
      <4>3. s[i] \in Slots \ {t, s[n]}
        BY <4>1, <4>2, NilIsNoSlot
      <4>4. q.next[s[i]] = s[i + 1]
        BY <4>1, <1>1 DEF Line
      <4>5. z[i] = s[i] /\ z[i + 1] = s[i + 1]
        BY <3>3
      <4> QED BY <2>3, <4>1, <4>3, <4>4, <4>5
    <3> QED BY <3>1, <3>2, <3>3
  <2>6. Line(r, n + 1, z)
    BY <2>3, <2>4, <2>5 DEF Line
  <2> QED BY <1>3, <1>4, <2>1, <2>2, <2>6 DEF Sound, PushFaults
<1> QED BY <1>5, <1>6

LEMMA SoundPop ==
  ASSUME NEW q \in Queues, NEW M \in SUBSET Threads, Sound(q, M),
         q.head[SCHED_PRIO_NORMAL] # NIL
  PROVE  LET h == q.head[SCHED_PRIO_NORMAL]
         IN  h \in M /\ Sound(ready_queue_pop(q, SCHED_PRIO_NORMAL), M \ {h})
<1> DEFINE p == SCHED_PRIO_NORMAL
           h == q.head[p]
           r == ready_queue_pop(q, p)
<1>0. PICK n \in Nat : \E s \in [1 .. n -> M] : Enumerates(s, n, M) /\ Line(q, n, s)
  BY DEF Sound
<1>1. PICK s \in [1 .. n -> M] : Enumerates(s, n, M) /\ Line(q, n, s)
  BY <1>0
<1>2. p \in Priorities /\ NIL \notin M
  BY NilIsNoSlot DEF Priorities
<1>3. n # 0 /\ 1 \in 1 .. n /\ n \in 1 .. n /\ h = s[1] /\ s[1] \in M /\ s[n] \in M
      /\ q.tail[p] = s[n]
  BY <1>1 DEF Line
<1>4. h \in Slots
  BY <1>3, NilIsNoSlot
<1> DEFINE z == [i \in 1 .. n - 1 |-> s[i + 1]]
<1>5. \A i \in 1 .. n - 1 : i + 1 \in 1 .. n /\ s[i + 1] \in M \ {h} /\ z[i] = s[i + 1]
  BY <1>1, <1>3 DEF Enumerates
<1>6. z \in [1 .. n - 1 -> M \ {h}] /\ n - 1 \in Nat
  BY <1>3, <1>5
<1>7. Enumerates(z, n - 1, M \ {h})
  <2>1. ASSUME NEW i \in 1 .. n - 1, NEW j \in 1 .. n - 1, z[i] = z[j] PROVE i = j
    BY <2>1, <1>1, <1>5 DEF Enumerates
  <2>2. ASSUME NEW u \in M \ {h} PROVE \E i \in 1 .. n - 1 : z[i] = u
    <3>1. PICK i \in 1 .. n : s[i] = u
      BY <1>1 DEF Enumerates
    <3>2. i # 1
      BY <3>1, <1>3
    <3>3. i - 1 \in 1 .. n - 1 /\ z[i - 1] = u
      BY <3>1, <3>2, <1>5
    <3> QED BY <3>3
  <2> QED BY <1>6, <2>1, <2>2 DEF Enumerates
<1>8. /\ r.head[p] = q.next[h] /\ \A u \in Slots \ {h} : r.next[u] = q.next[u]
      /\ r.tail[p] = IF q.next[h] = NIL THEN NIL ELSE q.tail[p]
  BY <1>2, <1>4 DEF ready_queue_pop, Queues
<1>9. q.next[h] = IF n = 1 THEN NIL ELSE s[2]
  BY <1>1, <1>3 DEF Line
<1>10. n # 1 => s[2] # NIL /\ z[1] = s[2] /\ z[n - 1] = s[n]
  BY <1>2, <1>3, <1>5
<1>11. ASSUME NEW i \in 1 .. n - 1
       PROVE  r.next[z[i]] = IF i = n - 1 THEN NIL ELSE z[i + 1]
  <2>1. i + 1 \in 1 .. n /\ s[i + 1] \in Slots \ {h} /\ z[i] = s[i + 1]
    BY <1>5, NilIsNoSlot
  <2>2. q.next[s[i + 1]] = IF i + 1 = n THEN NIL ELSE s[i + 1 + 1]
    BY <2>1, <1>1 DEF Line
  <2>3. i # n - 1 => i + 1 \in 1 .. n - 1 /\ z[i + 1] = s[i + 1 + 1]
    BY <1>3
  <2> QED BY <2>1, <2>2, <2>3, <1>3, <1>8
<1> HIDE DEF h, r, z
<1>12. Line(r, n - 1, z)
  <2>1. CASE n = 1
    BY <2>1, <1>8, <1>9 DEF Line
  <2>2. CASE n # 1
    BY <2>2, <1>3, <1>8, <1>9, <1>10, <1>11 DEF Line
  <2> QED BY <2>1, <2>2
<1>13. Sound(r, M \ {h})
  BY <1>6, <1>7, <1>12 DEF Sound
<1> QED BY <1>3, <1>13 DEF h, r

(* The boot thread's queue is not disturbed by the others' ...             *)
LEMMA PushNormal ==
  ASSUME NEW q \in Queues, NEW M \in SUBSET Threads, Sound(q, M), IdleQueue(q),
         NEW t \in Threads, t \notin M
  PROVE  /\ Sound(ready_queue_push(q, t, SCHED_PRIO_NORMAL), M \cup {t})
         /\ IdleQueue(ready_queue_push(q, t, SCHED_PRIO_NORMAL))
         /\ ~ PushFaults(q, SCHED_PRIO_NORMAL)
<1> DEFINE r == ready_queue_push(q, t, SCHED_PRIO_NORMAL)
<1>1. Sound(r, M \cup {t}) /\ ~ PushFaults(q, SCHED_PRIO_NORMAL)
  BY SoundPush
<1>2. /\ q.tail[SCHED_PRIO_NORMAL] # idle_thread /\ idle_thread \in Slots /\ t # idle_thread
      /\ SCHED_PRIO_IDLE # SCHED_PRIO_NORMAL /\ SCHED_PRIO_IDLE \in Priorities
  BY SoundEnds, NilIsNoSlot DEF Threads, SCHED_PRIO_IDLE, SCHED_PRIO_NORMAL, Priorities
<1>3. /\ r.head[SCHED_PRIO_IDLE] = q.head[SCHED_PRIO_IDLE]
      /\ r.tail[SCHED_PRIO_IDLE] = q.tail[SCHED_PRIO_IDLE]
      /\ r.next[idle_thread] = q.next[idle_thread]
  BY <1>2 DEF Queues, ready_queue_push
<1> QED BY <1>1, <1>3 DEF IdleQueue

(* ... nor they by it.                                                     *)
LEMMA PushIdle ==
  ASSUME NEW q \in Queues, NEW M \in SUBSET Threads, Sound(q, M), IdleQueue(q)
  PROVE  /\ Sound(ready_queue_push(q, idle_thread, SCHED_PRIO_IDLE), M)
         /\ IdleQueue(ready_queue_push(q, idle_thread, SCHED_PRIO_IDLE))
         /\ ~ PushFaults(q, SCHED_PRIO_IDLE)
<1> DEFINE r == ready_queue_push(q, idle_thread, SCHED_PRIO_IDLE)
<1>1. /\ idle_thread \in Slots /\ \A t \in M : t \in Slots /\ t # idle_thread
      /\ SCHED_PRIO_IDLE # SCHED_PRIO_NORMAL
      /\ SCHED_PRIO_IDLE \in Priorities /\ SCHED_PRIO_NORMAL \in Priorities
  BY NilIsNoSlot DEF Threads, SCHED_PRIO_IDLE, SCHED_PRIO_NORMAL, Priorities
<1>2. /\ r.head[SCHED_PRIO_NORMAL] = q.head[SCHED_PRIO_NORMAL]
      /\ r.tail[SCHED_PRIO_NORMAL] = q.tail[SCHED_PRIO_NORMAL]
      /\ \A t \in M : r.next[t] = q.next[t]
  BY <1>1 DEF Queues, ready_queue_push, IdleQueue
<1>3. Sound(r, M)
  BY <1>2, SoundFrame
<1>4. /\ r.head[SCHED_PRIO_IDLE] = idle_thread /\ r.tail[SCHED_PRIO_IDLE] = idle_thread
      /\ r.next[idle_thread] \in {NIL, idle_thread}
  BY <1>1 DEF Queues, ready_queue_push, IdleQueue
<1> QED BY <1>1, <1>3, <1>4, NilIsNoSlot DEF IdleQueue, PushFaults

(* The thread sched_yield picks, and what it leaves on the queues.         *)
Picked(q) ==
  IF NonEmpty(q) # {} THEN q.head[Highest(NonEmpty(q))] ELSE idle_thread

Rest(q) ==
  IF NonEmpty(q) # {} THEN ready_queue_pop(q, Highest(NonEmpty(q))) ELSE q

LEMMA PickedSound ==
  ASSUME NEW q \in Queues, NEW M \in SUBSET Threads, Sound(q, M), IdleQueue(q)
  PROVE  /\ Picked(q) \in M \cup {idle_thread} /\ Rest(q) \in Queues
         /\ Sound(Rest(q), M \ {Picked(q)}) /\ IdleQueue(Rest(q))
<1>1. /\ SCHED_PRIO_IDLE # SCHED_PRIO_NORMAL /\ SCHED_PRIO_IDLE < SCHED_PRIO_NORMAL
      /\ Priorities = {SCHED_PRIO_IDLE, SCHED_PRIO_NORMAL}
      /\ SCHED_PRIO_IDLE \in Nat /\ SCHED_PRIO_NORMAL \in Nat
  BY DEF SCHED_PRIO_IDLE, SCHED_PRIO_NORMAL, Priorities
<1>2. idle_thread \in Slots /\ \A t \in M : t \in Slots /\ t # idle_thread
  BY NilIsNoSlot DEF Threads
<1>3. M \ {idle_thread} = M
  BY <1>2
<1>4. NonEmpty(q) \in SUBSET Priorities
  BY DEF NonEmpty
<1>5. NonEmpty(q) # {} =>
        /\ Highest(NonEmpty(q)) \in NonEmpty(q)
        /\ \A p \in NonEmpty(q) : p <= Highest(NonEmpty(q))
  BY <1>4, HighestIn
<1>6. CASE q.head[SCHED_PRIO_NORMAL] # NIL
  <2>1. SCHED_PRIO_NORMAL \in NonEmpty(q)
    BY <1>1, <1>6 DEF NonEmpty
  <2>2. SCHED_PRIO_NORMAL <= Highest(NonEmpty(q)) /\ Highest(NonEmpty(q)) \in Priorities
    BY <2>1, <1>4, <1>5
  <2>3. Highest(NonEmpty(q)) = SCHED_PRIO_NORMAL
    BY <2>2, <1>1
  <2> DEFINE h == q.head[SCHED_PRIO_NORMAL]
  <2>4. Picked(q) = h /\ Rest(q) = ready_queue_pop(q, SCHED_PRIO_NORMAL)
    BY <2>1, <2>3, Zenon DEF Picked, Rest
  <2>5. h \in M /\ Sound(ready_queue_pop(q, SCHED_PRIO_NORMAL), M \ {h})
    BY <1>6, SoundPop
  <2>6. ready_queue_pop(q, SCHED_PRIO_NORMAL) \in Queues
    BY <2>1, PopTyped
  <2>7. IdleQueue(ready_queue_pop(q, SCHED_PRIO_NORMAL))
    BY <2>5, <1>1, <1>2 DEF Queues, ready_queue_pop, IdleQueue
  <2> QED BY <2>4, <2>5, <2>6, <2>7
<1>7. CASE q.head[SCHED_PRIO_NORMAL] = NIL /\ q.head[SCHED_PRIO_IDLE] # NIL
  <2>1. NonEmpty(q) = {SCHED_PRIO_IDLE}
    BY <1>1, <1>7 DEF NonEmpty
  <2>2. Highest(NonEmpty(q)) = SCHED_PRIO_IDLE
    BY <2>1, <1>5
  <2>3. q.head[SCHED_PRIO_IDLE] = idle_thread /\ q.tail[SCHED_PRIO_IDLE] = idle_thread
    BY <1>7 DEF IdleQueue
  <2> DEFINE r == ready_queue_pop(q, SCHED_PRIO_IDLE)
  <2>4. Picked(q) = idle_thread /\ Rest(q) = r
    BY <2>1, <2>2, <2>3, Zenon DEF Picked, Rest
  <2>5. r \in Queues
    BY <2>1, PopTyped
  <2>6. /\ r.head[SCHED_PRIO_NORMAL] = q.head[SCHED_PRIO_NORMAL]
        /\ r.tail[SCHED_PRIO_NORMAL] = q.tail[SCHED_PRIO_NORMAL]
        /\ \A t \in M : r.next[t] = q.next[t]
    BY <2>3, <1>1, <1>2 DEF Queues, ready_queue_pop
  <2>7. Sound(r, M)
    BY <2>6, SoundFrame
  <2>8. IdleQueue(r)
    BY <2>3, <1>1, <1>2 DEF Queues, ready_queue_pop, IdleQueue
  <2> QED BY <1>3, <2>4, <2>5, <2>7, <2>8
<1>8. CASE q.head[SCHED_PRIO_NORMAL] = NIL /\ q.head[SCHED_PRIO_IDLE] = NIL
  <2>1. NonEmpty(q) = {}
    BY <1>1, <1>8 DEF NonEmpty
  <2>2. Picked(q) = idle_thread /\ Rest(q) = q
    BY <2>1 DEF Picked, Rest
  <2> QED BY <1>3, <2>2
<1> QED BY <1>6, <1>7, <1>8

-----------------------------------------------------------------------------
(* The workloads QueueIsSound and NoPanic are about: nobody sleeps, which  *)
(* is what the scheduler gets wrong, nobody is inside pmm.c when a zombie  *)
(* is reaped, and new threads get their stacks.                            *)

Computing == Ops \cap {"sleep", "alloc"} = {} /\ ~ StackAllocFails

(* Where the threads stand then.                                           *)
Calm ==
  /\ panic = "none"
  /\ \A t \in Slots : state[t] # "BLOCKED"
  /\ pc[idle_thread] \in PushLabels \cup {"run"}
  /\ \A t \in Threads : pc[t] \in {"none", "run", "exit_yield", "exit_halt"}

Places ==
  /\ \A t \in Threads :
       /\ state[t] = "ZOMBIE" <=> pc[t] \in {"exit_yield", "exit_halt"}
       /\ pc[t] = "exit_halt" => t # current_thread
       /\ used[t] => priority[t] = SCHED_PRIO_NORMAL
  /\ priority[idle_thread] = SCHED_PRIO_IDLE
  /\ state[idle_thread] \in {"READY", "RUNNING"}
  /\ current_thread # idle_thread => state[current_thread] \in {"RUNNING", "ZOMBIE"}

(* The queues, at each point of the push without the lock.                 *)
QueueInv ==
  /\ IdleQueue(ready)
  /\ pc[idle_thread] \in {"run", "push", "push_head", "push_link"} => Sound(ready, Runnable)
  /\ pc[idle_thread] = "push_head" => ready.head[SCHED_PRIO_NORMAL] = NIL
  /\ pc[idle_thread] = "push_link" => ready.head[SCHED_PRIO_NORMAL] # NIL
  /\ pc[idle_thread] \in {"push_head", "push_link"} => ready.next[creating] = NIL
  /\ pc[idle_thread] = "push_tail" =>
       Sound([ready EXCEPT !.tail[SCHED_PRIO_NORMAL] = creating], Runnable \cup {creating})
  /\ pc[idle_thread] = "create_count" => Sound(ready, Runnable \cup {creating})

QInv == Calm /\ Places /\ QueueInv

Ready(st) == {t \in Threads : used[t] /\ st[t] = "READY"}

(* sched_yield under its lock: the caller, if it is still running, goes to *)
(* the end of its queue, and the thread that is picked leaves its own.     *)
LEMMA RescheduleQueue ==
  ASSUME NEW st \in [Slots -> States], NEW q \in Queues, NEW until, NEW after,
         CInv, Types, ContextHasStacks, QInv, ~ StackAllocFails, creating = NIL,
         \A t \in Slots : /\ st[t] # "BLOCKED"
                          /\ st[t] = "ZOMBIE" <=> state[t] = "ZOMBIE"
                          /\ st[t] = "RUNNING" => t = current_thread,
         st[idle_thread] \in {"READY", "RUNNING"},
         Sound(q, Ready(st)), IdleQueue(q),
         after = IF st[current_thread] = "ZOMBIE" THEN "exit_halt" ELSE "run",
         Reschedule(st, q, until, after),
         UNCHANGED creating
  PROVE  QInv'
<1> DEFINE dead == Reapable(st)
           prev == current_thread
           st1  == Clear(st, dead, "READY")
           prio1 == Clear(priority, dead, 0)
           pc1  == Clear(pc, dead, "none")
           q1   == [q EXCEPT !.next = Clear(@, dead, NIL)]
           next == Picked(q1)
           q2   == Rest(q1)
           runs == st1[next] = "READY" \/ next = idle_thread
           requeue == runs /\ st1[prev] = "RUNNING"
<1>1. /\ used' = Clear(used, dead, FALSE)
      /\ priority' = prio1
      /\ state' = IF runs
                  THEN [st1 EXCEPT ![prev] = IF requeue THEN "READY" ELSE @,
                                   ![next] = "RUNNING"]
                  ELSE st1
      /\ ready' = IF requeue THEN ready_queue_push(q2, prev, prio1[prev]) ELSE q2
      /\ current_thread' = IF runs THEN next ELSE prev
      /\ pc' = [pc1 EXCEPT ![prev] = after]
      /\ panic' = IF runs /\ pc1[next] = "none" THEN "no_stack"
                  ELSE IF requeue /\ PushFaults(q2, prio1[prev]) THEN "null_deref"
                  ELSE panic
  BY Zenon DEF Reschedule, Requeues, Picked, Rest
<1>2. dead \subseteq Threads \ {prev} /\ \A t \in dead : st[t] = "ZOMBIE"
  BY DEF Reapable, Threads
<1>3. /\ prev \in Slots /\ pc[prev] # "none" /\ pc \in [Slots -> Labels]
      /\ idle_thread \in Slots /\ pc[idle_thread] = "run" /\ idle_thread \notin Threads
      /\ prev \in Threads => used[prev]
  BY NilIsNoSlot DEF CInv, MoreTypes, ContextInv, CreatingInv, QInv, Calm, Types, Threads,
     ContextHasStacks
<1>4. q1 \in Queues
  BY DEF Queues, Clear
<1>5. Ready(st) \in SUBSET Threads
  BY DEF Ready
<1>6. Ready(st) \cap dead = {}
  BY <1>2 DEF Ready
<1>7. Sound(q1, Ready(st)) /\ IdleQueue(q1)
  <2>1. /\ q1.head = q.head /\ q1.tail = q.tail
        /\ \A t \in Slots : q1.next[t] = IF t \in dead THEN NIL ELSE q.next[t]
    BY DEF Queues, Clear
  <2>2. \A t \in Ready(st) : t \in Slots /\ t \notin dead
    BY <1>5, <1>6, NilIsNoSlot
  <2>3. idle_thread \notin dead
    BY <1>2, <1>3
  <2> HIDE DEF q1, dead
  <2>4. Sound(q1, Ready(st))
    BY <2>1, <2>2, SoundFrame
  <2> QED BY <2>1, <2>3, <2>4, <1>3 DEF IdleQueue
<1> HIDE DEF dead, q1
<1>8. /\ next \in Ready(st) \cup {idle_thread} /\ q2 \in Queues
      /\ Sound(q2, Ready(st) \ {next}) /\ IdleQueue(q2)
  BY <1>4, <1>5, <1>7, PickedSound
<1>9. next \in Slots /\ next \notin dead
      /\ (next # idle_thread => st[next] = "READY" /\ used[next])
  BY <1>2, <1>3, <1>6, <1>8, NilIsNoSlot DEF Ready
<1>10. /\ \A t \in Slots : st1[t] = IF t \in dead THEN "READY" ELSE st[t]
       /\ \A t \in Slots : prio1[t] = IF t \in dead THEN 0 ELSE priority[t]
       /\ \A t \in Slots : pc1[t] = IF t \in dead THEN "none" ELSE pc[t]
       /\ \A t \in Slots : used'[t] <=> used[t] /\ t \notin dead
       /\ DOMAIN st1 = Slots /\ DOMAIN pc1 = Slots
  BY <1>1 DEF Clear, Types
<1>11. prev \notin dead /\ idle_thread \notin dead
  BY <1>2, <1>3
<1> HIDE DEF next, q2, st1, prio1, pc1
<1>12. runs
  BY <1>9, <1>10
<1>13. requeue <=> st[prev] = "RUNNING"
  BY <1>3, <1>10, <1>11, <1>12
<1>14. \A t \in Slots :
         /\ state'[t] = IF t = next THEN "RUNNING"
                        ELSE IF t = prev /\ st[prev] = "RUNNING" THEN "READY"
                        ELSE IF t \in dead THEN "READY" ELSE st[t]
         /\ pc'[t] = IF t = prev THEN after ELSE IF t \in dead THEN "none" ELSE pc[t]
  BY <1>1, <1>3, <1>10, <1>11, <1>12, <1>13
<1>15. ASSUME NEW t \in Threads PROVE used'[t] => prio1[t] = SCHED_PRIO_NORMAL
  <2>1. t \in Slots
    BY NilIsNoSlot
  <2> QED BY <2>1, <1>10 DEF QInv, Places
<1>16. prio1[idle_thread] = SCHED_PRIO_IDLE
  BY <1>3, <1>10, <1>11 DEF QInv, Places
<1>17. requeue => prio1[prev] = IF prev = idle_thread THEN SCHED_PRIO_IDLE ELSE SCHED_PRIO_NORMAL
  <2>1. prev # idle_thread => prev \in Threads /\ used'[prev]
    BY <1>3, <1>10, <1>11 DEF Threads
  <2> QED BY <2>1, <1>15, <1>16
<1>18. next = prev => ~ requeue \/ prev = idle_thread
  BY <1>9, <1>13
<1>19. {t \in Threads : used'[t] /\ state'[t] = "READY"} =
         (Ready(st) \ {next}) \cup (IF requeue /\ prev # idle_thread THEN {prev} ELSE {})
  <2>1. requeue /\ prev # idle_thread => prev \in Threads
    BY <1>3 DEF Threads
  <2>2. ASSUME NEW t \in Threads
        PROVE  used'[t] /\ state'[t] = "READY" <=>
                 (t \in Ready(st) /\ t # next) \/ (requeue /\ prev # idle_thread /\ t = prev)
    <3>1. t \in Slots /\ t # idle_thread
      BY NilIsNoSlot DEF Threads
    <3>2. t \in Ready(st) <=> used[t] /\ st[t] = "READY"
      BY DEF Ready
    <3>3. CASE t = prev
      <4>1. used[t] /\ t \notin dead
        BY <3>3, <1>3, <1>11
      <4> QED BY <3>1, <3>2, <3>3, <4>1, <1>10, <1>13, <1>14, <1>18
    <3>4. CASE t # prev
      <4>1. st[t] # "READY" => t \in dead \/ state'[t] # "READY"
        BY <3>1, <3>4, <1>14
      <4> QED BY <3>1, <3>2, <3>4, <4>1, <1>2, <1>10, <1>14
    <3> QED BY <3>3, <3>4
  <2> HIDE DEF requeue
  <2>3. CASE requeue /\ prev # idle_thread
    BY <1>5, <2>1, <2>2, <2>3
  <2>4. CASE ~ (requeue /\ prev # idle_thread)
    BY <1>5, <2>2, <2>4
  <2> QED BY <2>3, <2>4
<1>20. Sound(ready', {t \in Threads : used'[t] /\ state'[t] = "READY"}) /\ IdleQueue(ready')
       /\ panic' = "none"
  <2>1. panic' = IF requeue /\ PushFaults(q2, prio1[prev]) THEN "null_deref" ELSE panic
    <3>1. pc1[next] # "none"
      <4>1. CASE next = idle_thread
        BY <4>1, <1>3, <1>9, <1>10
      <4>2. CASE next # idle_thread
        <5>1. next \in Slots \ {idle_thread} /\ used[next]
          BY <4>2, <1>9
        <5>2. pc[next] # "none"
          BY <5>1 DEF CInv, ContextInv
        <5> QED BY <5>2, <1>9, <1>10
      <4> QED BY <4>1, <4>2
    <3> QED BY <3>1, <1>1
  <2>2. panic = "none"
    BY DEF QInv, Calm
  <2>3. Ready(st) \ {next} \in SUBSET Threads
    BY <1>5
  <2>4. CASE ~ requeue
    BY <2>1, <2>2, <2>4, <1>1, <1>8, <1>19
  <2>5. CASE requeue /\ prev = idle_thread
    BY <2>1, <2>2, <2>3, <2>5, <1>1, <1>8, <1>17, <1>19, PushIdle
  <2>6. CASE requeue /\ prev # idle_thread
    <3>1. prev \in Threads /\ prev \notin Ready(st) \ {next}
      BY <2>6, <1>3, <1>13 DEF Threads, Ready
    <3> DEFINE r == ready_queue_push(q2, prev, SCHED_PRIO_NORMAL)
    <3>2. /\ Sound(r, (Ready(st) \ {next}) \cup {prev}) /\ IdleQueue(r)
          /\ ~ PushFaults(q2, SCHED_PRIO_NORMAL)
      BY <3>1, <2>3, <1>8, PushNormal
    <3>3. ready' = r /\ prio1[prev] = SCHED_PRIO_NORMAL
      BY <2>6, <1>1, <1>17
    <3> HIDE DEF r, requeue
    <3> QED BY <2>1, <2>2, <2>6, <3>2, <3>3, <1>19
  <2> QED BY <2>4, <2>5, <2>6
<1>21. Calm'
  <2>1. ASSUME NEW t \in Slots PROVE state'[t] # "BLOCKED"
    BY <1>14
  <2>2. pc'[idle_thread] = "run"
    BY <1>3, <1>11, <1>14 DEF QInv, Places
  <2>3. ASSUME NEW t \in Threads
        PROVE  pc'[t] \in {"none", "run", "exit_yield", "exit_halt"}
    BY <1>14, NilIsNoSlot DEF QInv, Calm
  <2> QED BY <2>1, <2>2, <2>3, <1>20 DEF Calm, Slots, Threads, idle_thread
<1>22. Places'
  <2>1. current_thread' = next /\ state'[next] = "RUNNING"
    BY <1>1, <1>9, <1>12, <1>14
  <2>2. ASSUME NEW t \in Threads
        PROVE  /\ state'[t] = "ZOMBIE" <=> pc'[t] \in {"exit_yield", "exit_halt"}
               /\ pc'[t] = "exit_halt" => t # next
    <3>1. /\ t \in Slots
          /\ state[t] = "ZOMBIE" <=> pc[t] \in {"exit_yield", "exit_halt"}
      BY NilIsNoSlot DEF QInv, Places
    <3>2. CASE t = prev
      <4>1. t \notin dead
        BY <3>2, <1>11
      <4>2. CASE st[t] = "ZOMBIE"
        <5>1. after = "exit_halt"
          BY <3>2, <4>2
        <5>2. t # next
          BY <4>2, <1>9, NilIsNoSlot DEF Threads
        <5> QED BY <3>1, <3>2, <4>1, <4>2, <5>1, <5>2, <1>14
      <4>3. CASE st[t] # "ZOMBIE"
        BY <3>1, <3>2, <4>1, <4>3, <1>14
      <4> QED BY <4>2, <4>3
    <3>3. CASE t # prev /\ t \in dead
      BY <3>1, <3>3, <1>9, <1>14
    <3>4. CASE t # prev /\ t \notin dead
      <4>1. t = next => state[t] # "ZOMBIE"
        BY <1>9, NilIsNoSlot DEF Threads
      <4> QED BY <3>1, <3>4, <4>1, <1>14
    <3> QED BY <3>2, <3>3, <3>4
  <2>3. priority' = prio1
    BY <1>1
  <2>4. state'[idle_thread] \in {"READY", "RUNNING"}
    BY <1>3, <1>11, <1>14
  <2> QED BY <2>1, <2>2, <2>3, <2>4, <1>15, <1>16 DEF Places, Slots, Threads, idle_thread
<1>23. QueueInv'
  <2>1. Runnable' = {t \in Threads : used'[t] /\ state'[t] = "READY"}
    BY NilIsNoSlot DEF Runnable, Threads, Slots, idle_thread
  <2>2. pc'[idle_thread] = "run"
    BY <1>3, <1>11, <1>14 DEF QInv, Places
  <2> QED BY <2>1, <2>2, <1>20 DEF QueueInv, Slots, idle_thread
<1> QED BY <1>21, <1>22, <1>23 DEF QInv

(* No lock is held: sched_yield goes through.                              *)
LEMMA YieldQueue ==
  ASSUME NEW st \in [Slots -> States], NEW q \in Queues, NEW until, NEW after,
         CInv, SInv, QInv, ~ StackAllocFails, creating = NIL,
         \A t \in Slots : /\ st[t] # "BLOCKED"
                          /\ st[t] = "ZOMBIE" <=> state[t] = "ZOMBIE"
                          /\ st[t] = "RUNNING" => t = current_thread,
         st[idle_thread] \in {"READY", "RUNNING"},
         Sound(q, Ready(st)), IdleQueue(q),
         after = IF st[current_thread] = "ZOMBIE" THEN "exit_halt" ELSE "run",
         sched_yield(st, q, until, after),
         UNCHANGED creating
  PROVE  QInv'
<1>1. \A t \in Slots : pc[t] \notin Critical \cup {"pmm"}
  BY DEF QInv, Calm, Threads, PushLabels, Critical
<1>2. ~ sched_lock /\ ~ PmmHeld
  BY <1>1 DEF SInv, LockInv, PmmHeld
<1>3. Reschedule(st, q, until, after)
  BY <1>2, Zenon DEF sched_yield
<1>4. Types /\ ContextHasStacks
  BY DEF SInv
<1> QED BY <1>3, <1>4, RescheduleQueue

LEMMA FrameQueue ==
  ASSUME QInv, UNCHANGED <<state, used, priority, ready, current_thread, pc, creating, panic>>
  PROVE  QInv'
<1>1. Calm' /\ Places'
  BY DEF QInv, Calm, Places, Slots, Threads, idle_thread
<1>2. Runnable' = Runnable
  BY DEF Runnable, Slots, idle_thread
<1>3. QueueInv'
  BY <1>2 DEF QInv, QueueInv, Slots, idle_thread
<1> QED BY <1>1, <1>3 DEF QInv

(* Nobody to wake: the scan of the table pushes nothing.                   *)
LEMMA PushNone == ASSUME NEW q, NEW prio PROVE PushInOrder(q, prio, {}) = q
<1> DEFINE P == {k \in 0 .. THREAD_MAX : Pushed(q, prio, {}, k) = q}
<1>1. THREAD_MAX \in Nat
  BY SchedAssumption
<1>2. 0 \in P
  BY <1>1, PushedEnds
<1>3. ASSUME NEW k \in 0 .. THREAD_MAX - 1, k \in P PROVE k + 1 \in P
  <2>1. k \in Slots /\ k + 1 \in 0 .. THREAD_MAX
    BY <1>1 DEF Slots
  <2>2. Pushed(q, prio, {}, k + 1) = Push(Pushed(q, prio, {}, k), prio, {}, k)
    BY <2>1, PushedStep
  <2>3. Pushed(q, prio, {}, k) = q
    BY <1>3
  <2> QED BY <2>1, <2>2, <2>3 DEF Push
<1> HIDE DEF P
<1>4. THREAD_MAX \in P
  BY <1>1, <1>2, <1>3, InductionUpTo
<1> QED BY <1>4, PushedEnds DEF P

(* Outside a creation the queue is that of the threads ready to run.       *)
LEMMA AtRest ==
  ASSUME CInv, SInv, QInv, creating = NIL
  PROVE  /\ pc[idle_thread] = "run" /\ Runnable = Ready(state) /\ Sound(ready, Ready(state))
         /\ IdleQueue(ready) /\ ready \in Queues
         /\ \A t \in Slots : /\ state[t] # "BLOCKED"
                             /\ state[t] = "RUNNING" => t = current_thread
<1>1. pc[idle_thread] = "run"
  BY DEF CInv, CreatingInv, QInv, Calm
<1>2. Runnable = Ready(state)
  BY NilIsNoSlot DEF Runnable, Ready, Threads
<1>3. ready \in Queues /\ IdleQueue(ready) /\ Sound(ready, Ready(state))
  BY <1>1, <1>2 DEF CInv, MoreTypes, QInv, QueueInv
<1> QED BY <1>1, <1>2, <1>3 DEF QInv, Calm, SInv, RunningIsCurrent

(* A thread that gives the processor up, to yield or to die.               *)
LEMMA VoluntaryYieldQueue ==
  ASSUME CInv, SInv, QInv, ~ StackAllocFails, NEW t \in Slots, Yield(t) \/ ExitYield(t)
  PROVE  QInv'
<1>1. /\ current_thread = t /\ pc[t] \in {"run", "exit_yield"} /\ creating' = creating
      /\ sched_yield(state, ready, sleep_until, IF pc[t] = "run" THEN "run" ELSE "exit_halt")
  BY DEF Yield, ExitYield, At
<1>2. creating = NIL
  BY <1>1 DEF CInv, CreatingInv, PushLabels
<1>3. state[t] = "ZOMBIE" <=> pc[t] = "exit_yield"
  <2>1. CASE t = idle_thread
    BY <2>1, <1>1 DEF QInv, Calm, Places, PushLabels
  <2>2. CASE t # idle_thread
    BY <2>2, <1>1 DEF QInv, Places, Threads
  <2> QED BY <2>1, <2>2
<1> DEFINE after == IF pc[t] = "run" THEN "run" ELSE "exit_halt"
<1>4. after = IF state[current_thread] = "ZOMBIE" THEN "exit_halt" ELSE "run"
  BY <1>1, <1>3
<1>5. state \in [Slots -> States] /\ state[idle_thread] \in {"READY", "RUNNING"}
  BY DEF SInv, Types, QInv, Places
<1>6. sched_yield(state, ready, sleep_until, after)
  BY <1>1
<1> HIDE DEF after
<1> QED BY <1>1, <1>2, <1>4, <1>5, <1>6, AtRest, YieldQueue

(* The timer interrupt puts the thread it interrupts on its queue.         *)
LEMMA TickQueue ==
  ASSUME CInv, SInv, QInv, ~ StackAllocFails, Tick
  PROVE  QInv'
<1> DEFINE cur == current_thread
           st1 == [t \in Slots |-> IF t \in Woken THEN "READY" ELSE state[t]]
           st2 == [st1 EXCEPT ![cur] = "READY"]
           q1  == PushInOrder(ready, priority, Woken)
           q2  == ready_queue_push(q1, cur, priority[cur])
<1>1. Woken = {}
  BY DEF Woken, QInv, Calm
<1>2. st1 = state /\ q1 = ready
  <2>1. state \in [Slots -> States]
    BY DEF SInv, Types
  <2>2. st1 = state
    BY <1>1, <2>1
  <2> QED BY <2>2, <1>1, PushNone
<1>3. ~ sched_lock /\ creating' = creating /\ cur \in Slots
  <2>1. pc[cur] \notin Critical /\ cur \in Slots
    BY DEF CInv, MoreTypes, QInv, Calm, Threads, PushLabels, Critical
  <2> QED BY <2>1 DEF SInv, LockInv, Tick
<1>4. \/ /\ Preempts(st1) /\ PushFaults(ready, priority[cur])
      \/ /\ Preempts(st1)
         /\ sched_yield(st2, q2, Elapse(sleep_until), pc[cur])
      \/ /\ ~ Preempts(st1) /\ state' = st1 /\ ready' = q1
         /\ UNCHANGED <<used, priority, current_thread, pc, panic>>
  <2>1. TickUnlocked
    BY <1>3 DEF Tick, TickWhileLocked
  <2>2. CASE \E t \in (IF Preempts(st1) THEN Woken \cup {cur} ELSE Woken) :
               PushFaults(ready, priority[t])
    BY <2>2, <1>1
  <2>3. CASE ~ \E t \in (IF Preempts(st1) THEN Woken \cup {cur} ELSE Woken) :
                 PushFaults(ready, priority[t])
    BY <2>1, <2>3, Zenon DEF TickUnlocked
  <2> QED BY <2>2, <2>3
<1>5. CASE /\ state' = st1 /\ ready' = q1
           /\ UNCHANGED <<used, priority, current_thread, pc, panic>>
  BY <1>2, <1>3, <1>5, FrameQueue
<1>6. CASE Preempts(st1)
  <2>1. cur \in Threads /\ state[cur] = "RUNNING"
    BY <1>2, <1>3, <1>6 DEF Preempts, Threads
  <2>2. creating = NIL
    BY <2>1 DEF CInv, CreatingInv, Threads
  <2>3. used[cur] /\ pc[cur] = "run" /\ priority[cur] = SCHED_PRIO_NORMAL
    <3>1. pc[cur] # "none"
      BY DEF CInv, ContextInv, QInv, Calm
    <3>2. used[cur]
      BY <2>1, <3>1 DEF SInv, ContextHasStacks, Threads
    <3> QED BY <2>1, <3>1, <3>2 DEF QInv, Calm, Places
  <2>4. cur \notin Ready(state)
    BY <2>1 DEF Ready
  <2> DEFINE q3 == ready_queue_push(ready, cur, SCHED_PRIO_NORMAL)
             st3 == [state EXCEPT ![cur] = "READY"]
  <2>5. /\ Sound(q3, Ready(state) \cup {cur}) /\ IdleQueue(q3)
        /\ ~ PushFaults(ready, SCHED_PRIO_NORMAL)
    BY <2>1, <2>2, <2>4, AtRest, PushNormal DEF Ready
  <2>6. q3 \in Queues
    BY <1>3, <2>2, AtRest, PushTyped
  <2>7. sched_yield(st3, q3, Elapse(sleep_until), pc[cur])
    <3>1. st2 = st3 /\ q2 = q3
      BY <1>2, <2>3
    <3>2. sched_yield(st2, q2, Elapse(sleep_until), pc[cur])
      BY <1>2, <1>4, <1>6, <2>3, <2>5
    <3> QED BY <3>1, <3>2
  <2>8. \A t \in Slots : st3[t] = IF t = cur THEN "READY" ELSE state[t]
    BY DEF SInv, Types
  <2>9. st3 \in [Slots -> States] /\ cur # idle_thread
    BY <2>1 DEF SInv, Types, States, Threads
  <2> HIDE DEF st3, q3
  <2>10. Ready(st3) = Ready(state) \cup {cur}
    <3>1. \A t \in Threads : t \in Slots
      BY NilIsNoSlot
    <3> QED BY <3>1, <2>1, <2>3, <2>8 DEF Ready
  <2>11. /\ st3[idle_thread] \in {"READY", "RUNNING"}
         /\ pc[cur] = IF st3[cur] = "ZOMBIE" THEN "exit_halt" ELSE "run"
    BY <2>3, <2>8, <2>9, <1>3, NilIsNoSlot DEF QInv, Places
  <2>12. \A t \in Slots : /\ st3[t] # "BLOCKED"
                          /\ st3[t] = "ZOMBIE" <=> state[t] = "ZOMBIE"
                          /\ st3[t] = "RUNNING" => t = current_thread
    BY <2>1, <2>2, <2>8, AtRest
  <2> QED BY <1>3, <2>2, <2>5, <2>6, <2>7, <2>9, <2>10, <2>11, <2>12, YieldQueue
<1> QED BY <1>4, <1>5, <1>6

(* The first step of a creation: the slot it fills in is on no queue.      *)
LEMMA CreateBeginQueue ==
  ASSUME CInv, SInv, QInv, ~ StackAllocFails, CreateBegin
  PROVE  QInv'
<1> DEFINE dead  == Reapable(state)
           used1 == Clear(used, dead, FALSE)
           pc1   == Clear(pc, dead, "none")
           q1    == [ready EXCEPT !.next = Clear(@, dead, NIL)]
           prio1 == Clear(priority, dead, 0)
<1>1. /\ current_thread = idle_thread /\ pc[idle_thread] = "run"
      /\ UNCHANGED <<current_thread, panic>>
      /\ state' = Clear(state, dead, "READY")
  BY DEF CreateBegin, At
<1>2. \/ /\ used' = used1 /\ priority' = prio1 /\ ready' = q1 /\ pc' = pc1
         /\ UNCHANGED creating
      \/ \E n \in Slots \ {idle_thread} :
           /\ state'[n] = "READY" /\ ~ used1[n]
           /\ used' = [used1 EXCEPT ![n] = TRUE]
           /\ priority' = [prio1 EXCEPT ![n] = SCHED_PRIO_NORMAL]
           /\ ready' = [q1 EXCEPT !.next[n] = NIL]
           /\ pc' = [pc1 EXCEPT ![n] = "run", ![idle_thread] = "push"]
           /\ creating' = n
  <2>1. \A fails \in {FALSE, StackAllocFails} : ~ fails
    OBVIOUS
  <2> QED BY <2>1, Zenon DEF CreateBegin
<1>3. dead \subseteq Threads /\ \A t \in dead : state[t] = "ZOMBIE"
  BY DEF Reapable, Threads
<1>4. /\ creating = NIL /\ idle_thread \in Slots /\ idle_thread \notin dead
      /\ \A t \in Threads : t \in Slots /\ t # idle_thread
  BY <1>1, <1>3, NilIsNoSlot DEF CInv, CreatingInv, PushLabels, Threads
<1>5. /\ Sound(ready, Ready(state)) /\ IdleQueue(ready) /\ ready \in Queues
      /\ \A t \in Slots : state[t] # "BLOCKED"
  BY <1>4, AtRest
<1>6. /\ \A t \in Slots : pc1[t] = IF t \in dead THEN "none" ELSE pc[t]
      /\ \A t \in Slots : used1[t] <=> used[t] /\ t \notin dead
      /\ \A t \in Slots : prio1[t] = IF t \in dead THEN 0 ELSE priority[t]
      /\ \A t \in Slots : state'[t] = IF t \in dead THEN "READY" ELSE state[t]
      /\ \A t \in Slots : q1.next[t] = IF t \in dead THEN NIL ELSE ready.next[t]
      /\ q1.head = ready.head /\ q1.tail = ready.tail
  BY <1>1, <1>5 DEF Clear, Queues
<1>7. /\ pc1 \in [Slots -> Labels] /\ used1 \in [Slots -> BOOLEAN]
      /\ prio1 \in [Slots -> Priorities] /\ q1 \in Queues
  BY <1>5 DEF SInv, Types, CInv, MoreTypes, Clear, Labels, Priorities, SCHED_PRIO_IDLE, Queues
<1>8. ASSUME NEW t \in Threads
      PROVE  /\ state[t] = "ZOMBIE" <=> pc[t] \in {"exit_yield", "exit_halt"}
             /\ pc[t] \in {"none", "run", "exit_yield", "exit_halt"}
             /\ used[t] => priority[t] = SCHED_PRIO_NORMAL
             /\ used[t] <=> pc[t] # "none"
  BY DEF QInv, Calm, Places, CInv, ContextInv, SInv, ContextHasStacks, Threads
<1> HIDE DEF dead, used1, pc1, q1, prio1
<1>9. CASE used' = used1 /\ priority' = prio1 /\ ready' = q1 /\ pc' = pc1 /\ UNCHANGED creating
  <2>1. Runnable' = Ready(state)
    <3>1. ASSUME NEW t \in Threads
          PROVE  used'[t] /\ state'[t] = "READY" <=> used[t] /\ state[t] = "READY"
      BY <1>3, <1>4, <1>6, <1>9
    <3>2. Runnable' = {t \in Threads : used'[t] /\ state'[t] = "READY"}
      BY <1>4, <1>9, NilIsNoSlot DEF Runnable, Threads, Slots, idle_thread
    <3> QED BY <3>1, <3>2 DEF Ready
  <2>2. \A t \in Ready(state) : ready'.next[t] = ready.next[t]
    BY <1>3, <1>4, <1>6, <1>9 DEF Ready
  <2>3. Sound(ready', Ready(state))
    BY <2>2, <1>5, <1>6, <1>9, SoundFrame
  <2>4. IdleQueue(ready')
    BY <1>4, <1>5, <1>6, <1>9 DEF IdleQueue
  <2>5. Calm'
    BY <1>1, <1>4, <1>5, <1>6, <1>9 DEF QInv, Calm, Slots, Threads, idle_thread
  <2>6. Places'
    <3>1. ASSUME NEW t \in Threads
          PROVE  /\ state'[t] = "ZOMBIE" <=> pc'[t] \in {"exit_yield", "exit_halt"}
                 /\ t # current_thread'
                 /\ used'[t] => priority'[t] = SCHED_PRIO_NORMAL
      BY <1>1, <1>4, <1>6, <1>8, <1>9
    <3>2. priority'[idle_thread] = SCHED_PRIO_IDLE /\ state'[idle_thread] \in {"READY", "RUNNING"}
      BY <1>4, <1>6, <1>9 DEF QInv, Places
    <3> QED BY <3>1, <3>2, <1>1 DEF Places, Slots, Threads, idle_thread
  <2>7. pc'[idle_thread] = "run"
    BY <1>1, <1>4, <1>6, <1>9
  <2>8. QueueInv'
    BY <2>1, <2>3, <2>4, <2>7 DEF QueueInv, Slots, idle_thread
  <2> QED BY <2>5, <2>6, <2>8 DEF QInv
<1>10. ASSUME NEW n \in Slots \ {idle_thread},
              state'[n] = "READY", ~ used1[n],
              used' = [used1 EXCEPT ![n] = TRUE],
              priority' = [prio1 EXCEPT ![n] = SCHED_PRIO_NORMAL],
              ready' = [q1 EXCEPT !.next[n] = NIL],
              pc' = [pc1 EXCEPT ![n] = "run", ![idle_thread] = "push"],
              creating' = n
       PROVE  QInv'
  <2>1. /\ \A t \in Slots : used'[t] = IF t = n THEN TRUE ELSE used1[t]
        /\ \A t \in Slots : priority'[t] = IF t = n THEN SCHED_PRIO_NORMAL ELSE prio1[t]
        /\ \A t \in Slots : pc'[t] = IF t = idle_thread THEN "push"
                                     ELSE IF t = n THEN "run" ELSE pc1[t]
        /\ \A t \in Slots : ready'.next[t] = IF t = n THEN NIL ELSE q1.next[t]
        /\ ready'.head = ready.head /\ ready'.tail = ready.tail
    BY <1>6, <1>7, <1>10 DEF Queues
  <2>2. n \in Threads /\ n \notin Ready(state)
    BY <1>3, <1>6, <1>10 DEF Ready, Threads
  <2>3. Runnable' = Ready(state)
    <3>1. ASSUME NEW t \in Threads
          PROVE  t # n /\ used'[t] /\ state'[t] = "READY" <=> used[t] /\ state[t] = "READY"
      <4>1. CASE t = n
        BY <4>1, <2>2 DEF Ready
      <4>2. CASE t # n
        BY <4>2, <1>3, <1>4, <1>6, <2>1
      <4> QED BY <4>1, <4>2
    <3>2. Runnable' = {t \in Threads : t # n /\ used'[t] /\ state'[t] = "READY"}
      BY <1>10 DEF Runnable, Threads, Slots, idle_thread
    <3> QED BY <3>1, <3>2 DEF Ready
  <2>4. \A t \in Ready(state) : ready'.next[t] = ready.next[t]
    BY <1>3, <1>4, <1>6, <2>1, <2>2 DEF Ready
  <2>5. Sound(ready', Ready(state))
    BY <2>1, <2>4, <1>5, SoundFrame
  <2>6. IdleQueue(ready')
    BY <1>4, <1>5, <1>6, <1>10, <2>1 DEF IdleQueue
  <2>7. Calm'
    <3>1. ASSUME NEW t \in Threads PROVE pc'[t] \in {"none", "run", "exit_yield", "exit_halt"}
      BY <1>4, <1>6, <1>8, <2>1
    <3>2. pc'[idle_thread] = "push" /\ panic' = "none"
      BY <1>1, <1>4, <2>1 DEF QInv, Calm
    <3>3. ASSUME NEW t \in Slots PROVE state'[t] # "BLOCKED"
      BY <1>5, <1>6
    <3> QED BY <3>1, <3>2, <3>3 DEF Calm, PushLabels, Slots, Threads, idle_thread
  <2>8. Places'
    <3>1. ASSUME NEW t \in Threads
          PROVE  /\ state'[t] = "ZOMBIE" <=> pc'[t] \in {"exit_yield", "exit_halt"}
                 /\ t # current_thread'
                 /\ used'[t] => priority'[t] = SCHED_PRIO_NORMAL
      <4>1. CASE t = n
        BY <4>1, <1>1, <1>4, <1>10, <2>1
      <4>2. CASE t # n
        <5>1. t \in Slots /\ t # idle_thread /\ t # current_thread'
          BY <1>1, <1>4
        <5>2. pc'[t] = pc1[t] /\ used'[t] = used1[t] /\ priority'[t] = prio1[t]
          BY <4>2, <5>1, <2>1
        <5> QED BY <5>1, <5>2, <1>6, <1>8
      <4> QED BY <4>1, <4>2
    <3>2. priority'[idle_thread] = SCHED_PRIO_IDLE /\ state'[idle_thread] \in {"READY", "RUNNING"}
      BY <1>4, <1>6, <1>10, <2>1 DEF QInv, Places
    <3> QED BY <3>1, <3>2, <1>1 DEF Places, Slots, Threads, idle_thread
  <2>9. pc'[idle_thread] = "push"
    BY <1>4, <2>1
  <2>10. QueueInv'
    BY <2>3, <2>5, <2>6, <2>9 DEF QueueInv, Slots, idle_thread
  <2> QED BY <2>7, <2>8, <2>10 DEF QInv
<1> QED BY <1>2, <1>9, <1>10, Zenon

(* The rest of it: the push, a store at a time.                            *)
LEMMA CreateStepQueue ==
  ASSUME CInv, SInv, QInv, CreateStep
  PROVE  QInv'
<1> DEFINE N == SCHED_PRIO_NORMAL
           pushed == ready_queue_push(ready, creating, N)
<1>1. /\ current_thread = idle_thread /\ pc[idle_thread] \in PushLabels
      /\ UNCHANGED <<state, used, priority, current_thread>>
  BY DEF CreateStep, CreatePush, CreatePushHead, CreatePushLink, CreatePushTail, CreateCount,
     At, PushLabels, threadVars
<1>2. /\ creating \in Threads /\ creating \in Slots /\ state[creating] = "READY" /\ used[creating]
      /\ creating # idle_thread
  BY <1>1 DEF CInv, CreatingInv, MoreTypes, SInv, ContextHasStacks, Threads
<1>3. /\ Runnable \in SUBSET Threads /\ creating \notin Runnable
      /\ \A t \in Runnable : t \in Slots /\ t # idle_thread
  BY DEF Runnable, Threads
<1>4. /\ ready \in Queues /\ IdleQueue(ready) /\ NIL \notin Slots /\ idle_thread \in Slots
      /\ N \in Priorities /\ SCHED_PRIO_IDLE \in Priorities /\ N # SCHED_PRIO_IDLE
  BY NilIsNoSlot DEF CInv, MoreTypes, QInv, QueueInv, Priorities, SCHED_PRIO_IDLE,
     SCHED_PRIO_NORMAL
<1>5. ASSUME NEW label \in PushLabels \cup {"run"}, Goto(idle_thread, label), panic' = panic
      PROVE  Calm' /\ Places' /\ pc'[idle_thread] = label
  <2>1. \A t \in Slots : pc'[t] = IF t = idle_thread THEN label ELSE pc[t]
    BY <1>5 DEF Goto, SInv, Types
  <2>2. \A t \in Threads : t \in Slots /\ t # idle_thread
    BY NilIsNoSlot DEF Threads
  <2> QED BY <1>1, <1>4, <1>5, <2>1, <2>2 DEF QInv, Calm, Places, Slots, Threads, idle_thread
<1>6. UNCHANGED creating => Runnable' = Runnable
  BY <1>1 DEF Runnable, Slots, idle_thread
<1>7. CASE CreatePush
  <2> DEFINE label == IF ready.head[N] = NIL THEN "push_head" ELSE "push_link"
  <2>1. /\ pc[idle_thread] = "push" /\ Goto(idle_thread, label) /\ UNCHANGED <<creating, panic>>
        /\ ready' = [ready EXCEPT !.next[creating] = NIL]
    BY <1>7 DEF CreatePush, At
  <2>2. Calm' /\ Places' /\ pc'[idle_thread] = label
    BY <1>5, <2>1 DEF PushLabels
  <2>3. /\ \A t \in Slots : ready'.next[t] = IF t = creating THEN NIL ELSE ready.next[t]
        /\ ready'.head = ready.head /\ ready'.tail = ready.tail
    BY <1>4, <2>1 DEF Queues
  <2>4. Sound(ready, Runnable)
    BY <2>1 DEF QInv, QueueInv
  <2>5. \A t \in Runnable : ready'.next[t] = ready.next[t]
    BY <1>3, <2>3
  <2>6. Sound(ready', Runnable')
    <3>1. Sound(ready', Runnable)
      BY <2>3, <2>4, <2>5, SoundFrame
    <3> QED BY <3>1, <1>6, <2>1
  <2>7. IdleQueue(ready')
    BY <1>2, <1>4, <2>3 DEF IdleQueue
  <2>8. ready'.next[creating'] = NIL
    BY <1>2, <2>1, <2>3
  <2>9. QueueInv'
    BY <2>2, <2>3, <2>6, <2>7, <2>8 DEF QueueInv, Slots, idle_thread
  <2> QED BY <2>2, <2>9 DEF QInv
<1>8. CASE CreatePushHead
  <2>1. /\ pc[idle_thread] = "push_head" /\ Goto(idle_thread, "push_tail")
        /\ UNCHANGED <<creating, panic>>
        /\ ready' = [ready EXCEPT !.head[N] = creating]
    BY <1>8 DEF CreatePushHead, At
  <2>2. Calm' /\ Places' /\ pc'[idle_thread] = "push_tail"
    BY <1>5, <2>1 DEF PushLabels
  <2>3. Sound(ready, Runnable) /\ ready.head[N] = NIL /\ ready.next[creating] = NIL
    BY <2>1 DEF QInv, QueueInv
  <2>4. Sound(pushed, Runnable \cup {creating})
    BY <1>2, <1>3, <1>4, <2>3, SoundPush
  <2> DEFINE r == [ready' EXCEPT !.tail[N] = creating']
  <2>5. /\ r.head[N] = pushed.head[N] /\ r.tail[N] = pushed.tail[N]
        /\ \A t \in Slots : r.next[t] = pushed.next[t]
    BY <1>2, <1>4, <2>1, <2>3 DEF ready_queue_push, Queues
  <2>6. \A t \in Runnable \cup {creating} : r.next[t] = pushed.next[t]
    BY <1>2, <1>3, <2>5
  <2> HIDE DEF r, pushed
  <2>7. Sound(r, Runnable \cup {creating})
    BY <2>4, <2>5, <2>6, SoundFrame
  <2>8. IdleQueue(ready')
    BY <1>4, <2>1 DEF IdleQueue, Queues
  <2>9. QueueInv'
    BY <1>6, <2>1, <2>2, <2>7, <2>8 DEF QueueInv, Slots, idle_thread, r
  <2> QED BY <2>2, <2>9 DEF QInv
<1>9. CASE CreatePushLink
  <2> DEFINE tail == ready.tail[N]
  <2>1. pc[idle_thread] = "push_link"
    BY <1>9 DEF CreatePushLink, At
  <2>2. Sound(ready, Runnable) /\ ready.head[N] # NIL /\ ready.next[creating] = NIL
    BY <2>1 DEF QInv, QueueInv
  <2>3. tail \in Runnable /\ tail # NIL
    BY <1>3, <2>2, SoundEnds
  <2>4. /\ Goto(idle_thread, "push_tail") /\ UNCHANGED <<creating, panic>>
        /\ ready' = [ready EXCEPT !.next[tail] = creating]
    BY <1>9, <2>3 DEF CreatePushLink
  <2>5. Calm' /\ Places' /\ pc'[idle_thread] = "push_tail"
    BY <1>5, <2>4 DEF PushLabels
  <2>6. Sound(pushed, Runnable \cup {creating})
    BY <1>2, <1>3, <1>4, <2>2, SoundPush
  <2> DEFINE r == [ready' EXCEPT !.tail[N] = creating']
  <2>7. /\ r.head[N] = pushed.head[N] /\ r.tail[N] = pushed.tail[N]
        /\ \A t \in Slots : r.next[t] = pushed.next[t]
    BY <1>2, <1>3, <1>4, <2>2, <2>3, <2>4 DEF ready_queue_push, Queues
  <2>8. \A t \in Runnable \cup {creating} : r.next[t] = pushed.next[t]
    BY <1>2, <1>3, <2>7
  <2>9. IdleQueue(ready')
    BY <1>3, <1>4, <2>3, <2>4 DEF IdleQueue, Queues
  <2> HIDE DEF r, pushed, tail
  <2>10. Sound(r, Runnable \cup {creating})
    BY <2>6, <2>7, <2>8, SoundFrame
  <2>11. QueueInv'
    BY <1>6, <2>4, <2>5, <2>9, <2>10 DEF QueueInv, Slots, idle_thread, r
  <2> QED BY <2>5, <2>11 DEF QInv
<1>10. CASE CreatePushTail
  <2>1. /\ pc[idle_thread] = "push_tail" /\ Goto(idle_thread, "create_count")
        /\ UNCHANGED <<creating, panic>>
        /\ ready' = [ready EXCEPT !.tail[N] = creating]
    BY <1>10 DEF CreatePushTail, At
  <2>2. Calm' /\ Places' /\ pc'[idle_thread] = "create_count"
    BY <1>5, <2>1 DEF PushLabels
  <2>3. Sound(ready', Runnable \cup {creating})
    BY <2>1 DEF QInv, QueueInv
  <2>4. IdleQueue(ready')
    BY <1>4, <2>1 DEF IdleQueue, Queues
  <2>5. QueueInv'
    BY <1>6, <2>1, <2>2, <2>3, <2>4 DEF QueueInv, Slots, idle_thread
  <2> QED BY <2>2, <2>5 DEF QInv
<1>11. CASE CreateCount
  <2>1. /\ pc[idle_thread] = "create_count" /\ Goto(idle_thread, "run") /\ creating' = NIL
        /\ UNCHANGED <<ready, panic>>
    BY <1>11 DEF CreateCount, At
  <2>2. Calm' /\ Places' /\ pc'[idle_thread] = "run"
    BY <1>5, <2>1
  <2>3. Sound(ready, Runnable \cup {creating}) /\ IdleQueue(ready)
    BY <2>1 DEF QInv, QueueInv
  <2>4. Runnable' = Runnable \cup {creating}
    BY <1>1, <1>2, <1>4, <2>1 DEF Runnable, Slots, idle_thread
  <2>5. QueueInv'
    BY <2>1, <2>2, <2>3, <2>4 DEF QueueInv, Slots, idle_thread
  <2> QED BY <2>2, <2>5 DEF QInv
<1> QED BY <1>7, <1>8, <1>9, <1>10, <1>11 DEF CreateStep

(* A thread that says it is dead, before it gives the processor up.        *)
LEMMA ExitZombieQueue ==
  ASSUME CInv, SInv, QInv, NEW t \in Slots, ExitZombie(t)
  PROVE  QInv'
<1>1. /\ current_thread = t /\ t # idle_thread /\ pc[t] = "run"
      /\ state' = [state EXCEPT ![t] = "ZOMBIE"] /\ pc' = [pc EXCEPT ![t] = "exit_yield"]
      /\ UNCHANGED <<used, priority, ready, current_thread, creating, panic>>
  BY DEF ExitZombie, At, Goto
<1>2. /\ \A u \in Slots : state'[u] = IF u = t THEN "ZOMBIE" ELSE state[u]
      /\ \A u \in Slots : pc'[u] = IF u = t THEN "exit_yield" ELSE pc[u]
      /\ idle_thread \in Slots /\ \A u \in Threads : u \in Slots /\ u # idle_thread
      /\ t \in Threads
  BY <1>1, NilIsNoSlot DEF SInv, Types, Threads
<1>3. state[t] # "READY"
  BY <1>1 DEF QInv, Places
<1>4. Calm'
  BY <1>1, <1>2 DEF QInv, Calm, Slots, Threads, idle_thread
<1>5. Places'
  <2>1. ASSUME NEW u \in Threads
        PROVE  /\ state'[u] = "ZOMBIE" <=> pc'[u] \in {"exit_yield", "exit_halt"}
               /\ pc'[u] = "exit_halt" => u # current_thread'
               /\ used'[u] => priority'[u] = SCHED_PRIO_NORMAL
    BY <1>1, <1>2 DEF QInv, Places
  <2>2. /\ priority'[idle_thread] = SCHED_PRIO_IDLE
        /\ state'[idle_thread] \in {"READY", "RUNNING"}
        /\ current_thread' # idle_thread => state'[current_thread'] \in {"RUNNING", "ZOMBIE"}
    BY <1>1, <1>2 DEF QInv, Places
  <2> QED BY <2>1, <2>2 DEF Places, Slots, Threads, idle_thread
<1>6. Runnable' = Runnable
  BY <1>1, <1>2, <1>3 DEF Runnable, Slots, idle_thread
<1>7. pc'[idle_thread] = pc[idle_thread]
  BY <1>1, <1>2
<1>8. QueueInv'
  BY <1>1, <1>6, <1>7 DEF QInv, QueueInv, Slots, idle_thread
<1> QED BY <1>4, <1>5, <1>8 DEF QInv

(* The boot thread's first threads, on their queue in the order of their   *)
(* creation.                                                               *)
LEMMA InitQInv == Init => QInv
<1> SUFFICES ASSUME Init PROVE QInv
  OBVIOUS
<1> DEFINE created == 1 .. InitialThreads
           empty == [head |-> [p \in Priorities |-> NIL],
                     tail |-> [p \in Priorities |-> NIL],
                     next |-> [t \in Slots |-> NIL]]
           Before(k) == {t \in created : t < k}
           q(k) == Pushed(empty, priority, created, k)
           P == {k \in 0 .. THREAD_MAX :
                   q(k) \in Queues /\ Sound(q(k), Before(k)) /\ IdleQueue(q(k))}
<1>1. /\ InitialThreads \in Nat /\ InitialThreads <= THREAD_MAX - 1 /\ THREAD_MAX \in Nat
      /\ created \subseteq Threads /\ idle_thread \in Slots /\ NIL \notin Slots
      /\ created \subseteq Slots
  BY SchedAssumption DEF Slots, idle_thread, Threads
<1>2. /\ creating = NIL /\ current_thread = idle_thread /\ panic = "none"
      /\ \A t \in Slots : /\ state[t] = "READY"
                          /\ used[t] <=> t \in created
                          /\ pc[t] = IF t \in created \cup {idle_thread} THEN "run" ELSE "none"
                          /\ priority[t] = IF t \in created THEN SCHED_PRIO_NORMAL ELSE 0
      /\ ready = PushInOrder(empty, priority, created)
  BY Zenon DEF Init
<1>3. 0 \in P
  <2>1. empty \in Queues
    BY DEF Queues
  <2>2. Before(0) = {}
    BY <1>1
  <2>3. Sound(empty, {})
    <3> DEFINE s == [i \in 1 .. 0 |-> 0]
    <3>1. s \in [1 .. 0 -> {}] /\ 0 \in Nat
      OBVIOUS
    <3>2. Enumerates(s, 0, {})
      BY <3>1 DEF Enumerates
    <3>3. Line(empty, 0, s)
      BY DEF Line, Priorities
    <3> QED BY <3>1, <3>2, <3>3 DEF Sound
  <2>4. IdleQueue(empty)
    BY <1>1 DEF IdleQueue, Priorities
  <2> HIDE DEF empty
  <2>5. q(0) = empty
    BY PushedEnds
  <2> QED BY <2>1, <2>2, <2>3, <2>4, <2>5, <1>1
<1>4. ASSUME NEW k \in 0 .. THREAD_MAX - 1, k \in P PROVE k + 1 \in P
  <2>1. k \in Slots /\ k + 1 \in 0 .. THREAD_MAX
    BY <1>1 DEF Slots
  <2> HIDE DEF empty
  <2>2. q(k + 1) = Push(q(k), priority, created, k)
    BY <2>1, PushedStep
  <2>3. q(k) \in Queues /\ Sound(q(k), Before(k)) /\ IdleQueue(q(k))
    BY <1>4
  <2> HIDE DEF q
  <2>4. CASE k \in created
    <3>1. q(k + 1) = ready_queue_push(q(k), k, SCHED_PRIO_NORMAL)
      BY <2>1, <2>2, <2>4, <1>2 DEF Push
    <3>2. Before(k) \in SUBSET Threads /\ k \in Threads /\ k \notin Before(k)
      BY <2>4, <1>1
    <3>3. Before(k + 1) = Before(k) \cup {k}
      BY <2>4, <1>1
    <3> HIDE DEF Before, created
    <3>4. Sound(q(k + 1), Before(k + 1)) /\ IdleQueue(q(k + 1))
      BY <2>3, <3>1, <3>2, <3>3, PushNormal
    <3>5. q(k + 1) \in Queues
      BY <2>1, <2>3, <3>1, PushTyped
    <3> QED BY <2>1, <3>4, <3>5
  <2>5. CASE k \notin created
    <3>1. q(k + 1) = q(k)
      BY <2>2, <2>5 DEF Push
    <3>2. Before(k + 1) = Before(k)
      BY <2>5, <1>1
    <3> HIDE DEF Before
    <3> QED BY <2>1, <2>3, <3>1, <3>2
  <2> QED BY <2>4, <2>5
<1> HIDE DEF P, empty
<1>5. THREAD_MAX \in P
  BY <1>1, <1>3, <1>4, InductionUpTo
<1>6. ready = q(THREAD_MAX)
  BY <1>2, PushedEnds
<1>7. Before(THREAD_MAX) = created
  BY <1>1
<1> HIDE DEF q, Before
<1>8. Sound(ready, created) /\ IdleQueue(ready)
  BY <1>5, <1>6, <1>7 DEF P
<1>9. Runnable = created
  BY <1>1, <1>2 DEF Runnable, Threads
<1> HIDE DEF created
<1>10. Calm
  BY <1>1, <1>2 DEF Calm, PushLabels, Threads
<1>11. Places
  <2>1. \A t \in Threads : t \in Slots
    BY NilIsNoSlot
  <2>2. idle_thread \notin created
    BY <1>1 DEF Threads
  <2> QED BY <1>1, <1>2, <2>1, <2>2 DEF Places, Threads, SCHED_PRIO_IDLE
<1>12. QueueInv
  BY <1>1, <1>2, <1>8, <1>9 DEF QueueInv
<1> QED BY <1>10, <1>11, <1>12 DEF QInv

LEMMA NextQInv ==
  ASSUME Computing, CInv, SInv, QInv, [Next]_vars
  PROVE  QInv'
<1>1. ~ StackAllocFails /\ "sleep" \notin Ops /\ "alloc" \notin Ops
  BY DEF Computing
<1>2. CASE Tick
  BY <1>1, <1>2, TickQueue
<1>3. CASE CreateBegin
  BY <1>1, <1>3, CreateBeginQueue
<1>4. CASE CreateStep
  BY <1>4, CreateStepQueue
<1>5. ASSUME NEW t \in Slots, Yield(t) \/ ExitYield(t) PROVE QInv'
  BY <1>1, <1>5, VoluntaryYieldQueue
<1>6. ASSUME NEW t \in Slots, ExitZombie(t) PROVE QInv'
  BY <1>6, ExitZombieQueue
<1>7. ASSUME NEW t \in Slots, EnterSyscall(t) \/ LeaveSyscall(t) PROVE QInv'
  BY <1>7, FrameQueue DEF EnterSyscall, LeaveSyscall, threadVars, localVars
<1>8. ASSUME NEW t \in Slots,
             \/ SleepBegin(t) \/ SleepStep(t) \/ PmmLock(t) \/ PmmUnlock(t) \/ ExitHalt(t)
      PROVE  FALSE
  <2>1. pc[t] \in PushLabels \cup {"none", "run", "exit_yield", "exit_halt"}
        /\ (pc[t] = "exit_halt" => t # current_thread)
    BY DEF QInv, Calm, Places, Threads, PushLabels
  <2> QED BY <1>1, <1>8, <2>1 DEF SleepBegin, SleepStep, SleepLock, SleepBlock, SleepUntil,
       SleepUnlock, SleepCheck, SleepHlt, PmmLock, PmmUnlock, ExitHalt, At, PushLabels
<1>9. CASE UNCHANGED vars
  BY <1>9, FrameQueue DEF vars
<1> QED BY <1>2, <1>3, <1>4, <1>5, <1>6, <1>7, <1>8, <1>9 DEF Next

(* The walk of Chain down a sound queue.                                   *)
LEMMA ChainIs ==
  ASSUME NEW n \in Nat, NEW M \in SUBSET Threads, NEW s \in [1 .. n -> M], Line(ready, n, s)
  PROVE  \A i \in 0 .. THREAD_MAX :
           Chain(SCHED_PRIO_NORMAL)[i] = IF i < n THEN s[i + 1] ELSE NIL
<1> DEFINE p == SCHED_PRIO_NORMAL
           Walks(f) == f = [i \in 0 .. THREAD_MAX |->
                             IF i = 0 THEN ready.head[p]
                             ELSE IF f[i - 1] = NIL THEN NIL ELSE ready.next[f[i - 1]]]
           g == [i \in 0 .. THREAD_MAX |-> IF i < n THEN s[i + 1] ELSE NIL]
           w == Chain(p)
<1>1. THREAD_MAX \in Nat /\ NIL \notin M
  BY SchedAssumption, NilIsNoSlot
<1>2. w = CHOOSE f : Walks(f)
  BY Zenon DEF Chain
<1>3. ASSUME NEW i \in 0 .. THREAD_MAX
      PROVE  g[i] = IF i = 0 THEN ready.head[p]
                    ELSE IF g[i - 1] = NIL THEN NIL ELSE ready.next[g[i - 1]]
  <2>1. CASE i = 0
    BY <1>1, <2>1 DEF Line
  <2>2. CASE i # 0
    <3>1. i - 1 \in 0 .. THREAD_MAX
      BY <1>1, <2>2
    <3>2. CASE i - 1 < n
      <4>1. i \in 1 .. n /\ s[i] \in M /\ (i - 1) + 1 = i
        BY <2>2, <3>2
      <4>2. g[i - 1] = s[i]
        BY <3>1, <3>2, <4>1
      <4>3. ready.next[s[i]] = IF i = n THEN NIL ELSE s[i + 1]
        BY <4>1 DEF Line
      <4> QED BY <2>2, <4>1, <4>2, <4>3, <1>1
    <3>3. CASE ~ (i - 1 < n)
      BY <2>2, <3>1, <3>3
    <3> QED BY <3>2, <3>3
  <2> QED BY <2>1, <2>2
<1>4. Walks(g)
  BY <1>3
<1> HIDE DEF g
<1>5. Walks(w)
  <2> HIDE DEF Walks, w
  <2>1. \E f : Walks(f)
    BY <1>4
  <2>2. Walks(CHOOSE f : Walks(f))
    BY <2>1, Zenon
  <2> QED BY <2>2, <1>2
<1>6. \A i \in 0 .. THREAD_MAX :
        w[i] = IF i = 0 THEN ready.head[p]
               ELSE IF w[i - 1] = NIL THEN NIL ELSE ready.next[w[i - 1]]
  BY <1>5, Zenon
<1> HIDE DEF w, Walks
<1> DEFINE P == {i \in 0 .. THREAD_MAX : w[i] = g[i]}
<1>7. 0 \in P
  <2>1. 0 \in 0 .. THREAD_MAX
    BY <1>1
  <2> QED BY <2>1, <1>3, <1>6
<1>8. ASSUME NEW k \in 0 .. THREAD_MAX - 1, k \in P PROVE k + 1 \in P
  <2>1. k + 1 \in 0 .. THREAD_MAX /\ k + 1 # 0 /\ (k + 1) - 1 = k
    BY <1>1
  <2>2. w[k] = g[k]
    BY <1>8
  <2>3. w[k + 1] = IF w[k] = NIL THEN NIL ELSE ready.next[w[k]]
    BY <2>1, <1>6
  <2>4. g[k + 1] = IF g[k] = NIL THEN NIL ELSE ready.next[g[k]]
    BY <2>1, <1>3
  <2> QED BY <2>1, <2>2, <2>3, <2>4
<1> HIDE DEF P
<1>9. \A i \in 0 .. THREAD_MAX : i \in P
  BY <1>1, <1>7, <1>8, InductionUpTo
<1> QED BY <1>9 DEF P, g, w

LEMMA SoundIsSound ==
  ASSUME CInv, SInv, QInv
  PROVE  QueueIsSound
<1> SUFFICES ASSUME creating = NIL
             PROVE  LET p == SCHED_PRIO_NORMAL
                        n == Cardinality(Runnable)
                    IN  /\ OnQueue(p) = Runnable
                        /\ Chain(p)[n] = NIL
                        /\ ready.tail[p] = IF n = 0 THEN NIL ELSE Chain(p)[n - 1]
  BY DEF QueueIsSound
<1> DEFINE p == SCHED_PRIO_NORMAL
<1>1. Sound(ready, Runnable) /\ Runnable \in SUBSET Threads
  BY AtRest DEF Ready
<1>2. PICK n \in Nat : \E s \in [1 .. n -> Runnable] : Enumerates(s, n, Runnable) /\ Line(ready, n, s)
  BY <1>1 DEF Sound
<1>3. PICK s \in [1 .. n -> Runnable] : Enumerates(s, n, Runnable) /\ Line(ready, n, s)
  BY <1>2
<1>4. Cardinality(Runnable) = n
  <2>1. s \in Bijection(1 .. n, Runnable)
    BY <1>3 DEF Enumerates, Bijection, Injection, Surjection, IsInjective
  <2>2. ExistsBijection(1 .. n, Runnable)
    BY <2>1 DEF ExistsBijection
  <2> QED BY <2>2, FS_CountingElements
<1>5. n <= THREAD_MAX - 1 /\ THREAD_MAX \in Nat
  <2>1. Runnable \in SUBSET (Slots \ {idle_thread})
    BY <1>1 DEF Threads
  <2> QED BY <2>1, <1>4, CountedFinite, SchedAssumption
<1>6. \A i \in 0 .. THREAD_MAX : Chain(p)[i] = IF i < n THEN s[i + 1] ELSE NIL
  BY <1>1, <1>3, ChainIs
<1>7. NIL \notin Runnable
  BY <1>1, NilIsNoSlot
<1>8. OnQueue(p) = Runnable
  <2>1. ASSUME NEW t \in OnQueue(p) PROVE t \in Runnable
    <3>1. PICK i \in 0 .. THREAD_MAX : t = Chain(p)[i] /\ t # NIL
      BY DEF OnQueue
    <3>2. i < n /\ t = s[i + 1]
      BY <3>1, <1>6
    <3>3. i + 1 \in 1 .. n
      BY <3>2
    <3> QED BY <3>2, <3>3
  <2>2. ASSUME NEW t \in Runnable PROVE t \in OnQueue(p)
    <3>1. PICK j \in 1 .. n : s[j] = t
      BY <1>3 DEF Enumerates
    <3>2. j - 1 \in 0 .. THREAD_MAX /\ j - 1 < n /\ (j - 1) + 1 = j
      BY <1>5
    <3>3. Chain(p)[j - 1] = t
      BY <3>1, <3>2, <1>6
    <3>4. t # NIL
      BY <1>7
    <3> QED BY <3>2, <3>3, <3>4 DEF OnQueue
  <2> QED BY <2>1, <2>2
<1>9. Chain(p)[n] = NIL
  <2>1. n \in 0 .. THREAD_MAX /\ ~ (n < n)
    BY <1>5
  <2> QED BY <2>1, <1>6
<1>10. ready.tail[p] = IF n = 0 THEN NIL ELSE Chain(p)[n - 1]
  <2>1. n # 0 => n - 1 \in 0 .. THREAD_MAX /\ n - 1 < n /\ (n - 1) + 1 = n
    BY <1>5
  <2>2. n # 0 => Chain(p)[n - 1] = s[n]
    BY <2>1, <1>6
  <2> QED BY <2>2, <1>3 DEF Line
<1> QED BY <1>4, <1>8, <1>9, <1>10

(* The invariant of the queues, for workloads that do not sleep.           *)
THEOREM QueueInductive ==
  ASSUME Computing
  PROVE  Spec => []QInv
<1>1. Init => QInv
  BY InitQInv
<1>2. QInv /\ CInv /\ SInv /\ [Next]_vars => QInv'
  BY NextQInv
<1> QED BY <1>1, <1>2, Inductive, CountInductive, PTL DEF Spec

(* Between two creations the run queue holds the ready threads, each once, *)
(* and its tail is its last: yields, ticks, exits, reaping, the reuse of   *)
(* slots and the push without the lock leave no stale and no lost entry.   *)
THEOREM QueuesAreSound ==
  ASSUME Computing
  PROVE  Spec => []QueueIsSound
<1>1. CInv /\ SInv /\ QInv => QueueIsSound
  BY SoundIsSound
<1> QED BY <1>1, Inductive, CountInductive, QueueInductive, PTL

(* And the machine does not die: no null dereference, no switch to a slot  *)
(* without a stack, no spinning with interrupts off, no thread that comes  *)
(* back from the dead.                                                     *)
THEOREM NeverPanics ==
  ASSUME Computing
  PROVE  Spec => []NoPanic
<1>1. QInv => NoPanic
  BY DEF QInv, Calm, NoPanic
<1> QED BY <1>1, QueueInductive, PTL

=============================================================================
