------------------------------- MODULE Timer -------------------------------
(***************************************************************************)
(* core::Timer: one thread sleeps until a deadline that other threads move *)
(* without blocking.  The deadline and the time at which the sleeper will  *)
(* wake up by itself are seqlocks (SeqlockImpl): a store is two steps, and *)
(* during it a try_store() or a try_load() of another thread fails and a   *)
(* wait_load() spins.                                                      *)
(***************************************************************************)
EXTENDS Integers

CONSTANTS
    Setters,    \* threads that call try_set_deadline()
    MaxSets,    \* bound: calls made by each of them, [Setters -> Nat]
    MaxTime,    \* bound: the clock and the deadlines
    Nobody      \* no thread

ASSUME TimerAssumption ==
    /\ MaxSets \in [Setters -> Nat] /\ MaxTime \in Nat
    /\ Nobody \notin Setters

VARIABLES
    deadline,   \* deadline_, and the thread that is storing it
    wakeup,     \* next_wakeup_; writing: a store is in progress
    sem,        \* the count of sem_
    posted,     \* sem_post_flag_
    setPc,      \* where each setter is in try_set_deadline()
    new,        \* the deadline it sets
    wpc,        \* where the sleeper is in wait_deadline()
    loaded,     \* the deadline it has loaded
    sets,       \* calls made by each setter
    now         \* the clock

setters == <<setPc, new, sets>>
sleeper == <<wpc, loaded>>
timerVars == <<deadline, wakeup, sem, posted, setters, sleeper, now>>

TimerInit ==
    /\ deadline = [value |-> 0, by |-> Nobody]
    /\ wakeup = [value |-> 0, writing |-> FALSE]
    /\ sem = 0
    /\ posted = FALSE
    /\ setPc = [s \in Setters |-> "idle"]
    /\ new = [s \in Setters |-> 0]
    /\ wpc = "returned" /\ loaded = 0
    /\ sets = [s \in Setters |-> 0]
    /\ now = 0

SetterGoto(s, l) == setPc' = [setPc EXCEPT ![s] = l]

-----------------------------------------------------------------------------
(* try_set_deadline(): store the deadline, or give up if another thread is storing one. *)
TrySetDeadline(s) ==
    /\ setPc[s] = "idle" /\ sets[s] < MaxSets[s]
    /\ sets' = [sets EXCEPT ![s] = @ + 1]
    /\ IF deadline.by # Nobody THEN UNCHANGED <<deadline, new, setPc>>
       ELSE /\ deadline' = [deadline EXCEPT !.by = s]
            /\ \E d \in -1..MaxTime : new' = [new EXCEPT ![s] = d]
            /\ SetterGoto(s, "storing")
    /\ UNCHANGED <<wakeup, sem, posted, sleeper, now>>

StoreDeadline(s) ==
    /\ setPc[s] = "storing"
    /\ deadline' = [value |-> new[s], by |-> Nobody]
    /\ SetterGoto(s, "compare")
    /\ UNCHANGED <<wakeup, sem, posted, new, sets, sleeper, now>>

(* Mutant: a wakeup time that is being stored counts as late enough. *)
CompareIgnoringStores(s) ==
    LET early == wakeup.value < 0 \/ (new[s] >= 0 /\ new[s] < wakeup.value)
    IN /\ setPc[s] = "compare"
       /\ SetterGoto(s, IF early /\ ~wakeup.writing THEN "flag" ELSE "idle")
       /\ UNCHANGED <<deadline, wakeup, sem, posted, new, sets, sleeper, now>>

(* Is the sleeper going to sleep for too long?  It may be, if it is deciding. *)
CompareWakeup(s) ==
    LET next == IF wakeup.writing THEN -1 ELSE wakeup.value
        early == next < 0 \/ (new[s] >= 0 /\ new[s] < next)
    IN /\ setPc[s] = "compare"
       /\ SetterGoto(s, IF early THEN "flag" ELSE "idle")
       /\ UNCHANGED <<deadline, wakeup, sem, posted, new, sets, sleeper, now>>

(* Only one setter posts the semaphore until the sleeper clears the flag. *)
RaiseFlag(s) ==
    /\ setPc[s] = "flag"
    /\ posted' = TRUE
    /\ SetterGoto(s, IF posted THEN "idle" ELSE "post")
    /\ UNCHANGED <<deadline, wakeup, sem, new, sets, sleeper, now>>

Post(s) ==
    /\ setPc[s] = "post"
    /\ sem' = sem + 1
    /\ SetterGoto(s, "idle")
    /\ UNCHANGED <<deadline, wakeup, posted, new, sets, sleeper, now>>

-----------------------------------------------------------------------------
(* wait_deadline(): next_wakeup_ becomes -1 before the deadline is loaded, the time at
   which the sleeper wakes up before it sleeps, and 0 before it returns. *)
BeginStoreWakeup ==
    /\ wpc \in {"returned", "again", "announce", "leave"}
    /\ wakeup' = [wakeup EXCEPT !.writing = TRUE]
    /\ wpc' = CASE wpc = "announce" -> "announcing"
                [] wpc = "leave" -> "leaving"
                [] OTHER -> "resetting"
    /\ UNCHANGED <<deadline, sem, posted, setters, loaded, now>>

EndStoreWakeup ==
    LET value == CASE wpc = "announcing" -> loaded [] wpc = "leaving" -> 0 [] OTHER -> -1
    IN /\ wpc \in {"announcing", "leaving", "resetting"}
       /\ wakeup' = [value |-> value, writing |-> FALSE]
       /\ wpc' = CASE wpc = "announcing" -> "sleep"
                   [] wpc = "leaving" -> "returned"
                   [] OTHER -> "load"
       /\ UNCHANGED <<deadline, sem, posted, setters, loaded, now>>

LoadDeadline ==
    LET d == deadline.value
    IN /\ wpc = "load" /\ deadline.by = Nobody
       /\ loaded' = d
       /\ wpc' = IF d \in 0..now THEN "leave" ELSE IF d > 0 THEN "announce" ELSE "sleep"
       /\ UNCHANGED <<deadline, wakeup, sem, posted, setters, now>>

(* The semaphore is posted, or its timed wait is over. *)
WakePosted ==
    /\ wpc = "sleep" /\ sem > 0
    /\ sem' = sem - 1
    /\ wpc' = "unflag"
    /\ UNCHANGED <<deadline, wakeup, posted, setters, loaded, now>>

WakeTimedOut ==
    /\ wpc = "sleep" /\ loaded > 0 /\ now >= loaded
    /\ wpc' = "unflag"
    /\ UNCHANGED <<deadline, wakeup, sem, posted, setters, loaded, now>>

ClearFlag ==
    /\ wpc = "unflag"
    /\ posted' = FALSE
    /\ wpc' = "again"
    /\ UNCHANGED <<deadline, wakeup, sem, setters, loaded, now>>

Tick ==
    /\ now < MaxTime
    /\ now' = now + 1
    /\ UNCHANGED <<deadline, wakeup, sem, posted, setters, sleeper>>

SetterStep(s) == StoreDeadline(s) \/ CompareWakeup(s) \/ RaiseFlag(s) \/ Post(s)
Sleeper ==
    BeginStoreWakeup \/ EndStoreWakeup \/ LoadDeadline \/ WakePosted \/ WakeTimedOut \/ ClearFlag

TimerNext == (\E s \in Setters : TrySetDeadline(s) \/ SetterStep(s)) \/ Sleeper \/ Tick

TimerSpec == TimerInit /\ [][TimerNext]_timerVars

(* The threads run and time passes. *)
TimerFairSpec ==
    /\ TimerSpec
    /\ \A s \in Setters : WF_timerVars(SetterStep(s))
    /\ WF_timerVars(Sleeper)
    /\ WF_timerVars(Tick)

-----------------------------------------------------------------------------
TimerQuiet == \A s \in Setters : setPc[s] = "idle"

(* Type correctness. *)
TimerTypeOK ==
    /\ deadline \in [value : -1..MaxTime, by : Setters \cup {Nobody}]
    /\ wakeup \in [value : -1..MaxTime, writing : BOOLEAN]
    /\ sem \in Nat
    /\ posted \in BOOLEAN
    /\ setPc \in [Setters -> {"idle", "storing", "compare", "flag", "post"}]
    /\ new \in [Setters -> -1..MaxTime]
    /\ wpc \in {"returned", "again", "resetting", "load", "announce", "announcing", "sleep",
                "unflag", "leave", "leaving"}
    /\ loaded \in -1..MaxTime
    /\ sets \in [Setters -> Nat]
    /\ now \in 0..MaxTime

(* The sleeper sleeps, or is about to, for longer than the stored deadline allows. *)
TimerLate ==
    /\ wpc \in {"announce", "announcing", "sleep"}
    /\ deadline.value # -1 /\ ~(loaded > 0 /\ loaded <= deadline.value)

(* Once every try_set_deadline() has returned, a sleeper that nothing will wake up, or only
   its timeout, does not sleep past the deadline. *)
TimerNeverOversleeps == TimerQuiet /\ wpc = "sleep" /\ sem = 0 => ~TimerLate

(* The inductive invariant: what next_wakeup_ holds while the sleeper decides, announces
   its decision and sleeps; *)
TimerAnnounced ==
    /\ wpc \in {"load", "announce"} => wakeup = [value |-> -1, writing |-> FALSE]
    /\ wpc = "announcing" => wakeup.writing
    /\ wpc \in {"announce", "announcing"} => loaded > 0
    /\ wpc = "sleep" => /\ loaded # 0
                        /\ wakeup = [value |-> loaded, writing |-> FALSE]

(* whoever raised the flag posts the semaphore; *)
TimerFlagged ==
    posted => sem > 0 \/ wpc = "unflag" \/ \E s \in Setters : setPc[s] = "post"

(* and a sleeper that is late will be woken up by the setter that made it late. *)
TimerWakes ==
    TimerLate => \/ sem > 0
                 \/ \E s \in Setters : setPc[s] \in {"flag", "post"}
                 \/ \E s \in Setters : setPc[s] = "compare" /\ new[s] = deadline.value

TimerInv == TimerTypeOK /\ TimerAnnounced /\ TimerFlagged /\ TimerWakes

(* wait_deadline() returns once the deadline is due. *)
TimerDueDeadlineWakes ==
    []<>(~(TimerQuiet /\ deadline.value \in 0..now) \/ wpc = "returned")
=============================================================================
