------------------------------- MODULE WaitList -------------------------------
(* The threading prototype: threads of a contract wait on an address of the linear memory  *)
(* and wake each other through wait lists, which are opened and closed by reference count.  *)
(* One address is modelled: lists of different addresses share only the map.                *)
(*                                                                                         *)
(* Each action is what a thread does without another one being able to tell: the body of a  *)
(* critical section, one atomic operation, one wait on an event.  The lists' mutexes and    *)
(* the map's are held only within one action, and no thread blocks while it holds one.      *)
(*                                                                                         *)
(* The events are those of POSIX.cpp, which the library is built with: condition variables  *)
(* without a flag.  A signal that nobody sleeps on is lost, and a wait may return without   *)
(* one.                                                                                     *)
(*                                                                                         *)
(* A use of memory that was deleted leaves the process in no state the code describes:      *)
(* undefined is set and nothing is modelled after it.                                       *)
EXTENDS Integers, Sequences, FiniteSets, SequencesExt

CONSTANTS Threads, main,          \* main is not launched by launchThread
          Lists, nullptr,         \* addresses of WaitLists, each allocated once
          Values, Initial,        \* of the word in memory, and those it may start with
          Calls                   \* bound: calls of intrinsics by all threads

ASSUME ThreadsAssumption ==
    /\ main \in Threads /\ IsFiniteSet(Threads)
    /\ nullptr \notin Lists
    /\ Initial \subseteq Values
    /\ Calls \in Nat

VARIABLES value,         \* *valuePointer
          map,           \* addressToWaitListMap[address]
          lists,         \* WaitList by address: its references and the threads of wakeEvents
          threads,       \* the global list of running threads
          event,         \* threadWakeEvent
          pc, call,      \* where a thread is, and the intrinsic it is in
          calls,         \* that may still be made
          woken,         \* history: taken off the list by a waker since it enqueued
          owes,          \* history: changed the value and has not yet woken everyone
          spurious,      \* history: a wait has returned without a signal
          fatal, undefined
vars == <<value, map, lists, threads, event, pc, call, calls, woken, owes, spurious, fatal, undefined>>
threadState == <<threads, calls, value>>

All == -1                         \* UINT32_MAX
NoCall == [op |-> "none", from |-> "code", list |-> nullptr, expected |-> 0, finite |-> FALSE, n |-> 0, result |-> 0]

Init ==
    /\ value \in Initial
    /\ map = nullptr
    /\ lists = [l \in Lists |-> [state |-> "unused", numReferences |-> 0, wakeEvents |-> <<>>]]
    /\ threads = {}
    /\ event = [t \in Threads |-> "none"]
    /\ pc = [t \in Threads |-> IF t = main THEN "code" ELSE "absent"]
    /\ call = [t \in Threads |-> NoCall]
    /\ calls = Calls
    /\ woken = [t \in Threads |-> FALSE]
    /\ owes = [t \in Threads |-> FALSE]
    /\ spurious = FALSE
    /\ fatal = FALSE
    /\ undefined = FALSE

Running == ~fatal /\ ~undefined
At(t, where) == Running /\ pc[t] = where
Goto(t, where) == pc' = [pc EXCEPT ![t] = where]
InCode(t) == Running /\ pc[t] \in {"code", "error"}
list(t) == lists[call[t].list]
Deleted(t) == list(t).state = "deleted"

(* Addresses that new may return.                                                          *)
Unused == {l \in Lists : lists[l].state = "unused"}

(* Where a thread goes when an intrinsic returns: the function that called it.            *)
Resume(t) ==
    /\ Goto(t, call[t].from)
    /\ call' = [call EXCEPT ![t] = NoCall]
    /\ woken' = [woken EXCEPT ![t] = FALSE]

-----------------------------------------------------------------------------
(* Wait lists                                                                            *)

(* Fault: a list that is there is not counted.                                            *)
openWaitListFault(t, c) ==
    IF map # nullptr
    THEN /\ call' = [call EXCEPT ![t] = [c EXCEPT !.list = map]]
         /\ UNCHANGED <<map, lists>>
    ELSE LET l == CHOOSE x \in Unused : TRUE
         IN  /\ Unused # {}
             /\ lists' = [lists EXCEPT ![l] = [state |-> "live", numReferences |-> 1, wakeEvents |-> <<>>]]
             /\ map' = l
             /\ call' = [call EXCEPT ![t] = [c EXCEPT !.list = l]]

openWaitList(t, c) ==
    IF map # nullptr
    THEN /\ lists' = [lists EXCEPT ![map].numReferences = @ + 1]
         /\ call' = [call EXCEPT ![t] = [c EXCEPT !.list = map]]
         /\ UNCHANGED map
    ELSE LET l == CHOOSE x \in Unused : TRUE
         IN  /\ Unused # {}
             /\ lists' = [lists EXCEPT ![l] = [state |-> "live", numReferences |-> 1, wakeEvents |-> <<>>]]
             /\ map' = l
             /\ call' = [call EXCEPT ![t] = [c EXCEPT !.list = l]]

(* closeWaitList: the reference is given back before the map is locked.                    *)
closeWaitList(t) ==
    /\ At(t, "close")
    /\ lists' = [lists EXCEPT ![call[t].list].numReferences = @ - 1]
    /\ IF list(t).numReferences = 1 THEN Goto(t, "last") /\ UNCHANGED <<call, woken>> ELSE Resume(t)
    /\ UNCHANGED <<threadState, map, event, owes, spurious, fatal, undefined>>

(* With the map locked.  A failed WAVM_ASSERT_THROW ends the model like a failed           *)
(* errorUnless.                                                                            *)
deleteWaitList(t) ==
    /\ At(t, "last")
    /\ CASE Deleted(t) -> undefined' = TRUE /\ UNCHANGED <<map, lists, pc, call, woken, fatal>>
         [] ~Deleted(t) /\ list(t).numReferences # 0 -> Resume(t) /\ UNCHANGED <<map, lists, fatal, undefined>>
         [] ~Deleted(t) /\ list(t).numReferences = 0 ->
                /\ fatal' = (list(t).wakeEvents # <<>>)
                /\ lists' = [lists EXCEPT ![call[t].list].state = "deleted"]
                /\ map' = nullptr
                /\ Resume(t)
                /\ UNCHANGED undefined
    /\ UNCHANGED <<threadState, event, owes, spurious>>

-----------------------------------------------------------------------------
(* Events: a signal reaches only a thread that sleeps on the condition variable.           *)

signalEvent(woke) ==
    event' = [t \in Threads |-> IF t \in woke /\ event[t] = "unset" /\ pc[t] = "sleeping" THEN "set" ELSE event[t]]

-----------------------------------------------------------------------------
(* waitOnAddress: open the list, then look at the value with the list locked               *)

(* An address out of bounds or not aligned throws before anything is done: Throw.          *)
Begin(t) == InCode(t) /\ calls > 0 /\ calls' = calls - 1

wait(t, expected, finite) ==
    /\ Begin(t)
    /\ openWaitList(t, [NoCall EXCEPT !.op = "wait", !.from = pc[t], !.expected = expected, !.finite = finite])
    /\ Goto(t, "check")
    /\ UNCHANGED <<value, threads, event, woken, owes, spurious, fatal, undefined>>

(* Fault: the value is not looked at again once the list is locked.                        *)
checkAndEnqueueFault(t) ==
    /\ At(t, "check")
    /\ event' = [event EXCEPT ![t] = IF @ = "none" THEN "unset" ELSE @]
    /\ lists' = [lists EXCEPT ![call[t].list].wakeEvents = Append(@, t)]
    /\ Goto(t, "enqueued")
    /\ woken' = [woken EXCEPT ![t] = FALSE]
    /\ UNCHANGED <<threadState, map, call, owes, spurious, fatal, undefined>>

checkAndEnqueue(t) ==
    /\ At(t, "check")
    /\ IF value # call[t].expected
       THEN /\ call' = [call EXCEPT ![t].result = 1]
            /\ Goto(t, "close")
            /\ UNCHANGED <<event, lists>>
       ELSE /\ event' = [event EXCEPT ![t] = IF @ = "none" THEN "unset" ELSE @]
            /\ lists' = [lists EXCEPT ![call[t].list].wakeEvents = Append(@, t)]
            /\ Goto(t, "enqueued")
            /\ UNCHANGED call
    /\ woken' = [woken EXCEPT ![t] = FALSE]
    /\ UNCHANGED <<threadState, map, owes, spurious, fatal, undefined>>

(* waitForEvent                                                                            *)
sleep(t) ==
    /\ At(t, "enqueued")
    /\ Goto(t, "sleeping")
    /\ UNCHANGED <<threadState, map, lists, event, call, woken, owes, spurious, fatal, undefined>>

awake(t) ==
    /\ At(t, "sleeping")
    /\ event[t] = "set"
    /\ event' = [event EXCEPT ![t] = "unset"]
    /\ Goto(t, "close")
    /\ UNCHANGED <<threadState, map, lists, call, woken, owes, spurious, fatal, undefined>>

(* pthread_cond_wait may return although nobody signalled; nothing looks whether the event  *)
(* has left the list.                                                                      *)
spuriousAwake(t) ==
    /\ At(t, "sleeping")
    /\ event[t] = "unset"
    /\ spurious' = TRUE
    /\ Goto(t, "close")
    /\ UNCHANGED <<threadState, map, lists, event, call, woken, owes, fatal, undefined>>


timeOut(t) ==
    /\ At(t, "sleeping")
    /\ call[t].finite
    /\ event[t] = "unset"
    /\ Goto(t, "timedOut")
    /\ UNCHANGED <<threadState, map, lists, event, call, woken, owes, spurious, fatal, undefined>>

(* std::find: the first place of e in s.                                                    *)
First(s, e) == {i \in 1..Len(s) : s[i] = e /\ \A j \in 1..i - 1 : s[j] # e}

(* Fault: a wait that has timed out answers so also when a waker took it off the list.      *)
afterTimeOutAnyway(t) ==
    /\ At(t, "timedOut")
    /\ \/ \E i \in First(list(t).wakeEvents, t) : lists' = [lists EXCEPT ![call[t].list].wakeEvents = RemoveAt(@, i)]
       \/ ~Contains(list(t).wakeEvents, t) /\ UNCHANGED lists
    /\ call' = [call EXCEPT ![t].result = 2]
    /\ Goto(t, "close")
    /\ UNCHANGED <<threadState, map, event, woken, owes, spurious, fatal, undefined>>

(* Fault: the oldest entry of the list is taken off instead of the thread's own.            *)
afterTimeOutOldest(t) ==
    /\ At(t, "timedOut")
    /\ IF Contains(list(t).wakeEvents, t)
       THEN /\ lists' = [lists EXCEPT ![call[t].list].wakeEvents = Tail(@)]
            /\ call' = [call EXCEPT ![t].result = 2]
            /\ UNCHANGED <<event, fatal>>
       ELSE /\ fatal' \in BOOLEAN
            /\ event' = [event EXCEPT ![t] = "unset"]
            /\ UNCHANGED <<lists, call>>
    /\ Goto(t, "close")
    /\ UNCHANGED <<threadState, map, woken, owes, spurious, undefined>>

(* A thread that is no longer on the list was signalled after its wait ended: the signal is *)
(* gone, and the second wait, which must succeed, times out too unless it returns           *)
(* spuriously.                                                                             *)
afterTimeOut(t) ==
    /\ At(t, "timedOut")
    /\ IF Contains(list(t).wakeEvents, t)
       THEN /\ \E i \in First(list(t).wakeEvents, t) : lists' = [lists EXCEPT ![call[t].list].wakeEvents = RemoveAt(@, i)]
            /\ call' = [call EXCEPT ![t].result = 2]
            /\ UNCHANGED <<event, fatal>>
       ELSE /\ fatal' \in BOOLEAN
            /\ event' = [event EXCEPT ![t] = "unset"]
            /\ UNCHANGED <<lists, call>>
    /\ Goto(t, "close")
    /\ UNCHANGED <<threadState, map, woken, owes, spurious, undefined>>

-----------------------------------------------------------------------------
(* wakeAddress, of one thread or of all                                                    *)

wake(t, n) ==
    /\ Begin(t)
    /\ openWaitList(t, [NoCall EXCEPT !.op = "wake", !.from = pc[t], !.n = n])
    /\ Goto(t, "wake")
    /\ UNCHANGED <<value, threads, event, woken, owes, spurious, fatal, undefined>>

(* The oldest waiters and the rest of the list.                                            *)
WakeCount(t) ==
    LET waiting == Len(list(t).wakeEvents)
    IN  IF call[t].n = All \/ call[t].n > waiting THEN waiting ELSE call[t].n
Oldest(t) == {list(t).wakeEvents[i] : i \in 1..WakeCount(t)}

wakeWaiters(t) ==
    /\ At(t, "wake")
    /\ undefined' = (\E u \in Oldest(t) : event[u] = "destroyed")
    /\ signalEvent(Oldest(t))
    /\ lists' = [lists EXCEPT ![call[t].list].wakeEvents = SubSeq(@, WakeCount(t) + 1, Len(@))]
    /\ woken' = [u \in Threads |-> woken[u] \/ u \in Oldest(t)]
    /\ owes' = [owes EXCEPT ![t] = @ /\ call[t].n # All]
    /\ Goto(t, "close")
    /\ UNCHANGED <<threadState, map, call, spurious, fatal>>

-----------------------------------------------------------------------------
(* Threads                                                                               *)

(* Code of the contract changes the word.                                                  *)
atomicStore(t, v) ==
    /\ Begin(t)
    /\ v # value
    /\ value' = v
    /\ owes' = [owes EXCEPT ![t] = TRUE]
    /\ UNCHANGED <<map, lists, threads, event, pc, call, woken, spurious, fatal, undefined>>

launchThread(t, u) ==
    /\ InCode(t)
    /\ pc[u] = "absent"
    /\ threads' = threads \cup {u}
    /\ pc' = [pc EXCEPT ![u] = "code"]
    /\ UNCHANGED <<value, calls, map, lists, event, call, woken, owes, spurious, fatal, undefined>>

(* threadFunc: the entry function, then the error function if it throws.                   *)
throw(t) ==
    /\ InCode(t)
    /\ t # main
    /\ pc' = IF pc[t] = "code" THEN [pc EXCEPT ![t] = "error"] ELSE pc
    /\ fatal' = (pc[t] = "error")                                    \* "double fault"
    /\ UNCHANGED <<threadState, map, lists, event, call, woken, owes, spurious, undefined>>

finish(t) ==
    /\ InCode(t)
    /\ t # main
    /\ event' = [event EXCEPT ![t] = IF @ = "none" THEN @ ELSE "destroyed"]
    /\ Goto(t, "exit")
    /\ UNCHANGED <<threadState, map, lists, call, woken, owes, spurious, fatal, undefined>>

unregister(t) ==
    /\ At(t, "exit")
    /\ threads' = threads \ {t}
    /\ Goto(t, "gone")
    /\ UNCHANGED <<value, calls, map, lists, event, call, woken, owes, spurious, fatal, undefined>>

-----------------------------------------------------------------------------
(* What a thread that is in the runtime does next.                                         *)
Step(t) ==
    \/ checkAndEnqueue(t) \/ sleep(t) \/ awake(t) \/ timeOut(t) \/ afterTimeOut(t)
    \/ wakeWaiters(t) \/ closeWaitList(t) \/ deleteWaitList(t) \/ unregister(t)

Next ==
    \E t \in Threads :
        \/ Step(t)
        \/ spuriousAwake(t)
        \/ \E expected \in Values, finite \in BOOLEAN : wait(t, expected, finite)
        \/ \E n \in {1, All} : wake(t, n)
        \/ \E v \in Values : atomicStore(t, v)
        \/ \E u \in Threads : launchThread(t, u)
        \/ throw(t)
        \/ finish(t)

(* A runtime thread that can go on does: the system schedules every thread, and a timeout   *)
(* expires.  Nothing makes a condition variable wake a thread spuriously, or the contract's *)
(* own code call or return.                                                                *)
Spec == Init /\ [][Next]_vars /\ \A t \in Threads : WF_vars(Step(t))

-----------------------------------------------------------------------------
(* Properties                                                                            *)

(* Where a thread holds a reference, as the code counts them.                              *)
Holds(t, l) == call[t].list = l /\ pc[t] \in {"check", "enqueued", "sleeping", "timedOut", "wake", "close"}

(* A list counts exactly the threads between open and close, a list that a thread still     *)
(* works with is never deleted, and the map leads to the one list that is live: a waiter    *)
(* and its waker meet on the same list.                                                     *)
ReferencesCounted ==
    \A l \in Lists :
        /\ lists[l].state = "live" => lists[l].numReferences = Cardinality({t \in Threads : Holds(t, l)})
        /\ lists[l].state # "live" => \A t \in Threads : ~Holds(t, l)
        /\ (lists[l].state = "live") = (map = l)

(* Whoever waits and has not been taken off by a waker is on the list the map leads to,     *)
(* where the next wakeAddress looks for it: not on a list that was closed and replaced      *)
(* meanwhile, and not taken off by another thread's timeout.                                *)
WaitersListed ==
    \A t \in Threads :
        pc[t] \in {"enqueued", "sleeping", "timedOut"} /\ ~woken[t] =>
            call[t].list = map /\ Contains(list(t).wakeEvents, t)

(* As long as no wait has returned without a signal: a thread on the list is on it once and *)
(* waits there; wait answers 0 to exactly the threads that a waker took off the list, also  *)
(* when a timeout and the waker met, and 2 to those that left it by themselves; no signal   *)
(* is left over for the next wait.  No event that its thread has destroyed on its way out   *)
(* is on a list to be signalled, and closeWaitList's assertion that nobody waits on the     *)
(* list it deletes holds: fatal is only a double fault, or a timeout that met a waker whose *)
(* signal the condition variable has forgotten.                                             *)
WokenExactly ==
    ~spurious =>
        /\ fatal => \E t \in Threads :
                        pc[t] = "error" \/ (pc[t] = "close" /\ call[t].finite /\ woken[t])
        /\ \A t \in Threads :
              LET queued == {i \in 1..Len(list(t).wakeEvents) : list(t).wakeEvents[i] = t}
              IN  /\ pc[t] \in {"enqueued", "sleeping", "timedOut"} =>
                         IF woken[t] THEN queued = {} ELSE Cardinality(queued) = 1
                  /\ pc[t] = "close" /\ call[t].op = "wait" /\ ~fatal =>
                         queued = {} /\ (call[t].result = 0) = woken[t]
                  /\ pc[t] \in {"code", "error", "exit"} => event[t] # "set"
                  /\ event[t] = "destroyed" => \A l \in Lists : ~Contains(lists[l].wakeEvents, t)

(* Nobody sleeps through a change of the value: as long as a thread waits for a value that  *)
(* is no longer there, some thread that changed it has yet to wake everyone.                *)
NoMissedWake ==
    \A t \in Threads :
        pc[t] \in {"enqueued", "sleeping"} /\ ~woken[t] /\ call[t].expected # value =>
            \E u \in Threads : owes[u]


(* Threads.cpp says that closeWaitList deletes a list "if it was the last reference", that   *)
(* is, when no one has a use for it any more: a thread that goes to delete a list finds it.  *)
LastReferenceDeletes == \A t \in Threads : pc[t] = "last" => ~Deleted(t)
=============================================================================
