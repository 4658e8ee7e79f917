--------------------------- MODULE WaitList_proofs ---------------------------
(***************************************************************************)
(* Proofs about WaitList: for any number of threads, wait lists and calls, *)
(* references to wait lists are counted exactly, a waiter is where its     *)
(* waker looks for it and no wake is missed. The invariant IInv relates    *)
(* the threads' places in the code to the lists; it asks nothing of the    *)
(* events, which lose signals and wake spuriously.                         *)
(***************************************************************************)
EXTENDS WaitList, FiniteSetTheorems, SequenceTheorems, TLAPS

(* Where a thread holds a reference to a wait list; where its event is to  *)
(* be found on it until a waker takes it off; where it holds none.         *)
Working == {"check", "enqueued", "sleeping", "timedOut", "wake", "close"}
Waiting == {"enqueued", "sleeping", "timedOut"}
Elsewhere == {"absent", "code", "error", "last", "exit", "gone"}

(* A WaitList object, and what a call of wait or wake carries with it.     *)
(* TypeOK types the variables that the invariants read.                    *)
ListRecord == [state: {"unused", "live", "deleted"}, numReferences: Int, wakeEvents: Seq(Threads)]
CallRecord ==
    [op: {"none", "wait", "wake"}, from: {"code", "error"}, list: Lists \cup {nullptr},
     expected: Values \cup {0}, finite: BOOLEAN, n: {0, 1, All}, result: 0..2]

TypeOK ==
    /\ value \in Values
    /\ map \in Lists \cup {nullptr}
    /\ lists \in [Lists -> ListRecord]
    /\ event \in [Threads -> {"none", "unset", "set", "destroyed"}]
    /\ pc \in [Threads -> Working \cup Elsewhere]
    /\ call \in [Threads -> CallRecord]
    /\ woken \in [Threads -> BOOLEAN]
    /\ owes \in [Threads -> BOOLEAN]

(* The threads between openWaitList and closeWaitList of a list.           *)
Holders(l) == {t \in Threads : Holds(t, l)}

(* A thread works with a list that is live. Past its last decrement it may *)
(* find the list deleted, never an address that no list has had.           *)
ListsUsed ==
    \A t \in Threads :
        /\ pc[t] \in Working => call[t].list \in Lists /\ list(t).state = "live"
        /\ pc[t] = "last" => call[t].list \in Lists /\ list(t).state # "unused"

(* addressToWaitListMap has the one live list, so whoever opens the list   *)
(* of the address gets the list its waiters are on.                        *)
MapLeads == \A l \in Lists : (lists[l].state = "live") = (map = l)

(* numReferences is the number of threads that hold a reference.           *)
Counted ==
    \A l \in Lists : lists[l].state = "live" => lists[l].numReferences = Cardinality(Holders(l))

(* A waiter that no waker has taken off the list is on it.                 *)
Listed ==
    \A t \in Threads :
        pc[t] \in Waiting /\ ~woken[t] => \E i \in 1..Len(list(t).wakeEvents) : list(t).wakeEvents[i] = t

(* The inductive invariant. NoMissedWake needs Listed, because a wake of   *)
(* everyone reaches those on the list; Listed needs the lists to stay live *)
(* while they are used; and that rests on the count.                       *)
IInv == TypeOK /\ ListsUsed /\ MapLeads /\ Counted /\ Listed /\ NoMissedWake

-----------------------------------------------------------------------------
(* Sets of threads are finite, so a thread more or less changes their      *)
(* number by one.                                                          *)
LEMMA HoldersFinite ==
    ASSUME NEW H \in SUBSET Threads
    PROVE  /\ IsFiniteSet(H) /\ Cardinality(H) \in Nat
           /\ Cardinality(H) = 0 <=> H = {}
           /\ \A t \in Threads \ H : Cardinality(H \cup {t}) = Cardinality(H) + 1
           /\ \A t \in H : Cardinality(H \ {t}) = Cardinality(H) - 1
<1>1. IsFiniteSet(H)
  BY FS_Subset, ThreadsAssumption
<1>2. Cardinality(H) \in Nat /\ (Cardinality(H) = 0 <=> H = {})
  BY <1>1, FS_CardinalityType, FS_EmptySet
<1>3. \A t \in Threads \ H : Cardinality(H \cup {t}) = Cardinality(H) + 1
  BY <1>1, FS_AddElement
<1>4. \A t \in H : Cardinality(H \ {t}) = Cardinality(H) - 1
  BY <1>1, FS_RemoveElement
<1>5. QED BY <1>1, <1>2, <1>3, <1>4

(* A step that moves nobody in or out of a list's use keeps what is said   *)
(* of references.                                                          *)
LEMMA RefsKept ==
    ASSUME ListsUsed, MapLeads, Counted, map' = map,
           \A l \in Lists : /\ lists'[l].state = lists[l].state
                            /\ lists'[l].numReferences = lists[l].numReferences,
           \A u \in Threads : /\ call'[u].list = call[u].list
                              /\ pc'[u] \in Working <=> pc[u] \in Working
                              /\ pc'[u] = "last" => pc[u] = "last"
    PROVE  ListsUsed' /\ MapLeads' /\ Counted'
<1>1. ListsUsed'
  BY DEF ListsUsed, list
<1>2. MapLeads'
  BY DEF MapLeads
<1>3. \A l \in Lists : Holders(l)' = Holders(l)
  BY DEF Holders, Holds, Working
<1>4. Counted'
  BY <1>3 DEF Counted
<1>5. QED BY <1>1, <1>2, <1>4

(* A step that adds no waiter and leaves the others' wait lists and        *)
(* answers alone keeps what is said of waiters.                            *)
LEMMA WaitersKept ==
    ASSUME ListsUsed, Listed, NoMissedWake, value' = value, owes' = owes,
           \A u \in Threads :
              /\ pc'[u] \in Waiting =>
                    /\ pc[u] \in Waiting /\ woken'[u] = woken[u] /\ call'[u].list = call[u].list
                    /\ call'[u].expected = call[u].expected
                    /\ lists'[call[u].list].wakeEvents = lists[call[u].list].wakeEvents
              /\ pc'[u] \in {"enqueued", "sleeping"} => pc[u] \in {"enqueued", "sleeping"}
    PROVE  Listed' /\ NoMissedWake'
<1>1. Listed'
  BY DEF Listed, list
<1>2. NoMissedWake'
  BY DEF NoMissedWake, Waiting
<1>3. QED BY <1>1, <1>2

-----------------------------------------------------------------------------
(* No list exists and no thread uses one at the start.                     *)
LEMMA InitIInv == Init => IInv
<1> SUFFICES ASSUME Init PROVE IInv
  OBVIOUS
<1> USE DEF Init
<1>1. NoCall \in CallRecord
  BY DEF NoCall, CallRecord
<1>2. TypeOK
  <2>1. lists \in [Lists -> ListRecord]
    BY DEF ListRecord
  <2>2. pc \in [Threads -> Working \cup Elsewhere]
    BY DEF Working, Elsewhere
  <2>3. value \in Values
    BY ThreadsAssumption
  <2>4. QED BY <1>1, <2>1, <2>2, <2>3 DEF TypeOK
<1>3. \A t \in Threads : pc[t] \notin Working \cup {"last"} \cup Waiting \cup {"enqueued", "sleeping"}
  BY DEF Working, Waiting
<1>4. ListsUsed /\ Listed /\ NoMissedWake
  BY <1>3 DEF ListsUsed, Listed, NoMissedWake
<1>5. MapLeads /\ Counted
  BY ThreadsAssumption DEF MapLeads, Counted
<1>6. QED BY <1>2, <1>4, <1>5 DEF IInv

(* A step that changes no list, no call and not the value keeps IInv if it *)
(* only moves threads within or outside the use of a list.                 *)
LEMMA QuietInv ==
    ASSUME IInv, UNCHANGED <<value, map, lists, call, woken, owes>>,
           event' \in [Threads -> {"none", "unset", "set", "destroyed"}],
           pc' \in [Threads -> Working \cup Elsewhere],
           \A u \in Threads :
              /\ pc'[u] \in Working <=> pc[u] \in Working
              /\ pc'[u] = "last" => pc[u] = "last"
              /\ pc'[u] \in Waiting => pc[u] \in Waiting
              /\ pc'[u] \in {"enqueued", "sleeping"} => pc[u] \in {"enqueued", "sleeping"}
    PROVE  IInv'
<1>1. TypeOK'
  BY DEF IInv, TypeOK
<1>2. ListsUsed' /\ MapLeads' /\ Counted'
  BY RefsKept DEF IInv
<1>3. Listed' /\ NoMissedWake'
  BY WaitersKept DEF IInv
<1>4. QED BY <1>1, <1>2, <1>3 DEF IInv

(* Falling asleep, waking up, timing out, starting and leaving a thread.   *)
LEMMA QuietSteps ==
    ASSUME IInv, NEW t \in Threads,
           \/ sleep(t) \/ awake(t) \/ spuriousAwake(t) \/ timeOut(t) \/ throw(t) \/ finish(t) \/ unregister(t)
           \/ \E u \in Threads : launchThread(t, u)
    PROVE  IInv'
<1>1. TypeOK
  BY DEF IInv
<1> USE DEF Working, Waiting, Elsewhere
<1>2. UNCHANGED <<value, map, lists, call, woken, owes>>
  BY DEF sleep, awake, spuriousAwake, timeOut, throw, finish, unregister, launchThread, threadState
<1>3. event' \in [Threads -> {"none", "unset", "set", "destroyed"}]
  BY <1>1 DEF sleep, awake, spuriousAwake, timeOut, throw, finish, unregister, launchThread, TypeOK
<1> DEFINE Moves(x, w) ==
              /\ pc' = [pc EXCEPT ![x] = w]
              /\ w \in Working <=> pc[x] \in Working
              /\ w # "last"
              /\ w \in Waiting => pc[x] \in Waiting
              /\ w \in {"enqueued", "sleeping"} => pc[x] \in {"enqueued", "sleeping"}
<1>4. PICK u \in Threads, w \in Working \cup Elsewhere : Moves(u, w)
  <2>1. CASE sleep(t)
    <3>1. Moves(t, "sleeping")
      BY <2>1 DEF sleep, At, Goto
    <3>2. QED BY <3>1
  <2>2. CASE awake(t)
    <3>1. Moves(t, "close")
      BY <2>2 DEF awake, At, Goto
    <3>2. QED BY <3>1
  <2>3. CASE spuriousAwake(t)
    <3>1. Moves(t, "close")
      BY <2>3 DEF spuriousAwake, At, Goto
    <3>2. QED BY <3>1
  <2>4. CASE timeOut(t)
    <3>1. Moves(t, "timedOut")
      BY <2>4 DEF timeOut, At, Goto
    <3>2. QED BY <3>1
  <2>5. CASE throw(t)
    <3>1. pc[t] \in {"code", "error"}
      BY <2>5 DEF throw, InCode
    <3>2. pc' = [pc EXCEPT ![t] = "error"]
      <4>1. CASE pc[t] = "code"
        BY <2>5, <4>1 DEF throw
      <4>2. CASE pc[t] = "error"
        <5>1. pc' = pc
          BY <2>5, <4>2 DEF throw
        <5>2. QED BY <1>1, <4>2, <5>1 DEF TypeOK
      <4>3. QED BY <3>1, <4>1, <4>2
    <3>3. Moves(t, "error")
      BY <3>1, <3>2
    <3>4. QED BY <3>3
  <2>6. CASE finish(t)
    <3>1. Moves(t, "exit")
      BY <2>6 DEF finish, InCode, Goto
    <3>2. QED BY <3>1
  <2>7. CASE unregister(t)
    <3>1. Moves(t, "gone")
      BY <2>7 DEF unregister, At, Goto
    <3>2. QED BY <3>1
  <2>8. CASE \E x \in Threads : launchThread(t, x)
    <3>1. PICK x \in Threads : launchThread(t, x)
      BY <2>8
    <3>2. Moves(x, "code")
      BY <3>1 DEF launchThread
    <3>3. QED BY <3>2
  <2>9. QED BY <2>1, <2>2, <2>3, <2>4, <2>5, <2>6, <2>7, <2>8
<1>5. pc' \in [Threads -> Working \cup Elsewhere]
  BY <1>1, <1>4 DEF TypeOK
<1>6. \A x \in Threads : pc'[x] = IF x = u THEN w ELSE pc[x]
  BY <1>1, <1>4 DEF TypeOK
<1>7. \A x \in Threads :
         /\ pc'[x] \in Working <=> pc[x] \in Working
         /\ pc'[x] = "last" => pc[x] = "last"
         /\ pc'[x] \in Waiting => pc[x] \in Waiting
         /\ pc'[x] \in {"enqueued", "sleeping"} => pc[x] \in {"enqueued", "sleeping"}
  <2> HIDE DEF Working, Waiting, Elsewhere
  <2>1. QED BY <1>4, <1>6
<1> HIDE DEF Working, Waiting, Elsewhere
<1>8. QED BY <1>2, <1>3, <1>5, <1>7, QuietInv

(* openWaitList counts the thread whether the address has a list already   *)
(* or gets a new one; a new one is opened only when nobody uses any.       *)
LEMMA OpenInv ==
    ASSUME IInv, NEW t \in Threads, pc[t] \in {"code", "error"}, NEW w \in {"check", "wake"},
           NEW c \in CallRecord, openWaitList(t, c), pc' = [pc EXCEPT ![t] = w],
           UNCHANGED <<value, event, woken, owes>>
    PROVE  IInv'
<1> DEFINE Opened(l) ==
              /\ map' = l /\ lists' \in [Lists -> ListRecord] /\ call'[t].list = l
              /\ call' \in [Threads -> CallRecord] /\ \A u \in Threads \ {t} : call'[u] = call[u]
              /\ \A k \in Lists \ {l} : lists'[k] = lists[k] /\ lists[k].state # "live"
              /\ lists'[l].state = "live" /\ lists'[l].numReferences = Cardinality(Holders(l)) + 1
              /\ \A u \in Threads :
                    pc[u] \in Working => call[u].list = l /\ lists'[l].wakeEvents = lists[l].wakeEvents
<1>1. TypeOK /\ ListsUsed /\ MapLeads /\ Counted
  BY DEF IInv
<1>2. \A k \in Lists : Holders(k) \in SUBSET Threads /\ Cardinality(Holders(k)) \in Nat
  BY HoldersFinite DEF Holders
<1>3. /\ \A u \in Threads : pc'[u] = IF u = t THEN w ELSE pc[u]
      /\ pc' \in [Threads -> Working \cup Elsewhere]
      /\ w \in Working /\ w \notin Waiting /\ w # "last" /\ pc[t] \notin Working
  BY <1>1 DEF TypeOK, Working, Waiting, Elsewhere
<1>4. PICK l \in Lists : Opened(l)
  <2>1. CASE map # nullptr
    <3>1. lists' = [lists EXCEPT ![map].numReferences = @ + 1]
          /\ call' = [call EXCEPT ![t] = [c EXCEPT !.list = map]] /\ map' = map /\ map \in Lists
      BY <1>1, <2>1 DEF openWaitList, TypeOK
    <3>2. call'[t].list = map /\ call' \in [Threads -> CallRecord] /\ \A u \in Threads \ {t} : call'[u] = call[u]
      <4>1. [c EXCEPT !.list = map] \in CallRecord /\ [c EXCEPT !.list = map].list = map
        BY <3>1 DEF CallRecord
      <4>2. QED BY <1>1, <3>1, <4>1 DEF TypeOK
    <3>3. /\ lists[map] \in ListRecord /\ lists[map].state = "live"
          /\ lists[map].numReferences = Cardinality(Holders(map))
      BY <1>1, <3>1 DEF TypeOK, MapLeads, Counted
    <3>4. /\ lists'[map].state = "live" /\ lists'[map].wakeEvents = lists[map].wakeEvents
          /\ lists'[map].numReferences = Cardinality(Holders(map)) + 1
          /\ lists' \in [Lists -> ListRecord]
          /\ \A k \in Lists \ {map} : lists'[k] = lists[k]
      <4> DEFINE r == [lists[map] EXCEPT !.numReferences = @ + 1]
      <4>1. r \in ListRecord /\ r.state = "live" /\ r.wakeEvents = lists[map].wakeEvents
        BY <3>3 DEF ListRecord
      <4>2. r.numReferences = Cardinality(Holders(map)) + 1
        BY <3>3 DEF ListRecord
      <4>3. lists' = [lists EXCEPT ![map] = r]
        BY <3>1
      <4> HIDE DEF r
      <4>4. QED BY <1>1, <3>1, <4>1, <4>2, <4>3 DEF TypeOK
    <3>5. \A k \in Lists \ {map} : lists[k].state # "live"
      BY <1>1 DEF MapLeads
    <3>6. \A u \in Threads : pc[u] \in Working => call[u].list = map
      BY <1>1 DEF ListsUsed, MapLeads, list
    <3>7. Opened(map)
      BY <3>1, <3>2, <3>4, <3>5, <3>6
    <3>8. QED BY <3>1, <3>7
  <2>2. CASE map = nullptr
    <3> DEFINE new == CHOOSE x \in Unused : TRUE
               fresh == [state |-> "live", numReferences |-> 1, wakeEvents |-> <<>>]
    <3>1. /\ Unused # {} /\ lists' = [lists EXCEPT ![new] = fresh] /\ map' = new
          /\ call' = [call EXCEPT ![t] = [c EXCEPT !.list = new]]
      BY <2>2 DEF openWaitList
    <3>2. new \in Lists /\ lists[new].state = "unused"
      BY <3>1 DEF Unused
    <3>3. fresh \in ListRecord
      BY DEF ListRecord
    <3> HIDE DEF new
    <3>4. call'[t].list = new /\ call' \in [Threads -> CallRecord] /\ \A u \in Threads \ {t} : call'[u] = call[u]
      <4>1. [c EXCEPT !.list = new] \in CallRecord /\ [c EXCEPT !.list = new].list = new
        BY <3>2 DEF CallRecord
      <4>2. QED BY <1>1, <3>1, <4>1 DEF TypeOK
    <3>5. \A k \in Lists : lists[k].state # "live"
      BY <1>1, <2>2, ThreadsAssumption DEF MapLeads
    <3>6. \A u \in Threads : pc[u] \notin Working
      BY <1>1, <3>5 DEF ListsUsed, list
    <3>7. Holders(new) = {}
      BY <3>6 DEF Holders, Holds, Working
    <3>8. Cardinality(Holders(new)) = 0
      BY <3>7, FS_EmptySet
    <3>9. Opened(new)
      BY <1>1, <3>1, <3>2, <3>3, <3>4, <3>5, <3>6, <3>8 DEF TypeOK
    <3>10. QED BY <3>2, <3>9
  <2>3. QED BY <2>1, <2>2
<1>5. TypeOK'
  BY <1>1, <1>3, <1>4 DEF TypeOK
<1>6. ListsUsed'
  <2>1. \A u \in Threads \ {t} :
           /\ pc'[u] \in Working => call'[u].list \in Lists /\ lists'[call'[u].list].state = "live"
           /\ pc'[u] = "last" => call'[u].list \in Lists /\ lists'[call'[u].list].state # "unused"
    BY <1>1, <1>3, <1>4 DEF ListsUsed, list
  <2>2. pc'[t] = w /\ call'[t].list = l
    BY <1>3, <1>4
  <2>3. QED BY <1>3, <1>4, <2>1, <2>2 DEF ListsUsed, list
<1>7. MapLeads'
  BY <1>4 DEF MapLeads
<1>8. Counted'
  <2>1. call'[t].list = l
    BY <1>4
  <2>2. Holders(l)' = Holders(l) \cup {t} /\ t \notin Holders(l)
    BY <1>3, <1>4, <2>1 DEF Holders, Holds, Working
  <2>3. Cardinality(Holders(l)') = Cardinality(Holders(l)) + 1
    BY <1>2, <1>4, <2>2, HoldersFinite
  <2>4. ASSUME NEW k \in Lists, lists'[k].state = "live" PROVE lists'[k].numReferences = Cardinality(Holders(k)')
    <3>1. k = l
      BY <1>4, <2>4
    <3>2. QED BY <1>4, <2>3, <3>1
  <2>5. QED BY <2>4 DEF Counted
<1>9. Listed' /\ NoMissedWake'
  <2>1. ASSUME NEW u \in Threads
        PROVE  /\ pc'[u] \in Waiting =>
                    /\ pc[u] \in Waiting /\ woken'[u] = woken[u] /\ call'[u].list = call[u].list
                    /\ call'[u].expected = call[u].expected
                    /\ lists'[call[u].list].wakeEvents = lists[call[u].list].wakeEvents
               /\ pc'[u] \in {"enqueued", "sleeping"} => pc[u] \in {"enqueued", "sleeping"}
    <3>1. CASE u = t
      BY <1>3, <3>1 DEF Waiting
    <3>2. CASE u # t
      <4>1. pc[u] \in Waiting => pc[u] \in Working
        BY DEF Waiting, Working
      <4>2. QED BY <1>3, <1>4, <3>2, <4>1
    <3>3. QED BY <3>1, <3>2
  <2>2. QED BY <2>1, WaitersKept DEF IInv
<1>10. QED BY <1>5, <1>6, <1>7, <1>8, <1>9 DEF IInv

(* wait and wake open the list before they do anything else.               *)
LEMMA WaitWakeInv ==
    ASSUME IInv, NEW t \in Threads,
           \/ \E expected \in Values, finite \in BOOLEAN : wait(t, expected, finite)
           \/ \E n \in {1, All} : wake(t, n)
    PROVE  IInv'
<1>1. NoCall \in CallRecord
  BY DEF NoCall, CallRecord
<1>2. CASE \E expected \in Values, finite \in BOOLEAN : wait(t, expected, finite)
  <2>1. PICK expected \in Values, finite \in BOOLEAN : wait(t, expected, finite)
    BY <1>2
  <2> DEFINE c == [NoCall EXCEPT !.op = "wait", !.from = pc[t], !.expected = expected, !.finite = finite]
  <2>2. pc[t] \in {"code", "error"} /\ openWaitList(t, c) /\ pc' = [pc EXCEPT ![t] = "check"]
        /\ UNCHANGED <<value, event, woken, owes>>
    BY <2>1 DEF wait, Begin, InCode, Goto
  <2>3. c \in CallRecord
    BY <1>1, <2>2 DEF CallRecord
  <2> HIDE DEF c
  <2>4. QED BY <2>2, <2>3, OpenInv
<1>3. CASE \E n \in {1, All} : wake(t, n)
  <2>1. PICK n \in {1, All} : wake(t, n)
    BY <1>3
  <2> DEFINE c == [NoCall EXCEPT !.op = "wake", !.from = pc[t], !.n = n]
  <2>2. pc[t] \in {"code", "error"} /\ openWaitList(t, c) /\ pc' = [pc EXCEPT ![t] = "wake"]
        /\ UNCHANGED <<value, event, woken, owes>>
    BY <2>1 DEF wake, Begin, InCode, Goto
  <2>3. c \in CallRecord
    BY <1>1, <2>2 DEF CallRecord
  <2> HIDE DEF c
  <2>4. QED BY <2>2, <2>3, OpenInv
<1>4. QED BY <1>2, <1>3

(* The thread that changes the value owes everyone a wake.                 *)
LEMMA AtomicStoreInv ==
    ASSUME IInv, NEW t \in Threads, NEW v \in Values, atomicStore(t, v)
    PROVE  IInv'
<1>1. TypeOK /\ ListsUsed /\ MapLeads /\ Counted /\ Listed
  BY DEF IInv
<1>2. value' = v /\ owes' = [owes EXCEPT ![t] = TRUE] /\ UNCHANGED <<map, lists, event, pc, call, woken>>
  BY DEF atomicStore
<1>3. TypeOK'
  BY <1>1, <1>2 DEF TypeOK
<1>4. ListsUsed' /\ MapLeads' /\ Counted'
  BY <1>1, <1>2, RefsKept
<1>5. Listed'
  BY <1>1, <1>2 DEF Listed, list
<1>6. owes'[t]
  BY <1>1, <1>2 DEF TypeOK
<1>7. NoMissedWake'
  BY <1>6 DEF NoMissedWake
<1>8. QED BY <1>3, <1>4, <1>5, <1>7 DEF IInv

(* A list whose wakeEvents change keeps its state and its count.           *)
LEMMA EventsReplaced ==
    ASSUME TypeOK, NEW l \in Lists, NEW s \in Seq(Threads),
           lists' = [lists EXCEPT ![l].wakeEvents = s]
    PROVE  /\ lists' \in [Lists -> ListRecord]
           /\ \A k \in Lists : /\ lists'[k].state = lists[k].state
                               /\ lists'[k].numReferences = lists[k].numReferences
                               /\ lists'[k].wakeEvents = IF k = l THEN s ELSE lists[k].wakeEvents
<1> DEFINE r == [lists[l] EXCEPT !.wakeEvents = s]
<1>1. lists[l] \in ListRecord
  BY DEF TypeOK
<1>2. r \in ListRecord /\ r.state = lists[l].state /\ r.numReferences = lists[l].numReferences /\ r.wakeEvents = s
  BY <1>1 DEF ListRecord
<1>3. lists' = [lists EXCEPT ![l] = r]
  OBVIOUS
<1> HIDE DEF r
<1>4. QED BY <1>2, <1>3 DEF TypeOK

(* vector::erase of one place.                                             *)
LEMMA RemovedAt ==
    ASSUME NEW S, NEW s \in Seq(S), NEW i \in 1..Len(s)
    PROVE  /\ RemoveAt(s, i) \in Seq(S) /\ Len(RemoveAt(s, i)) = Len(s) - 1
           /\ \A k \in 1..i - 1 : RemoveAt(s, i)[k] = s[k]
           /\ \A k \in i..Len(s) - 1 : RemoveAt(s, i)[k] = s[k + 1]
<1> DEFINE n == Len(s)
           a == SubSeq(s, 1, i - 1)
           b == SubSeq(s, i + 1, n)
<1>1. n \in Nat /\ i \in 1..n
  BY LenProperties
<1>2. a \in Seq(S) /\ Len(a) = i - 1 /\ \A k \in 1..i - 1 : a[k] = s[k]
  BY <1>1
<1>3. b \in Seq(S) /\ Len(b) = n - i /\ \A k \in 1..n - i : b[k] = s[k + i]
  BY <1>1
<1>4. RemoveAt(s, i) = a \o b
  BY DEF RemoveAt
<1> HIDE DEF a, b
<1>5. /\ a \o b \in Seq(S) /\ Len(a \o b) = Len(a) + Len(b)
      /\ \A k \in 1..Len(a) + Len(b) : (a \o b)[k] = IF k <= Len(a) THEN a[k] ELSE b[k - Len(a)]
  BY <1>2, <1>3, ConcatProperties
<1> HIDE DEF n
<1>6. /\ a \o b \in Seq(S) /\ Len(a \o b) = n - 1
      /\ \A k \in 1..i - 1 : (a \o b)[k] = s[k]
      /\ \A k \in i..n - 1 : (a \o b)[k] = s[k + 1]
  <2>1. ASSUME NEW k \in 1..i - 1 PROVE (a \o b)[k] = s[k]
    BY <1>1, <1>2, <1>3, <1>5
  <2>2. ASSUME NEW k \in i..n - 1 PROVE (a \o b)[k] = s[k + 1]
    <3>1. k - (i - 1) \in 1..n - i /\ (k - (i - 1)) + i = k + 1 /\ ~(k <= i - 1) /\ k \in 1..Len(a) + Len(b)
      BY <1>1, <1>2, <1>3
    <3>2. (a \o b)[k] = b[k - (i - 1)]
      BY <1>2, <1>5, <3>1
    <3>3. QED BY <1>3, <3>1, <3>2
  <2>3. QED BY <1>1, <1>2, <1>3, <1>5, <2>1, <2>2
<1>7. QED BY <1>4, <1>6 DEF n

(* vector::erase of the first c places.                                    *)
LEMMA RestOf ==
    ASSUME NEW S, NEW s \in Seq(S), NEW c \in 0..Len(s)
    PROVE  /\ SubSeq(s, c + 1, Len(s)) \in Seq(S) /\ Len(SubSeq(s, c + 1, Len(s))) = Len(s) - c
           /\ \A k \in 1..Len(s) - c : SubSeq(s, c + 1, Len(s))[k] = s[k + c]
<1>1. Len(s) \in Nat
  BY LenProperties
<1>2. QED BY <1>1

(* A thread goes on the list only while the value is what it expects, so   *)
(* it is never late from the start.                                        *)
LEMMA CheckAndEnqueueInv ==
    ASSUME IInv, NEW t \in Threads, checkAndEnqueue(t)
    PROVE  IInv'
<1>1. TypeOK /\ ListsUsed /\ MapLeads /\ Counted /\ Listed /\ NoMissedWake
  BY DEF IInv
<1>2. pc[t] = "check" /\ UNCHANGED <<value, map, owes>> /\ woken' = [woken EXCEPT ![t] = FALSE]
  BY DEF checkAndEnqueue, At, threadState
<1>3. woken' \in [Threads -> BOOLEAN] /\ \A u \in Threads \ {t} : woken'[u] = woken[u]
  BY <1>1, <1>2 DEF TypeOK
<1>4. CASE value # call[t].expected
  <2>1. call' = [call EXCEPT ![t].result = 1] /\ pc' = [pc EXCEPT ![t] = "close"] /\ UNCHANGED <<event, lists>>
    BY <1>4 DEF checkAndEnqueue, Goto
  <2> DEFINE r == [call[t] EXCEPT !.result = 1]
  <2>2. r \in CallRecord /\ r.list = call[t].list /\ r.expected = call[t].expected
    BY <1>1 DEF TypeOK, CallRecord
  <2>3. call' = [call EXCEPT ![t] = r]
    BY <2>1
  <2> HIDE DEF r
  <2>4. \A u \in Threads : /\ call'[u].list = call[u].list /\ call'[u].expected = call[u].expected
                           /\ pc'[u] = IF u = t THEN "close" ELSE pc[u]
    BY <1>1, <2>1, <2>2, <2>3 DEF TypeOK
  <2>5. TypeOK'
    BY <1>1, <1>2, <1>3, <2>1, <2>2, <2>3 DEF TypeOK, Working
  <2>6. ListsUsed' /\ MapLeads' /\ Counted'
    <3>1. \A u \in Threads : /\ pc'[u] \in Working <=> pc[u] \in Working
                             /\ pc'[u] = "last" => pc[u] = "last"
      BY <1>2, <2>4 DEF Working
    <3>2. QED BY <1>1, <1>2, <2>1, <2>4, <3>1, RefsKept
  <2>7. Listed' /\ NoMissedWake'
    <3>1. \A u \in Threads : /\ pc'[u] \in Waiting => pc[u] \in Waiting /\ woken'[u] = woken[u]
                             /\ pc'[u] \in {"enqueued", "sleeping"} => pc[u] \in {"enqueued", "sleeping"}
      BY <1>3, <2>4 DEF Waiting
    <3>2. QED BY <1>1, <1>2, <2>1, <2>4, <3>1, WaitersKept
  <2>8. QED BY <2>5, <2>6, <2>7 DEF IInv
<1>5. CASE value = call[t].expected
  <2> DEFINE l == call[t].list
             s == Append(lists[l].wakeEvents, t)
  <2>1. /\ event' = [event EXCEPT ![t] = IF @ = "none" THEN "unset" ELSE @]
        /\ lists' = [lists EXCEPT ![l].wakeEvents = s]
        /\ pc' = [pc EXCEPT ![t] = "enqueued"] /\ call' = call
    BY <1>5 DEF checkAndEnqueue, Goto
  <2>2. l \in Lists
    BY <1>1, <1>2 DEF ListsUsed, Working
  <2>3. lists[l].wakeEvents \in Seq(Threads)
    BY <1>1, <2>2 DEF TypeOK, ListRecord
  <2>4. /\ s \in Seq(Threads) /\ Len(lists[l].wakeEvents) \in Nat /\ Len(s) = Len(lists[l].wakeEvents) + 1
        /\ s[Len(s)] = t /\ \A k \in 1..Len(lists[l].wakeEvents) : s[k] = lists[l].wakeEvents[k]
    BY <2>3, AppendProperties, LenProperties
  <2> HIDE DEF l, s
  <2>5. /\ lists' \in [Lists -> ListRecord]
        /\ \A k \in Lists : /\ lists'[k].state = lists[k].state
                            /\ lists'[k].numReferences = lists[k].numReferences
                            /\ lists'[k].wakeEvents = IF k = l THEN s ELSE lists[k].wakeEvents
    BY <1>1, <2>1, <2>2, <2>4, EventsReplaced
  <2>6. \A u \in Threads : pc'[u] = IF u = t THEN "enqueued" ELSE pc[u]
    BY <1>1, <2>1 DEF TypeOK
  <2>7. TypeOK'
    <3>1. event' \in [Threads -> {"none", "unset", "set", "destroyed"}] /\ pc' \in [Threads -> Working \cup Elsewhere]
      BY <1>1, <2>1 DEF TypeOK, Working
    <3>2. QED BY <1>1, <1>2, <1>3, <2>1, <2>5, <3>1 DEF TypeOK
  <2>8. ListsUsed' /\ MapLeads' /\ Counted'
    <3>1. \A u \in Threads : /\ pc'[u] \in Working <=> pc[u] \in Working
                             /\ pc'[u] = "last" => pc[u] = "last"
      BY <1>2, <2>6 DEF Working
    <3>2. QED BY <1>1, <1>2, <2>1, <2>5, <3>1, RefsKept
  <2>9. Listed'
    <3>1. ASSUME NEW u \in Threads, pc'[u] \in Waiting, ~woken'[u]
          PROVE  \E i \in 1..Len(lists'[call'[u].list].wakeEvents) : lists'[call'[u].list].wakeEvents[i] = u
      <4>1. CASE u = t
        <5>1. call'[u].list = l /\ lists'[l].wakeEvents = s /\ Len(s) \in 1..Len(s)
          BY <2>1, <2>2, <2>4, <2>5, <4>1 DEF l
        <5>2. QED BY <2>4, <4>1, <5>1
      <4>2. CASE u # t
        <5>1. pc[u] \in Waiting /\ ~woken[u] /\ call'[u] = call[u]
          BY <1>3, <2>1, <2>6, <3>1, <4>2
        <5>2. call[u].list \in Lists
          BY <1>1, <5>1 DEF ListsUsed, Waiting, Working
        <5>3. PICK i \in 1..Len(lists[call[u].list].wakeEvents) : lists[call[u].list].wakeEvents[i] = u
          BY <1>1, <5>1 DEF Listed, list
        <5>4. CASE call[u].list = l
          BY <2>4, <2>5, <5>1, <5>2, <5>3, <5>4
        <5>5. CASE call[u].list # l
          BY <2>5, <5>1, <5>2, <5>3, <5>5
        <5>6. QED BY <5>4, <5>5
      <4>3. QED BY <4>1, <4>2
    <3>2. QED BY <3>1 DEF Listed, list
  <2>10. NoMissedWake'
    <3>1. ASSUME NEW u \in Threads, pc'[u] \in {"enqueued", "sleeping"}, ~woken'[u], call'[u].expected # value'
          PROVE  \E x \in Threads : owes'[x]
      BY <1>1, <1>2, <1>5, <1>3, <2>1, <2>6, <3>1 DEF NoMissedWake
    <3>2. QED BY <3>1 DEF NoMissedWake
  <2>11. QED BY <2>7, <2>8, <2>9, <2>10 DEF IInv
<1>6. QED BY <1>4, <1>5

(* A timed-out waiter takes off its own entry and nobody else's.           *)
LEMMA AfterTimeOutInv ==
    ASSUME IInv, NEW t \in Threads, afterTimeOut(t)
    PROVE  IInv'
<1> DEFINE l == call[t].list
           w == lists[l].wakeEvents
<1>1. TypeOK /\ ListsUsed /\ MapLeads /\ Counted /\ Listed /\ NoMissedWake
  BY DEF IInv
<1>2. pc[t] = "timedOut" /\ pc' = [pc EXCEPT ![t] = "close"] /\ UNCHANGED <<value, map, woken, owes>>
  BY DEF afterTimeOut, At, Goto, threadState
<1>3. \A u \in Threads : pc'[u] = IF u = t THEN "close" ELSE pc[u]
  BY <1>1, <1>2 DEF TypeOK
<1>4. l \in Lists /\ w \in Seq(Threads)
  BY <1>1, <1>2 DEF ListsUsed, Working, TypeOK, ListRecord
<1>5. /\ \A u \in Threads : /\ pc'[u] \in Working <=> pc[u] \in Working
                            /\ pc'[u] = "last" => pc[u] = "last"
                            /\ pc'[u] \in Waiting => pc[u] \in Waiting /\ u # t
                            /\ pc'[u] \in {"enqueued", "sleeping"} => pc[u] \in {"enqueued", "sleeping"}
      /\ pc' \in [Threads -> Working \cup Elsewhere]
  BY <1>1, <1>2, <1>3 DEF Working, Waiting, TypeOK
<1>6. CASE Contains(list(t).wakeEvents, t)
  <2>1. PICK i \in First(w, t) : lists' = [lists EXCEPT ![l].wakeEvents = RemoveAt(w, i)]
    BY <1>6 DEF afterTimeOut, list
  <2>2. i \in 1..Len(w) /\ w[i] = t
    BY <2>1 DEF First
  <2>3. call' = [call EXCEPT ![t].result = 2] /\ event' = event
    BY <1>6 DEF afterTimeOut
  <2> DEFINE r == [call[t] EXCEPT !.result = 2]
             s == RemoveAt(w, i)
  <2>4. r \in CallRecord /\ r.list = l /\ r.expected = call[t].expected
    BY <1>1 DEF TypeOK, CallRecord
  <2>5. call' = [call EXCEPT ![t] = r]
    BY <2>3
  <2>6. /\ s \in Seq(Threads) /\ Len(s) = Len(w) - 1 /\ Len(w) \in Nat
        /\ \A k \in 1..i - 1 : s[k] = w[k]
        /\ \A k \in i..Len(w) - 1 : s[k] = w[k + 1]
    BY <1>4, <2>2, RemovedAt, LenProperties
  <2>7. lists' = [lists EXCEPT ![l].wakeEvents = s]
    BY <2>1
  <2>8. \A u \in Threads : /\ call'[u].list = call[u].list /\ call'[u].expected = call[u].expected
    <3> HIDE DEF r
    <3>1. QED BY <1>1, <2>4, <2>5 DEF TypeOK
  <2> HIDE DEF r, s, l, w
  <2>9. /\ lists' \in [Lists -> ListRecord]
        /\ \A k \in Lists : /\ lists'[k].state = lists[k].state
                            /\ lists'[k].numReferences = lists[k].numReferences
                            /\ lists'[k].wakeEvents = IF k = l THEN s ELSE lists[k].wakeEvents
    BY <1>1, <1>4, <2>6, <2>7, EventsReplaced
  <2>10. TypeOK'
    BY <1>1, <1>2, <1>5, <2>3, <2>4, <2>5, <2>9 DEF TypeOK
  <2>11. ListsUsed' /\ MapLeads' /\ Counted'
    BY <1>1, <1>2, <1>5, <2>8, <2>9, RefsKept
  <2>12. ASSUME NEW u \in Threads \ {t}, NEW j \in 1..Len(w), w[j] = u PROVE \E k \in 1..Len(s) : s[k] = u
    <3>1. CASE j < i
      <4>1. j \in 1..i - 1 /\ j \in 1..Len(s)
        BY <2>2, <2>6, <3>1
      <4>2. QED BY <2>6, <2>12, <4>1
    <3>2. CASE j > i
      <4>1. j - 1 \in i..Len(w) - 1 /\ j - 1 \in 1..Len(s) /\ (j - 1) + 1 = j
        BY <2>2, <2>6, <3>2
      <4>2. s[j - 1] = u
        BY <2>6, <2>12, <4>1
      <4>3. QED BY <4>1, <4>2
    <3>3. j # i
      BY <2>2, <2>12
    <3>4. QED BY <2>2, <3>1, <3>2, <3>3
  <2>13. Listed'
    <3>1. ASSUME NEW u \in Threads, pc'[u] \in Waiting, ~woken'[u]
          PROVE  \E j \in 1..Len(lists'[call'[u].list].wakeEvents) : lists'[call'[u].list].wakeEvents[j] = u
      <4>1. pc[u] \in Waiting /\ ~woken[u] /\ u # t
        BY <1>2, <1>5, <3>1
      <4>2. call[u].list \in Lists
        BY <1>1, <4>1 DEF ListsUsed, Waiting, Working
      <4>3. PICK j \in 1..Len(lists[call[u].list].wakeEvents) : lists[call[u].list].wakeEvents[j] = u
        BY <1>1, <4>1 DEF Listed, list
      <4>4. CASE call[u].list = l
        BY <2>8, <2>9, <2>12, <4>1, <4>2, <4>3, <4>4 DEF w
      <4>5. CASE call[u].list # l
        BY <2>8, <2>9, <4>2, <4>3, <4>5
      <4>6. QED BY <4>4, <4>5
    <3>2. QED BY <3>1 DEF Listed, list
  <2>14. NoMissedWake'
    BY <1>1, <1>2, <1>5, <2>8 DEF NoMissedWake
  <2>15. QED BY <2>10, <2>11, <2>13, <2>14 DEF IInv
<1>7. CASE ~Contains(list(t).wakeEvents, t)
  <2>1. lists' = lists /\ call' = call /\ event' = [event EXCEPT ![t] = "unset"]
    BY <1>7 DEF afterTimeOut
  <2>2. event' \in [Threads -> {"none", "unset", "set", "destroyed"}]
    BY <1>1, <2>1 DEF TypeOK
  <2>3. UNCHANGED <<value, map, lists, call, woken, owes>>
    BY <1>2, <2>1
  <2> HIDE DEF l, w
  <2>4. QED BY <1>5, <2>2, <2>3, QuietInv
<1>8. QED BY <1>6, <1>7

(* A waker marks those it takes off; one that wakes everyone leaves nobody *)
(* that could have missed the value it wrote.                              *)
LEMMA WakeWaitersInv ==
    ASSUME IInv, NEW t \in Threads, wakeWaiters(t)
    PROVE  IInv'
<1> DEFINE l == call[t].list
           w == lists[l].wakeEvents
           c == WakeCount(t)
           s == SubSeq(w, c + 1, Len(w))
<1>1. TypeOK /\ ListsUsed /\ MapLeads /\ Counted /\ Listed /\ NoMissedWake
  BY DEF IInv
<1>2. pc[t] = "wake" /\ pc' = [pc EXCEPT ![t] = "close"] /\ UNCHANGED <<value, map, call>>
      /\ lists' = [lists EXCEPT ![l].wakeEvents = s]
      /\ woken' = [u \in Threads |-> woken[u] \/ u \in Oldest(t)]
      /\ owes' = [owes EXCEPT ![t] = @ /\ call[t].n # All]
      /\ signalEvent(Oldest(t))
  BY DEF wakeWaiters, At, Goto, threadState
<1>3. l \in Lists /\ w \in Seq(Threads) /\ Len(w) \in Nat
  BY <1>1, <1>2, LenProperties DEF ListsUsed, Working, TypeOK, ListRecord
<1>4. c \in 0..Len(w) /\ (call[t].n = All => c = Len(w))
  <2>1. call[t].n \in {0, 1, All}
    BY <1>1 DEF TypeOK, CallRecord
  <2>2. c = IF call[t].n = All \/ call[t].n > Len(w) THEN Len(w) ELSE call[t].n
    BY DEF WakeCount, list
  <2> HIDE DEF c, w
  <2>3. QED BY <1>3, <2>1, <2>2 DEF All
<1>5. Oldest(t) = {w[i] : i \in 1..c}
  BY DEF Oldest, list
<1> HIDE DEF c
<1>6. s \in Seq(Threads) /\ Len(s) = Len(w) - c /\ \A k \in 1..Len(w) - c : s[k] = w[k + c]
  BY <1>3, <1>4, RestOf
<1> HIDE DEF l, w, s
<1>7. /\ lists' \in [Lists -> ListRecord]
      /\ \A k \in Lists : /\ lists'[k].state = lists[k].state
                          /\ lists'[k].numReferences = lists[k].numReferences
                          /\ lists'[k].wakeEvents = IF k = l THEN s ELSE lists[k].wakeEvents
  BY <1>1, <1>2, <1>3, <1>6, EventsReplaced
<1>8. \A u \in Threads : /\ pc'[u] = IF u = t THEN "close" ELSE pc[u]
                         /\ woken'[u] = (woken[u] \/ u \in Oldest(t))
  BY <1>1, <1>2 DEF TypeOK
<1>9. TypeOK'
  <2>1. event' \in [Threads -> {"none", "unset", "set", "destroyed"}]
    BY <1>1, <1>2 DEF TypeOK, signalEvent
  <2>2. pc' \in [Threads -> Working \cup Elsewhere] /\ woken' \in [Threads -> BOOLEAN]
    BY <1>1, <1>2 DEF TypeOK, Working
  <2>3. owes' \in [Threads -> BOOLEAN]
    BY <1>1, <1>2 DEF TypeOK
  <2>4. QED BY <1>1, <1>2, <1>7, <2>1, <2>2, <2>3 DEF TypeOK
<1>10. ListsUsed' /\ MapLeads' /\ Counted'
  <2>1. \A u \in Threads : /\ pc'[u] \in Working <=> pc[u] \in Working
                           /\ pc'[u] = "last" => pc[u] = "last"
    BY <1>2, <1>8 DEF Working
  <2>2. QED BY <1>1, <1>2, <1>7, <2>1, RefsKept
<1>11. \A u \in Threads : pc'[u] \in Waiting /\ ~woken'[u] => pc[u] \in Waiting /\ ~woken[u] /\ u \notin Oldest(t)
  BY <1>8 DEF Waiting
<1>12. ASSUME NEW u \in Threads, NEW i \in 1..Len(w), u \notin Oldest(t), w[i] = u
       PROVE  i > c /\ \E j \in 1..Len(s) : s[j] = u
  <2>1. i > c
    BY <1>3, <1>4, <1>5, <1>12
  <2>2. i - c \in 1..Len(s) /\ (i - c) + c = i /\ i - c \in 1..Len(w) - c
    BY <1>3, <1>4, <1>6, <2>1
  <2>3. s[i - c] = u
    BY <1>6, <1>12, <2>2
  <2>4. QED BY <2>1, <2>2, <2>3
<1>13. Listed'
  <2>1. ASSUME NEW u \in Threads, pc'[u] \in Waiting, ~woken'[u]
        PROVE  \E j \in 1..Len(lists'[call'[u].list].wakeEvents) : lists'[call'[u].list].wakeEvents[j] = u
    <3>1. pc[u] \in Waiting /\ ~woken[u] /\ u \notin Oldest(t) /\ call'[u].list = call[u].list
      BY <1>2, <1>11, <2>1
    <3>2. call[u].list \in Lists
      BY <1>1, <3>1 DEF ListsUsed, Waiting, Working
    <3>3. PICK j \in 1..Len(lists[call[u].list].wakeEvents) : lists[call[u].list].wakeEvents[j] = u
      BY <1>1, <3>1 DEF Listed, list
    <3>4. CASE call[u].list = l
      <4>1. \E k \in 1..Len(s) : s[k] = u
        BY <1>12, <3>1, <3>3, <3>4 DEF w
      <4>2. lists'[call'[u].list].wakeEvents = s
        BY <1>7, <3>1, <3>2, <3>4
      <4>3. QED BY <4>1, <4>2
    <3>5. CASE call[u].list # l
      BY <1>7, <3>1, <3>2, <3>3, <3>5
    <3>6. QED BY <3>4, <3>5
  <2>2. QED BY <2>1 DEF Listed, list
<1>14. NoMissedWake'
  <2>1. ASSUME NEW u \in Threads, pc'[u] \in {"enqueued", "sleeping"}, ~woken'[u], call'[u].expected # value'
        PROVE  \E x \in Threads : owes'[x]
    <3>1. pc[u] \in Waiting /\ ~woken[u] /\ u \notin Oldest(t) /\ pc[u] \in {"enqueued", "sleeping"}
      BY <1>8, <1>11, <2>1 DEF Waiting
    <3>2. PICK x \in Threads : owes[x]
      BY <1>1, <1>2, <2>1, <3>1 DEF NoMissedWake
    <3>3. CASE call[t].n # All
      BY <1>1, <1>2, <3>2, <3>3 DEF TypeOK
    <3>4. CASE call[t].n = All
      <4>1. call[u].list = l
        <5>1. call[u].list \in Lists /\ lists[call[u].list].state = "live"
          BY <1>1, <3>1 DEF ListsUsed, Waiting, Working, list
        <5>2. lists[l].state = "live"
          BY <1>1, <1>2 DEF ListsUsed, Working, list, l
        <5>3. QED BY <1>1, <1>3, <5>1, <5>2 DEF MapLeads
      <4>2. PICK i \in 1..Len(w) : w[i] = u
        BY <1>1, <3>1, <4>1 DEF Listed, list, w
      <4>3. i > c
        BY <1>12, <3>1, <4>2
      <4>4. QED BY <1>3, <1>4, <3>4, <4>3
    <3>5. QED BY <3>3, <3>4
  <2>2. QED BY <2>1 DEF NoMissedWake
<1>15. QED BY <1>9, <1>10, <1>13, <1>14 DEF IInv

(* An intrinsic that returns leaves the other threads alone.               *)
LEMMA ResumeTyped ==
    ASSUME TypeOK, NEW t \in Threads, Resume(t)
    PROVE  /\ call[t].from \in {"code", "error"}
           /\ pc' = [pc EXCEPT ![t] = call[t].from]
           /\ pc' \in [Threads -> Working \cup Elsewhere] /\ call' \in [Threads -> CallRecord]
           /\ woken' \in [Threads -> BOOLEAN]
           /\ \A u \in Threads : pc'[u] = IF u = t THEN call[t].from ELSE pc[u]
           /\ \A u \in Threads \ {t} : call'[u] = call[u] /\ woken'[u] = woken[u]
           /\ call'[t] = NoCall /\ ~woken'[t]
<1>1. NoCall \in CallRecord
  BY DEF NoCall, CallRecord
<1>2. call[t].from \in {"code", "error"}
  BY DEF TypeOK, CallRecord
<1>3. pc' = [pc EXCEPT ![t] = call[t].from] /\ call' = [call EXCEPT ![t] = NoCall]
      /\ woken' = [woken EXCEPT ![t] = FALSE]
  BY DEF Resume, Goto
<1>4. pc' \in [Threads -> Working \cup Elsewhere]
  BY <1>2, <1>3 DEF TypeOK, Elsewhere
<1>5. QED BY <1>1, <1>2, <1>3, <1>4 DEF TypeOK

(* The count is lowered as the thread gives its reference back.            *)
LEMMA CloseWaitListInv ==
    ASSUME IInv, NEW t \in Threads, closeWaitList(t)
    PROVE  IInv'
<1> DEFINE Outside == {"code", "error", "last"}
<1>1. TypeOK /\ ListsUsed /\ MapLeads /\ Counted /\ Listed /\ NoMissedWake
  BY DEF IInv
<1>2. pc[t] = "close" /\ UNCHANGED <<value, map, event, owes>>
      /\ lists' = [lists EXCEPT ![call[t].list].numReferences = @ - 1]
  BY DEF closeWaitList, At, threadState
<1>3. PICK l \in Lists : l = call[t].list /\ lists[l].state = "live"
  BY <1>1, <1>2 DEF ListsUsed, Working, list
<1>4. /\ pc'[t] \in Outside /\ pc' \in [Threads -> Working \cup Elsewhere]
      /\ call' \in [Threads -> CallRecord] /\ woken' \in [Threads -> BOOLEAN]
      /\ \A u \in Threads \ {t} : pc'[u] = pc[u] /\ call'[u] = call[u] /\ woken'[u] = woken[u]
      /\ pc'[t] = "last" => call'[t].list = l
  <2>1. CASE list(t).numReferences = 1
    <3>1. pc' = [pc EXCEPT ![t] = "last"] /\ call' = call /\ woken' = woken
      BY <2>1 DEF closeWaitList, Goto
    <3>2. QED BY <1>1, <1>3, <3>1 DEF TypeOK, Elsewhere
  <2>2. CASE list(t).numReferences # 1
    <3>1. Resume(t)
      BY <2>2 DEF closeWaitList
    <3>2. QED BY <1>1, <3>1, ResumeTyped
  <2>3. QED BY <2>1, <2>2
<1>5. /\ Outside \cap Working = {} /\ Waiting \subseteq Working /\ {"enqueued", "sleeping"} \subseteq Waiting
      /\ "close" \in Working
  BY DEF Working, Waiting
<1> HIDE DEF Outside
<1>6. /\ lists' \in [Lists -> ListRecord]
      /\ lists'[l].numReferences = lists[l].numReferences - 1
      /\ \A k \in Lists : lists'[k].state = lists[k].state /\ lists'[k].wakeEvents = lists[k].wakeEvents
      /\ \A k \in Lists \ {l} : lists'[k] = lists[k]
  <2> DEFINE r == [lists[l] EXCEPT !.numReferences = @ - 1]
  <2>1. lists[l] \in ListRecord
    BY <1>1 DEF TypeOK
  <2>2. /\ r \in ListRecord /\ r.state = lists[l].state /\ r.wakeEvents = lists[l].wakeEvents
        /\ r.numReferences = lists[l].numReferences - 1
    BY <2>1 DEF ListRecord
  <2>3. lists' = [lists EXCEPT ![l] = r]
    BY <1>2, <1>3
  <2> HIDE DEF r
  <2>4. QED BY <1>1, <2>2, <2>3 DEF TypeOK
<1>7. TypeOK'
  BY <1>1, <1>2, <1>4, <1>6 DEF TypeOK
<1>8. ListsUsed'
  <2>1. ASSUME NEW u \in Threads
        PROVE  /\ pc'[u] \in Working => call'[u].list \in Lists /\ lists'[call'[u].list].state = "live"
               /\ pc'[u] = "last" => call'[u].list \in Lists /\ lists'[call'[u].list].state # "unused"
    <3>1. CASE u = t
      BY <1>3, <1>4, <1>5, <1>6, <3>1
    <3>2. CASE u # t
      BY <1>1, <1>4, <1>6, <3>2 DEF ListsUsed, list
    <3>3. QED BY <3>1, <3>2
  <2>2. QED BY <2>1 DEF ListsUsed, list
<1>9. MapLeads'
  BY <1>1, <1>2, <1>6 DEF MapLeads
<1>10. Counted'
  <2>1. \A k \in Lists : Holders(k)' = {u \in Threads : call'[u].list = k /\ pc'[u] \in Working}
                         /\ Holders(k) = {u \in Threads : call[u].list = k /\ pc[u] \in Working}
    BY DEF Holders, Holds, Working
  <2>2. Holders(l)' = Holders(l) \ {t} /\ t \in Holders(l)
    BY <1>2, <1>3, <1>4, <1>5, <2>1
  <2>3. ASSUME NEW k \in Lists \ {l} PROVE Holders(k)' = Holders(k)
    <3>1. ASSUME NEW u \in Threads
          PROVE  (call'[u].list = k /\ pc'[u] \in Working) <=> (call[u].list = k /\ pc[u] \in Working)
      <4>1. CASE u = t
        BY <1>3, <1>4, <1>5, <4>1
      <4>2. CASE u # t
        BY <1>4, <4>2
      <4>3. QED BY <4>1, <4>2
    <3>2. QED BY <2>1, <3>1, Zenon
  <2>4. Holders(l) \in SUBSET Threads
    BY DEF Holders
  <2>5. Cardinality(Holders(l)') = Cardinality(Holders(l)) - 1
    BY <2>2, <2>4, HoldersFinite
  <2>6. ASSUME NEW k \in Lists, lists'[k].state = "live" PROVE lists'[k].numReferences = Cardinality(Holders(k)')
    <3>1. CASE k = l
      BY <1>1, <1>6, <2>5, <2>6, <3>1 DEF Counted
    <3>2. CASE k # l
      BY <1>1, <1>6, <2>3, <2>6, <3>2 DEF Counted
    <3>3. QED BY <3>1, <3>2
  <2>7. QED BY <2>6 DEF Counted
<1>11. Listed' /\ NoMissedWake'
  <2>1. ASSUME NEW u \in Threads
        PROVE  /\ pc'[u] \in Waiting =>
                    /\ pc[u] \in Waiting /\ woken'[u] = woken[u] /\ call'[u].list = call[u].list
                    /\ call'[u].expected = call[u].expected
                    /\ lists'[call[u].list].wakeEvents = lists[call[u].list].wakeEvents
               /\ pc'[u] \in {"enqueued", "sleeping"} => pc[u] \in {"enqueued", "sleeping"}
    <3>1. CASE u = t
      BY <1>4, <1>5, <3>1
    <3>2. CASE u # t
      <4>1. pc[u] \in Waiting => call[u].list \in Lists
        BY <1>1, <1>5 DEF ListsUsed
      <4>2. QED BY <1>4, <1>6, <3>2, <4>1
    <3>3. QED BY <3>1, <3>2
  <2>2. QED BY <1>1, <1>2, <2>1, WaitersKept
<1>12. QED BY <1>7, <1>8, <1>9, <1>10, <1>11 DEF IInv

(* With the map locked, a list whose count is 0 has no user: it can be     *)
(* taken out of the map and deleted.                                       *)
LEMMA DeleteWaitListInv ==
    ASSUME IInv, NEW t \in Threads, deleteWaitList(t)
    PROVE  IInv'
<1>1. TypeOK /\ ListsUsed /\ MapLeads /\ Counted /\ Listed /\ NoMissedWake
  BY DEF IInv
<1>2. pc[t] = "last" /\ UNCHANGED <<value, event, owes>>
  BY DEF deleteWaitList, At, threadState
<1>3. PICK l \in Lists : l = call[t].list /\ lists[l].state # "unused"
  BY <1>1, <1>2 DEF ListsUsed, list
<1>4. CASE Deleted(t)
  <2>1. UNCHANGED <<value, map, lists, call, woken, owes, event, pc>>
    BY <1>2, <1>4 DEF deleteWaitList
  <2>2. event' \in [Threads -> {"none", "unset", "set", "destroyed"}] /\ pc' \in [Threads -> Working \cup Elsewhere]
    BY <1>1, <2>1 DEF TypeOK
  <2>3. QED BY <2>1, <2>2, QuietInv
<1>5. CASE ~Deleted(t)
  <2>1. lists[l].state = "live" /\ map = l
    <3>1. lists[l].state # "deleted"
      BY <1>3, <1>5 DEF Deleted, list
    <3>2. lists[l] \in ListRecord
      BY <1>1 DEF TypeOK
    <3>3. lists[l].state = "live"
      BY <1>3, <3>1, <3>2 DEF ListRecord
    <3>4. QED BY <1>1, <3>3 DEF MapLeads
  <2>2. Resume(t)
    BY <1>5 DEF deleteWaitList
  <2>3. /\ pc'[t] \in {"code", "error"} /\ pc' \in [Threads -> Working \cup Elsewhere]
        /\ call' \in [Threads -> CallRecord] /\ woken' \in [Threads -> BOOLEAN]
        /\ \A u \in Threads \ {t} : pc'[u] = pc[u] /\ call'[u] = call[u] /\ woken'[u] = woken[u]
    BY <1>1, <2>2, ResumeTyped
  <2>4. /\ {"code", "error"} \cap (Working \cup {"last"}) = {} /\ Waiting \subseteq Working
        /\ {"enqueued", "sleeping"} \subseteq Waiting /\ "last" \notin Working
    BY DEF Working, Waiting
  <2>5. ASSUME NEW k \in Lists PROVE Holders(k)' = Holders(k)
    <3>1. Holders(k)' = {u \in Threads : call'[u].list = k /\ pc'[u] \in Working}
          /\ Holders(k) = {u \in Threads : call[u].list = k /\ pc[u] \in Working}
      BY DEF Holders, Holds, Working
    <3>2. ASSUME NEW u \in Threads
          PROVE  (call'[u].list = k /\ pc'[u] \in Working) <=> (call[u].list = k /\ pc[u] \in Working)
      <4>1. CASE u = t
        BY <1>2, <2>3, <2>4, <4>1
      <4>2. CASE u # t
        BY <2>3, <4>2
      <4>3. QED BY <4>1, <4>2
    <3>3. QED BY <3>1, <3>2, Zenon
  <2>6. CASE list(t).numReferences # 0
    <3>1. map' = map /\ lists' = lists
      BY <1>5, <2>6 DEF deleteWaitList
    <3>2. TypeOK'
      BY <1>1, <1>2, <2>3, <3>1 DEF TypeOK
    <3>3. ListsUsed' /\ MapLeads' /\ Counted'
      <4>1. ListsUsed'
        BY <1>1, <2>3, <2>4, <3>1 DEF ListsUsed, list
      <4>2. QED BY <1>1, <2>5, <3>1, <4>1 DEF MapLeads, Counted
    <3>4. Listed' /\ NoMissedWake'
      BY <1>1, <1>2, <2>3, <2>4, <3>1, WaitersKept
    <3>5. QED BY <3>2, <3>3, <3>4 DEF IInv
  <2>7. CASE list(t).numReferences = 0
    <3>1. lists' = [lists EXCEPT ![l].state = "deleted"] /\ map' = nullptr
      BY <1>3, <1>5, <2>7 DEF deleteWaitList
    <3>2. /\ lists' \in [Lists -> ListRecord] /\ lists'[l].state = "deleted"
          /\ \A k \in Lists \ {l} : lists'[k] = lists[k]
      <4> DEFINE r == [lists[l] EXCEPT !.state = "deleted"]
      <4>1. lists[l] \in ListRecord
        BY <1>1 DEF TypeOK
      <4>2. r \in ListRecord /\ r.state = "deleted"
        BY <4>1 DEF ListRecord
      <4>3. lists' = [lists EXCEPT ![l] = r]
        BY <3>1
      <4> HIDE DEF r
      <4>4. QED BY <1>1, <4>2, <4>3 DEF TypeOK
    <3>3. Holders(l) = {}
      <4>1. Holders(l) \in SUBSET Threads
        BY DEF Holders
      <4>2. Cardinality(Holders(l)) = 0
        BY <1>1, <1>3, <2>1, <2>7 DEF Counted, list
      <4>3. QED BY <4>1, <4>2, HoldersFinite
    <3>4. \A u \in Threads : pc[u] \notin Working
      <4>1. \A u \in Threads : pc[u] \in Working => call[u].list = l
        BY <1>1, <2>1 DEF ListsUsed, MapLeads, list
      <4>2. QED BY <3>3, <4>1 DEF Holders, Holds, Working
    <3>5. \A u \in Threads : pc'[u] \notin Working
      BY <2>3, <2>4, <3>4
    <3>6. TypeOK'
      BY <1>1, <1>2, <2>3, <3>1, <3>2 DEF TypeOK
    <3>7. ListsUsed'
      <4>1. ASSUME NEW u \in Threads, pc'[u] = "last"
            PROVE  call'[u].list \in Lists /\ lists'[call'[u].list].state # "unused"
        <5>1. u # t /\ pc[u] = "last" /\ call'[u] = call[u]
          BY <2>3, <2>4, <4>1
        <5>2. call[u].list \in Lists /\ lists[call[u].list].state # "unused"
          BY <1>1, <5>1 DEF ListsUsed, list
        <5>3. QED BY <3>2, <5>1, <5>2
      <4>2. QED BY <3>5, <4>1 DEF ListsUsed, list
    <3>8. MapLeads'
      <4>1. \A k \in Lists \ {l} : lists[k].state # "live"
        BY <1>1, <2>1 DEF MapLeads
      <4>2. QED BY <3>1, <3>2, <4>1, ThreadsAssumption DEF MapLeads
    <3>9. Counted'
      <4>1. \A k \in Lists : lists'[k].state # "live"
        BY <3>1, <3>8, ThreadsAssumption DEF MapLeads
      <4>2. QED BY <4>1 DEF Counted
    <3>10. Listed' /\ NoMissedWake'
      BY <2>4, <3>5 DEF Listed, NoMissedWake
    <3>11. QED BY <3>6, <3>7, <3>8, <3>9, <3>10 DEF IInv
  <2>8. QED BY <2>6, <2>7
<1>6. QED BY <1>4, <1>5

-----------------------------------------------------------------------------
(* References, map and wait lists agree in every reachable state of        *)
(* Threads.cpp's wait and wake, for any number of threads and lists.       *)
THEOREM Invariance == Spec => []IInv
<1>1. Init => IInv
  BY InitIInv
<1>2. IInv /\ [Next]_vars => IInv'
  <2> SUFFICES ASSUME IInv, [Next]_vars PROVE IInv'
    OBVIOUS
  <2>1. CASE Next
    <3>1. PICK t \in Threads :
             \/ Step(t)
             \/ spuriousAwake(t)
             \/ \E expected \in Values, finite \in BOOLEAN : wait(t, expected, finite)
             \/ \E n \in {1, All} : wake(t, n)
             \/ \E v \in Values : atomicStore(t, v)
             \/ \E u \in Threads : launchThread(t, u)
             \/ throw(t)
             \/ finish(t)
      BY <2>1 DEF Next
    <3>2. CASE Step(t)
      BY <3>2, CheckAndEnqueueInv, QuietSteps, AfterTimeOutInv, WakeWaitersInv, CloseWaitListInv,
         DeleteWaitListInv DEF Step
    <3>3. CASE \/ \E expected \in Values, finite \in BOOLEAN : wait(t, expected, finite)
               \/ \E n \in {1, All} : wake(t, n)
      BY <3>3, WaitWakeInv
    <3>4. CASE \E v \in Values : atomicStore(t, v)
      BY <3>4, AtomicStoreInv
    <3>5. CASE (\E u \in Threads : launchThread(t, u)) \/ throw(t) \/ finish(t) \/ spuriousAwake(t)
      BY <3>5, QuietSteps
    <3>6. QED BY <3>1, <3>2, <3>3, <3>4, <3>5
  <2>2. CASE UNCHANGED vars
    <3>1. UNCHANGED <<value, map, lists, call, woken, owes, event, pc>>
      BY <2>2 DEF vars
    <3>2. event' \in [Threads -> {"none", "unset", "set", "destroyed"}] /\ pc' \in [Threads -> Working \cup Elsewhere]
      BY <3>1 DEF IInv, TypeOK
    <3>3. QED BY <3>1, <3>2, QuietInv
  <2>3. QED BY <2>1, <2>2
<1>3. QED BY <1>1, <1>2, PTL DEF Spec

(* openWaitList and closeWaitList count references exactly: no list that a *)
(* thread works with is ever deleted, and the map has the one live list.   *)
THEOREM ReferencesCountedTheorem == Spec => []ReferencesCounted
<1>1. IInv => ReferencesCounted
  <2> SUFFICES ASSUME IInv, NEW l \in Lists
               PROVE  /\ lists[l].state = "live" => lists[l].numReferences = Cardinality({t \in Threads : Holds(t, l)})
                      /\ lists[l].state # "live" => \A t \in Threads : ~Holds(t, l)
                      /\ (lists[l].state = "live") = (map = l)
    BY DEF ReferencesCounted
  <2>1. lists[l].state = "live" => lists[l].numReferences = Cardinality({t \in Threads : Holds(t, l)})
    BY DEF IInv, Counted, Holders
  <2>2. lists[l].state # "live" => \A t \in Threads : ~Holds(t, l)
    BY DEF IInv, ListsUsed, Holds, Working, list
  <2>3. (lists[l].state = "live") = (map = l)
    BY DEF IInv, MapLeads
  <2>4. QED BY <2>1, <2>2, <2>3
<1>2. QED BY <1>1, Invariance, PTL

(* waitOnAddress looks at the value with the list locked, so nobody sleeps *)
(* on a value that was changed by a thread that has already woken          *)
(* everyone.                                                               *)
THEOREM NoMissedWakeTheorem == Spec => []NoMissedWake
<1>1. IInv => NoMissedWake
  BY DEF IInv
<1>2. QED BY <1>1, Invariance, PTL

(* Whoever waits and was not taken off by a waker is on the list that      *)
(* addressToWaitListMap leads to, whichever threads open, close, time out  *)
(* or wake up spuriously meanwhile: wakeAddress finds it.                  *)
THEOREM WaitersListedTheorem == Spec => []WaitersListed
<1>1. IInv => WaitersListed
  <2> SUFFICES ASSUME IInv, NEW t \in Threads, pc[t] \in Waiting, ~woken[t]
               PROVE  call[t].list = map /\ Contains(list(t).wakeEvents, t)
    BY DEF WaitersListed, Waiting
  <2>1. call[t].list \in Lists /\ list(t).state = "live"
    BY DEF IInv, ListsUsed, Waiting, Working
  <2>2. call[t].list = map
    BY <2>1 DEF IInv, MapLeads, list
  <2>3. Contains(list(t).wakeEvents, t)
    BY DEF IInv, Listed, Contains
  <2>4. QED BY <2>2, <2>3
<1>2. QED BY <1>1, Invariance, PTL
=============================================================================
