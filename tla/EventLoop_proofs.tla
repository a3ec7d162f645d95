--------------------------- MODULE EventLoop_proofs ---------------------------
(***************************************************************************)
(* The invariants of EventLoop, for every number of descriptors, timers    *)
(* and callbacks and every clock.                                          *)
(***************************************************************************)
EXTENDS EventLoop, WellFoundedInduction, TLAPS

-----------------------------------------------------------------------------
(* Largest elements.                                                       *)

\* A nonempty set of bounded naturals has a largest element.
LEMMA LargestExists ==
    ASSUME NEW c \in Nat, NEW S \in SUBSET (0 .. c), S # {}
    PROVE  \E x \in S : \A y \in S : y <= x
<1> DEFINE T == {c - x : x \in S}
<1>0. \A x \in S : x \in Nat /\ c - x \in Nat
  OBVIOUS
<1>1. T \subseteq Nat /\ T # {}
  BY <1>0
<1>2. IsWellFoundedOn(OpToRel(<, Nat), Nat)
  BY NatLessThanWellFounded
<1>3. PICK d \in T : \A e \in T : ~(<<e, d>> \in OpToRel(<, Nat))
  BY <1>1, <1>2, WFMin
<1>4. \A e \in T : ~(e < d)
  BY <1>1, <1>3 DEF OpToRel
<1>5. PICK x \in S : d = c - x
  OBVIOUS
<1>6. \A y \in S : y <= x
  <2>1. SUFFICES ASSUME NEW y \in S PROVE y <= x
    OBVIOUS
  <2>2. ~(c - y < c - x)
    BY <1>4, <1>5
  <2> QED
    BY <1>0, <2>2
<1> QED
  BY <1>6

\* MaxOf finds it, and is -1 for the empty set.
LEMMA MaxOfExact ==
    ASSUME NEW c \in Nat, NEW S \in SUBSET (0 .. c)
    PROVE  /\ S = {} => MaxOf(S) = -1
           /\ S # {} => MaxOf(S) \in S /\ \A y \in S : y <= MaxOf(S)
<1>1. CASE S = {}
  BY <1>1 DEF MaxOf
<1>2. CASE S # {}
  <2>1. \E x \in S : \A y \in S : y <= x
    BY <1>2, LargestExists
  <2> QED
    BY <1>2, <2>1, Zenon DEF MaxOf
<1> QED
  BY <1>1, <1>2

\* An upper bound that is an element is the one MaxOf finds.
LEMMA MaxOfIs ==
    ASSUME NEW c \in Nat, NEW S \in SUBSET (0 .. c), NEW x \in S, \A y \in S : y <= x
    PROVE  MaxOf(S) = x
<1>1. MaxOf(S) \in S /\ \A y \in S : y <= MaxOf(S)
  BY MaxOfExact
<1>2. \A m \in S : (\A y \in S : y <= m) => m = x
  <2>1. \A m \in S : m \in Nat /\ x \in Nat /\ m <= x
    OBVIOUS
  <2> QED
    BY <2>1
<1> QED
  BY <1>1, <1>2, Zenon

-----------------------------------------------------------------------------
(* The file events: what the loop, its maxfd and the kernel hold agree.    *)

EventRecord ==
    [mask : SUBSET Directions, rproc : Procs \cup {"none"}, wproc : Procs \cup {"none"}]

FileTypes ==
    /\ backend \in {"epoll", "kqueue"}
    /\ setsize \in 1 .. MaxSet
    /\ events \in [0 .. setsize - 1 -> EventRecord]
    /\ interest \in [Fds -> SUBSET Directions]

FileInv == FileTypes /\ MaxfdExact /\ InterestExact

\* maxfd is what its definition says of the descriptors in use.
LEMMA MaxfdBounds ==
    ASSUME FileTypes, MaxfdExact
    PROVE  /\ InUse(events) \in SUBSET (0 .. setsize - 1) /\ setsize - 1 \in Nat
           /\ InUse(events) = {} => maxfd = -1
           /\ InUse(events) # {} => maxfd \in InUse(events)
           /\ \A f \in InUse(events) : f <= maxfd
           /\ maxfd \in -1 .. setsize - 1
<1>1. setsize - 1 \in Nat
  BY LoopAssumption DEF FileTypes
<1>2. DOMAIN events = 0 .. setsize - 1
  BY DEF FileTypes
<1>3. InUse(events) \in SUBSET (0 .. setsize - 1)
  BY <1>2 DEF InUse
<1>4. /\ InUse(events) = {} => maxfd = -1
      /\ InUse(events) # {} => maxfd \in InUse(events) /\ \A f \in InUse(events) : f <= maxfd
  BY <1>1, <1>3, MaxOfExact, Zenon DEF MaxfdExact
<1>5. maxfd \in -1 .. setsize - 1
  <2>1. CASE InUse(events) = {}
    BY <1>1, <1>4, <2>1
  <2>2. CASE InUse(events) # {}
    BY <1>1, <1>3, <1>4, <2>2
  <2> QED
    BY <2>1, <2>2
<1> QED
  BY <1>1, <1>3, <1>4, <1>5

\* A registration adds its descriptor to those in use.
LEMMA CreateKeepsFiles ==
    ASSUME FileInv, NEW fd \in Fds, NEW m \in SUBSET Directions, m # {}, NEW p \in Procs,
           aeCreateFileEvent(fd, m, p)
    PROVE  FileInv'
<1> USE LoopAssumption DEF FileInv
<1>1. fd \in 0 .. setsize - 1 /\ fd < setsize /\ backend' = backend /\ setsize' = setsize
  BY DEF aeCreateFileEvent, Fds, FileTypes
<1>2. events' = [events EXCEPT ![fd] =
           [mask |-> @.mask \cup m,
            rproc |-> IF R \in m THEN p ELSE @.rproc,
            wproc |-> IF W \in m THEN p ELSE @.wproc]]
  BY DEF aeCreateFileEvent
<1>3. /\ DOMAIN events' = 0 .. setsize - 1
      /\ events'[fd].mask = events[fd].mask \cup m
      /\ \A f \in 0 .. setsize - 1 : f # fd => events'[f] = events[f]
  BY <1>1, <1>2 DEF FileTypes
<1>4. events[fd].mask \in SUBSET Directions
  BY <1>1 DEF FileTypes, EventRecord
<1>5. events' \in [0 .. setsize - 1 -> EventRecord]
  <2>1. events'[fd] \in EventRecord
    <3>1. events'[fd] = [mask |-> events[fd].mask \cup m,
            rproc |-> IF R \in m THEN p ELSE events[fd].rproc,
            wproc |-> IF W \in m THEN p ELSE events[fd].wproc]
      BY <1>1, <1>2 DEF FileTypes
    <3>2. events[fd] \in EventRecord
      BY <1>1 DEF FileTypes
    <3> QED
      BY <3>1, <3>2 DEF EventRecord
  <2> QED
    BY <1>2, <1>3, <2>1 DEF FileTypes
<1>6. interest' = [interest EXCEPT ![fd] = events[fd].mask \cup m]
  <2>1. interest[fd] = events[fd].mask
    BY <1>1 DEF InterestExact
  <2>2. interest' = WithInterest(fd, m)
    BY DEF aeCreateFileEvent
  <2> QED
    BY <2>1, <2>2 DEF WithInterest
<1>7. FileTypes'
  BY <1>1, <1>4, <1>5, <1>6 DEF FileTypes
<1>8. InterestExact'
  <2>1. SUFFICES ASSUME NEW f \in Fds
                 PROVE  interest'[f] = IF f < setsize' THEN events'[f].mask ELSE {}
    BY DEF InterestExact
  <2>2. f \in Nat /\ interest[f] = IF f < setsize THEN events[f].mask ELSE {}
    BY DEF InterestExact, Fds
  <2>3. f < setsize => f \in 0 .. setsize - 1
    BY <2>2 DEF FileTypes
  <2>4. CASE f = fd
    BY <1>1, <1>3, <1>6, <2>4 DEF FileTypes
  <2>5. CASE f # fd
    BY <1>1, <1>3, <1>6, <2>2, <2>3, <2>5 DEF FileTypes
  <2> QED
    BY <2>4, <2>5
<1>9. InUse(events') = InUse(events) \cup {fd}
  <2>1. DOMAIN events = 0 .. setsize - 1
    BY DEF FileTypes
  <2> QED
    BY <1>1, <1>3, <2>1 DEF InUse
<1>10. MaxfdExact'
  <2>1. maxfd' = IF fd > maxfd THEN fd ELSE maxfd
    BY DEF aeCreateFileEvent
  <2>2. maxfd' \in InUse(events')
    BY <1>1, <1>9, <2>1, MaxfdBounds
  <2>3. \A f \in InUse(events') : f <= maxfd'
    BY <1>1, <1>9, <2>1, MaxfdBounds
  <2>4. InUse(events') \in SUBSET (0 .. setsize - 1) /\ setsize - 1 \in Nat
    BY <1>1, <1>9, MaxfdBounds
  <2>5. MaxOf(InUse(events')) = maxfd'
    BY <2>2, <2>3, <2>4, MaxOfIs
  <2> QED
    BY <2>5 DEF MaxfdExact
<1> QED
  BY <1>7, <1>8, <1>10

\* ForgetEvents keeps maxfd the largest descriptor in use.
LEMMA ForgetKeepsMaxfd ==
    ASSUME FileTypes, MaxfdExact, setsize' = setsize,
           NEW fd \in 0 .. setsize - 1, NEW m \in SUBSET Directions, events[fd].mask # {},
           ForgetEvents(fd, m)
    PROVE  /\ events' \in [0 .. setsize - 1 -> EventRecord]
           /\ \A f \in 0 .. setsize - 1 :
                  events'[f].mask = IF f = fd THEN events[fd].mask \ m ELSE events[f].mask
           /\ MaxfdExact'
<1>1. events' = [events EXCEPT ![fd].mask = @ \ m]
  BY DEF ForgetEvents
<1>2. DOMAIN events = 0 .. setsize - 1 /\ DOMAIN events' = 0 .. setsize - 1
  BY <1>1 DEF FileTypes
<1>3. /\ events'[fd].mask = events[fd].mask \ m
      /\ \A f \in 0 .. setsize - 1 : f # fd => events'[f] = events[f]
  BY <1>1 DEF FileTypes, EventRecord
<1>4. events' \in [0 .. setsize - 1 -> EventRecord]
  BY <1>1 DEF FileTypes, EventRecord
<1>5. CASE fd = maxfd /\ events[fd].mask \subseteq m
  <2>1. maxfd' = MaxOf({f \in InUse(events) : f < maxfd})
    BY <1>5 DEF ForgetEvents
  <2>2. \A f \in InUse(events) : f \in Nat /\ f <= maxfd /\ maxfd \in Nat
    BY <1>5, MaxfdBounds
  <2>3. InUse(events') = InUse(events) \ {fd}
    BY <1>2, <1>3, <1>5 DEF InUse
  <2>4. {f \in InUse(events) : f < maxfd} = InUse(events) \ {fd}
    BY <1>5, <2>2
  <2>5. MaxfdExact'
    BY <2>1, <2>3, <2>4, Zenon DEF MaxfdExact
  <2> QED
    BY <1>3, <1>4, <2>5
<1>6. CASE ~(fd = maxfd /\ events[fd].mask \subseteq m)
  <2>1. maxfd' = maxfd
    BY <1>6 DEF ForgetEvents
  <2>2. fd \in InUse(events)
    BY <1>2 DEF InUse
  <2>3. maxfd \in InUse(events) /\ \A f \in InUse(events) : f <= maxfd
    BY <2>2, MaxfdBounds
  <2>4. InUse(events') \subseteq InUse(events)
    BY <1>2, <1>3 DEF InUse
  <2>5. maxfd \in InUse(events')
    BY <1>2, <1>3, <1>6, <2>3 DEF InUse
  <2>6. InUse(events') \in SUBSET (0 .. setsize - 1) /\ setsize - 1 \in Nat
    BY <2>4, MaxfdBounds
  <2>7. MaxOf(InUse(events')) = maxfd
    BY <2>3, <2>4, <2>5, <2>6, MaxOfIs
  <2> QED
    BY <1>3, <1>4, <2>1, <2>7 DEF MaxfdExact
<1> QED
  BY <1>5, <1>6

\* A deletion, for either backend.
LEMMA DeleteKeepsFiles ==
    ASSUME FileInv, NEW fd \in Fds, NEW m \in SUBSET Directions, aeDeleteFileEvent(fd, m)
    PROVE  FileInv'
<1> USE LoopAssumption DEF FileInv
<1>1. /\ fd \in 0 .. setsize - 1 /\ fd < setsize /\ events[fd].mask # {}
      /\ backend' = backend /\ setsize' = setsize /\ ForgetEvents(fd, m)
  BY DEF aeDeleteFileEvent, Fds, FileTypes
<1>2. /\ events' \in [0 .. setsize - 1 -> EventRecord] /\ MaxfdExact'
      /\ \A f \in 0 .. setsize - 1 :
             events'[f].mask = IF f = fd THEN events[fd].mask \ m ELSE events[f].mask
  BY <1>1, ForgetKeepsMaxfd
<1>3. interest' = [interest EXCEPT ![fd] = events[fd].mask \ m]
  <2>1. interest[fd] = events[fd].mask
    BY <1>1 DEF InterestExact
  <2>2. interest' = WithoutInterest(fd, m)
    BY DEF aeDeleteFileEvent
  <2> QED
    BY <2>1, <2>2 DEF WithoutInterest
<1>4. events[fd].mask \in SUBSET Directions
  BY <1>1 DEF FileTypes, EventRecord
<1>5. FileTypes'
  BY <1>1, <1>2, <1>3, <1>4 DEF FileTypes
<1>6. InterestExact'
  <2>1. SUFFICES ASSUME NEW f \in Fds
                 PROVE  interest'[f] = IF f < setsize' THEN events'[f].mask ELSE {}
    BY DEF InterestExact
  <2>2. f \in Nat /\ interest[f] = IF f < setsize THEN events[f].mask ELSE {}
    BY DEF InterestExact, Fds
  <2>3. f < setsize => f \in 0 .. setsize - 1
    BY <2>2 DEF FileTypes
  <2>4. CASE f = fd
    BY <1>1, <1>2, <1>3, <2>4 DEF FileTypes
  <2>5. CASE f # fd
    BY <1>1, <1>2, <1>3, <2>2, <2>3, <2>5 DEF FileTypes
  <2> QED
    BY <2>4, <2>5
<1> QED
  BY <1>2, <1>5, <1>6

\* A descriptor that is closed leaves nothing behind.
LEMMA CloseKeepsFiles ==
    ASSUME FileInv, NEW fd \in Fds, CloseFile(fd)
    PROVE  FileInv'
<1> USE LoopAssumption DEF FileInv
<1>1. /\ fd \in 0 .. setsize - 1 /\ fd < setsize /\ events[fd].mask # {}
      /\ backend' = backend /\ setsize' = setsize /\ ForgetEvents(fd, Directions)
      /\ interest' = [interest EXCEPT ![fd] = {}]
  BY DEF CloseFile, Fds, FileTypes
<1>2. /\ events' \in [0 .. setsize - 1 -> EventRecord] /\ MaxfdExact'
      /\ \A f \in 0 .. setsize - 1 :
             events'[f].mask = IF f = fd THEN events[fd].mask \ Directions ELSE events[f].mask
  BY <1>1, ForgetKeepsMaxfd
<1>3. events[fd].mask \ Directions = {}
  BY <1>1 DEF FileTypes, EventRecord
<1>4. FileTypes'
  BY <1>1, <1>2 DEF FileTypes
<1>5. InterestExact'
  <2>1. SUFFICES ASSUME NEW f \in Fds
                 PROVE  interest'[f] = IF f < setsize' THEN events'[f].mask ELSE {}
    BY DEF InterestExact
  <2>2. f \in Nat /\ interest[f] = IF f < setsize THEN events[f].mask ELSE {}
    BY DEF InterestExact, Fds
  <2>3. f < setsize => f \in 0 .. setsize - 1
    BY <2>2 DEF FileTypes
  <2>4. CASE f = fd
    BY <1>1, <1>2, <1>3, <2>4 DEF FileTypes
  <2>5. CASE f # fd
    BY <1>1, <1>2, <1>3, <2>2, <2>3, <2>5 DEF FileTypes
  <2> QED
    BY <2>4, <2>5
<1> QED
  BY <1>2, <1>4, <1>5

\* A resize drops no registration: it is refused below maxfd.
LEMMA ResizeKeepsFiles ==
    ASSUME FileInv, NEW size \in 1 .. MaxSet, aeResizeSetSize(size)
    PROVE  FileInv'
<1> USE LoopAssumption DEF FileInv
<1>1. /\ backend' = backend /\ setsize' = size /\ maxfd' = maxfd /\ interest' = interest
      /\ maxfd < size /\ maxfd \in -1 .. setsize - 1 /\ DOMAIN events = 0 .. setsize - 1
      /\ \A f \in InUse(events) : f <= maxfd
  BY MaxfdBounds DEF aeResizeSetSize, FileTypes
<1>2. events' = [f \in 0 .. size - 1 |->
           IF f <= maxfd THEN events[f]
           ELSE [mask |-> {}, rproc |-> "none", wproc |-> "none"]]
  BY DEF aeResizeSetSize
<1>3. \A f \in 0 .. size - 1 : f <= maxfd => f \in 0 .. setsize - 1
  BY <1>1 DEF FileTypes
<1>4. events' \in [0 .. size - 1 -> EventRecord]
  <2>1. [mask |-> {}, rproc |-> "none", wproc |-> "none"] \in EventRecord
    BY DEF EventRecord
  <2> QED
    BY <1>2, <1>3, <2>1 DEF FileTypes
<1>5. \A f \in InUse(events) : f \in 0 .. size - 1 /\ f <= maxfd
  BY <1>1 DEF InUse, FileTypes
<1>6. InUse(events') = InUse(events)
  <2>1. \A f \in 0 .. size - 1 : events'[f].mask # {} => f <= maxfd /\ events'[f] = events[f]
    BY <1>2
  <2>2. \A f \in InUse(events) : f \in 0 .. size - 1 /\ events'[f] = events[f]
    BY <1>2, <1>5
  <2> QED
    BY <1>1, <1>2, <1>3, <2>1, <2>2 DEF InUse
<1>7. FileTypes'
  BY <1>1, <1>4 DEF FileTypes
<1>8. MaxfdExact'
  BY <1>1, <1>6 DEF MaxfdExact
<1>9. InterestExact'
  <2>1. SUFFICES ASSUME NEW f \in Fds
                 PROVE  interest'[f] = IF f < setsize' THEN events'[f].mask ELSE {}
    BY DEF InterestExact
  <2>2. f \in Nat /\ interest'[f] = IF f < setsize THEN events[f].mask ELSE {}
    BY <1>1 DEF InterestExact, Fds
  <2>3. CASE f <= maxfd
    BY <1>1, <1>2, <2>2, <2>3 DEF FileTypes
  <2>4. CASE ~(f <= maxfd)
    <3>1. interest'[f] = {}
      <4>1. f \notin InUse(events)
        BY <1>1, <2>4
      <4> QED
        BY <1>1, <2>2, <4>1 DEF InUse, FileTypes
    <3>2. f < size => events'[f].mask = {}
      BY <1>2, <2>2, <2>4
    <3> QED
      BY <1>1, <3>1, <3>2
  <2> QED
    BY <2>3, <2>4
<1> QED
  BY <1>7, <1>8, <1>9

\* Every step keeps the loop, its maxfd and the kernel in agreement.
LEMMA FilesKept ==
    ASSUME FileInv, [Next]_vars
    PROVE  FileInv'
<1>1. ASSUME UNCHANGED <<backend, fileVars>> PROVE FileInv'
  BY <1>1 DEF FileInv, FileTypes, MaxfdExact, InterestExact, fileVars
<1>2. CASE Call
  <2>1. ASSUME NEW fd \in Fds, NEW m \in (SUBSET Directions) \ {{}}, NEW p \in Procs,
               aeCreateFileEvent(fd, m, p)
        PROVE  FileInv'
    <3>1. m \in SUBSET Directions
      OBVIOUS
    <3>2. m # {}
      <4>1. \A x : x = {} => x \in {{}}
        BY Zenon
      <4>2. m \notin {{}}
        OBVIOUS
      <4> QED
        BY <4>1, <4>2, Zenon
    <3> QED
      BY <2>1, <3>1, <3>2, CreateKeepsFiles
  <2>2. ASSUME NEW fd \in Fds, NEW m \in (SUBSET Directions) \ {{}}, aeDeleteFileEvent(fd, m)
        PROVE  FileInv'
    BY <2>2, DeleteKeepsFiles
  <2>3. ASSUME NEW fd \in Fds, CloseFile(fd) PROVE FileInv'
    BY <2>3, CloseKeepsFiles
  <2>4. ASSUME NEW size \in 1 .. MaxSet, aeResizeSetSize(size) PROVE FileInv'
    BY <2>4, ResizeKeepsFiles
  <2>5. ASSUME NEW d \in Delays, aeCreateTimeEvent(d) PROVE FileInv'
    BY <2>5, <1>1 DEF aeCreateTimeEvent
  <2>6. ASSUME NEW n \in DOMAIN timers, aeDeleteTimeEvent(n) PROVE FileInv'
    BY <2>6, <1>1 DEF aeDeleteTimeEvent
  <2>7. CASE aeStop
    BY <2>7, <1>1 DEF aeStop
  <2> QED
    BY <1>2, <2>1, <2>2, <2>3, <2>4, <2>5, <2>6, <2>7 DEF Call
<1>3. CASE Dispatch
  BY <1>1, <1>3 DEF Dispatch, TakeEntry, ReadHalf, WriteHalf, FileReturns
<1>4. CASE ProcessTimers
  BY <1>1, <1>4 DEF ProcessTimers, BeginTimers, RemoveTimer, SkipTimer, CallTimer,
     TimerReturns, EndTimers
<1>5. CASE Main
  BY <1>1, <1>5 DEF Main, StartMain, LeaveMain, Sleep, aeApiPoll
<1>6. CASE Tick \/ SetClock
  BY <1>1, <1>6 DEF Tick, SetClock
<1>7. CASE UNCHANGED vars
  BY <1>1, <1>7 DEF vars
<1> QED
  BY <1>2, <1>3, <1>4, <1>5, <1>6, <1>7 DEF Next

\* The loop starts with nothing registered.
LEMMA FilesAtStart == Init => FileInv
<1> SUFFICES ASSUME Init PROVE FileInv
  OBVIOUS
<1> USE LoopAssumption
<1>1. FileTypes
  BY DEF Init, FileTypes, EventRecord, Fds
<1>2. InterestExact
  BY DEF Init, InterestExact, Fds
<1>3. InUse(events) = {}
  BY DEF Init, InUse, Fds
<1>4. MaxfdExact
  BY <1>3 DEF Init, MaxfdExact, MaxOf
<1> QED
  BY <1>1, <1>2, <1>4 DEF FileInv

\* Nothing the program registers, deletes, recycles or resizes parts the loop from
\* the kernel (ae.c:132-168).
THEOREM FilesAgree == Spec => []FileInv
BY FilesAtStart, FilesKept, PTL DEF Spec

\* aeResizeSetSize relies on maxfd (ae.c:107): it is exact in every reachable state.
THEOREM MaxfdCorrect == Spec => []MaxfdExact
<1>1. FileInv => MaxfdExact
  BY DEF FileInv
<1> QED
  BY <1>1, FilesAgree, PTL

\* epoll and kqueue watch exactly what the loop's masks say.
THEOREM InterestCorrect == Spec => []InterestExact
<1>1. FileInv => InterestExact
  BY DEF FileInv
<1> QED
  BY <1>1, FilesAgree, PTL

\* aeApiAddEvent never asks the kernel to add what it has or to modify what it has
\* not (ae_epoll.c:76-79), so aeCreateFileEvent fails only for fd >= setsize.
THEOREM AddNeverRefused == Spec => [](\A fd \in Fds : fd < setsize => Accepts(fd))
<1>1. FileInv => \A fd \in Fds : fd < setsize => Accepts(fd)
  BY DEF FileInv, InterestExact, Accepts
<1> QED
  BY <1>1, FilesAgree, PTL

-----------------------------------------------------------------------------
(* The timers: the list, and the walk of processTimeEvents over it.        *)

\* x is the largest number below n in D, or 0 when there is none: the value of
\* Below(n), without the choice.
IsBelow(D, n, x) ==
    \/ x = 0 /\ \A k \in D : ~(k < n)
    \/ x \in D /\ x < n /\ \A k \in D : k < n => k <= x

\* The newest element of D below n.
BelowIn(D, n) == LET S == {k \in D : k < n}
                 IN  IF S = {} THEN 0 ELSE CHOOSE x \in S : \A y \in S : y <= x

\* The choice finds it.
LEMMA BelowFinds ==
    ASSUME NEW c \in Nat, NEW D \in SUBSET (1 .. c), NEW n \in Nat
    PROVE  \A x : BelowIn(D, n) = x <=> IsBelow(D, n, x)
<1> DEFINE S == {k \in D : k < n}
<1>1. CASE S = {}
  <2>1. BelowIn(D, n) = 0
    BY <1>1, Zenon DEF BelowIn
  <2>2. \A k \in D : ~(k < n)
    BY <1>1
  <2> QED
    BY <2>1, <2>2, Zenon DEF IsBelow
<1>2. CASE S # {}
  <2> DEFINE m == CHOOSE x \in S : \A y \in S : y <= x
  <2>1. S \in SUBSET (0 .. c)
    <3>1. \A k \in D : k \in 0 .. c
      OBVIOUS
    <3> QED
      BY <3>1
  <2>2. \E x \in S : \A y \in S : y <= x
    BY <1>2, <2>1, LargestExists
  <2>3. m \in S /\ \A y \in S : y <= m
    BY <2>2, Zenon
  <2>4. BelowIn(D, n) = m
    BY <1>2, Zenon DEF BelowIn
  <2>5. IsBelow(D, n, m)
    BY <2>3, Zenon DEF IsBelow
  <2>6. ASSUME NEW x, IsBelow(D, n, x) PROVE x = m
    <3> HIDE DEF m
    <3>1. m \in D /\ m < n /\ \A k \in D : k < n => k <= m
      BY <2>3
    <3>2. x \in D /\ x < n /\ \A k \in D : k < n => k <= x
      BY <2>6, <3>1, Zenon DEF IsBelow
    <3>3. x <= m /\ m <= x /\ x \in Nat /\ m \in Nat
      BY <3>1, <3>2
    <3> QED
      BY <3>3
  <2> QED
    BY <2>4, <2>5, <2>6, Zenon
<1> QED
  BY <1>1, <1>2

ClockTypes == now \in Nat /\ lastTime \in Nat

TimerTypes ==
    /\ created \in Nat
    /\ DOMAIN timers \subseteq 1 .. created
    /\ timers \in [DOMAIN timers -> TimerNode]

\* The list, without the choice in Below.
Linked ==
    /\ IsBelow(DOMAIN timers, created + 1, head)
    /\ \A n \in DOMAIN timers : IsBelow(DOMAIN timers, n, timers[n].next)

\* Where a callback can run, and what the walk has seen.
Control ==
    /\ cb \in {"none", "file", "time"}
    /\ cb = "time" => phase = "timers" /\ te # 0
    /\ cb = "file" => half # "none"
    /\ half # "none" => phase = "files"
    /\ phase = "timers" => maxId \in Nat /\ maxId <= created

TimerInv == ClockTypes /\ TimerTypes /\ Linked /\ Control /\ WalkSafe /\ CheckUseless

\* The list of the invariant is the list of the property.
LEMMA LinkedIsTimersLinked ==
    ASSUME TimerTypes
    PROVE  Linked <=> TimersLinked
<1>1. created \in Nat /\ DOMAIN timers \in SUBSET (1 .. created) /\ created + 1 \in Nat
      /\ \A n \in DOMAIN timers : n \in Nat
  BY DEF TimerTypes
<1>2. \A n : Below(n) = BelowIn(DOMAIN timers, n)
  BY Zenon DEF Below, BelowIn
<1>3. \A n \in Nat : \A x : BelowIn(DOMAIN timers, n) = x <=> IsBelow(DOMAIN timers, n, x)
  BY <1>1, BelowFinds, Zenon
<1>4. head = Below(created + 1) <=> IsBelow(DOMAIN timers, created + 1, head)
  BY <1>1, <1>2, <1>3, Zenon
<1>5. \A n \in DOMAIN timers :
          timers[n].next = Below(n) <=> IsBelow(DOMAIN timers, n, timers[n].next)
  BY <1>1, <1>2, <1>3, Zenon
<1> QED
  BY <1>4, <1>5, Zenon DEF Linked, TimersLinked

\* Types of the parts of a timer.
LEMMA TimerParts ==
    ASSUME TimerTypes, NEW n \in DOMAIN timers
    PROVE  /\ timers[n].next \in Nat /\ timers[n].live \in BOOLEAN
           /\ n \in Nat /\ n # 0 /\ n <= created
  BY DEF TimerTypes, TimerNode

\* Changing the fields of a timer other than next, the list stays as it is.
LEMMA SameLinks ==
    ASSUME TimerTypes, Linked, head' = head, created' = created,
           timers' \in [DOMAIN timers -> TimerNode],
           \A n \in DOMAIN timers : timers'[n].next = timers[n].next
    PROVE  TimerTypes' /\ Linked' /\ DOMAIN timers' = DOMAIN timers
<1>1. DOMAIN timers' = DOMAIN timers
  OBVIOUS
<1>2. TimerTypes'
  BY <1>1 DEF TimerTypes
<1>3. Linked'
  BY <1>1 DEF Linked
<1> QED
  BY <1>1, <1>2, <1>3

\* A new timer becomes the head of the list.
LEMMA InsertKeepsList ==
    ASSUME TimerTypes, Linked, created' = created + 1,
           NEW node \in TimerNode, node.next = head, InsertTimer(node)
    PROVE  /\ TimerTypes' /\ Linked'
           /\ DOMAIN timers' = DOMAIN timers \cup {created + 1}
           /\ \A n \in DOMAIN timers : timers'[n] = timers[n]
<1>1. /\ timers' = [n \in DOMAIN timers \cup {created + 1} |->
             IF n = created + 1 THEN node ELSE timers[n]]
      /\ head' = created + 1
  BY DEF InsertTimer
<1>2. created \in Nat /\ \A n \in DOMAIN timers : n \in Nat /\ n <= created /\ n >= 1
  BY DEF TimerTypes
<1>3. DOMAIN timers' = DOMAIN timers \cup {created + 1}
  BY <1>1
<1>4. timers'[created + 1] = node /\ \A n \in DOMAIN timers : timers'[n] = timers[n]
  BY <1>1, <1>2
<1>5. TimerTypes'
  <2>1. timers' \in [DOMAIN timers' -> TimerNode]
    BY <1>1, <1>3 DEF TimerTypes
  <2>2. DOMAIN timers' \subseteq 1 .. created'
    BY <1>2, <1>3
  <2> QED
    BY <1>2, <2>1, <2>2 DEF TimerTypes
<1>6. IsBelow(DOMAIN timers', created' + 1, head')
  BY <1>1, <1>2, <1>3 DEF IsBelow
<1>7. IsBelow(DOMAIN timers', created + 1, head)
  BY <1>2, <1>3 DEF Linked, IsBelow
<1>8. \A n \in DOMAIN timers : IsBelow(DOMAIN timers', n, timers[n].next)
  BY <1>2, <1>3 DEF Linked, IsBelow
<1>9. Linked'
  BY <1>3, <1>4, <1>6, <1>7, <1>8 DEF Linked
<1> QED
  BY <1>3, <1>4, <1>5, <1>9

-----------------------------------------------------------------------------
(* The clock.                                                              *)

\* Seconds and milliseconds of a clock value.
LEMMA Divided ==
    ASSUME NEW t \in Nat
    PROVE  /\ Sec(t) \in Nat /\ Ms(t) \in 0 .. MsPerSec - 1
           /\ t = Sec(t) * MsPerSec + Ms(t)
  BY LoopAssumption, SMT DEF Sec, Ms

\* Seconds distribute over the product of Ticks.
LEMMA SecondsAdd ==
    ASSUME NEW a \in Nat, NEW b \in Nat, NEW c \in Nat
    PROVE  (a + b) * c = a * c + b * c /\ (a + b + 1) * c = a * c + b * c + c
           /\ a * c \in Nat
  BY SMT

\* The sum of two times, with and without a carry.
LEMMA TicksAdd ==
    ASSUME NEW a \in Nat, NEW b \in Nat, NEW x \in Nat, NEW y \in Nat, NEW c \in Nat
    PROVE  /\ (a * c + x) + (b * c + y) = (a + b) * c + (x + y)
           /\ (a * c + x) + (b * c + y) = (a + b + 1) * c + (x + y - c)
<1>1. (a * c + x) + (b * c + y) = (a + b) * c + (x + y)
  BY SMT
<1>2. (a * c + x) + (b * c + y) = (a + b + 1) * c + (x + y - c)
  BY SMT
<1> QED
  BY <1>1, <1>2, Zenon

\* aeAddMillisecondsToNow gives a time of the clock, d milliseconds from now.
LEMMA AddedTime ==
    ASSUME now \in Nat, NEW d \in Nat
    PROVE  aeAddMillisecondsToNow(d) \in Time /\ Ticks(aeAddMillisecondsToNow(d)) = now + d
<1> DEFINE w == aeAddMillisecondsToNow(d)
<1>0. MsPerSec \in Nat /\ MsPerSec > 0
  BY LoopAssumption
<1>1. /\ Sec(now) \in Nat /\ Ms(now) \in 0 .. MsPerSec - 1
      /\ now = Sec(now) * MsPerSec + Ms(now)
      /\ Sec(d) \in Nat /\ Ms(d) \in 0 .. MsPerSec - 1
      /\ d = Sec(d) * MsPerSec + Ms(d)
  BY Divided
<1>2. now + d = (Sec(now) + Sec(d)) * MsPerSec + (Ms(now) + Ms(d))
      /\ now + d = (Sec(now) + Sec(d) + 1) * MsPerSec + (Ms(now) + Ms(d) - MsPerSec)
  <2>1. Ms(now) \in Nat /\ Ms(d) \in Nat
    BY <1>0, <1>1
  <2>2. SUFFICES ASSUME NEW a \in Nat, NEW b \in Nat, NEW x \in Nat, NEW y \in Nat,
                        now = a * MsPerSec + x, d = b * MsPerSec + y
                 PROVE  /\ now + d = (a + b) * MsPerSec + (x + y)
                        /\ now + d = (a + b + 1) * MsPerSec + (x + y - MsPerSec)
    BY <1>1, <2>1
  <2>3. now + d = (a * MsPerSec + x) + (b * MsPerSec + y)
    BY <2>2
  <2> QED
    BY <1>0, <2>3, TicksAdd
<1>3. CASE Ms(now) + Ms(d) >= MsPerSec
  <2>1. w = [sec |-> Sec(now) + Sec(d) + 1, ms |-> Ms(now) + Ms(d) - MsPerSec]
    <3>1. /\ Sec(now) \in Nat /\ Sec(d) \in Nat /\ Ms(now) \in Nat /\ Ms(d) \in Nat
          /\ MsPerSec \in Nat
      BY <1>0, <1>1
    <3> QED
      BY <1>3, <3>1 DEF aeAddMillisecondsToNow
  <2>2. w.sec = Sec(now) + Sec(d) + 1 /\ w.ms = Ms(now) + Ms(d) - MsPerSec
    BY <2>1
  <2>3. w \in Time
    BY <1>0, <1>1, <1>3, <2>1 DEF Time
  <2>4. Ticks(w) = (Sec(now) + Sec(d) + 1) * MsPerSec + (Ms(now) + Ms(d) - MsPerSec)
    BY <2>2 DEF Ticks
  <2>5. Ticks(w) = now + d
    BY <1>2, <2>4, Zenon
  <2> QED
    BY <2>3, <2>5
<1>4. CASE ~(Ms(now) + Ms(d) >= MsPerSec)
  <2>1. w = [sec |-> Sec(now) + Sec(d), ms |-> Ms(now) + Ms(d)]
    BY <1>4 DEF aeAddMillisecondsToNow
  <2>2. w.sec = Sec(now) + Sec(d) /\ w.ms = Ms(now) + Ms(d)
    BY <2>1
  <2>3. w \in Time
    BY <1>0, <1>1, <1>4, <2>1 DEF Time
  <2>4. Ticks(w) = (Sec(now) + Sec(d)) * MsPerSec + (Ms(now) + Ms(d))
    BY <2>2 DEF Ticks
  <2>5. Ticks(w) = now + d
    BY <1>2, <2>4, Zenon
  <2> QED
    BY <2>3, <2>5
<1> QED
  BY <1>3, <1>4

\* Before orders times as their ticks.
LEMMA BeforeIsLess ==
    ASSUME NEW v \in Time, NEW w \in Time
    PROVE  Ticks(v) \in Nat /\ (Before(v, w) <=> Ticks(v) < Ticks(w))
<1>0. MsPerSec \in Nat /\ MsPerSec > 0
  BY LoopAssumption
<1>1. /\ v.sec \in Nat /\ v.ms \in 0 .. MsPerSec - 1
      /\ w.sec \in Nat /\ w.ms \in 0 .. MsPerSec - 1
  BY DEF Time
<1>2. ASSUME NEW a \in Nat, NEW b \in Nat, a < b
      PROVE  a * MsPerSec + MsPerSec <= b * MsPerSec /\ a * MsPerSec \in Nat /\ b * MsPerSec \in Nat
  <2>1. b - a - 1 \in Nat
    BY <1>2
  <2>2. ((b - a - 1) + a + 1) * MsPerSec = (b - a - 1) * MsPerSec + a * MsPerSec + MsPerSec
        /\ (b - a - 1) * MsPerSec \in Nat
    BY <1>0, <2>1, SecondsAdd
  <2>3. (b - a - 1) + a + 1 = b
    OBVIOUS
  <2>4. a * MsPerSec \in Nat /\ b * MsPerSec \in Nat
    BY <1>0, SecondsAdd
  <2>5. b * MsPerSec = (b - a - 1) * MsPerSec + a * MsPerSec + MsPerSec
    BY <2>2, <2>3
  <2> QED
    BY <1>0, <2>2, <2>4, <2>5
<1>3. v.sec * MsPerSec \in Nat /\ w.sec * MsPerSec \in Nat
  BY <1>0, <1>1, SecondsAdd
<1>4. Ticks(v) = v.sec * MsPerSec + v.ms /\ Ticks(w) = w.sec * MsPerSec + w.ms
  BY DEF Ticks
<1>5. CASE v.sec < w.sec
  <2>1. v.sec * MsPerSec + MsPerSec <= w.sec * MsPerSec
    BY <1>1, <1>2, <1>5
  <2>2. Before(v, w)
    BY <1>5 DEF Before
  <2> QED
    BY <1>0, <1>1, <1>3, <1>4, <2>1, <2>2
<1>6. CASE w.sec < v.sec
  <2>1. w.sec * MsPerSec + MsPerSec <= v.sec * MsPerSec
    BY <1>1, <1>2, <1>6
  <2>2. ~Before(v, w)
    BY <1>1, <1>6 DEF Before
  <2> QED
    BY <1>0, <1>1, <1>3, <1>4, <2>1, <2>2
<1>7. CASE v.sec = w.sec
  <2>1. Before(v, w) <=> v.ms < w.ms
    BY <1>1, <1>7 DEF Before
  <2>2. Ticks(v) \in Nat
    BY <1>1, <1>3, <1>4
  <2>3. v.sec * MsPerSec = w.sec * MsPerSec
    BY <1>7
  <2> QED
    BY <1>1, <1>3, <1>4, <2>1, <2>2, <2>3
<1> QED
  BY <1>1, <1>5, <1>6, <1>7

-----------------------------------------------------------------------------
(* The walk.                                                               *)

\* Unlinking the timer under the walk, behind prev or at the head.
LEMMA RemoveKeepsList ==
    ASSUME TimerInv, RemoveTimer
    PROVE  /\ TimerTypes' /\ Linked'
           /\ te' \in Nat /\ te' <= te
           /\ te' # 0 => te' \in DOMAIN timers'
           /\ prev # 0 => prev \in DOMAIN timers' /\ timers'[prev].next = te'
           /\ prev = 0 => te' = head'
<1> USE DEF TimerInv
<1>1. /\ te \in DOMAIN timers /\ phase = "timers" /\ created' = created
      /\ prev # 0 => prev \in DOMAIN timers /\ timers[prev].next = te
      /\ prev = 0 => te = head
  BY DEF RemoveTimer, AtTimer, WalkSafe
<1>2. /\ head' = IF prev = 0 THEN timers[te].next ELSE head
      /\ timers' = [n \in (DOMAIN timers) \ {te} |->
             IF n = prev THEN [timers[n] EXCEPT !.next = timers[te].next] ELSE timers[n]]
      /\ te' = timers[te].next
  BY DEF RemoveTimer
<1>3. /\ created \in Nat
      /\ \A n \in DOMAIN timers : n \in Nat /\ n # 0 /\ n <= created /\ timers[n].next \in Nat
  BY TimerParts DEF TimerTypes
<1>4. DOMAIN timers' = (DOMAIN timers) \ {te}
  BY <1>2
<1>5. \A n \in DOMAIN timers' :
          timers'[n].next = IF n = prev THEN timers[te].next ELSE timers[n].next
  BY <1>2, <1>4 DEF TimerTypes, TimerNode
<1>6. TimerTypes'
  <2>1. timers' \in [DOMAIN timers' -> TimerNode]
    BY <1>1, <1>2, <1>3, <1>4 DEF TimerTypes, TimerNode
  <2>2. DOMAIN timers' \subseteq 1 .. created'
    BY <1>1, <1>4 DEF TimerTypes
  <2> QED
    BY <1>1, <2>1, <2>2 DEF TimerTypes
<1>7. IsBelow(DOMAIN timers, te, timers[te].next)
  BY <1>1 DEF Linked
<1>8. IsBelow(DOMAIN timers', te, timers[te].next)
  BY <1>1, <1>3, <1>4, <1>7 DEF IsBelow
<1>9. \A n \in Nat : IsBelow(DOMAIN timers, n, te) => IsBelow(DOMAIN timers', n, timers[te].next)
  <2>1. SUFFICES ASSUME NEW n \in Nat, IsBelow(DOMAIN timers, n, te)
                 PROVE  IsBelow(DOMAIN timers', n, timers[te].next)
    OBVIOUS
  <2>2. te < n /\ \A k \in DOMAIN timers : k < n => k <= te
    BY <1>1, <1>3, <2>1 DEF IsBelow
  <2>3. \A k \in DOMAIN timers' : k < n <=> k < te
    BY <1>1, <1>3, <1>4, <2>2
  <2> QED
    BY <1>1, <1>3, <1>8, <2>2, <2>3 DEF IsBelow
<1>10. \A n \in Nat : \A x : IsBelow(DOMAIN timers, n, x) /\ x # te => IsBelow(DOMAIN timers', n, x)
  BY <1>4 DEF IsBelow
<1>11. IsBelow(DOMAIN timers', created' + 1, head')
  <2>1. IsBelow(DOMAIN timers, created + 1, head) /\ created + 1 \in Nat
    BY <1>3 DEF Linked
  <2>2. CASE prev = 0
    BY <1>1, <1>2, <1>9, <2>1, <2>2
  <2>3. CASE prev # 0
    <3>1. head # te
      BY <1>1, <1>3, <2>1, <2>3 DEF Linked, IsBelow
    <3> QED
      BY <1>1, <1>2, <1>10, <2>1, <2>3, <3>1
  <2> QED
    BY <2>2, <2>3
<1>12. ASSUME NEW n \in DOMAIN timers' PROVE IsBelow(DOMAIN timers', n, timers'[n].next)
  <2>1. n \in DOMAIN timers /\ n # te /\ IsBelow(DOMAIN timers, n, timers[n].next) /\ n \in Nat
    BY <1>3, <1>4, <1>12 DEF Linked
  <2>2. CASE n = prev
    BY <1>1, <1>3, <1>5, <1>9, <2>1, <2>2
  <2>3. CASE n # prev
    <3>1. timers'[n].next = timers[n].next
      BY <1>5, <2>3
    <3>2. timers[n].next # te
      <4>1. CASE prev = 0
        <5>1. IsBelow(DOMAIN timers, created + 1, te)
          BY <1>1, <4>1 DEF Linked
        <5>2. n <= te
          BY <1>1, <1>3, <2>1, <5>1 DEF IsBelow
        <5> QED
          BY <1>1, <1>3, <2>1, <5>2 DEF IsBelow
      <4>2. CASE prev # 0
        <5>1. IsBelow(DOMAIN timers, prev, te) /\ prev \in Nat
          BY <1>1, <1>3, <4>2 DEF Linked
        <5>2. te < prev /\ (n < prev => n <= te)
          BY <1>1, <1>3, <2>1, <5>1 DEF IsBelow
        <5>3. CASE n < prev
          BY <1>1, <1>3, <2>1, <5>2, <5>3 DEF IsBelow
        <5>4. CASE prev < n
          BY <1>1, <1>3, <2>1, <4>2, <5>2, <5>4 DEF IsBelow
        <5> QED
          BY <2>1, <2>3, <5>1, <5>3, <5>4
      <4> QED
        BY <4>1, <4>2
    <3> QED
      BY <1>10, <2>1, <3>1, <3>2
  <2> QED
    BY <2>2, <2>3
<1>13. Linked'
  BY <1>11, <1>12 DEF Linked
<1>14. te' \in Nat /\ te' <= te /\ (te' # 0 => te' \in DOMAIN timers')
  BY <1>1, <1>2, <1>3, <1>4, <1>7 DEF IsBelow
<1>15. prev # 0 => prev \in DOMAIN timers' /\ timers'[prev].next = te'
  <2>1. ASSUME prev # 0 PROVE prev # te
    BY <1>1, <1>3, <2>1 DEF Linked, IsBelow
  <2> QED
    BY <1>1, <1>2, <1>4, <1>5, <2>1
<1>16. prev = 0 => te' = head'
  BY <1>2
<1> QED
  BY <1>6, <1>13, <1>14, <1>15, <1>16

\* Moving on, the walk takes the timer it leaves as prev: it has met none newer than
\* maxId.
LEMMA AdvanceSafe ==
    ASSUME TimerInv, phase = "timers", te # 0, Advance,
           UNCHANGED <<phase, maxId>>,
           DOMAIN timers' = DOMAIN timers,
           \A n \in DOMAIN timers : timers'[n].next = timers[n].next
    PROVE  WalkSafe' /\ CheckUseless'
<1> USE DEF TimerInv
<1>1. te \in DOMAIN timers /\ te <= maxId /\ maxId \in Nat
  BY DEF WalkSafe, CheckUseless, Control
<1>2. te \in Nat /\ te # 0 /\ timers[te].next \in Nat
  BY <1>1, TimerParts
<1>3. te' = timers[te].next /\ prev' = te
  BY <1>1, <1>2 DEF Advance
<1>4. IsBelow(DOMAIN timers, te, timers[te].next)
  BY <1>1 DEF Linked
<1>5. WalkSafe'
  BY <1>1, <1>2, <1>3, <1>4 DEF WalkSafe, IsBelow
<1>6. CheckUseless'
  BY <1>1, <1>2, <1>3, <1>4 DEF CheckUseless, IsBelow
<1> QED
  BY <1>5, <1>6

\* A step that leaves the timers alone and is not on the walk, or leaves the walk
\* alone too, keeps the invariant when it keeps the control facts.
LEMMA ListUntouched ==
    ASSUME TimerInv, UNCHANGED timerVars, ClockTypes', Control',
           \/ phase' # "timers"
           \/ UNCHANGED <<phase, te, prev, maxId>> /\ (cb' = "none" => cb = "none")
    PROVE  TimerInv'
  BY DEF TimerInv, TimerTypes, Linked, WalkSafe, CheckUseless, timerVars

\* A timer created or deleted by a callback, before or on the walk.
LEMMA TimerCallsKept ==
    ASSUME TimerInv,
           \/ \E d \in Delays : aeCreateTimeEvent(d)
           \/ \E n \in DOMAIN timers : aeDeleteTimeEvent(n)
    PROVE  TimerInv'
<1> USE LoopAssumption DEF TimerInv
<1>1. ASSUME NEW d \in Delays, aeCreateTimeEvent(d) PROVE TimerInv'
  <2> DEFINE node == [live |-> TRUE, when |-> aeAddMillisecondsToNow(d), next |-> head]
  <2>1. /\ created' = created + 1 /\ InsertTimer(node) /\ Calling
        /\ UNCHANGED <<clockVars, control>>
    BY <1>1, Zenon DEF aeCreateTimeEvent
  <2>2. created \in Nat /\ head \in Nat
    BY DEF TimerTypes, Linked, IsBelow
  <2>3. node \in TimerNode /\ node.next = head
    <3>1. aeAddMillisecondsToNow(d) \in Time
      BY AddedTime DEF ClockTypes
    <3> HIDE DEF Time
    <3> QED
      BY <2>2, <3>1 DEF TimerNode
  <2>4. /\ TimerTypes' /\ Linked'
        /\ DOMAIN timers' = DOMAIN timers \cup {created + 1}
        /\ \A n \in DOMAIN timers : timers'[n] = timers[n]
    <3> HIDE DEF node
    <3> QED
      BY <2>1, <2>3, InsertKeepsList
  <2>5. ClockTypes' /\ UNCHANGED <<phase, half, te, prev, maxId, cb>>
    BY <2>1 DEF ClockTypes, clockVars, control, fileLoop, timerLoop
  <2>6. Control'
    BY <2>1, <2>2, <2>5 DEF Control
  <2>7. phase = "timers" => cb # "none"
    BY <2>1 DEF Calling
  <2>8. WalkSafe'
    BY <2>4, <2>5, <2>7 DEF WalkSafe
  <2>9. CheckUseless'
    BY <2>5 DEF CheckUseless
  <2> QED
    BY <2>4, <2>5, <2>6, <2>8, <2>9
<1>2. ASSUME NEW n \in DOMAIN timers, aeDeleteTimeEvent(n) PROVE TimerInv'
  <2>1. /\ timers' = [timers EXCEPT ![n].live = FALSE]
        /\ UNCHANGED <<head, created, clockVars, control>>
    BY <1>2 DEF aeDeleteTimeEvent
  <2>2. timers' \in [DOMAIN timers -> TimerNode]
    BY <2>1 DEF TimerTypes, TimerNode
  <2>3. \A k \in DOMAIN timers : timers'[k].next = timers[k].next
    BY <2>1 DEF TimerTypes, TimerNode
  <2>4. TimerTypes' /\ Linked' /\ DOMAIN timers' = DOMAIN timers
    BY <2>1, <2>2, <2>3, SameLinks
  <2>5. ClockTypes' /\ UNCHANGED <<created, head, phase, half, te, prev, maxId, cb>>
    BY <2>1 DEF ClockTypes, clockVars, control, fileLoop, timerLoop
  <2>6. Control'
    BY <2>5 DEF Control
  <2>7. WalkSafe'
    BY <2>3, <2>4, <2>5 DEF WalkSafe
  <2>8. CheckUseless'
    BY <2>5 DEF CheckUseless
  <2> QED
    BY <2>4, <2>5, <2>6, <2>7, <2>8
<1> QED
  BY <1>1, <1>2

\* The steps of processTimeEvents.
LEMMA WalkKept ==
    ASSUME TimerInv, ProcessTimers
    PROVE  TimerInv'
<1> USE LoopAssumption DEF TimerInv
<1>1. CASE BeginTimers
  <2>1. /\ phase = "files" /\ phase' = "timers" /\ half = "none" /\ half' = half /\ cb' = cb
        /\ head' = head /\ created' = created /\ now' = now /\ lastTime' = Sec(now)
        /\ te' = head /\ prev' = 0 /\ maxId' = created
        /\ timers' = IF Sec(now) < lastTime THEN [n \in DOMAIN timers |-> [timers[n] EXCEPT !.when.sec = 0]]
                                            ELSE timers
    BY <1>1 DEF BeginTimers
  <2>2. timers' \in [DOMAIN timers -> TimerNode]
        /\ \A n \in DOMAIN timers : timers'[n].next = timers[n].next
    BY <2>1, SMTT(40) DEF TimerTypes, TimerNode, Time
  <2>3. TimerTypes' /\ Linked' /\ DOMAIN timers' = DOMAIN timers
    BY <2>1, <2>2, SameLinks
  <2>4. ClockTypes'
    BY <2>1, Divided DEF ClockTypes
  <2>5. Control'
    BY <2>1, <2>3 DEF Control, TimerTypes
  <2>6. IsBelow(DOMAIN timers, created + 1, head) /\ created \in Nat /\ DOMAIN timers \subseteq 1 .. created
    BY DEF Linked, TimerTypes
  <2>7. WalkSafe' /\ CheckUseless'
    BY <2>1, <2>3, <2>6 DEF WalkSafe, CheckUseless, IsBelow
  <2> QED
    BY <2>3, <2>4, <2>5, <2>7
<1>2. CASE RemoveTimer
  <2>1. /\ phase = "timers" /\ cb = "none" /\ cb' = cb /\ phase' = phase /\ half' = half
        /\ prev' = prev /\ maxId' = maxId /\ now' = now /\ lastTime' = lastTime
        /\ created' = created /\ te # 0
    BY <1>2 DEF RemoveTimer, AtTimer, clockVars, fileLoop
  <2>2. /\ TimerTypes' /\ Linked'
        /\ te' \in Nat /\ te' <= te
        /\ te' # 0 => te' \in DOMAIN timers'
        /\ prev # 0 => prev \in DOMAIN timers' /\ timers'[prev].next = te'
        /\ prev = 0 => te' = head'
    BY <1>2, RemoveKeepsList
  <2>3. ClockTypes' /\ Control'
    BY <2>1 DEF ClockTypes, Control
  <2>4. WalkSafe'
    BY <2>1, <2>2 DEF WalkSafe
  <2>5. te \in Nat /\ te <= maxId /\ maxId \in Nat
    BY <2>1, TimerParts DEF WalkSafe, CheckUseless, Control
  <2>6. CheckUseless'
    BY <2>1, <2>2, <2>5 DEF CheckUseless
  <2> QED
    BY <2>2, <2>3, <2>4, <2>6
<1>3. CASE SkipTimer
  <2>1. /\ phase = "timers" /\ te # 0 /\ cb = "none" /\ Advance
        /\ UNCHANGED <<timers, head, created, now, lastTime, phase, half, maxId, cb>>
    BY <1>3 DEF SkipTimer, AtTimer, timerVars, clockVars, fileLoop
  <2>2. WalkSafe' /\ CheckUseless'
    BY <2>1, AdvanceSafe
  <2>3. ClockTypes' /\ TimerTypes' /\ Linked'
    BY <2>1 DEF ClockTypes, TimerTypes, Linked
  <2>4. Control'
    BY <2>1 DEF Control
  <2> QED
    BY <2>2, <2>3, <2>4
<1>4. CASE CallTimer
  <2>1. /\ phase = "timers" /\ te # 0 /\ cb = "none" /\ cb' = "time"
        /\ UNCHANGED <<timerVars, clockVars, phase, half, te, prev, maxId>>
    BY <1>4 DEF CallTimer, AtTimer, fileLoop, timerLoop
  <2>2. ClockTypes' /\ Control'
    BY <2>1 DEF ClockTypes, Control, clockVars, timerVars
  <2> QED
    BY <2>1, <2>2, ListUntouched
<1>5. CASE TimerReturns
  <2>1. /\ cb = "time" /\ cb' = "none" /\ Advance /\ phase = "timers" /\ te # 0
        /\ UNCHANGED <<head, created, now, lastTime, phase, half, maxId>>
    BY <1>5 DEF TimerReturns, Control, clockVars, fileLoop
  <2>2. timers' \in [DOMAIN timers -> TimerNode]
        /\ \A n \in DOMAIN timers : timers'[n].next = timers[n].next
    <3>1. CASE timers' = [timers EXCEPT ![te].live = FALSE]
      BY <3>1 DEF TimerTypes, TimerNode
    <3>2. ASSUME NEW d \in Delays, timers' = [timers EXCEPT ![te].when = aeAddMillisecondsToNow(d)]
          PROVE  timers' \in [DOMAIN timers -> TimerNode]
                 /\ \A n \in DOMAIN timers : timers'[n].next = timers[n].next
      <4>1. aeAddMillisecondsToNow(d) \in Time
        BY AddedTime DEF ClockTypes
      <4> QED
        BY <3>2, <4>1 DEF TimerTypes, TimerNode
    <3> QED
      BY <1>5, <3>1, <3>2 DEF TimerReturns
  <2>3. TimerTypes' /\ Linked' /\ DOMAIN timers' = DOMAIN timers
    BY <2>1, <2>2, SameLinks
  <2>4. WalkSafe' /\ CheckUseless'
    BY <2>1, <2>2, <2>3, AdvanceSafe
  <2>5. ClockTypes' /\ Control'
    BY <2>1 DEF ClockTypes, Control
  <2> QED
    BY <2>3, <2>4, <2>5
<1>6. CASE EndTimers
  <2>1. /\ phase = "timers" /\ phase' = "main" /\ cb = "none"
        /\ UNCHANGED <<timerVars, clockVars, half, cb>>
    BY <1>6 DEF EndTimers, fileLoop
  <2>2. ClockTypes' /\ Control'
    BY <2>1 DEF ClockTypes, Control, clockVars
  <2> QED
    BY <2>1, <2>2, ListUntouched
<1> QED
  BY <1>1, <1>2, <1>3, <1>4, <1>5, <1>6 DEF ProcessTimers

\* Every step keeps the list linked and the walk on allocated timers.
LEMMA TimersKept ==
    ASSUME TimerInv, [Next]_vars
    PROVE  TimerInv'
<1> USE LoopAssumption
<1>1. ASSUME UNCHANGED <<timerVars, clockVars, control>> PROVE TimerInv'
  <2>1. ClockTypes' /\ Control'
    BY <1>1 DEF TimerInv, ClockTypes, Control, timerVars, clockVars, control, fileLoop, timerLoop
  <2> QED
    BY <1>1, <2>1, ListUntouched DEF control, timerLoop
<1>2. CASE Call
  <2>1. ASSUME NEW fd \in Fds, NEW m, NEW p, aeCreateFileEvent(fd, m, p) PROVE TimerInv'
    BY <1>1, <2>1 DEF aeCreateFileEvent
  <2>2. ASSUME NEW fd \in Fds, NEW m, aeDeleteFileEvent(fd, m) PROVE TimerInv'
    BY <1>1, <2>2 DEF aeDeleteFileEvent
  <2>3. ASSUME NEW fd \in Fds, CloseFile(fd) PROVE TimerInv'
    BY <1>1, <2>3 DEF CloseFile
  <2>4. ASSUME NEW size, aeResizeSetSize(size) PROVE TimerInv'
    BY <1>1, <2>4 DEF aeResizeSetSize
  <2>5. ASSUME \/ \E d \in Delays : aeCreateTimeEvent(d)
               \/ \E n \in DOMAIN timers : aeDeleteTimeEvent(n)
        PROVE  TimerInv'
    BY <2>5, TimerCallsKept
  <2>6. CASE aeStop
    BY <1>1, <2>6 DEF aeStop
  <2> QED
    BY <1>2, <2>1, <2>2, <2>3, <2>4, <2>5, <2>6 DEF Call
<1>3. CASE Dispatch
  <2>1. /\ UNCHANGED <<timerVars, clockVars, phase, te, prev, maxId>>
        /\ phase # "timers"
    BY <1>3 DEF Dispatch, TakeEntry, ReadHalf, WriteHalf, FileReturns, timerLoop, TimerInv, Control
  <2>2. Control'
    BY <1>3 DEF Dispatch, TakeEntry, ReadHalf, WriteHalf, FileReturns, timerLoop, timerVars,
       TimerInv, Control
  <2> QED
    BY <2>1, <2>2, ListUntouched DEF TimerInv, ClockTypes, clockVars
<1>4. CASE ProcessTimers
  BY <1>4, WalkKept
<1>5. CASE Main
  <2>1. UNCHANGED <<timerVars, clockVars>> /\ phase' # "timers"
    BY <1>5 DEF Main, StartMain, LeaveMain, Sleep, aeApiPoll
  <2>2. Control'
    BY <1>5 DEF Main, StartMain, LeaveMain, Sleep, aeApiPoll, fileLoop, timerLoop, TimerInv, Control
  <2> QED
    BY <2>1, <2>2, ListUntouched DEF TimerInv, ClockTypes, clockVars
<1>6. CASE Tick \/ SetClock
  <2>1. UNCHANGED <<timerVars, lastTime, phase, fileLoop, timerLoop, cb>>
    BY <1>6 DEF Tick, SetClock, control
  <2>2. now' \in Nat
    BY <1>6 DEF Tick, SetClock, TimerInv, ClockTypes
  <2>3. ClockTypes' /\ Control'
    BY <2>1, <2>2 DEF TimerInv, ClockTypes, Control, timerVars, fileLoop, timerLoop
  <2> QED
    BY <2>1, <2>3, ListUntouched DEF timerLoop
<1>7. CASE UNCHANGED vars
  BY <1>1, <1>7 DEF vars
<1> QED
  BY <1>2, <1>3, <1>4, <1>5, <1>6, <1>7 DEF Next

\* The loop starts with no timer.
LEMMA TimersAtStart == Init => TimerInv
<1> SUFFICES ASSUME Init PROVE TimerInv
  OBVIOUS
<1> USE LoopAssumption
<1>1. ClockTypes
  BY Divided DEF Init, ClockTypes
<1>2. timers = << >> /\ DOMAIN timers = {} /\ created = 0 /\ head = 0
  BY DEF Init
<1>3. TimerTypes
  BY <1>2 DEF TimerTypes
<1>4. Linked
  BY <1>2 DEF Linked, IsBelow
<1>5. Control /\ WalkSafe /\ CheckUseless
  BY DEF Init, Control, WalkSafe, CheckUseless
<1> QED
  BY <1>1, <1>3, <1>4, <1>5 DEF TimerInv

\* Callbacks may create and delete timers at any point of the walk.
THEOREM TimersSafe == Spec => []TimerInv
BY TimersAtStart, TimersKept, PTL DEF Spec

\* No timer is ever lost from the list (ae.c:202-230, 291-301).
THEOREM LinksCorrect == Spec => []TimersLinked
<1>1. TimerInv => TimersLinked
  BY LinkedIsTimersLinked DEF TimerInv
<1> QED
  BY <1>1, TimersSafe, PTL

\* The walk never stands on a timer that was freed.
THEOREM WalkCorrect == Spec => []WalkSafe
<1>1. TimerInv => WalkSafe
  BY DEF TimerInv
<1> QED
  BY <1>1, TimersSafe, PTL

\* The check that the comment calls useless (ae.c:303-310) is useless.
THEOREM CheckIsUseless == Spec => []CheckUseless
<1>1. TimerInv => CheckUseless
  BY DEF TimerInv
<1> QED
  BY <1>1, TimersSafe, PTL

-----------------------------------------------------------------------------
(* The sleep, and the types of all variables.                              *)

\* aeSearchNearestTimer finds a timer that no other is due before.
LEMMA NearestIsFirst ==
    ASSUME TimerTypes, DOMAIN timers # {}
    PROVE  /\ Nearest \in DOMAIN timers
           /\ \A n \in DOMAIN timers : Ticks(timers[Nearest].when) <= Ticks(timers[n].when)
<1> DEFINE T == {Ticks(timers[n].when) : n \in DOMAIN timers}
<1>1. \A n \in DOMAIN timers : timers[n].when \in Time
  BY DEF TimerTypes, TimerNode
<1>2. \A n \in DOMAIN timers : Ticks(timers[n].when) \in Nat
  BY <1>1, BeforeIsLess
<1>3. T \subseteq Nat /\ T # {}
  BY <1>2
<1>4. IsWellFoundedOn(OpToRel(<, Nat), Nat)
  BY NatLessThanWellFounded
<1>5. PICK t \in T : \A u \in T : ~(<<u, t>> \in OpToRel(<, Nat))
  BY <1>3, <1>4, WFMin
<1>6. \A u \in T : ~(u < t)
  BY <1>3, <1>5 DEF OpToRel
<1>7. PICK n \in DOMAIN timers : t = Ticks(timers[n].when)
  OBVIOUS
<1>8. \A k \in DOMAIN timers : ~Before(timers[k].when, timers[n].when)
  <2>1. SUFFICES ASSUME NEW k \in DOMAIN timers
                 PROVE  ~Before(timers[k].when, timers[n].when)
    OBVIOUS
  <2>2. ~(Ticks(timers[k].when) < Ticks(timers[n].when))
    BY <1>6, <1>7
  <2> QED
    BY <1>1, <2>2, BeforeIsLess
<1>9. Nearest \in DOMAIN timers /\ \A k \in DOMAIN timers : ~Before(timers[k].when, timers[Nearest].when)
  <2>1. \E x \in DOMAIN timers : \A k \in DOMAIN timers : ~Before(timers[k].when, timers[x].when)
    BY <1>8, Zenon
  <2> QED
    BY <2>1, Zenon DEF Nearest
<1>10. ASSUME NEW k \in DOMAIN timers
       PROVE  Ticks(timers[Nearest].when) <= Ticks(timers[k].when)
  <2>1. ~(Ticks(timers[k].when) < Ticks(timers[Nearest].when))
    BY <1>1, <1>9, BeforeIsLess
  <2>2. Ticks(timers[k].when) \in Nat /\ Ticks(timers[Nearest].when) \in Nat
    BY <1>2, <1>9
  <2> QED
    BY <2>1, <2>2
<1> QED
  BY <1>9, <1>10

\* The milliseconds aeProcessEvents computes are the ticks until that timer.
LEMMA TimeoutExact ==
    ASSUME ClockTypes, TimerTypes
    PROVE  /\ Timeout \in Nat \cup {Forever}
           /\ \A n \in DOMAIN timers :
                  Timeout \in Nat /\ (Timeout = 0 \/ now + Timeout <= Ticks(timers[n].when))
<1>1. CASE timers = << >>
  <2>1. DOMAIN timers = {}
    BY <1>1
  <2> QED
    BY <1>1, <2>1 DEF Timeout
<1>2. CASE timers # << >>
  <2>1. DOMAIN timers # {}
    BY <1>2 DEF TimerTypes
  <2> DEFINE w == timers[Nearest].when
             ms == (w.sec - Sec(now)) * MsPerSec + w.ms - Ms(now)
  <2>2. w \in Time /\ Nearest \in DOMAIN timers
    BY <2>1, NearestIsFirst DEF TimerTypes, TimerNode
  <2>3. ms = Ticks(w) - now
    <3> HIDE DEF w
    <3>0. MsPerSec \in Nat /\ now \in Nat
      BY LoopAssumption DEF ClockTypes
    <3>1. w.sec \in Nat /\ w.ms \in Nat
      BY <2>2, <3>0 DEF Time
    <3>4. Sec(now) \in Nat /\ Ms(now) \in 0 .. MsPerSec - 1
      BY <3>0, Divided
    <3>5. Ms(now) \in Nat
      BY <3>0, <3>4
    <3>6. now = Sec(now) * MsPerSec + Ms(now)
      BY <3>0, Divided
    <3>2. \A a, b, x, y, c \in Nat : (a - b) * c + x - y = (a * c + x) - (b * c + y)
      BY SMT
    <3>3. Ticks(w) = w.sec * MsPerSec + w.ms
      BY DEF Ticks
    <3> QED
      BY <3>0, <3>1, <3>2, <3>3, <3>4, <3>5, <3>6
  <2>4. Ticks(w) \in Nat /\ now \in Nat
    BY <2>2, BeforeIsLess DEF ClockTypes
  <2>5. Timeout = IF ms > 0 THEN ms ELSE 0
    BY <1>2, Zenon DEF Timeout
  <2>6. \A n \in DOMAIN timers : Ticks(w) <= Ticks(timers[n].when) /\ Ticks(timers[n].when) \in Nat
    BY <2>1, NearestIsFirst, BeforeIsLess DEF TimerTypes, TimerNode
  <2> HIDE DEF ms, w
  <2>7. Timeout \in Nat /\ (Timeout = 0 \/ now + Timeout = Ticks(w))
    BY <2>3, <2>4, <2>5
  <2> QED
    BY <2>4, <2>6, <2>7
<1> QED
  BY <1>1, <1>2

SleepInv == TimerInv /\ left \in Nat \cup {Forever} /\ NoOversleep

\* While the loop sleeps nothing is created, and a clock set back leaves it less to sleep.
LEMMA SleepKept ==
    ASSUME SleepInv, [Next]_vars
    PROVE  SleepInv'
<1> USE DEF SleepInv
<1>1. TimerInv'
  BY TimersKept
<1>2. ASSUME left' = left, phase' # "sleep" PROVE SleepInv'
  BY <1>1, <1>2 DEF NoOversleep
<1>3. ASSUME UNCHANGED <<timers, now, left, phase>> PROVE SleepInv'
  BY <1>1, <1>3 DEF NoOversleep
<1>4. phase = "sleep" => cb = "none" /\ half = "none"
  BY DEF TimerInv, Control
<1>5. CASE Call
  <2>1. phase # "sleep" /\ phase' = phase /\ left' = left
    BY <1>4, <1>5 DEF Call, Calling, aeCreateFileEvent, aeDeleteFileEvent, CloseFile,
       aeResizeSetSize, aeCreateTimeEvent, aeDeleteTimeEvent, aeStop, control
  <2> QED
    BY <1>2, <2>1
<1>6. CASE Dispatch
  <2>1. phase # "sleep" /\ phase' = phase /\ left' = left
    BY <1>6 DEF Dispatch, TakeEntry, ReadHalf, WriteHalf, FileReturns, TimerInv, Control
  <2> QED
    BY <1>2, <2>1
<1>7. CASE ProcessTimers
  <2>1. left' = left /\ phase' # "sleep"
    BY <1>7 DEF ProcessTimers, BeginTimers, RemoveTimer, SkipTimer, CallTimer, TimerReturns,
       EndTimers, AtTimer, TimerInv, Control
  <2> QED
    BY <1>2, <2>1
<1>8. CASE StartMain \/ LeaveMain
  <2>1. left' = left /\ phase' # "sleep"
    BY <1>8 DEF StartMain, LeaveMain
  <2> QED
    BY <1>2, <2>1
<1>9. CASE Sleep
  <2>1. left' = Timeout /\ timers' = timers /\ now' = now
    BY <1>9 DEF Sleep, timerVars, clockVars
  <2>2. /\ Timeout \in Nat \cup {Forever}
        /\ \A n \in DOMAIN timers :
               Timeout \in Nat /\ (Timeout = 0 \/ now + Timeout <= Ticks(timers[n].when))
    BY TimeoutExact DEF TimerInv
  <2>3. NoOversleep'
    BY <2>1, <2>2 DEF NoOversleep, Forever, Ticks
  <2> QED
    BY <1>1, <2>1, <2>2, <2>3
<1>10. CASE aeApiPoll
  BY <1>1, <1>10 DEF aeApiPoll, NoOversleep
<1>11. CASE Tick
  <2>1. /\ now' = now + 1 /\ timers' = timers /\ phase' = phase
        /\ left' = IF left > 0 THEN left - 1 ELSE left
    BY <1>11 DEF Tick, timerVars
  <2>2. now \in Nat
    BY DEF TimerInv, ClockTypes
  <2>3. left' \in Nat \cup {Forever}
    BY <2>1 DEF Forever
  <2>4. ASSUME phase' = "sleep", NEW n \in DOMAIN timers'
        PROVE  left' # Forever /\ (now' + left' <= Ticks(timers'[n].when) \/ left' = 0)
    <3>1. /\ left # Forever /\ (now + left <= Ticks(timers[n].when) \/ left = 0)
      BY <2>1, <2>4 DEF NoOversleep
    <3>2. Ticks(timers[n].when) \in Nat
      BY <2>1, <2>4, BeforeIsLess DEF TimerInv, TimerTypes, TimerNode
    <3>3. left \in Nat
      BY <3>1
    <3> QED
      BY <2>1, <2>2, <3>1, <3>2, <3>3 DEF Forever
  <2>5. NoOversleep'
    BY <2>4, Zenon DEF NoOversleep, Ticks
  <2> QED
    BY <1>1, <2>3, <2>5
<1>12. CASE SetClock
  <2>1. /\ now' \in Nat /\ now' <= now /\ timers' = timers /\ phase' = phase /\ left' = left
    BY <1>12, LoopAssumption DEF SetClock, timerVars, control, TimerInv, ClockTypes
  <2>2. now \in Nat
    BY DEF TimerInv, ClockTypes
  <2>3. ASSUME phase' = "sleep", NEW n \in DOMAIN timers'
        PROVE  left' # Forever /\ (now' + left' <= Ticks(timers'[n].when) \/ left' = 0)
    <3>1. /\ left # Forever /\ (now + left <= Ticks(timers[n].when) \/ left = 0)
      BY <2>1, <2>3 DEF NoOversleep
    <3>2. Ticks(timers[n].when) \in Nat
      BY <2>1, <2>3, BeforeIsLess DEF TimerInv, TimerTypes, TimerNode
    <3>3. left \in Nat
      BY <3>1
    <3> QED
      BY <2>1, <2>2, <3>1, <3>2, <3>3
  <2>4. NoOversleep'
    BY <2>3, Zenon DEF NoOversleep, Ticks
  <2> QED
    BY <1>1, <2>1, <2>4
<1>13. CASE UNCHANGED vars
  BY <1>3, <1>13 DEF vars, timerVars, clockVars, control
<1> QED
  BY <1>5, <1>6, <1>7, <1>8, <1>9, <1>10, <1>11, <1>12, <1>13 DEF Next, Main

\* The loop never sleeps past a timer (ae.c:367-389), whatever is done to the clock.
THEOREM SleepCorrect == Spec => []NoOversleep
<1>1. Init => SleepInv
  BY TimersAtStart DEF Init, SleepInv, NoOversleep
<1>2. SleepInv => NoOversleep
  BY DEF SleepInv
<1> QED
  BY <1>1, <1>2, SleepKept, PTL DEF Spec

RestTypes ==
    /\ phase \in {"outside", "main", "sleep", "files", "timers"}
    /\ fired \subseteq Entry /\ cur \in Entry
    /\ half \in {"none", "read", "write"} /\ rfired \in BOOLEAN
    /\ te \in Nat /\ prev \in Nat /\ maxId \in Nat
    /\ stop \in BOOLEAN
    /\ budget \in [file : Nat, timer : Nat, skew : Nat, until : Nat]

LoopInv == FileInv /\ SleepInv /\ RestTypes

\* The walk moves from number to number.
LEMMA WalkNumbers ==
    ASSUME TimerInv, te \in Nat, prev \in Nat, te # 0, phase = "timers"
    PROVE  timers[te].next \in Nat
  BY TimerParts DEF TimerInv, WalkSafe

\* A call spends a part of its budget.
LEMMA SpendTypes ==
    ASSUME budget \in [file : Nat, timer : Nat, skew : Nat, until : Nat],
           NEW kind \in {"file", "timer", "skew"}, Spend(kind)
    PROVE  budget' \in [file : Nat, timer : Nat, skew : Nat, until : Nat]
<1>1. budget[kind] \in Nat /\ budget[kind] > 0 /\ budget' = [budget EXCEPT ![kind] = @ - 1]
  BY DEF Spend
<1>2. budget[kind] - 1 \in Nat
  BY <1>1
<1> QED
  BY <1>1, <1>2

\* Every step keeps the ranges of the variables of the control.
LEMMA RestKept ==
    ASSUME SleepInv, RestTypes, [Next]_vars
    PROVE  RestTypes'
<1> USE DEF RestTypes, SleepInv
<1>1. CASE Call
  <2>1. UNCHANGED control
    BY <1>1 DEF Call, aeCreateFileEvent, aeDeleteFileEvent, CloseFile,
       aeResizeSetSize, aeCreateTimeEvent, aeDeleteTimeEvent, aeStop
  <2>2. stop' \in BOOLEAN
    BY <1>1 DEF Call, aeCreateFileEvent, aeDeleteFileEvent, CloseFile,
       aeResizeSetSize, aeCreateTimeEvent, aeDeleteTimeEvent, aeStop
  <2>3. budget' = budget \/ Spend("file") \/ Spend("timer")
    BY <1>1 DEF Call, aeCreateFileEvent, aeDeleteFileEvent, CloseFile,
       aeResizeSetSize, aeCreateTimeEvent, aeDeleteTimeEvent, aeStop
  <2>4. budget' \in [file : Nat, timer : Nat, skew : Nat, until : Nat]
    BY <2>3, SpendTypes
  <2> QED
    BY <2>1, <2>2, <2>4 DEF control, fileLoop, timerLoop
<1>2. CASE Dispatch
  <2>1. NoEntry \in Entry
    BY LoopAssumption DEF NoEntry, Entry, Fds
  <2>2. CASE TakeEntry
    BY <2>2 DEF TakeEntry, timerLoop
  <2>3. CASE ReadHalf
    BY <2>3 DEF ReadHalf, timerLoop
  <2>4. CASE WriteHalf
    BY <2>1, <2>4 DEF WriteHalf, timerLoop
  <2>5. CASE FileReturns
    BY <2>1, <2>5 DEF FileReturns, timerLoop
  <2> QED
    BY <1>2, <2>2, <2>3, <2>4, <2>5 DEF Dispatch
<1>3. CASE ProcessTimers
  <2>1. CASE BeginTimers
    <3>1. head \in Nat /\ created \in Nat
      BY DEF TimerInv, TimerTypes, Linked, IsBelow
    <3>2. te' = head /\ prev' = 0 /\ maxId' = created /\ phase' = "timers" /\ rfired' = FALSE
          /\ UNCHANGED <<fired, cur, half, stop, budget>>
      BY <2>1 DEF BeginTimers
    <3> QED
      BY <3>1, <3>2
  <2>2. CASE RemoveTimer
    BY <2>2, WalkNumbers DEF RemoveTimer, AtTimer, fileLoop
  <2>3. CASE SkipTimer
    BY <2>3, WalkNumbers DEF SkipTimer, AtTimer, Advance, fileLoop
  <2>4. CASE CallTimer
    BY <2>4 DEF CallTimer, fileLoop, timerLoop
  <2>5. CASE TimerReturns
    <3>1. phase = "timers" /\ te # 0
      BY <2>5 DEF TimerReturns, TimerInv, Control
    <3> QED
      BY <2>5, <3>1, WalkNumbers DEF TimerReturns, Advance, fileLoop
  <2>6. CASE EndTimers
    BY <2>6 DEF EndTimers, fileLoop
  <2> QED
    BY <1>3, <2>1, <2>2, <2>3, <2>4, <2>5, <2>6 DEF ProcessTimers
<1>4. CASE StartMain \/ LeaveMain \/ Sleep
  BY <1>4 DEF StartMain, LeaveMain, Sleep, fileLoop, timerLoop
<1>5. CASE aeApiPoll
  <2>1. fired' \subseteq Entry
    BY <1>5 DEF aeApiPoll, Reportable
  <2> QED
    BY <1>5, <2>1 DEF aeApiPoll, timerLoop
<1>6. CASE Tick
  BY <1>6 DEF Tick, fileLoop, timerLoop
<1>7. CASE SetClock
  <2>1. budget' \in [file : Nat, timer : Nat, skew : Nat, until : Nat]
    BY <1>7, SpendTypes DEF SetClock
  <2> QED
    BY <1>7, <2>1 DEF SetClock, control, fileLoop, timerLoop
<1>8. CASE UNCHANGED vars
  BY <1>8 DEF vars, control, fileLoop, timerLoop
<1> QED
  BY <1>1, <1>2, <1>3, <1>4, <1>5, <1>6, <1>7, <1>8 DEF Next, Main

\* Every variable stays in its range.
THEOREM TypesCorrect == Spec => []TypeOK
<1>1. Init => LoopInv
  <2>1. ASSUME Init PROVE RestTypes
    <3>1. NoEntry \in Entry
      BY LoopAssumption DEF NoEntry, Entry, Fds
    <3>2. budget \in [file : Nat, timer : Nat, skew : Nat, until : Nat]
      BY <2>1, LoopAssumption DEF Init
    <3> HIDE DEF NoEntry
    <3> QED
      BY <2>1, <3>1, <3>2 DEF Init, RestTypes
  <2>2. Init => SleepInv
    BY TimersAtStart DEF Init, SleepInv, NoOversleep
  <2> QED
    BY <2>1, <2>2, FilesAtStart DEF LoopInv
<1>2. LoopInv /\ [Next]_vars => LoopInv'
  BY FilesKept, SleepKept, RestKept DEF LoopInv
<1>3. LoopInv => TypeOK
  <2> SUFFICES ASSUME LoopInv PROVE TypeOK
    OBVIOUS
  <2>1. FileTypes /\ maxfd \in -1 .. setsize - 1
    BY MaxfdBounds DEF LoopInv, FileInv
  <2>2. TimerTypes /\ ClockTypes /\ left \in Nat \cup {Forever} /\ cb \in {"none", "file", "time"}
    BY DEF LoopInv, SleepInv, TimerInv, Control
  <2>3. head \in Nat
    BY DEF LoopInv, SleepInv, TimerInv, Linked, IsBelow, TimerTypes
  <2>4. RestTypes
    BY DEF LoopInv
  <2>5. events \in [0 .. setsize - 1 ->
           [mask : SUBSET Directions, rproc : Procs \cup {"none"}, wproc : Procs \cup {"none"}]]
    BY <2>1 DEF FileTypes, EventRecord
  <2> HIDE DEF EventRecord
  <2> QED
    BY <2>1, <2>2, <2>3, <2>4, <2>5, Zenon DEF TypeOK, FileTypes, TimerTypes, ClockTypes, RestTypes
<1> QED
  BY <1>1, <1>2, <1>3, PTL DEF Spec

=============================================================================
