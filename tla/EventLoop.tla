------------------------------ MODULE EventLoop ------------------------------
(***************************************************************************)
(* The event loop of src/lib/ae/ae.c over one of its two backends, epoll   *)
(* (ae_epoll.c) or kqueue (ae_kqueue.c), with several descriptors and      *)
(* several timers.  A callback is any sequence of calls of the API, made   *)
(* one at a time while the loop waits in the middle of its iteration; only *)
(* a file callback does not call aeResizeSetSize.                          *)
(*                                                                         *)
(* A timer is named by its creation number: its id is the number minus one *)
(* as long as it is live, and AE_DELETED_EVENT_ID afterwards.              *)
(***************************************************************************)
EXTENDS Integers, FiniteSets

CONSTANTS
    MaxSet,     \* the largest setsize, and the number of descriptors
    Procs,      \* the functions callers register
    Backends,   \* the backends to check, of {"epoll", "kqueue"}
    MsPerSec,   \* clock ticks of a second (1000)
    Delays,     \* delays timers are created and rearmed with
    Start,      \* the clock at the start, not in the first second
    Budgets     \* bounds of a behaviour: registrations and resizes (file), timers
                \* created (timer), clock steps (skew), last time (until)

ASSUME LoopAssumption ==
    /\ MaxSet \in Nat \ {0} /\ MsPerSec \in Nat \ {0}
    /\ Backends \subseteq {"epoll", "kqueue"} /\ Delays \subseteq Nat
    /\ Start \in Nat /\ MsPerSec <= Start
    /\ "none" \notin Procs
    /\ Budgets \subseteq [file : Nat, timer : Nat, skew : Nat, until : Nat]

Fds == 0 .. MaxSet - 1
R == "readable"
W == "writable"
Directions == {R, W}
Forever == -1       \* aeApiPoll without a timeout
Entry == [fd : Fds, mask : SUBSET Directions]

VARIABLES
    backend,
    setsize, events, maxfd,             \* aeEventLoop: file events
    interest,                           \* the kernel: what it watches of each descriptor
    timers, head, created,              \* the allocated aeTimeEvents and their list
    now, lastTime,                      \* the clock, and when it was last looked at
    phase,                              \* where aeMain / aeProcessEvents stands
    left,                               \* what remains of the timeout of aeApiPoll
    fired, cur, half, rfired,           \* the loop over fired[]
    te, prev, maxId,                    \* the loop over the timers
    cb,                                 \* the callback that runs
    stop,
    budget

fileVars == <<setsize, events, maxfd, interest>>
timerVars == <<timers, head, created>>
clockVars == <<now, lastTime>>
fileLoop == <<fired, cur, half, rfired>>
timerLoop == <<te, prev, maxId>>
control == <<phase, left, fileLoop, timerLoop, cb>>
vars == <<backend, fileVars, timerVars, clockVars, control, stop, budget>>

-----------------------------------------------------------------------------
(* Time: seconds and milliseconds, compared as the code does.  A definition *)
(* with a suffix is a faulty variant, a slip the properties must notice.    *)

Sec(t) == t \div MsPerSec
Ms(t) == t % MsPerSec

aeAddMillisecondsToNow_no_carry(d) ==
    [sec |-> Sec(now) + Sec(d), ms |-> Ms(now) + Ms(d)]

\* The time of the clock, d milliseconds from now.
aeAddMillisecondsToNow(d) ==
    LET sec == Sec(now) + Sec(d)
        ms == Ms(now) + Ms(d)
    IN  IF ms >= MsPerSec THEN [sec |-> sec + 1, ms |-> ms - MsPerSec]
                          ELSE [sec |-> sec, ms |-> ms]

Before_seconds_only(v, w) == v.sec < w.sec
Before(v, w) == v.sec < w.sec \/ (v.sec = w.sec /\ v.ms < w.ms)
IsDue_field_by_field(w) == Sec(now) >= w.sec /\ Ms(now) >= w.ms
IsDue(w) == Sec(now) > w.sec \/ (Sec(now) = w.sec /\ Ms(now) >= w.ms)

\* aeSearchNearestTimer looks at every allocated timer, the deleted ones too.
Nearest == CHOOSE n \in DOMAIN timers :
               \A k \in DOMAIN timers : ~Before(timers[k].when, timers[n].when)

Timeout ==
    IF timers = << >> THEN Forever
    ELSE LET w == timers[Nearest].when
             ms == (w.sec - Sec(now)) * MsPerSec + w.ms - Ms(now)
         IN  IF ms > 0 THEN ms ELSE 0

-----------------------------------------------------------------------------
(* The API, called by callbacks and, outside aeMain, by the program.       *)

Calling == cb # "none" \/ phase = "outside"

Spend(kind) == budget[kind] > 0 /\ budget' = [budget EXCEPT ![kind] = @ - 1]

MaxOf(S) == IF S = {} THEN -1 ELSE CHOOSE x \in S : \A y \in S : y <= x
InUse(ev) == {f \in DOMAIN ev : ev[f].mask # {}}

\* aeApiAddEvent.  epoll takes the merged mask, with ADD or MOD as the loop's
\* own mask tells, and refuses the operation that does not fit what it watches;
\* kqueue adds the filters of the new mask only.
Accepts(fd) == backend = "kqueue" \/ (events[fd].mask = {} <=> interest[fd] = {})

WithInterest_unmerged(fd, m) == [interest EXCEPT ![fd] = m]
WithInterest(fd, m) ==
    [interest EXCEPT ![fd] = IF backend = "epoll" THEN events[fd].mask \cup m ELSE @ \cup m]

\* aeApiDelEvent: the rest of the mask for epoll, each filter for kqueue.
WithoutInterest(fd, m) ==
    [interest EXCEPT ![fd] = IF backend = "epoll" THEN events[fd].mask \ m ELSE @ \ m]

\* With fd >= setsize the call returns AE_ERR and changes nothing.
aeCreateFileEvent(fd, m, proc) ==
    /\ Calling /\ Spend("file")
    /\ fd < setsize /\ Accepts(fd)
    /\ interest' = WithInterest(fd, m)
    /\ events' = [events EXCEPT ![fd] =
           [mask |-> @.mask \cup m,
            rproc |-> IF R \in m THEN proc ELSE @.rproc,
            wproc |-> IF W \in m THEN proc ELSE @.wproc]]
    /\ maxfd' = IF fd > maxfd THEN fd ELSE maxfd
    /\ UNCHANGED <<backend, setsize, timerVars, clockVars, control, stop>>

ForgetEvents_next_lower(fd, m) ==
    /\ events' = [events EXCEPT ![fd].mask = @ \ m]
    /\ maxfd' = IF fd = maxfd /\ events[fd].mask \subseteq m THEN maxfd - 1 ELSE maxfd

\* After the deletion of the last event of maxfd the code scans downwards.
ForgetEvents(fd, m) ==
    /\ events' = [events EXCEPT ![fd].mask = @ \ m]
    /\ maxfd' = IF fd = maxfd /\ events[fd].mask \subseteq m
                THEN MaxOf({f \in InUse(events) : f < maxfd}) ELSE maxfd

aeDeleteFileEvent(fd, m) ==
    /\ Calling /\ Spend("file")
    /\ fd < setsize /\ events[fd].mask # {}
    /\ interest' = WithoutInterest(fd, m)
    /\ ForgetEvents(fd, m)
    /\ UNCHANGED <<backend, setsize, timerVars, clockVars, control, stop>>

\* A descriptor is closed as cli_close does, after its events were deleted, and its
\* number is free for the next socket; the kernel forgets what it watched.
CloseFile(fd) ==
    /\ Calling /\ Spend("file")
    /\ fd < setsize /\ events[fd].mask # {}
    /\ ForgetEvents(fd, Directions)
    /\ interest' = [interest EXCEPT ![fd] = {}]
    /\ UNCHANGED <<backend, setsize, timerVars, clockVars, control, stop>>

\* From the program or from the callback of a timer.  In the callback of a file
\* event the loop holds a pointer into events[], which the call reallocates
\* (ae.c:112): what the loop then reads through it is undefined and not modelled.
aeResizeSetSize(size) ==
    /\ phase = "outside" \/ cb = "time"
    /\ Spend("file")
    /\ size # setsize /\ maxfd < size
    /\ setsize' = size
    /\ events' = [f \in 0 .. size - 1 |->
           IF f <= maxfd THEN events[f]
           ELSE [mask |-> {}, rproc |-> "none", wproc |-> "none"]]
    /\ UNCHANGED <<backend, maxfd, interest, timerVars, clockVars, control, stop>>

InsertTimer_at_tail(node) ==
    /\ timers' = [n \in DOMAIN timers \cup {created + 1} |->
           IF n = created + 1 THEN [node EXCEPT !.next = 0]
           ELSE IF timers[n].next = 0 THEN [timers[n] EXCEPT !.next = created + 1] ELSE timers[n]]
    /\ head' = IF head = 0 THEN created + 1 ELSE head

InsertTimer(node) ==
    /\ timers' = [n \in DOMAIN timers \cup {created + 1} |->
           IF n = created + 1 THEN node ELSE timers[n]]
    /\ head' = created + 1

aeCreateTimeEvent(d) ==
    /\ Calling /\ Spend("timer") /\ now + d <= budget.until
    /\ created' = created + 1
    /\ InsertTimer([live |-> TRUE, when |-> aeAddMillisecondsToNow(d), next |-> head])
    /\ UNCHANGED <<backend, fileVars, clockVars, control, stop>>

aeDeleteTimeEvent_frees(n) ==
    /\ Calling /\ n \in DOMAIN timers /\ timers[n].live
    /\ timers' = [k \in (DOMAIN timers) \ {n} |->
           IF timers[k].next = n THEN [timers[k] EXCEPT !.next = timers[n].next] ELSE timers[k]]
    /\ head' = IF head = n THEN timers[n].next ELSE head
    /\ UNCHANGED <<backend, fileVars, created, clockVars, control, stop, budget>>

\* Only marks the timer: processTimeEvents unlinks and frees it later.
aeDeleteTimeEvent(n) ==
    /\ Calling /\ n \in DOMAIN timers /\ timers[n].live
    /\ timers' = [timers EXCEPT ![n].live = FALSE]
    /\ UNCHANGED <<backend, fileVars, head, created, clockVars, control, stop, budget>>

aeStop ==
    /\ cb # "none"
    /\ stop' = TRUE
    /\ UNCHANGED <<backend, fileVars, timerVars, clockVars, control, budget>>

-----------------------------------------------------------------------------
(* aeMain and the sleep.                                                   *)

StartMain ==
    /\ phase = "outside"
    /\ stop' = FALSE /\ phase' = "main"
    /\ UNCHANGED <<backend, fileVars, timerVars, clockVars, left, fileLoop, timerLoop,
                   cb, budget>>

LeaveMain ==
    /\ phase = "main" /\ stop
    /\ phase' = "outside"
    /\ UNCHANGED <<backend, fileVars, timerVars, clockVars, left, fileLoop, timerLoop,
                   cb, stop, budget>>

Sleep ==
    /\ phase = "main" /\ ~stop
    /\ phase' = "sleep" /\ left' = Timeout
    /\ UNCHANGED <<backend, fileVars, timerVars, clockVars, fileLoop, timerLoop, cb,
                   stop, budget>>

\* What aeApiPoll may put into fired[]: epoll reports a descriptor once, with an
\* error or a hang-up as AE_WRITABLE whatever is watched; kqueue reports each filter.
Reportable ==
    IF backend = "epoll"
    THEN {e \in Entry : /\ interest[e.fd] # {} /\ e.mask # {}
                        /\ e.mask \subseteq interest[e.fd] \cup {W}}
    ELSE {e \in Entry : \E d \in interest[e.fd] : e.mask = {d}}

OncePerFd(S) == backend = "epoll" =>
    \A e, f \in S : e.fd = f.fd => e = f

aeApiPoll ==
    /\ phase = "sleep"
    /\ \E S \in SUBSET Reportable :
           /\ Cardinality(S) <= setsize /\ OncePerFd(S)
           /\ S # {} \/ left = 0
           /\ fired' = S
    /\ phase' = "files" /\ left' = 0
    /\ UNCHANGED <<backend, fileVars, timerVars, clockVars, cur, half, rfired, timerLoop,
                   cb, stop, budget>>

-----------------------------------------------------------------------------
(* The loop over fired[], in whatever order the kernel filled it.          *)

NoEntry == [fd |-> 0, mask |-> {}]
Valid(d) == d \in events[cur.fd].mask \cap cur.mask

TakeEntry ==
    /\ phase = "files" /\ half = "none"
    /\ \E e \in fired : fired' = fired \ {e} /\ cur' = e
    /\ half' = "read" /\ rfired' = FALSE
    /\ UNCHANGED <<backend, fileVars, timerVars, clockVars, phase, left, timerLoop, cb,
                   stop, budget>>

ReadHalf ==
    /\ half = "read" /\ cb = "none"
    /\ IF Valid(R) THEN cb' = "file" /\ rfired' = TRUE /\ half' = half
                   ELSE half' = "write" /\ UNCHANGED <<cb, rfired>>
    /\ UNCHANGED <<backend, fileVars, timerVars, clockVars, phase, left, fired, cur,
                   timerLoop, stop, budget>>

\* A function registered for both directions is called once for an entry.
CallsWriter == Valid(W) /\ (~rfired \/ events[cur.fd].wproc # events[cur.fd].rproc)

WriteHalf ==
    /\ half = "write" /\ cb = "none"
    /\ IF CallsWriter THEN cb' = "file" /\ UNCHANGED <<half, cur>>
                      ELSE half' = "none" /\ cur' = NoEntry /\ UNCHANGED cb
    /\ UNCHANGED <<backend, fileVars, timerVars, clockVars, phase, left, fired, rfired,
                   timerLoop, stop, budget>>

FileReturns ==
    /\ cb = "file" /\ cb' = "none"
    /\ IF half = "read" THEN half' = "write" /\ UNCHANGED cur
                        ELSE half' = "none" /\ cur' = NoEntry
    /\ UNCHANGED <<backend, fileVars, timerVars, clockVars, phase, left, fired, rfired,
                   timerLoop, stop, budget>>

-----------------------------------------------------------------------------
(* processTimeEvents.                                                      *)

\* A clock that went back makes every timer due at once.
BeginTimers ==
    /\ phase = "files" /\ half = "none" /\ fired = {}
    /\ phase' = "timers" /\ rfired' = FALSE
    /\ timers' = IF Sec(now) < lastTime THEN [n \in DOMAIN timers |-> [timers[n] EXCEPT !.when.sec = 0]]
                                        ELSE timers
    /\ lastTime' = Sec(now)
    /\ te' = head /\ prev' = 0 /\ maxId' = created
    /\ UNCHANGED <<backend, fileVars, head, created, now, left, fired, cur, half, cb,
                   stop, budget>>

AtTimer == phase = "timers" /\ cb = "none" /\ te # 0

Advance_without_prev == te' = timers[te].next /\ prev' = prev
Advance ==
    /\ te' = timers[te].next
    /\ prev' = IF te > maxId THEN prev ELSE te

\* A timer marked deleted is unlinked and freed.
RemoveTimer ==
    /\ AtTimer /\ ~timers[te].live
    /\ head' = IF prev = 0 THEN timers[te].next ELSE head
    /\ timers' = [n \in (DOMAIN timers) \ {te} |->
           IF n = prev THEN [timers[n] EXCEPT !.next = timers[te].next] ELSE timers[n]]
    /\ te' = timers[te].next
    /\ UNCHANGED <<backend, fileVars, created, clockVars, phase, left, fileLoop, prev,
                   maxId, cb, stop, budget>>

SkipTimer ==
    /\ AtTimer /\ timers[te].live /\ (te > maxId \/ ~IsDue(timers[te].when))
    /\ Advance
    /\ UNCHANGED <<backend, fileVars, timerVars, clockVars, phase, left, fileLoop, maxId,
                   cb, stop, budget>>

CallTimer ==
    /\ AtTimer /\ timers[te].live /\ te <= maxId /\ IsDue(timers[te].when)
    /\ cb' = "time"
    /\ UNCHANGED <<backend, fileVars, timerVars, clockVars, phase, left, fileLoop,
                   timerLoop, stop, budget>>

\* The callback returns AE_NOMORE, or a delay after which it wants to be called again.
TimerReturns ==
    /\ cb = "time" /\ cb' = "none"
    /\ \/ timers' = [timers EXCEPT ![te].live = FALSE]
       \/ \E d \in Delays : /\ now + d <= budget.until
                            /\ timers' = [timers EXCEPT ![te].when = aeAddMillisecondsToNow(d)]
    /\ Advance
    /\ UNCHANGED <<backend, fileVars, head, created, clockVars, phase, left, fileLoop,
                   maxId, stop, budget>>

EndTimers ==
    /\ phase = "timers" /\ cb = "none" /\ te = 0
    /\ phase' = "main" /\ prev' = 0 /\ maxId' = 0
    /\ UNCHANGED <<backend, fileVars, timerVars, clockVars, left, fileLoop, te, cb, stop,
                   budget>>

-----------------------------------------------------------------------------
(* The clock.  A sleep is not shortened by setting the clock.              *)

Tick ==
    /\ now < budget.until
    /\ now' = now + 1
    /\ left' = IF left > 0 THEN left - 1 ELSE left
    /\ UNCHANGED <<backend, fileVars, timerVars, lastTime, phase, fileLoop, timerLoop, cb,
                   stop, budget>>

SetClock ==
    /\ Spend("skew")
    /\ \E t \in MsPerSec .. now - 1 : now' = t
    /\ UNCHANGED <<backend, fileVars, timerVars, lastTime, control, stop>>

-----------------------------------------------------------------------------
\* aeCreateEventLoop
Init ==
    /\ backend \in Backends
    /\ setsize = MaxSet /\ maxfd = -1
    /\ events = [f \in Fds |-> [mask |-> {}, rproc |-> "none", wproc |-> "none"]]
    /\ interest = [f \in Fds |-> {}]
    /\ timers = << >> /\ head = 0 /\ created = 0
    /\ now = Start /\ lastTime = Sec(Start)
    /\ phase = "outside" /\ left = 0
    /\ fired = {} /\ cur = NoEntry /\ half = "none" /\ rfired = FALSE
    /\ te = 0 /\ prev = 0 /\ maxId = 0
    /\ cb = "none" /\ stop = FALSE
    /\ budget \in Budgets

Call ==
    \/ \E fd \in Fds, m \in (SUBSET Directions) \ {{}} :
           (\E p \in Procs : aeCreateFileEvent(fd, m, p)) \/ aeDeleteFileEvent(fd, m)
    \/ \E fd \in Fds : CloseFile(fd)
    \/ \E size \in 1 .. MaxSet : aeResizeSetSize(size)
    \/ \E d \in Delays : aeCreateTimeEvent(d)
    \/ \E n \in DOMAIN timers : aeDeleteTimeEvent(n)
    \/ aeStop

Dispatch == TakeEntry \/ ReadHalf \/ WriteHalf \/ FileReturns
ProcessTimers ==
    \/ BeginTimers \/ RemoveTimer \/ SkipTimer \/ CallTimer \/ TimerReturns \/ EndTimers
Main == StartMain \/ LeaveMain \/ Sleep \/ aeApiPoll

Next == Call \/ Dispatch \/ ProcessTimers \/ Main \/ Tick \/ SetClock

Spec == Init /\ [][Next]_vars

\* The process runs whenever it is not blocked, a callback returns, and time passes.
FairSpec == Spec /\ WF_vars(Dispatch) /\ WF_vars(ProcessTimers) /\ WF_vars(Main) /\ WF_vars(Tick)

-----------------------------------------------------------------------------
(* Properties.                                                             *)

Time == [sec : Nat, ms : 0 .. MsPerSec - 1]
Node == Nat \ {0}
TimerNode == [live : BOOLEAN, when : Time, next : Nat]

\* Every variable stays in its range; the timers are a function on numbers.
TypeOK ==
    /\ backend \in {"epoll", "kqueue"}
    /\ setsize \in 1 .. MaxSet
    /\ events \in [0 .. setsize - 1 ->
           [mask : SUBSET Directions, rproc : Procs \cup {"none"}, wproc : Procs \cup {"none"}]]
    /\ maxfd \in -1 .. setsize - 1
    /\ interest \in [Fds -> SUBSET Directions]
    /\ DOMAIN timers \subseteq 1 .. created /\ timers \in [DOMAIN timers -> TimerNode]
    /\ head \in Nat /\ created \in Nat
    /\ now \in Nat /\ lastTime \in Nat
    /\ phase \in {"outside", "main", "sleep", "files", "timers"}
    /\ left \in Nat \cup {Forever}
    /\ fired \subseteq Entry /\ cur \in Entry
    /\ half \in {"none", "read", "write"} /\ rfired \in BOOLEAN
    /\ te \in Nat /\ prev \in Nat /\ maxId \in Nat
    /\ cb \in {"none", "file", "time"} /\ stop \in BOOLEAN
    /\ budget \in [file : Nat, timer : Nat, skew : Nat, until : Nat]

\* maxfd is the largest descriptor with an event, whatever was registered, deleted,
\* closed, recycled and resized before (ae.c:145-146, 158-165): a loop that
\* believes in a smaller one refuses no resize that throws away a registration.
MaxfdExact == maxfd = MaxOf(InUse(events))

\* What the kernel watches is what the loop's masks say, for both backends.  It is
\* why the choice between EPOLL_CTL_ADD and EPOLL_CTL_MOD (ae_epoll.c:76-79), which
\* looks only at the loop's mask, never fails.
InterestExact ==
    \A f \in Fds : interest[f] = (IF f < setsize THEN events[f].mask ELSE {})

\* The list of timers goes through every allocated timer, newest first: nothing is
\* lost when timers are created and deleted by callbacks while processTimeEvents
\* walks the list and unlinks deleted ones behind them (ae.c:291-301).
Below(n) == LET S == {k \in DOMAIN timers : k < n}
            IN  IF S = {} THEN 0 ELSE CHOOSE x \in S : \A y \in S : y <= x
TimersLinked ==
    /\ head = Below(created + 1)
    /\ \A n \in DOMAIN timers : timers[n].next = Below(n)

\* The walk stands on allocated timers: te has not been freed by a callback, prev is
\* linked to it, and a walk without prev stands at the head of the list.
WalkSafe ==
    phase = "timers" =>
        /\ te # 0 => te \in DOMAIN timers
        /\ prev # 0 => prev \in DOMAIN timers /\ timers[prev].next = te
        /\ prev = 0 /\ cb = "none" => te = head

\* "Note that this check is currently useless" (ae.c:305): a timer created during the
\* walk is never met by it, so no timer fires in the iteration that created it.
CheckUseless == phase = "timers" => te <= maxId

\* The loop never sleeps past a timer: the timeout, computed from seconds and
\* milliseconds apart, ends no later than the first timer is due, also when the
\* clock was set back before the sleep or during it.
Ticks(w) == w.sec * MsPerSec + w.ms
NoOversleep ==
    phase = "sleep" =>
        \A n \in DOMAIN timers :
            left # Forever /\ (now + left <= Ticks(timers[n].when) \/ left = 0)

\* A live timer is called or deleted sooner or later, or the program leaves aeMain:
\* clock steps, recycled descriptors and other timers do not starve it.
TimerServed ==
    \A n \in 1 .. MaxOf({b.timer : b \in Budgets}) :
        (n \in DOMAIN timers /\ timers[n].live /\ phase = "main")
            ~> (cb = "time" /\ te = n) \/ n \notin DOMAIN timers \/ ~timers[n].live
               \/ phase = "outside"

=============================================================================
