------------------------------- MODULE Buffer -------------------------------
(***************************************************************************)
(* The buffer of src/buffer.c: a block with a read and a write index, some *)
(* room in front for headers, and read-only views of its readable part     *)
(* that lock it against writing.                                           *)
(*                                                                         *)
(* An action is a call with the assertions the function opens with as its  *)
(* guards, and no others but MayEnsure, a rule that all callers keep.  The *)
(* assertions inside and at the end of a function, which a caller cannot   *)
(* see, are checked: failed says that one did not hold.  Two functions can *)
(* leave indexes that do not delimit the readable bytes; displaced says so *)
(* and the model goes no further.  Views are only read.  A definition with *)
(* a suffix is a faulty variant of the one below it.                       *)
(***************************************************************************)
EXTENDS Integers, Sequences, FiniteSets

CONSTANTS
    Byte,       \* the values of a byte
    Datas,      \* sequences of bytes callers write
    Sizes,      \* arguments of buf_create_ex: [size, prepend]
    Extra,      \* bytes of the second vector of buf_readFd (65535)
    SizeMod,    \* values of a size_t
    MaxSz,      \* the largest block
    Views,      \* read-only views that may be allocated
    ViewSizes,  \* sizes asked for them
    Root, Null  \* the buffer itself, and no buffer

ASSUME BufferAssumption ==
    /\ 0 \in Byte /\ Datas \subseteq Seq(Byte) \ {<< >>}
    /\ Sizes \subseteq [size : Nat \ {0}, prepend : Nat]
    /\ \A s \in Sizes : s.size + s.prepend <= MaxSz
    /\ Extra \in Nat \ {0} /\ MaxSz \in Nat /\ SizeMod \in Nat /\ 2 * MaxSz < SizeMod
    /\ ViewSizes \subseteq Nat \ {0}
    /\ Root # Null /\ Root \notin Views /\ Null \notin Views /\ IsFiniteSet(Views)

Bufs == Views \cup {Root}

VARIABLES
    buf,        \* struct buffer: [mem, sz, p_sz, read_idx, write_idx]
    refcount,   \* live views of the buffer and of each view
    cache,      \* the released view each of them keeps
    view,       \* the views: what became of them, their source and window
    failed,     \* an assertion inside a function did not hold
    displaced,  \* the indexes do not delimit the readable bytes any more
    released    \* buf_release of the buffer

locks == <<refcount, cache, view>>
vars == <<buf, locks, failed, displaced, released>>

-----------------------------------------------------------------------------
(* Queries.                                                                *)

buf_readable(b) == b.write_idx - b.read_idx
buf_writable(b) == b.sz - b.write_idx
buf_prependable(b) == b.read_idx
buf_writeLocked == refcount[Root] > 0
Live(v) == view[v].st = "live"

\* len bytes of the block from index i on, and the readable part.
Cells(b, i, len) == [k \in 1 .. len |-> b.mem[i + k - 1]]
Content(b) == Cells(b, b.read_idx, buf_readable(b))

\* The block m with the bytes s written at index i.
Stored(m, i, s) ==
    [k \in DOMAIN m |-> IF k \in i .. i + Len(s) - 1 THEN s[k - i + 1] ELSE m[k]]

-----------------------------------------------------------------------------
(* Room for writing.                                                       *)

buf_swap_at_zero(b, nsz) ==
    [b EXCEPT !.mem = Stored([k \in 0 .. nsz - 1 |-> 0], 0, Content(b)), !.sz = nsz]

\* A new block of nsz zeros with the readable part behind the prepend space.
buf_swap(b, nsz) ==
    [b EXCEPT !.mem = Stored([k \in 0 .. nsz - 1 |-> 0], b.p_sz, Content(b)), !.sz = nsz]

MustGrow_without_prepend(b, len) == buf_prependable(b) + buf_writable(b) < len
MustGrow(b, len) == (buf_prependable(b) + buf_writable(b) - b.p_sz) % SizeMod < len

\* A larger block, or the readable part moved to the front of this one.
buf_makeSpace(b, len) ==
    LET new == IF MustGrow(b, len) THEN buf_swap(b, b.write_idx + len)
               ELSE [b EXCEPT !.mem = Stored(b.mem, b.p_sz, Content(b))]
    IN  [new EXCEPT !.read_idx = b.p_sz, !.write_idx = b.p_sz + buf_readable(b)]

buf_ensureWritable(b, len) ==
    IF buf_writable(b) < len THEN buf_makeSpace(b, len) ELSE b

\* The assertion of buf_makeSpace before it moves, and the last of buf_ensureWritable.
EnsureFails(b, len) ==
    \/ buf_writable(b) < len /\ ~MustGrow(b, len) /\ ~(b.p_sz < b.read_idx)
    \/ buf_writable(buf_ensureWritable(b, len)) < len

\* Callers do not ask for more room after a header was prepended below p_sz:
\* buf_makeSpace would leave p_sz - read_idx bytes too few, or move forwards.
MayEnsure(b, len) ==
    buf_writable(b) < len => b.read_idx >= b.p_sz /\ b.write_idx + len <= MaxSz

\* memcpy of the bytes behind the write index.
Put(b, data) ==
    [b EXCEPT !.mem = Stored(b.mem, b.write_idx, data), !.write_idx = @ + Len(data)]

Appended(b, data) == Put(buf_ensureWritable(b, Len(data)), data)

-----------------------------------------------------------------------------
(* Writing.                                                                *)

Usable == ~failed /\ ~displaced /\ ~released
Writing == Usable /\ ~buf_writeLocked

EnsureWritable(len) ==
    /\ Writing /\ MayEnsure(buf, len)
    /\ buf' = buf_ensureWritable(buf, len)
    /\ failed' = EnsureFails(buf, len)
    /\ UNCHANGED <<locks, displaced, released>>

buf_append_unlocked(data) ==
    /\ Usable /\ MayEnsure(buf, Len(data))
    /\ buf' = Appended(buf, data)
    /\ failed' = EnsureFails(buf, Len(data))
    /\ UNCHANGED <<locks, displaced, released>>

\* buf_append, and buf_appendInt of every width and byte order.
buf_append(data) ==
    /\ Writing /\ MayEnsure(buf, Len(data))
    /\ buf' = Appended(buf, data)
    /\ failed' = EnsureFails(buf, Len(data))
    /\ UNCHANGED <<locks, displaced, released>>

\* Bytes stored at buf_beginWrite and then announced; nothing looks at the lock.
buf_has_written(data) ==
    /\ Usable /\ Len(data) <= buf_writable(buf)
    /\ buf' = Put(buf, data)
    /\ UNCHANGED <<locks, failed, displaced, released>>

buf_unwrite(len) ==
    /\ Writing /\ len <= buf_readable(buf)
    /\ buf' = [buf EXCEPT !.write_idx = @ - len]
    /\ UNCHANGED <<locks, failed, displaced, released>>

\* A larger index makes bytes readable that lie behind the written ones.
buf_setWriteIndex(w) ==
    /\ Writing /\ w \in buf.read_idx .. buf.sz - 1
    /\ buf' = [buf EXCEPT !.write_idx = w]
    /\ UNCHANGED <<locks, failed, displaced, released>>

\* buf_prepend, and buf_prependInt; nothing looks at the lock.
buf_prepend(data) ==
    /\ Usable /\ Len(data) <= buf_prependable(buf)
    /\ buf' = [buf EXCEPT !.mem = Stored(@, buf.read_idx - Len(data), data),
                          !.read_idx = @ - Len(data)]
    /\ UNCHANGED <<locks, failed, displaced, released>>

\* The readable part goes to p_sz of the new block and the indexes stay where they
\* are: they fit only if the buffer was at p_sz before.
buf_shrink(reserve) ==
    /\ Writing
    /\ LET nsz == buf.p_sz + buf_readable(buf) + reserve
       IN  nsz \in 1 .. MaxSz /\ buf' = buf_swap(buf, nsz)
    /\ displaced' = (buf.read_idx # buf.p_sz)
    /\ UNCHANGED <<locks, failed, released>>

\* readv into the free part and, if that is short, into extrabuf: what is there
\* is appended.  A read that fails or finds the end changes nothing.
buf_readFd(data) ==
    LET writable == buf_writable(buf)
        full == Put(buf, SubSeq(data, 1, writable))
        more == SubSeq(data, writable + 1, Len(data))
    IN  /\ Writing
        /\ Len(data) <= IF writable < Extra THEN writable + Extra ELSE writable
        /\ \/ /\ Len(data) <= writable
              /\ buf' = Put(buf, data)
              /\ UNCHANGED failed
           \/ /\ Len(data) > writable /\ MayEnsure(full, Len(more))
              /\ buf' = Appended(full, more)
              /\ failed' = EnsureFails(full, Len(more))
        /\ UNCHANGED <<locks, displaced, released>>

-----------------------------------------------------------------------------
(* Reading.                                                                *)

\* buf_retrieve goes back to p_sz with the last byte, and so does buf_retrieveAll.
Retrieved(b, len) ==
    IF len < buf_readable(b) THEN [b EXCEPT !.read_idx = @ + len]
    ELSE [b EXCEPT !.read_idx = b.p_sz, !.write_idx = b.p_sz]

\* buf_retrieve, buf_retrieveAll, buf_retrieveUntil, buf_retrieveInt, buf_readInt,
\* buf_retrieveAsString: the length is at most what is readable.
buf_retrieve(len) ==
    /\ Usable /\ len <= buf_readable(buf)
    /\ buf' = Retrieved(buf, len)
    /\ UNCHANGED <<locks, failed, displaced, released>>

\* The same calls on a view move its own indexes only.
ReadView(v, len) ==
    /\ Usable /\ Live(v) /\ len \in 1 .. buf_readable(view[v])
    /\ view' = [view EXCEPT ![v] = Retrieved(@, len)]
    /\ UNCHANGED <<buf, refcount, cache, failed, displaced, released>>

\* buf_readStr and buf_dupStr take what there is of the length asked for.
buf_readStr(len) ==
    /\ Usable
    /\ buf' = Retrieved(buf, IF buf_readable(buf) < len THEN buf_readable(buf) ELSE len)
    /\ UNCHANGED <<locks, failed, displaced, released>>

\* buf_readCStr and buf_dupCStr take a string with its terminator, or all there is.
buf_readCStr ==
    /\ Usable
    /\ \/ \E k \in 1 .. buf_readable(buf) :
              /\ Content(buf)[k] = 0 /\ \A j \in 1 .. k - 1 : Content(buf)[j] # 0
              /\ buf' = Retrieved(buf, k)
       \/ /\ \A k \in 1 .. buf_readable(buf) : Content(buf)[k] # 0
          /\ buf' = Retrieved(buf, buf_readable(buf))
    /\ UNCHANGED <<locks, failed, displaced, released>>

\* Any index: back over bytes that were read, or past the readable part, whose size
\* is then a negative number in a size_t.
buf_setReadIndex(r) ==
    /\ Usable
    /\ buf' = [buf EXCEPT !.read_idx = r]
    /\ displaced' = (r > buf.write_idx)
    /\ UNCHANGED <<locks, failed, released>>

-----------------------------------------------------------------------------
(* Read-only views, of the buffer or of a view.  A view is "live", "cached" *)
(* by its source after its release, "free" before it is allocated and after *)
(* it was freed, or "lost": cached by a view that was forgotten.            *)

Alive(b) == IF b = Root THEN TRUE ELSE Live(b)
Struct(b) == IF b = Root THEN buf ELSE view[b]
Base(b) == IF b = Root THEN 0 ELSE view[b].base

\* A view nobody holds: what it showed is not read again.
Unused(st, b) == [st |-> st, src |-> b, base |-> 0, sz |-> 0,
                  p_sz |-> 0, read_idx |-> 0, write_idx |-> 0]

\* What the cached view of a reused or freed view was keeping is unreachable.
Forgotten(f, v) == IF cache[v] = Null THEN f ELSE [f EXCEPT ![cache[v]].st = "lost"]

OpenView(b, v, len) ==
    /\ view' = [Forgotten(view, v) EXCEPT ![v] =
           [st |-> "live", src |-> b, base |-> Base(b) + Struct(b).read_idx,
            sz |-> len, p_sz |-> 0, read_idx |-> 0, write_idx |-> len]]
    /\ refcount' = [refcount EXCEPT ![b] = @ + 1, ![v] = 0]
    /\ cache' = [cache EXCEPT ![b] = IF @ = v THEN Null ELSE @, ![v] = Null]

buf_readonlyView_uncut(b, size) ==
    /\ Usable /\ Alive(b)
    /\ \E v \in Views :
           /\ IF cache[b] = Null THEN view[v].st = "free" ELSE v = cache[b]
           /\ OpenView(b, v, size)
    /\ UNCHANGED <<buf, failed, displaced, released>>

\* sz > 0 is asserted and cut to what is readable; the cached view is taken first.
buf_readonlyView(b, size) ==
    /\ Usable /\ Alive(b)
    /\ \E v \in Views :
           /\ IF cache[b] = Null THEN view[v].st = "free" ELSE v = cache[b]
           /\ OpenView(b, v, IF size > buf_readable(Struct(b))
                              THEN buf_readable(Struct(b)) ELSE size)
    /\ UNCHANGED <<buf, failed, displaced, released>>

\* A view is released when it has no view of its own.
ReleaseView_keeps_count(v) ==
    /\ Usable /\ Live(v) /\ refcount[v] = 0
    /\ LET b == view[v].src
       IN  /\ cache' = [cache EXCEPT ![b] = IF @ = Null THEN v ELSE @]
           /\ view' = [view EXCEPT ![v] = Unused(IF cache[b] = Null THEN "cached" ELSE "free", b)]
    /\ UNCHANGED <<buf, refcount, failed, displaced, released>>

ReleaseView_caches_always(v) ==
    /\ Usable /\ Live(v) /\ refcount[v] = 0
    /\ refcount' = [refcount EXCEPT ![view[v].src] = @ - 1]
    /\ cache' = [cache EXCEPT ![view[v].src] = v]
    /\ view' = [view EXCEPT ![v] = Unused("cached", view[v].src)]
    /\ UNCHANGED <<buf, failed, displaced, released>>

\* The source keeps the released view unless it keeps one already.
ReleaseView(v) ==
    /\ Usable /\ Live(v) /\ refcount[v] = 0
    /\ LET b == view[v].src
       IN  /\ refcount' = [refcount EXCEPT ![b] = @ - 1]
           /\ \/ /\ cache[b] = Null
                 /\ cache' = [cache EXCEPT ![b] = v]
                 /\ view' = [view EXCEPT ![v] = Unused("cached", b)]
              \/ /\ cache[b] # Null
                 /\ cache' = [cache EXCEPT ![v] = Null]
                 /\ view' = [Forgotten(view, v) EXCEPT ![v] = Unused("free", Root)]
    /\ UNCHANGED <<buf, failed, displaced, released>>

\* buf_release of the buffer: the block, its cached view and itself are freed.
buf_release ==
    /\ Usable /\ refcount[Root] = 0
    /\ released' = TRUE
    /\ view' = IF cache[Root] = Null THEN view
               ELSE [Forgotten(view, cache[Root]) EXCEPT ![cache[Root]] = Unused("free", Root)]
    /\ cache' = [b \in Bufs |-> IF b \in {Root, cache[Root]} THEN Null ELSE cache[b]]
    /\ UNCHANGED <<buf, refcount, failed, displaced>>

-----------------------------------------------------------------------------
\* buf_create_ex
Init ==
    /\ \E s \in Sizes :
           buf = [mem |-> [k \in 0 .. s.size + s.prepend - 1 |-> 0],
                  sz |-> s.size + s.prepend, p_sz |-> s.prepend,
                  read_idx |-> s.prepend, write_idx |-> s.prepend]
    /\ refcount = [b \in Bufs |-> 0]
    /\ cache = [b \in Bufs |-> Null]
    /\ view = [v \in Views |-> Unused("free", Root)]
    /\ failed = FALSE /\ displaced = FALSE /\ released = FALSE

Lengths == 0 .. MaxSz

Write ==
    \/ \E len \in Lengths :
           EnsureWritable(len) \/ buf_unwrite(len) \/ buf_setWriteIndex(len) \/ buf_shrink(len)
    \/ \E data \in Datas :
           buf_append(data) \/ buf_has_written(data) \/ buf_prepend(data) \/ buf_readFd(data)

Read ==
    \/ \E len \in Lengths : buf_retrieve(len) \/ buf_readStr(len) \/ buf_setReadIndex(len)
    \/ buf_readCStr
    \/ \E v \in Views, len \in Lengths : ReadView(v, len)

View ==
    \/ \E b \in Bufs, size \in ViewSizes : buf_readonlyView(b, size)
    \/ \E v \in Views : ReleaseView(v)
    \/ buf_release

Next == Write \/ Read \/ View

Spec == Init /\ [][Next]_vars

-----------------------------------------------------------------------------
(* Properties.                                                             *)

ViewRecord == [st : {"free", "live", "cached", "lost"}, src : Bufs,
               base : 0 .. MaxSz, sz : 0 .. MaxSz, p_sz : {0},
               read_idx : 0 .. MaxSz, write_idx : 0 .. MaxSz]

\* Prepend space and readable part lie in the block, whatever was appended, moved,
\* grown and prepended before.
IndexesOrdered ==
    /\ buf.mem \in [0 .. buf.sz - 1 -> Byte]
    /\ buf.sz \in 1 .. MaxSz /\ buf.p_sz \in 0 .. buf.sz
    /\ buf.read_idx \in 0 .. buf.write_idx /\ buf.write_idx \in 0 .. buf.sz
    /\ DOMAIN buf = {"mem", "sz", "p_sz", "read_idx", "write_idx"}

\* The window of a live view lies in the block, or the window, it was taken from,
\* which is there as long as the view is.
ViewsInside ==
    \A v \in Views :
        LET b == view[v].src
        IN  Live(v) => /\ Alive(b) /\ Base(b) <= view[v].base
                       /\ view[v].base + view[v].sz <= Base(b) + Struct(b).sz
                       /\ view[v].read_idx <= view[v].write_idx
                       /\ view[v].write_idx <= view[v].sz

\* Types, the order of the indexes unless a call displaced them, and the windows.
TypeOK ==
    /\ ~displaced => IndexesOrdered
    /\ refcount \in [Bufs -> Nat] /\ cache \in [Bufs -> Views \cup {Null}]
    /\ view \in [Views -> ViewRecord] /\ ViewsInside
    /\ failed \in BOOLEAN /\ displaced \in BOOLEAN /\ released \in BOOLEAN

\* The assertions inside buf_makeSpace and at the end of buf_ensureWritable hold
\* for every caller that keeps the rules (buffer.c:227, 243).
NeverFails == ~failed

\* The count that locks a buffer is the number of its live views, also when views
\* were released to the cache, taken from it again, and nested (buffer.c:56, 634).
LocksExact ==
    \A b \in Bufs : refcount[b] = Cardinality({v \in Views : Live(v) /\ view[v].src = b})

\* A released view is kept by the source it came from, or freed, and a kept view is
\* not in use: none is handed out while somebody reads it, none is handed out twice,
\* and releasing several views of one buffer loses none (buffer.c:59-67, 613-618).
CacheExact ==
    \A b \in Bufs, v \in Views :
        cache[b] = v <=> view[v].st = "cached" /\ view[v].src = b

\* What a reader sees through the view v, and whether the buffer has yet to read it.
Seen(v) == Cells(buf, view[v].base, view[v].sz)
Unread(v) == buf.read_idx <= view[v].base /\ view[v].base + view[v].sz <= buf.write_idx

\* No call changes what a reader sees through a live view of bytes the buffer has not
\* read, and of the rest only the two calls that do not look at the lock, which put
\* bytes in front of the readable part and behind it (buffer.c:118, 254): no move, no
\* growth, no read and no later view touches it while it lives.
ViewsKept ==
    [][\A v \in Views : Live(v) /\ Live(v)' =>
           \/ Seen(v)' = Seen(v)
           \/ ~Unread(v) /\ \E data \in Datas : buf_prepend(data) \/ buf_has_written(data)]_vars

\* "Once a read-only view was made the buffer is locked, it can only be read and not
\* written, until all its views are released" (buffer.h:93-95): what a view shows
\* would never change.
ViewsStable ==
    [][\A v \in Views : Live(v) /\ Live(v)' => Seen(v)' = Seen(v)]_vars

\* The readable part behaves as a queue of bytes through every move, growth and
\* shrinking, up to a call that displaces the indexes (buffer.c:205-265, 644-648).
Queue == INSTANCE ByteQueue WITH queue <- Content(buf)
ImplementsQueue ==
    Queue!Init /\ [][displaced' \/ UNCHANGED Content(buf) \/ Queue!Next]_vars

=============================================================================
