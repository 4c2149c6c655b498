------------------------------- MODULE Buffer -------------------------------
(***************************************************************************)
(* The byte buffer of messages and log lines (class buffer of              *)
(* common/buffer.hpp): a block of memory with a reading and a writing      *)
(* position and some room reserved in front, which grows or is compacted   *)
(* when the room at the back is too small.                                 *)
(*                                                                         *)
(* Positions are size_t and wrap, at SizeRange here.  Memory from new      *)
(* char[] holds Junk.  check_space compacts with memcpy although source    *)
(* and destination may overlap; the C libraries the project builds with    *)
(* copy such blocks, towards lower addresses, as memmove does, and the     *)
(* model takes that outcome.  seek(Begin) and offset_writepos do not check *)
(* their argument against the other position: their callers stay within    *)
(* the contents, and so do the inputs here.  flag_ and the template        *)
(* parameter, the size of an element, are left out.                        *)
(***************************************************************************)
EXTENDS Integers, Sequences

CONSTANTS
    STACK_CAPACITY,     \* the size of stack_data_
    SizeRange,          \* 2^64, the values of size_t
    Byte,               \* the bytes that are written
    Heads,              \* inputs: the headreserved arguments
    Capacities,         \* inputs: the capacity arguments
    MaxWrite,           \* bound: bytes written at once
    MaxSize             \* bound: what the positions and the bytes needed add up to

Junk == 0

ASSUME BufferAssumption ==
    /\ STACK_CAPACITY \in Nat \ {0}
    /\ Heads \subseteq 0..STACK_CAPACITY
    /\ Capacities \subseteq Nat
    /\ MaxWrite \in Nat
    /\ MaxSize \in Nat
    /\ SizeRange \in Nat /\ SizeRange > 4 * (MaxSize + STACK_CAPACITY)
    /\ Junk \notin Byte

VARIABLES
    headreserved_,
    capacity_,
    readpos_,
    writepos_,
    data_,          \* stack_data_ or heap_data_
    disturbed       \* history: the room in front was written to, or seek went back

vars == <<headreserved_, capacity_, readpos_, writepos_, data_, disturbed>>

\* The smallest power of two from x on, and 0 for 0.
next_pow2[x \in Nat] == IF x <= 1 THEN x ELSE 2 * next_pow2[(x + 1) \div 2]

writeablesize == capacity_ - writepos_

size == writepos_ - readpos_

Inputs == UNION {[1..n -> Byte] : n \in 1..MaxWrite}

\* The first n bytes of d in a new block of c bytes.
Block(d, n, c) == [i \in 1..c |-> IF i <= n THEN d[i] ELSE Junk]

\* d with the bytes s from position p on.
Put(d, p, s) == [i \in DOMAIN d |-> IF i - p \in DOMAIN s THEN s[i - p] ELSE d[i]]

\* memcpy of the bytes of d from rd to wr, down to position h.
Moved(d, h, rd, wr) == Put(d, h, SubSeq(d, rd + 1, wr))

-----------------------------------------------------------------------------
(* check_space: what it makes of the buffer when need bytes are to go to   *)
(* position wr.                                                            *)

\* Compacting is enough.
Compacts(h, rd, wr, need) == capacity_ - wr + rd >= need + h

\* Faulty variant: the contents are copied, without what is in front of them.
GrownContents(d, rd, wr, need) ==
    LET c == next_pow2[wr + need]
    IN  Block(SubSeq(d, rd + 1, wr), wr - rd, c)

\* The new block, with everything up to wr.
Grown(d, rd, wr, need) == Block(d, wr, next_pow2[wr + need])

\* The buffer with headreserved h and positions rd and wr, after check_space(need) and
\* a memcpy of s to the back.
CheckSpace(h, rd, wr, need, s) ==
    LET Store(r, w, d) ==
            /\ readpos_' = r
            /\ writepos_' = w + Len(s)
            /\ data_' = Put(d, w, s)
            /\ capacity_' = Len(d)
    IN  \/ /\ capacity_ - wr >= need
           /\ Store(rd, wr, data_)
        \/ /\ capacity_ - wr < need
           /\ ~Compacts(h, rd, wr, need)
           /\ Store(rd, wr, Grown(data_, rd, wr, need))
        \/ /\ capacity_ - wr < need
           /\ Compacts(h, rd, wr, need)
           /\ Store(h, h + (wr - rd), Moved(data_, h, rd, wr))

-----------------------------------------------------------------------------
(* The operations. *)

\* The constructor.  A capacity that does not fit grows the zeroed stack block at once.
Init ==
    \E c \in Capacities, h \in Heads :
        /\ headreserved_ = h
        /\ readpos_ = h
        /\ writepos_ = h
        /\ data_ = IF c + h > STACK_CAPACITY
                   THEN Block([i \in 1..h |-> Junk], h, next_pow2[h + c])
                   ELSE [i \in 1..STACK_CAPACITY |-> Junk]
        /\ capacity_ = Len(data_)
        /\ disturbed = FALSE

\* init(): a buffer of the pool is used again.
Reinit(c, h) ==
    /\ headreserved_' = h
    /\ CheckSpace(h, h, h, c, <<>>)
    /\ disturbed' = FALSE

write_back(s) ==
    /\ writepos_ + Len(s) <= MaxSize
    /\ CheckSpace(headreserved_, readpos_, writepos_, Len(s), s)
    /\ UNCHANGED <<headreserved_, disturbed>>

\* write_front(), which refuses what does not fit.
write_front(s) ==
    /\ Len(s) <= readpos_
    /\ readpos_' = readpos_ - Len(s)
    /\ data_' = Put(data_, readpos_', s)
    /\ disturbed' = TRUE
    /\ UNCHANGED <<headreserved_, capacity_, writepos_>>

\* read(), which refuses to read past the end.
read(n) ==
    /\ readpos_ + n <= writepos_
    /\ readpos_' = readpos_ + n
    /\ UNCHANGED <<headreserved_, capacity_, writepos_, data_, disturbed>>

\* Where seek(offset, Current) and seek(offset, End) get, past the end or before the
\* beginning of the memory.
Clamped(p) == IF p % SizeRange > writepos_ THEN writepos_ ELSE p % SizeRange

\* seek(), to an absolute position or relative to one of the two.
seek(p) ==
    /\ readpos_' = p
    /\ disturbed' = (disturbed \/ p < readpos_)
    /\ UNCHANGED <<headreserved_, capacity_, writepos_, data_>>

SeekBegin(offset) == offset \in 0..writepos_ /\ seek(offset)
SeekCurrent(offset) == seek(Clamped(readpos_ + offset))
SeekEnd(offset) == seek(Clamped(writepos_ + offset))

\* offset_writepos(), for bytes that were written past end(), or to cut some off.
offset_writepos(offset) ==
    LET p == (writepos_ + offset) % SizeRange
    IN  /\ writepos_ + offset \in readpos_..MaxSize
        /\ writepos_' = IF p >= capacity_ THEN capacity_ ELSE p
        /\ UNCHANGED <<headreserved_, capacity_, readpos_, data_, disturbed>>

\* Faulty variant: the room in front is not restored.
ClearFromZero ==
    /\ readpos_' = 0
    /\ writepos_' = 0
    /\ disturbed' = FALSE
    /\ UNCHANGED <<headreserved_, capacity_, data_>>

\* clear(): empty, with the room in front.
clear ==
    /\ readpos_' = headreserved_
    /\ writepos_' = headreserved_
    /\ disturbed' = FALSE
    /\ UNCHANGED <<headreserved_, capacity_, data_>>

Offsets == -(MaxSize + 1)..(MaxSize + 1)

Next ==
    \/ \E c \in Capacities, h \in Heads : Reinit(c, h)
    \/ \E s \in Inputs : write_back(s) \/ write_front(s)
    \/ \E n \in 1..MaxSize : read(n)
    \/ \E offset \in Offsets :
           \/ SeekBegin(offset)
           \/ SeekCurrent(offset)
           \/ SeekEnd(offset)
           \/ offset_writepos(offset)
    \/ clear

Spec == Init /\ [][Next]_vars

-----------------------------------------------------------------------------
(* Properties. *)

\* Every variable has its type.
TypeOK ==
    /\ headreserved_ \in Heads
    /\ capacity_ = Len(data_)
    /\ data_ \in Seq(Byte \cup {Junk})
    /\ readpos_ \in Nat
    /\ writepos_ \in Nat
    /\ disturbed \in BOOLEAN

\* The positions are in order and within the memory, so that nothing is written or read
\* outside of it; and the header of a message fits in front of it, however much was
\* written at the back and read since, unless the room was used or seek went back.
PositionsFit ==
    /\ readpos_ <= writepos_
    /\ writepos_ <= capacity_
    /\ ~disturbed => readpos_ >= headreserved_

\* The buffer is a tape: growing and compacting lose and change no byte of its contents.
tape == INSTANCE Tape WITH
    Byte <- Byte \cup {Junk},
    head <- headreserved_,
    before <- SubSeq(data_, 1, readpos_),
    after <- SubSeq(data_, readpos_ + 1, writepos_)

ImplementsTape == tape!Spec
=============================================================================
