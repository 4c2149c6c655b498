----------------------------- MODULE LuaSerialize ----------------------------
(***************************************************************************)
(* The serialisation of Lua values (magic/lua_serialize.cpp): pack with    *)
(* pack_one, wb_integer, wb_string and wb_table; unpack and unpack_one     *)
(* with push_value and unpack_table; and concat with concat_one, which     *)
(* turns values into text.                                                 *)
(*                                                                         *)
(* The code recurs over tables.  Here the recursion is a stack of frames,  *)
(* one for each table it is inside of, and a step is the call of pack_one, *)
(* concat_one or push_value for one value, or the end of a table.          *)
(*                                                                         *)
(* A stream is a sequence of bytes.  A tag byte holds a type in three bits *)
(* and a cookie in the rest; the code has 32 cookies (MAX_COOKIE).  The    *)
(* bytes of numbers have Base values, 256 in the code, so that a smaller   *)
(* Base brings the limits of byte, word and dword near each other.         *)
(*                                                                         *)
(* A Lua value is [k |-> kind, v |-> sequence of integers].  Tables are    *)
(* references into a heap, so that they can be shared, be keys, or contain *)
(* themselves.  A table has a length, which is what lua_rawlen gives, and  *)
(* pairs in the order of lua_next, or, if it has a __pairs metamethod, in  *)
(* the order that yields; such a table is empty itself.  A real and a      *)
(* pointer are numbers that are copied.  A text is the sequence of the     *)
(* values written into it.                                                 *)
(***************************************************************************)
EXTENDS Integers, Sequences, SequencesExt

CONSTANTS
    Base,           \* the values of a byte of a number
    MAX_COOKIE,     \* the values of a cookie
    MAX_DEPTH,      \* tables within tables
    Heap,           \* inputs: the tables of the script
    Arguments,      \* inputs: what it calls pack and concat with
    MaxCut          \* bound: bytes that are cut off a stream

VARIABLES
    job,        \* the call: none, pack or concat
    args,       \* its arguments
    here,       \* the argument it is at, and the tables it is inside of
    outcome,    \* how it ended: none, error, done, and then invalid or unpacked
    buf,        \* the stream in the buffer
    text,       \* the text in the buffer
    cut,        \* history: how many bytes of the stream were cut off
    reading,    \* the call that reads: none, unpack or unpack_one
    pos,        \* the reading position of the buffer
    view,       \* that of the buffer_view the call reads through
    reads,      \* the tables it is inside of
    made,       \* the pairs of the tables that were read
    got,        \* the values that were read
    marks,      \* history: what here was at each step, and how much had been written
    opened      \* history: the tables that were written, in order

writeVars == <<job, args, here, buf, text, cut, marks, opened>>
readVars == <<reading, pos, view, reads, made, got>>
serializeVars == <<writeVars, outcome, readVars>>

-----------------------------------------------------------------------------
(* Lua values. *)

Nil == [k |-> "nil", v |-> <<>>]
Integer(n) == [k |-> "int", v |-> <<n>>]
Str(s) == [k |-> "string", v |-> s]
Ref(t) == [k |-> "table", v |-> <<t>>]

IsTable(x) == x.k = "table"

\* How many values n bytes have.
Span[n \in 0..8] == IF n = 0 THEN 1 ELSE Base * Span[n - 1]

\* n bytes hold x as a signed number.
Fits(x, n) == -Span[n] <= 2 * x /\ 2 * x < Span[n]

\* What a script may pass: a lua_Integer, and what has as many bytes; strings are shorter
\* than an int can say.
IsValue(x) ==
    /\ x = [k |-> x.k, v |-> x.v]
    /\ \/ x.k \in {"nil", "function"} /\ x.v = <<>>
       \/ x.k = "int" /\ x.v = <<x.v[1]>> /\ x.v[1] \in Int /\ Fits(x.v[1], 8)
       \/ x.k \in {"real", "pointer"} /\ x.v = <<x.v[1]>> /\ x.v[1] \in 0..(Span[8] - 1)
       \/ x.k = "boolean" /\ x.v = <<x.v[1]>> /\ x.v[1] \in {0, 1}
       \/ x.k = "string" /\ x.v \in Seq(0..(Base - 1)) /\ Fits(Len(x.v), 4)
       \/ x.k = "table" /\ x.v = <<x.v[1]>> /\ x.v[1] \in DOMAIN Heap

\* A key is not nil and has one value, and the length of a table is a border of it.
IsRow(r) ==
    LET ps == r.pairs
    IN  /\ r.length \in Nat /\ Fits(r.length, 4)
        /\ \A i \in DOMAIN ps :
               /\ ps[i] = <<ps[i][1], ps[i][2]>>
               /\ IsValue(ps[i][1]) /\ IsValue(ps[i][2])
               /\ ps[i][1] # Nil
        /\ \A i, j \in DOMAIN ps : ps[i][1] = ps[j][1] => i = j
        /\ r.length > 0 => \E i \in DOMAIN ps : ps[i][1] = Integer(r.length)

Pairs(t) == ToSet(Heap[t].pairs)

\* lua_rawgeti: the value under the integer i.
rawgeti(t, i) ==
    IF \E p \in Pairs(t) : p[1] = Integer(i)
    THEN (CHOOSE p \in Pairs(t) : p[1] = Integer(i))[2]
    ELSE Nil

-----------------------------------------------------------------------------
(* The encoding. *)

TYPE_NIL == 0
TYPE_BOOLEAN == 1
TYPE_NUMBER == 2
TYPE_USERDATA == 3
TYPE_SHORT_STRING == 4
TYPE_LONG_STRING == 5
TYPE_TABLE == 6

TYPE_NUMBER_ZERO == 0
TYPE_NUMBER_BYTE == 1
TYPE_NUMBER_WORD == 2
TYPE_NUMBER_DWORD == 4
TYPE_NUMBER_QWORD == 6
TYPE_NUMBER_REAL == 8

ASSUME SerializeAssumption ==
    /\ Base \in Nat \ {0, 1}
    /\ MAX_COOKIE \in Nat /\ MAX_COOKIE > TYPE_NUMBER_REAL
    /\ MAX_DEPTH \in Nat
    /\ \A t \in DOMAIN Heap : Heap[t].pairs \in Seq(Pairs(t)) /\ IsRow(Heap[t])
    /\ \A xs \in Arguments :
           /\ xs \in Seq(ToSet(xs)) /\ xs # <<>>
           /\ \A x \in ToSet(xs) : IsValue(x)

\* COMBINE_TYPE, cast to uint8_t.
Tag(type, cookie) == <<(type + 8 * cookie) % (8 * MAX_COOKIE)>>

\* The n bytes of the integer x, the lowest first, negative ones in two's complement.
Bytes(x, n) == [i \in 1..n |-> (x \div Span[i - 1]) % Base]

\* The number that bytes hold, and the signed one.
Unsigned(bs) ==
    LET sum[i \in 0..Len(bs)] == IF i = 0 THEN 0 ELSE sum[i - 1] + bs[i] * Span[i - 1]
    IN  sum[Len(bs)]
Signed(bs) ==
    IF 2 * Unsigned(bs) >= Span[Len(bs)] THEN Unsigned(bs) - Span[Len(bs)] ELSE Unsigned(bs)

\* In the fewest bytes: eight when four do not hold it, four when it is negative.
wb_integer(x) ==
    CASE x = 0                        -> Tag(TYPE_NUMBER, TYPE_NUMBER_ZERO)
      [] x # Signed(Bytes(x, 4))      -> Tag(TYPE_NUMBER, TYPE_NUMBER_QWORD) \o Bytes(x, 8)
      [] x \in 1..(Span[1] - 1)       -> Tag(TYPE_NUMBER, TYPE_NUMBER_BYTE) \o Bytes(x, 1)
      [] x \in Span[1]..(Span[2] - 1) -> Tag(TYPE_NUMBER, TYPE_NUMBER_WORD) \o Bytes(x, 2)
      [] OTHER                        -> Tag(TYPE_NUMBER, TYPE_NUMBER_DWORD) \o Bytes(x, 4)

\* The length goes into the cookie if it fits, else into two or four bytes.
wb_string(s) ==
    (IF Len(s) < MAX_COOKIE THEN Tag(TYPE_SHORT_STRING, Len(s))
     ELSE IF Len(s) < Span[2] THEN Tag(TYPE_LONG_STRING, 2) \o Bytes(Len(s), 2)
     ELSE Tag(TYPE_LONG_STRING, 4) \o Bytes(Len(s), 4)) \o s

wb_nil == Tag(TYPE_NIL, 0)

\* What pack_one writes for a value that is no table.
Encoded(x) ==
    CASE x.k = "nil"      -> wb_nil
      [] x.k = "int"      -> wb_integer(x.v[1])
      [] x.k = "real"     -> Tag(TYPE_NUMBER, TYPE_NUMBER_REAL) \o Bytes(x.v[1], 8)
      [] x.k = "boolean"  -> Tag(TYPE_BOOLEAN, x.v[1])
      [] x.k = "string"   -> wb_string(x.v)
      [] x.k = "pointer"  -> Tag(TYPE_USERDATA, 0) \o Bytes(x.v[1], 8)

\* What concat_one writes for it.
Words(x) == IF x = Nil THEN <<>> ELSE <<x>>

\* Faulty variant: the length that takes all cookies is written as a cookie.
ArrayHeaderLate(length) ==
    IF length >= MAX_COOKIE
    THEN Tag(TYPE_TABLE, MAX_COOKIE - 1) \o wb_integer(length)
    ELSE Tag(TYPE_TABLE, length)

\* The length of the array part goes into the cookie, or behind the last cookie.
ArrayHeader(length) ==
    IF length >= MAX_COOKIE - 1
    THEN Tag(TYPE_TABLE, MAX_COOKIE - 1) \o wb_integer(length)
    ELSE Tag(TYPE_TABLE, length)

-----------------------------------------------------------------------------
(* The way through tables. *)

\* The loops over a table: 1 to its length, and then, in pack, over its pairs.
Slots(j, t) ==
    [i \in 1..Heap[t].length |-> <<Integer(i), rawgeti(t, i)>>]
        \o (IF j = "pack" THEN Heap[t].pairs ELSE <<>>)

InArray(t, x) == x.k = "int" /\ x.v[1] \in 1..Heap[t].length

\* The second loop passes over what the first one has written.
Skipped(j, t, i) ==
    /\ i \in (Heap[t].length + 1)..Len(Slots(j, t))
    /\ InArray(t, Slots(j, t)[i][1])

\* The slot after i, or the end.
NextSlot(j, t, i) ==
    CHOOSE m \in (i + 1)..(Len(Slots(j, t)) + 1) :
        ~Skipped(j, t, m) /\ \A n \in (i + 1)..(m - 1) : Skipped(j, t, n)

\* wb_table and concat_table begin with the first slot.
Frame(j, t) == [t |-> t, i |-> NextSlot(j, t, 0), half |-> FALSE]

\* The key of a pair is next; in the array part keys are not written.
AtKey(f) == f.i > Heap[f.t].length /\ ~f.half

\* Faulty variant: concat's loop ends before the last element.
AtEndEarly(j, f) == f.i > Len(Slots(j, f.t)) \/ (j = "concat" /\ f.i = Len(Slots(j, f.t)))

AtEnd(j, f) == f.i > Len(Slots(j, f.t))

Current(j, f) == LET slot == Slots(j, f.t)[f.i] IN IF AtKey(f) THEN slot[1] ELSE slot[2]

After(j, f) ==
    IF AtKey(f) THEN [f EXCEPT !.half = TRUE]
    ELSE [t |-> f.t, i |-> NextSlot(j, f.t, f.i), half |-> FALSE]

\* The call goes on behind the value it is at.
Behind(j, h) ==
    IF h.stack = <<>> THEN [h EXCEPT !.arg = @ + 1]
    ELSE [h EXCEPT !.stack = Append(Front(@), After(j, Last(@)))]

\* It goes into a table, and comes back from it.
Into(j, h, t) == [h EXCEPT !.stack = Append(@, Frame(j, t))]
Back(j, h) == Behind(j, [h EXCEPT !.stack = Front(@)])

\* A value is next.
AtValue(j, xs, h) ==
    IF h.stack = <<>> THEN h.arg <= Len(xs) ELSE ~AtEnd(j, Last(h.stack))

Value(j, xs, h) == IF h.stack = <<>> THEN xs[h.arg] ELSE Current(j, Last(h.stack))

Depth(h) == Len(h.stack)

\* Faulty variant: a table too many.
TooDeepLate(depth) == depth > MAX_DEPTH + 1

TooDeep(depth) == depth > MAX_DEPTH

Unsupported(j, x) == x.k = "function" \/ (j = "concat" /\ x.k = "pointer")

-----------------------------------------------------------------------------
(* pack and concat. *)

Start == [arg |-> 1, stack |-> <<>>]

SerializeInit ==
    /\ job = "none"
    /\ args = <<>>
    /\ here = Start
    /\ outcome = "none"
    /\ buf = <<>>
    /\ text = <<>>
    /\ cut = 0
    /\ reading = "none"
    /\ pos = 0
    /\ view = 0
    /\ reads = <<>>
    /\ made = <<>>
    /\ got = <<>>
    /\ marks = <<>>
    /\ opened = <<>>

\* pack(...) and packs(...), or concat(...) and concats(...)
Call(j, xs) ==
    /\ job = "none"
    /\ job' = j
    /\ args' = xs
    /\ UNCHANGED <<here, outcome, buf, text, cut, marks, opened, readVars>>

\* What is written goes behind the stream, or the text.
Write(bytes, words) ==
    /\ IF job = "pack"
       THEN buf' = buf \o bytes /\ text' = text
       ELSE text' = text \o words /\ buf' = buf
    /\ marks' = Append(marks, [at |-> Len(buf), here |-> here, tables |-> Len(opened)])
    /\ UNCHANGED <<job, args, cut, readVars>>

Writing == job # "none" /\ outcome = "none"

\* The value that pack_one or concat_one is called for.
Now == Value(job, args, here)

\* It is neither too deep nor of a wrong type.
Passes ==
    /\ Writing
    /\ AtValue(job, args, here)
    /\ ~TooDeep(Depth(here)) /\ ~Unsupported(job, Now)

\* It is no table.  Nil is no text, a number, a boolean and a string are.
WriteValue ==
    /\ Passes /\ ~IsTable(Now)
    /\ Write(Encoded(Now), Words(Now))
    /\ here' = Behind(job, here)
    /\ UNCHANGED <<outcome, opened>>

\* It is a table: wb_table or concat_table.
EnterTable ==
    /\ Passes /\ IsTable(Now)
    /\ Write(ArrayHeader(Heap[Now.v[1]].length), <<>>)
    /\ here' = Into(job, here, Now.v[1])
    /\ opened' = Append(opened, Now.v[1])
    /\ UNCHANGED outcome

\* The end of the loops over a table.
LeaveTable ==
    /\ Writing
    /\ here.stack # <<>> /\ ~AtValue(job, args, here)
    /\ Write(wb_nil, <<>>)
    /\ here' = Back(job, here)
    /\ UNCHANGED <<outcome, opened>>

\* pack_one or concat_one raises an error and deletes the buffer.
Refuse ==
    /\ Writing
    /\ AtValue(job, args, here)
    /\ TooDeep(Depth(here)) \/ Unsupported(job, Now)
    /\ outcome' = "error"
    /\ buf' = <<>>
    /\ text' = <<>>
    /\ UNCHANGED <<job, args, here, cut, marks, opened, readVars>>

Return ==
    /\ Writing
    /\ here.stack = <<>> /\ ~AtValue(job, args, here)
    /\ Write(<<>>, <<>>)
    /\ outcome' = "done"
    /\ UNCHANGED <<here, opened>>

\* The script keeps only the beginning of the stream.
Cut ==
    /\ job = "pack" /\ outcome = "done" /\ pos = 0 /\ reading = "none"
    /\ buf # <<>> /\ cut < MaxCut
    /\ cut' = cut + 1
    /\ buf' = Front(buf)
    /\ UNCHANGED <<job, args, here, outcome, text, marks, opened, readVars>>

-----------------------------------------------------------------------------
(* unpack and unpack_one. *)

\* Either a value and the position behind it, or invalid_stream.
Invalid == [ok |-> FALSE]
Result(x, p) == [ok |-> TRUE, x |-> x, p |-> p]

\* buffer_view::read: n bytes of the stream b from the position p on.
Cells(b, p, n) == [i \in 1..n |-> b[p + i]]
Short(b, p, n) == Len(b) < p + n

\* get_integer, get_real and get_pointer: n bytes, of which an int32_t or an int64_t has
\* a sign.
Number(b, p, n, k) ==
    LET bs == Cells(b, p, n)
    IN  IF Short(b, p, n) THEN Invalid
        ELSE Result([k |-> k,
                     v |-> <<IF k = "int" /\ n >= 4 THEN Signed(bs) ELSE Unsigned(bs)>>], p + n)

get_integer(b, p, cookie) ==
    CASE cookie = TYPE_NUMBER_ZERO  -> Result(Integer(0), p)
      [] cookie = TYPE_NUMBER_BYTE  -> Number(b, p, 1, "int")
      [] cookie = TYPE_NUMBER_WORD  -> Number(b, p, 2, "int")
      [] cookie = TYPE_NUMBER_DWORD -> Number(b, p, 4, "int")
      [] cookie = TYPE_NUMBER_QWORD -> Number(b, p, 8, "int")
      [] OTHER                      -> Invalid

\* get_buffer: a string of n bytes.
get_buffer(b, p, n) ==
    IF Short(b, p, n) THEN Invalid ELSE Result(Str(Cells(b, p, n)), p + n)

\* A string behind its length in n bytes.
LongString(b, p, n) ==
    IF Short(b, p, n) THEN Invalid ELSE get_buffer(b, p + n, Unsigned(Cells(b, p, n)))

TypeOf(byte) == byte % 8
CookieOf(byte) == byte \div 8

\* unpack_table: the length of the array part.
array_size(b, p, cookie) ==
    IF cookie # MAX_COOKIE - 1 THEN Result(Integer(cookie), p)
    ELSE IF Short(b, p, 1) THEN Invalid
    ELSE IF TypeOf(b[p + 1]) # TYPE_NUMBER \/ CookieOf(b[p + 1]) = TYPE_NUMBER_REAL THEN Invalid
    ELSE get_integer(b, p + 1, CookieOf(b[p + 1]))

\* push_value, which for a table gives its length and goes on inside of it.
push_value(b, p, type, cookie) ==
    CASE type = TYPE_NIL          -> Result(Nil, p)
      [] type = TYPE_BOOLEAN      ->
             Result([k |-> "boolean", v |-> <<IF cookie = 0 THEN 0 ELSE 1>>], p)
      [] type = TYPE_NUMBER /\ cookie = TYPE_NUMBER_REAL -> Number(b, p, 8, "real")
      [] type = TYPE_NUMBER /\ cookie # TYPE_NUMBER_REAL -> get_integer(b, p, cookie)
      [] type = TYPE_USERDATA     -> Number(b, p, 8, "pointer")
      [] type = TYPE_SHORT_STRING -> get_buffer(b, p, cookie)
      [] type = TYPE_LONG_STRING  ->
             IF cookie \in {2, 4} THEN LongString(b, p, cookie) ELSE Invalid
      [] type = TYPE_TABLE        -> array_size(b, p, cookie)
      [] OTHER                    -> Invalid

Decoded(b, p) ==
    IF Short(b, p, 1) THEN Invalid
    ELSE push_value(b, p + 1, TypeOf(b[p + 1]), CookieOf(b[p + 1]))

\* unpack(...) and unpack_one(...)
Begin(call) ==
    /\ job = "pack" /\ outcome = "done" /\ reading = "none"
    /\ pos < Len(buf)
    /\ reading' = call
    /\ view' = pos
    /\ UNCHANGED <<writeVars, outcome, pos, reads, made, got>>

\* There is more to read: unpack reads to the end, and unpack_one one value.
More ==
    \/ reading # "none" /\ reads # <<>>
    \/ reading = "unpack" /\ view < Len(buf)
    \/ reading = "unpack_one" /\ view = pos

\* lua_rawset in a table that is a set of pairs.
rawset(map, key, x) ==
    {p \in map : p[1] # key} \cup (IF x = Nil THEN {} ELSE {<<key, x>>})

\* The value x was read inside of the tables rs: an element of the array part, a key, the
\* value under the key before it; or in no table.
Store(rs, x) ==
    LET f == Last(rs)
        InFrame(g) == reads' = Append(Front(rs), g)
        Set(key) == made' = [made EXCEPT ![f.tab] = rawset(@, key, x)]
    IN  \/ /\ rs = <<>>
           /\ got' = Append(got, x)
           /\ UNCHANGED made
           /\ reads' = rs
        \/ /\ rs # <<>>
           /\ \/ f.i <= f.n /\ Set(Integer(f.i)) /\ InFrame([f EXCEPT !.i = @ + 1])
              \/ f.i > f.n /\ f.key # Nil /\ Set(f.key) /\ InFrame([f EXCEPT !.key = Nil])
              \/ f.i > f.n /\ f.key = Nil /\ UNCHANGED made /\ InFrame([f EXCEPT !.key = x])
           /\ UNCHANGED got

\* A nil instead of a key ends a table.
EndsTable(x) ==
    x = Nil /\ reads # <<>> /\ Last(reads).i > Last(reads).n /\ Last(reads).key = Nil

Reading == UNCHANGED <<writeVars, outcome, reading, pos>>

ReadTable ==
    LET r == Decoded(buf, view)
    IN  /\ More
        /\ r.ok
        /\ TypeOf(buf[view + 1]) = TYPE_TABLE
        /\ view' = r.p
        /\ made' = Append(made, {})
        /\ reads' = Append(reads, [tab |-> Len(made) + 1, n |-> r.x.v[1], i |-> 1, key |-> Nil])
        /\ got' = got
        /\ Reading

ReadValue ==
    LET r == Decoded(buf, view)
    IN  /\ More
        /\ r.ok
        /\ TypeOf(buf[view + 1]) # TYPE_TABLE
        /\ view' = r.p
        /\ IF EndsTable(r.x) THEN Store(Front(reads), Ref(Last(reads).tab)) ELSE Store(reads, r.x)
        /\ Reading

\* invalid_stream raises an error.
ReadFails ==
    /\ More
    /\ ~Decoded(buf, view).ok
    /\ outcome' = "invalid"
    /\ reading' = "none"
    /\ UNCHANGED <<writeVars, pos, view, reads, made, got>>

\* unpack_one moves the buffer behind the value: by its size less that of the view.
Seek ==
    /\ reading = "unpack_one" /\ ~More
    /\ pos' = pos + ((Len(buf) - pos) - (Len(buf) - view))
    /\ reading' = "none"
    /\ UNCHANGED <<writeVars, outcome, view, reads, made, got>>

\* unpack returns, and leaves the buffer where it is.
Unpacked ==
    /\ reading = "unpack" /\ ~More
    /\ outcome' = "unpacked"
    /\ reading' = "none"
    /\ UNCHANGED <<writeVars, pos, view, reads, made, got>>

-----------------------------------------------------------------------------

SerializeNext ==
    \/ \E j \in {"pack", "concat"}, xs \in Arguments : Call(j, xs)
    \/ WriteValue \/ EnterTable \/ LeaveTable \/ Refuse \/ Return
    \/ Cut
    \/ \E call \in {"unpack", "unpack_one"} : Begin(call)
    \/ ReadTable \/ ReadValue \/ ReadFails \/ Seek \/ Unpacked

SerializeSpec == SerializeInit /\ [][SerializeNext]_serializeVars

-----------------------------------------------------------------------------
(* Properties. *)

\* The value that was written for y to be read: tables are read in the order in which
\* they were written.
Source(y) == IF IsTable(y) THEN Ref(opened[y.v[1]]) ELSE y

\* The pairs that were read are those of the table t, with each key once.
IsCopy(map, t) ==
    /\ {<<Source(q[1]), Source(q[2])>> : q \in map} = {p \in Pairs(t) : p[2] # Nil}
    /\ \A q, r \in map : Source(q[1]) = Source(r[1]) => q = r

\* unpack and unpack_one give back what was packed: values delimit themselves, and no
\* limit of a width or of a cookie loses one.  Of a stream whose end was cut off the
\* beginning is read, and then nothing or an error, but never something else.
RoundTrip ==
    /\ Len(got) <= Len(args)
    /\ \A i \in 1..Len(got) : Source(got[i]) = args[i]
    /\ \A n \in 1..Len(made) :
           (\A l \in 1..Len(reads) : reads[l].tab # n) => IsCopy(made[n], opened[n])
    /\ outcome = "unpacked" /\ cut = 0 => Len(got) = Len(args)
    /\ outcome = "invalid" => cut > 0

\* The values directly inside of x: of its array part where j is concat.
Inside(j, x) ==
    IF ~IsTable(x) THEN {}
    ELSE LET ps == Pairs(x.v[1])
         IN  IF j = "concat" THEN {p[2] : p \in {q \in ps : InArray(x.v[1], q[1])}}
             ELSE {p[1] : p \in ps} \cup {p[2] : p \in ps}

\* The values that are d tables down in the arguments xs.
Down(j, xs) ==
    LET down[d \in 0..(MAX_DEPTH + 1)] ==
            IF d = 0 THEN ToSet(xs) ELSE UNION {Inside(j, x) : x \in down[d - 1]}
    IN  down

\* pack and concat refuse arguments exactly when something in them is more than MAX_DEPTH
\* tables down, as in a table that contains itself, or of a type they do not support;
\* for concat, in the array parts of tables only.
RefusedExactly ==
    outcome # "none" =>
        (outcome = "error" <=>
            \/ Down(job, args)[MAX_DEPTH + 1] # {}
            \/ \E d \in 0..MAX_DEPTH : \E x \in Down(job, args)[d] : Unsupported(job, x))

\* The sequences ss, one behind the other.
Joined(ss) ==
    LET join[n \in 0..Len(ss)] == IF n = 0 THEN <<>> ELSE join[n - 1] \o ss[n]
    IN  join[Len(ss)]

\* What a value should write, given what tables write.
Written(flat, x) == IF IsTable(x) THEN flat[x.v[1]] ELSE Words(x)

Elements(t) == [i \in 1..Heap[t].length |-> rawgeti(t, i)]

\* What tables with at most d tables within each other should write.
Flat ==
    LET flat[d \in 0..(MAX_DEPTH + 1)] ==
            [t \in DOMAIN Heap |->
                IF d = 0 THEN <<>>
                ELSE Joined([i \in DOMAIN Elements(t) |-> Written(flat[d - 1], Elements(t)[i])])]
    IN  flat

\* However deep the arrays are that a value is in, concat writes it, in order and without
\* a gap at nil; what is under a name or behind __pairs writes nothing.
ConcatFlattens ==
    job = "concat" /\ outcome = "done" =>
        text = Joined([i \in 1..Len(args) |-> Written(Flat[MAX_DEPTH + 1], args[i])])
=============================================================================
