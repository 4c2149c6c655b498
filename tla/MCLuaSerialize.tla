--------------------------- MODULE MCLuaSerialize ---------------------------
(* TLC instance of LuaSerialize: values on both sides of every limit. *)
EXTENDS LuaSerialize

\* With Base 4 a byte ends at 3, a word at 15, a dword at -128 and 127, and MAX_COOKIE
\* is 9, for strings of 8, and of 15 in a word, and for arrays of 7.
Integers1 == {-32768, -129, -128, -1, 0, 1, 3, 4, 15, 16, 127, 128, 32767}
Lengths == {0, 1, 8, 9, 15, 16, 17}

String(n) == Str([i \in 1..n |-> i % Base])
Function == [k |-> "function", v |-> <<>>]
Pointer(n) == [k |-> "pointer", v |-> <<n>>]

MCLeaves ==
    {Nil, Function} \cup {Integer(n) : n \in Integers1} \cup {String(n) : n \in Lengths}
        \cup {[k |-> "boolean", v |-> <<n>>] : n \in {0, 1}}
        \cup {[k |-> "real", v |-> <<n>>] : n \in {0, 5}} \cup {Pointer(n) : n \in {0, 5}}

\* An array of n integers, with a field at the end, or first, or a hole.
Array(n) == [i \in 1..n |-> <<Integer(i), Integer(i)>>]
Field == <<Str(<<1>>), Integer(4)>>
Far == <<Integer(20), Integer(1)>>

Row(length, pairs) == [length |-> length, pairs |-> pairs]
One(x) == Row(1, <<<<Integer(1), x>>>>)
Named(x) == Row(0, <<<<Str(<<1>>), x>>>>)

\* Tables of values, some behind a __pairs metamethod, then tables of tables: nested,
\* shared, as keys, and in themselves.
MCHeap == <<
    Row(0, <<>>), Row(1, Array(1)), Row(6, Array(6)), Row(7, Array(7)), Row(8, Array(8)),
    Row(9, Array(9)), Row(15, Array(15)), Row(16, Array(16)),
    Row(0, <<Field>>), Row(7, Append(Array(7), Field)), Row(0, <<Far, Field>>),
    Row(1, <<Far, Field>> \o Array(1)), Row(8, <<Far, Field>> \o Array(8)),
    Row(3, <<Array(3)[1], Array(3)[3], Field>>), Row(0, Array(8)),
    Row(0, <<Field, <<Integer(1), Nil>>, Far>>),
    One(Function), Named(Function), One(Pointer(5)), Named(Pointer(5)),
    One(Ref(1)), Named(Ref(1)), One(Ref(14)), Named(Ref(12)),
    One(Ref(21)), One(Ref(22)), Named(Ref(21)), Named(Ref(22)), One(Ref(25)), Named(Ref(28)),
    One(Ref(17)), One(Ref(31)), Named(Ref(31)), One(Ref(20)), One(Ref(34)),
    Row(2, <<<<Integer(2), Ref(12)>>, <<Str(<<1>>), Ref(12)>>, <<Integer(1), Ref(12)>>>>),
    Row(0, <<<<Ref(2), Ref(2)>>, <<Ref(12), Integer(1)>>, <<Ref(36), Integer(2)>>>>),
    One(Ref(38)), Named(Ref(39)),
    Row(0, <<<<Ref(40), Integer(1)>>>>),
    Row(2, <<<<Integer(1), Ref(14)>>, <<Integer(2), Ref(41)>>>>) >>

MCArguments ==
    {<<x>> : x \in MCLeaves \cup {Ref(t) : t \in DOMAIN MCHeap}}
        \cup {<<x, y>> : x \in {Nil, Integer(16), String(9)} \cup {Ref(t) : t \in {1, 12, 14, 19, 23}},
                         y \in {Nil, Integer(-1), String(9), Ref(12), Ref(24)}}
=============================================================================
