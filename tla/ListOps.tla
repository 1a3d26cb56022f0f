------------------------------- MODULE ListOps -------------------------------
(***************************************************************************)
(* The linked list of core_list_join.c.  A heap maps every list_head to    *)
(* its next pointer and to its info pointer, and every list_data to its    *)
(* idx and data16 (kept as the unsigned 16-bit pattern).  Addresses are    *)
(* the positions in the two arrays core_list_init carves out of its block. *)
(***************************************************************************)
EXTENDS Crc, Sequences

NULL == -1

Heap(N) == [next : [N -> N \cup {NULL}], info : [N -> N],
            data : [N -> [idx : 0 .. 32767, data16 : 0 .. 65535]]]

Info(h, n) == h.data[h.info[n]]

\* The nodes from n to the end of the list, at most k of them.
ChainOf(h, n, k) ==
    LET walk[x \in (DOMAIN h.next \cup {NULL}) \X (0 .. k)] ==
            IF x[1] = NULL \/ x[2] = 0 THEN <<>>
            ELSE <<x[1]>> \o walk[<<h.next[x[1]], x[2] - 1>>]
    IN  walk[<<n, k>>]
Contents(h, n, k) ==
    LET c == ChainOf(h, n, k) IN [i \in 1 .. Len(c) |-> Info(h, c[i])]

SetNext(h, n, m)      == [h EXCEPT !.next[n] = m]
SwapInfo(h, m, n)     == [h EXCEPT !.info[m] = h.info[n], !.info[n] = h.info[m]]

\* core_list_find: by idx if the wanted idx is not negative, else by the low
\* byte of the data; NULL if no node matches.
Matches(h, n, want) ==
    IF want.idx >= 0 THEN Info(h, n).idx = want.idx
                     ELSE LowByte(Info(h, n).data16) = want.data16
core_list_find(h, list, want) ==
    LET seek[n \in DOMAIN h.next \cup {NULL}] ==
            IF n = NULL \/ Matches(h, n, want) THEN n ELSE seek[h.next[n]]
    IN  seek[list]

\* core_list_remove: the cell keeps its place and takes the next item's info;
\* the next cell is unlinked with the info of the removed item.
removed_cell(h, item) == h.next[item]
core_list_remove(h, item) ==
    LET ret == h.next[item]
        s   == SwapInfo(h, item, ret)
    IN  SetNext(SetNext(s, item, h.next[ret]), ret, NULL)

\* Mutant: the info pointers are not switched back.
core_list_undo_link_only(h, removed, modified) ==
    SetNext(SetNext(h, removed, h.next[modified]), modified, removed)

core_list_undo_remove(h, removed, modified) ==
    LET s == SwapInfo(h, removed, modified)
    IN  SetNext(SetNext(s, removed, h.next[modified]), modified, removed)

\* core_list_insert_new: takes cell and datum number k, if there is one.
core_list_insert_new(h, k, point, info, size) ==
    IF k + 1 >= size THEN h
    ELSE SetNext(SetNext([h EXCEPT !.data[k] = info, !.info[k] = k],
                         k, h.next[point]), point, k)

\* core_bench_list, a found item: the item behind it moves to the place
\* behind the head.
MoveNextToFront(h, list, this_find) ==
    LET finder == h.next[this_find]
        h1     == SetNext(h, this_find, h.next[finder])
        h2     == SetNext(h1, finder, h1.next[list])
    IN  IF finder = NULL THEN h ELSE SetNext(h2, list, finder)

\* core_list_init: how many items blksize bytes hold, the nodes as they are
\* inserted behind the head, and the idx that records their order.
PER_ITEM == 16 + 4
ListSize(blksize) == blksize \div PER_ITEM - 2

DataPattern(seed, i) ==
    LET dat == 8 * (XorByte(LowByte(seed), LowByte(i)) % 16) + (i % 8) IN 256 * dat + dat

EmptyList(size) ==
    [next |-> [n \in 0 .. size - 1 |-> NULL], info |-> [n \in 0 .. size - 1 |-> n],
     data |-> [n \in 0 .. size - 1 |-> [idx |-> 0, data16 |-> IF n = 0 THEN 32896 ELSE 0]]]
LastItem    == [idx |-> 32767, data16 |-> 65535]
Item(seed, i) == [idx |-> 32767, data16 |-> DataPattern(seed, i)]

\* The first fifth of the items count from 1, the rest is mixed behind them.
ItemIdx(size, seed, i) ==
    IF i < size \div 5 THEN i
    ELSE LET pat == XorWord(i, seed)
         IN  (256 * OrByte((i + 1) % 8, HighByte(pat)) + LowByte(pat)) % 16384
IndexItems(h, size, seed) ==
    LET c == ChainOf(h, 0, size)
    IN  [h EXCEPT !.data = [n \in DOMAIN @ |->
            IF \E i \in 2 .. Len(c) - 1 : h.info[c[i]] = n
            THEN [@[n] EXCEPT !.idx =
                     ItemIdx(size, seed, (CHOOSE i \in 2 .. Len(c) - 1 : h.info[c[i]] = n) - 1)]
            ELSE @[n]]]
=============================================================================
