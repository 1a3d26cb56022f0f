------------------------------- MODULE ListSpec -------------------------------
(***************************************************************************)
(* What the list kernel of CoreMark promises, without pointers: a sequence *)
(* of items is reversed and reordered, sorted by value, loses its second   *)
(* item and gets it back, is sorted by index, and is at every return the   *)
(* sequence it was when the list was built.                                *)
(***************************************************************************)
EXTENDS Integers, Sequences

CONSTANT Value(_), Rebuilt(_), Computed(_, _)
    \* the key of an item sorted by data, its data rebuilt, and whether an
    \* item is the one it was with its value computed

VARIABLES phase, items, removed, original

Indices(s) == {s[i].idx : i \in 1 .. Len(s)}
At(s, x)   == CHOOSE i \in 1 .. Len(s) : s[i].idx = x

\* t holds the items of s in the order of Key, items of one key in s's order.
Sorts(s, t, Key(_)) ==
    /\ Len(t) = Len(s) /\ Indices(t) = Indices(s)
    /\ \A i, j \in 1 .. Len(t) : i < j =>
           \/ Key(t[i]) < Key(t[j])
           \/ Key(t[i]) = Key(t[j]) /\ At(s, t[i].idx) < At(s, t[j].idx)

Backwards(s)   == [i \in 1 .. Len(s) |-> s[Len(s) + 1 - i]]
Without(s, k)  == SubSeq(s, 1, k - 1) \o SubSeq(s, k + 1, Len(s))
With(s, k, x)  == SubSeq(s, 1, k - 1) \o <<x>> \o SubSeq(s, k, Len(s))

-----------------------------------------------------------------------------
Init == phase = "build" /\ items = <<>> /\ removed = <<>> /\ original = <<>>

\* The built list is in the order of its indices, its header first.
Build ==
    /\ phase = "build" /\ phase' = "idle"
    /\ items'[1].idx = 0 /\ Sorts(items', items', LAMBDA x : x.idx)
    /\ original' = items' /\ UNCHANGED removed

Call ==
    /\ phase = "idle" /\ phase' = "find"
    /\ UNCHANGED <<items, removed, original>>

\* A turn of the find loop reverses the list; the item behind a found one
\* moves behind the first.
FindTurn ==
    /\ phase = "find"
    /\ LET s == Backwards(items)
       IN  \/ items' = s
           \/ \E k \in 2 .. Len(s) : items'[2] = s[k] /\ items' = With(Without(s, k), 2, s[k])
    /\ UNCHANGED <<phase, removed, original>>

SortByData ==
    /\ phase = "find" /\ phase' = "sorted"
    /\ Sorts(items, items', Value)
    /\ \A i \in 1 .. Len(items') : Computed(items[At(items, items'[i].idx)], items'[i])
    /\ UNCHANGED <<removed, original>>

Remove ==
    /\ phase \in {"find", "sorted"} /\ phase' = "removed"
    /\ items' = Without(items, 2) /\ removed' = <<items[2]>>
    /\ UNCHANGED original

Undo ==
    /\ phase = "removed" /\ phase' = "undone"
    /\ items' = With(items, 2, removed[1]) /\ removed' = <<>>
    /\ UNCHANGED original

SortByIdx ==
    /\ phase = "undone" /\ phase' = "checked"
    /\ Sorts(items, items', LAMBDA x : x.idx)
    /\ \A i \in 1 .. Len(items') : items'[i] = Rebuilt(items[At(items, items'[i].idx)])
    /\ UNCHANGED <<removed, original>>

\* The list is back to its original state, and the next call may follow.
Return ==
    /\ phase = "checked" /\ phase' \in {"idle", "find"}
    /\ items = original
    /\ UNCHANGED <<items, removed, original>>

Next == Build \/ Call \/ FindTurn \/ SortByData \/ Remove \/ Undo \/ SortByIdx \/ Return
Spec == Init /\ [][Next]_<<phase, items, removed, original>>
=============================================================================
