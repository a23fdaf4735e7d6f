----------------------------- MODULE Selection -----------------------------
(* Parts of sequences: what Vec::retain and Iterator::filter leave, and what   *)
(* Iterator::flat_map joins.                                                 *)
EXTENDS Naturals, Sequences

(* The members of s that are not in `ids`, in their order.                    *)
Without(s, ids) ==
    LET kept[n \in 0..Len(s)] ==
            IF n = 0 THEN <<>>
            ELSE IF s[n] \in ids THEN kept[n - 1] ELSE Append(kept[n - 1], s[n])
    IN  kept[Len(s)]

(* The sequences in s, one after the other.                                   *)
Joined(s) ==
    LET joined[n \in 0..Len(s)] ==
            IF n = 0 THEN <<>> ELSE joined[n - 1] \o s[n]
    IN  joined[Len(s)]
=============================================================================
