----------------------------- MODULE Selection -----------------------------
(***************************************************************************)
(* What a loop leaves that walks over a list and appends what it keeps.    *)
(***************************************************************************)
EXTENDS Naturals, Sequences

\* The members of s at the places in kept, in their order.
Selected(s, kept) ==
    LET upTo[i \in 0..Len(s)] ==
            IF i = 0 THEN <<>>
            ELSE IF i \in kept THEN Append(upTo[i-1], s[i]) ELSE upTo[i-1]
    IN  upTo[Len(s)]
=============================================================================
