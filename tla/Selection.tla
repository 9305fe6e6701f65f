------------------------------- MODULE Selection -------------------------------
(***************************************************************************)
(* The list comprehension [x for x in seq if x in set], which the code     *)
(* uses to filter assets, articles and nodes: SelectSeq with a set in the  *)
(* place of a test, as a recursive function, about which SelectionProof    *)
(* can reason.                                                             *)
(***************************************************************************)
EXTENDS Naturals, Sequences

Selected(seq, set) ==
    LET upTo[n \in 0 .. Len(seq)] ==
            IF n = 0 THEN <<>>
            ELSE IF seq[n] \in set THEN Append(upTo[n - 1], seq[n])
            ELSE upTo[n - 1]
    IN  upTo[Len(seq)]

=============================================================================
