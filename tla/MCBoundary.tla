----------------------------- MODULE MCBoundary -----------------------------
(* Model-checking instance of Boundary. *)
EXTENDS Boundary

CONSTANT MaxChars  \* bound: characters of a text

\* F0 and 0F: two identifiers that differ only in the order of their halves.
MCTids == {<<240>>, <<15>>}

\* '0', 'F', 'f', '+', 'g', and characters of two, three and four bytes.
Alphabet8 == {48, 70, 102, 43, 103, 233, 8364, 128512}

MCTexts == UNION {[1..n -> Alphabet8] : n \in 0..MaxChars}

\* A length in each form there is: short; and one that is not definite or
\* longer than four further octets.
Lengths == {<<9>>, <<127>>, <<128>>}
             \cup {<<127 + k>> \o [i \in 1..k - 1 |-> 90] : k \in 2..6}

Whole == {<<191, 37>> \o l \o <<90, n>> \o <<90, 2>> \o rest :
            l \in Lengths, n \in {IccidOctets - 1, IccidOctets},
            rest \in {<<>>, <<90, 2, 90>>}}

\* Each of them, cut off anywhere or with another first tag.
MCMetadatas ==
  UNION {{SubSeq(m, 1, n) : n \in 0..Len(m)} : m \in Whole}
    \cup {[m EXCEPT ![2] = 38] : m \in Whole}

=============================================================================
