---------------------------- MODULE Selection ----------------------------
(***************************************************************************)
(* What a list comprehension with a condition, and sum(), compute: the     *)
(* helpers of the pipeline's modules. The recursion is that of a function, *)
(* so that the provers can unfold it.                                      *)
(***************************************************************************)
EXTENDS Naturals, Sequences, FiniteSets

\* A list, whatever its elements are.
IsList(s) == s \in Seq({s[i] : i \in DOMAIN s})

\* The elements of s at the positions in I, in the order of s.
Pick(s, I) ==
  LET upTo[n \in 0..Len(s)] ==
        IF n = 0 THEN <<>>
        ELSE IF n \in I THEN Append(upTo[n - 1], s[n]) ELSE upTo[n - 1]
  IN  upTo[Len(s)]

\* The elements of s that pass the test, in the order of s.
Filter(s, Test(_)) == Pick(s, {i \in DOMAIN s : Test(s[i])})

\* How many elements of s pass the test.
Count(s, Test(_)) == Cardinality({i \in DOMAIN s : Test(s[i])})

\* The sum of a sequence of numbers.
SumOf(s) ==
  LET upTo[n \in 0..Len(s)] == IF n = 0 THEN 0 ELSE upTo[n - 1] + s[n]
  IN  upTo[Len(s)]
==========================================================================
