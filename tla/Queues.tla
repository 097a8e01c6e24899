-------------------------------- MODULE Queues --------------------------------
(***************************************************************************)
(* The operations on VecDeque the Core uses, as operators on sequences.    *)
(* They are defined by indices rather than with SelectSeq so that they can *)
(* be reasoned about.                                                      *)
(***************************************************************************)
EXTENDS Sequences, Functions

\* No element occurs twice.
Distinct(seq) == \A i, j \in DOMAIN seq : seq[i] = seq[j] => i = j

\* retain(|x| x != id) on a queue whose elements are distinct.
Without(seq, x) ==
  IF x \notin Range(seq) THEN seq
  ELSE LET at == CHOOSE i \in DOMAIN seq : seq[i] = x
       IN  [i \in 1..(Len(seq) - 1) |-> IF i < at THEN seq[i] ELSE seq[i + 1]]

\* pop_front(): the element it returns, none when the queue is empty.
First(seq) == IF seq = <<>> THEN {} ELSE {Head(seq)}

\* pop_front(): what it leaves.
Rest(seq) == IF seq = <<>> THEN <<>> ELSE Tail(seq)

\* while len() > n { pop_front() }
Youngest(seq, n) ==
  IF Len(seq) <= n THEN seq ELSE SubSeq(seq, Len(seq) - n + 1, Len(seq))
=============================================================================
