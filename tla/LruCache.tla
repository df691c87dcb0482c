------------------------------- MODULE LruCache -------------------------------
(***************************************************************************)
(* What a cache of statements promises: it holds the statements stored     *)
(* last, one for each query and no more than its limit, and forgets the    *)
(* one stored longest ago.                                                 *)
(***************************************************************************)
EXTENDS Integers, Sequences

CONSTANTS Statement, SqlQuery, NoStatement

VARIABLES contents,    \* the statements held, the one stored last in front
          answer,      \* what the last Take gave
          limit        \* how many statements may be held, 0 counting as 1

PlacesOf(s, q) == {i \in 1..Len(s) : SqlQuery[s[i]] = q}

Others(s, q) ==
  IF PlacesOf(s, q) = {} THEN s
  ELSE LET i == CHOOSE i \in PlacesOf(s, q) : TRUE
       IN  SubSeq(s, 1, i - 1) \o SubSeq(s, i + 1, Len(s))

Store(x) ==
  LET rest == Others(contents, SqlQuery[x])
      room == IF limit > 1 THEN limit - 1 ELSE 0
  IN /\ contents' = <<x>> \o SubSeq(rest, 1, IF Len(rest) > room THEN room ELSE Len(rest))
     /\ UNCHANGED answer

Take(q) ==
  /\ contents' = Others(contents, q)
  /\ \/ /\ answer' \in {contents[i] : i \in 1..Len(contents)}
        /\ SqlQuery[answer'] = q
     \/ /\ contents' = contents
        /\ answer' = NoStatement

Forget == contents' = <<>> /\ UNCHANGED answer

LruInit == contents = <<>> /\ answer = NoStatement /\ limit \in Nat

LruNext ==
  /\ \/ \E x \in Statement : Store(x)
     \/ \E x \in Statement : Take(SqlQuery[x])
     \/ Forget
  /\ UNCHANGED limit

LruSpec == LruInit /\ [][LruNext]_<<contents, answer, limit>>
==============================================================================
