------------------------------- MODULE MCChat -------------------------------
(* Instances of Chat: two chunks, and drafts whose links are exact,          *)
(* displaced, ambiguous, invented or out of the excerpt.                     *)
EXTENDS Chat, TLC

MCExcerpt == [k \in Chunks |-> IF k = "k1" THEN <<"w", "n1", "stop", "w", "not", "up", "v">>
                               ELSE <<"v", "w", "stop">>]

MCSegments == [k \in Chunks |->
  IF k = "k1" THEN <<[block |-> "b1", from |-> 0, to |-> 3, blockFrom |-> 2],
                     [block |-> "b2", from |-> 4, to |-> 7, blockFrom |-> 0]>>
  ELSE <<[block |-> "b3", from |-> 0, to |-> 3, blockFrom |-> 0]>>]

MCForms == [n \in Negations |-> {"not"}]

MCVersionOf == [s \in Sessions |-> IF s = "s1" THEN "p1" ELSE "p2"]

Cite(version, chunk, quote, from, to) ==
  [evidence |-> [version |-> version, chunk |-> chunk], quote |-> quote, from |-> from, to |-> to]

Claim(id, text, links) == [id |-> id, text |-> text, links |-> links]

(* Of the two versions the model cites the first. *)
Exact == Claim("c1", <<"n1">>, {Cite("p1", "k1", <<"n1", "stop", "w">>, 1, 4)})
Displaced == Claim("c2", <<"bu", "up">>, {Cite("p1", "k1", <<"up">>, 0, 1)})
Other == Claim("c3", <<"v">>, {Cite("p1", "k2", <<"v", "w">>, 0, 2), Cite("p1", "k1", <<"v">>, 6, 7)})
Ambiguous == Claim("c4", <<"v">>, {Cite("p1", "k1", <<"w">>, 1, 2)})
Outside == Claim("c5", <<"v">>, {Cite("p1", "k1", <<"v">>, 6, 9)})
Wrong == Claim("c6", <<"n2", "not">>, {Cite("p1", "k1", <<"w">>, 0, 1)})

MCDrafts == {<<Exact, Other>>, <<Displaced, Ambiguous, Outside, Wrong>>}

(* On short texts: the places a quote occurs at are those found from the left. *)
ASSUME OccurrencesAgree ==
  \A n \in 0..6, m \in 1..3 : \A text \in [1..n -> {"v", "w"}], quote \in [1..m -> {"v", "w"}] :
    Occurrences(text, quote) = FromLeft(text, quote)
=============================================================================
