------------------------------ MODULE Evidence ------------------------------
(***************************************************************************)
(* EvidenceGuard and locate_chunk_spans of core/paperlens_core/evidence.py:*)
(* which claims of a drafted answer are accepted, and which source blocks  *)
(* a quote covers.  A text is a sequence of tokens; a span runs from an    *)
(* offset to the offset after its last token, counted from zero as in the  *)
(* code.  An evidence item is a chunk of one version of a paper.           *)
(***************************************************************************)
EXTENDS Integers, Sequences, FiniteSets

CONSTANTS
  Chunks,
  Excerpt,      \* chunk -> its text
  Segments,     \* chunk -> the parts of its text, each with its source block
  Numbers, Negations, Comparators, Stops, \* tokens the guard distinguishes
  NegationForms \* negation -> the negations that can support it

(* What a model's reply is parsed into: AnswerClaim and EvidenceLink of models.py. *)
Links ==
  {link \in [evidence : [version : STRING, chunk : STRING], quote : Seq(STRING), from : Nat, to : Nat] :
     link.from < link.to /\ link.quote # <<>>}
Claims == [id : STRING, text : Seq(STRING), links : SUBSET Links]

Spans == [block : STRING, from : Int, to : Int, blockFrom : Int]

ASSUME SourceAssumption ==
  \A k \in Chunks : Excerpt[k] \in Seq(STRING) /\ Segments[k] \in Seq(Spans)

(* The elements of a sequence at some places, in their order. *)
Rank(S, n) == Cardinality({m \in S : m < n})
InOrder(S) == [i \in 1..Cardinality(S) |-> CHOOSE n \in S : Rank(S, n) = i - 1]
Pick(seq, places) == LET order == InOrder(places) IN [i \in DOMAIN order |-> seq[order[i]]]

Contains(text, words) == \E p \in DOMAIN text : text[p] \in words
Within(text, words) == {text[p] : p \in DOMAIN text} \cap words

-----------------------------------------------------------------------------
(* locate_chunk_spans.  A segment has a span in the chunk and the offset in *)
(* its block at which it starts.                                            *)

Larger(a, b) == IF a > b THEN a ELSE b
Smaller(a, b) == IF a < b THEN a ELSE b

Overlaps(segment, from, to) == Larger(from, segment.from) < Smaller(to, segment.to)

Clip(segment, from, to) ==
  LET first == Larger(from, segment.from)
      start == segment.blockFrom + (first - segment.from)
  IN [block |-> segment.block, from |-> start, to |-> start + (Smaller(to, segment.to) - first)]

LocateChunkSpans(chunk, from, to) ==
  {Clip(Segments[chunk][k], from, to) :
     k \in {i \in DOMAIN Segments[chunk] : Overlaps(Segments[chunk][i], from, to)}}

-----------------------------------------------------------------------------
(* _validate_link.  A quote that is not where the model says is looked for; *)
(* one occurrence relocates it.  Occurrences are counted from the left      *)
(* without overlap, as re.finditer does.                                    *)

Slice(text, from, to) == SubSeq(text, from + 1, to)

Places(text, quote) ==
  {p \in 0..Len(text) : p + Len(quote) <= Len(text) /\ Slice(text, p, p + Len(quote)) = quote}

Occurrences(text, quote) ==
  UNION {found \in SUBSET Places(text, quote) :
           \A p \in Places(text, quote) :
             p \in found <=> \A q \in found : q < p => q + Len(quote) <= p}

(* The same as re.finditer finds them: from the left, going on behind each. *)
FromLeft(text, quote) ==
  LET after[p \in 0..Len(text)] ==
        IF p + Len(quote) > Len(text) THEN {}
        ELSE IF Slice(text, p, p + Len(quote)) = quote THEN {p} \cup after[p + Len(quote)]
        ELSE after[p + 1]
  IN after[0]

(* Mutant: an occurrence is enough, the offsets stay as the model gave them. *)
ValidLinksUnmoved(ledger, link) ==
  IF link.evidence \notin ledger \/ link.to > Len(Excerpt[link.evidence.chunk]) THEN {}
  ELSE IF Occurrences(Excerpt[link.evidence.chunk], link.quote) # {} THEN {link} ELSE {}

(* The link as the guard keeps it: none or one. *)
ValidLinks(ledger, link) ==
  LET text == Excerpt[link.evidence.chunk]
      places == Occurrences(text, link.quote)
  IN IF link.evidence \notin ledger \/ link.to > Len(text) THEN {}
     ELSE IF Slice(text, link.from, link.to) = link.quote THEN {link}
     ELSE IF Cardinality(places) = 1
          THEN {[link EXCEPT !.from = p, !.to = p + Len(link.quote)] : p \in places}
     ELSE {}

-----------------------------------------------------------------------------
(* check_claim.  Numbers and comparisons are looked for in the cited        *)
(* excerpts, negations in the sentences around the quotes.                  *)

Bounds(text) == {0, Len(text)} \cup {p \in DOMAIN text : text[p] \in Stops}

SentenceContext(link) ==
  LET text == Excerpt[link.evidence.chunk]
      start == CHOOSE b \in Bounds(text) :
                 b <= link.from /\ \A o \in Bounds(text) : o <= link.from => o <= b
      end == CHOOSE b \in Bounds(text) :
                 b >= link.to /\ \A o \in Bounds(text) : o >= link.to => o >= b
  IN Slice(text, start, end)

CheckedLinks(ledger, claim) == UNION {ValidLinks(ledger, link) : link \in claim.links}

Accepted(ledger, claim) ==
  LET links == CheckedLinks(ledger, claim)
      texts == {Excerpt[link.evidence.chunk] : link \in links}
      contexts == {SentenceContext(link) : link \in links}
  IN /\ \A link \in claim.links : ValidLinks(ledger, link) # {}
     /\ Within(claim.text, Numbers) \subseteq UNION {Within(t, Numbers) : t \in texts}
     /\ \A n \in Within(claim.text, Negations) :
          \E t \in contexts : Contains(t, NegationForms[n])
     /\ Contains(claim.text, Comparators) => \E t \in texts : Contains(t, Comparators)

(* EvidenceGuard.validate: the accepted claims, in order, with their links  *)
(* as the guard corrected them.                                             *)
Validate(ledger, draft) ==
  LET kept == Pick(draft, {k \in DOMAIN draft : Accepted(ledger, draft[k])})
  IN [k \in DOMAIN kept |-> [kept[k] EXCEPT !.links = CheckedLinks(ledger, kept[k])]]

-----------------------------------------------------------------------------
(* Mutant: the first outcome is used for every claim. *)
FirstOutcome(claims, verdicts, k) == verdicts[1]

(* Attribution.  Each accepted claim is judged by a call of its own; the    *)
(* outcomes are kept by claim id, so the last of several claims with one id *)
(* decides for all of them.                                                 *)

Outcome(claims, verdicts, k) ==
  verdicts[CHOOSE i \in DOMAIN claims :
             /\ claims[i].id = claims[k].id
             /\ \A o \in DOMAIN claims : claims[o].id = claims[k].id => o <= i]

Supported == "SUPPORTED"

(* The ids of the claims that run_events announces as validated. *)
SupportedIds(claims, verdicts) ==
  {claims[k].id : k \in {i \in DOMAIN claims : Outcome(claims, verdicts, i) = Supported}}

Named(claims, ids) == Pick(claims, {k \in DOMAIN claims : claims[k].id \in ids})

(* Mutant: the semantic verdicts are ignored. *)
FinalizeUnfiltered(ledger, draft, ids) == Validate(ledger, draft)

(* EvidenceGuard.finalize: the draft is validated again. *)
Finalize(ledger, draft, ids) ==
  Named(Validate(ledger, draft), ids)
=============================================================================
