-------------------------------- MODULE Chat --------------------------------
(***************************************************************************)
(* Questions to a paper: the chat endpoints of server/app/main.py and the  *)
(* pipeline they run, PaperReader.run_events of core/paperlens_core/       *)
(* reader.py, with its process-wide cache of drafts.  A streamed call      *)
(* stores the question when it starts and the answer when it ends; a       *)
(* buffered call stores both at its end.                                   *)
(*                                                                         *)
(* The model's replies (rewritten question, retrieval plan, draft,         *)
(* verdicts) are any of small sets.  What the reader does with them, and   *)
(* with the cache that its threads share without a lock, is the code's.    *)
(***************************************************************************)
EXTENDS Evidence

CONSTANTS
  Calls,      \* chat requests
  Streamed,   \* those sent to the streaming endpoint
  Sessions,
  VersionOf,  \* session -> the paper version it is about
  Questions,
  NoQuestion, NoSession, \* of a call that is not running
  Analytic,   \* questions for which the paper agent prepares a context
  Retrievals, \* sets of chunks that BM25 may return
  Drafts,     \* drafts the model may return
  Verdicts,   \* replies of the attribution verifier
  CacheMax,   \* _DRAFT_CACHE_MAX
  HistoryMax, \* messages of a session that are read back (6)
  MaxDeletes  \* bound on deleted sessions

ASSUME CallsAssumption == IsFiniteSet(Calls) /\ Streamed \subseteq Calls
ASSUME BoundsAssumption == CacheMax \in Nat /\ HistoryMax \in Nat /\ MaxDeletes \in Nat
ASSUME VerdictAssumption == Supported \in Verdicts
ASSUME DraftsAssumption == Drafts \subseteq Seq(Claims)
ASSUME RetrievalsAssumption == Retrievals \subseteq SUBSET Chunks

VARIABLES
  sessions,  \* existing sessions
  messages,  \* session -> its stored messages
  cache,     \* _DRAFT_CACHE: entries, least recently used first
  pc,        \* call -> where it is
  session,   \* call -> the session it asks in
  history,   \* call -> the messages it read back
  question,  \* call -> the question, later the rewritten one
  hits,      \* call -> the retrieved chunks
  draft,     \* call -> the draft it works on
  streamed,  \* call -> the claims announced as validated
  answer,    \* call -> the claims of the final answer
  basis,     \* history: call -> the ledger its draft was written from
  judged,    \* history: call -> the accepted claims whose own verdict was SUPPORTED
  broken     \* history: calls whose entry was evicted before they moved it

local == <<session, history, question, hits, draft, streamed, answer, basis, judged>>
stored == <<sessions, messages>>
vars == <<sessions, messages, cache, pc, local, broken>>

Ended == {"completed", "failed", "dropped"}

Go(c, from, to) == pc[c] = from /\ pc' = [pc EXCEPT ![c] = to]

(* The call ends and its local variables die. *)
Leave(c, from, how) ==
  /\ Go(c, from, how)
  /\ history' = [history EXCEPT ![c] = <<>>]
  /\ question' = [question EXCEPT ![c] = NoQuestion]
  /\ hits' = [hits EXCEPT ![c] = {}]
  /\ draft' = [draft EXCEPT ![c] = <<>>]
  /\ streamed' = [streamed EXCEPT ![c] = <<>>]
  /\ answer' = [answer EXCEPT ![c] = <<>>]
  /\ basis' = [basis EXCEPT ![c] = {}]
  /\ judged' = [judged EXCEPT ![c] = {}]
  /\ UNCHANGED session

(* Mutant: one message more than the limit. *)
LastOfAndOne(seq, n) == SubSeq(seq, IF Len(seq) > n THEN Len(seq) - n ELSE 1, Len(seq))

LastOf(seq, n) == SubSeq(seq, IF Len(seq) > n THEN Len(seq) - n + 1 ELSE 1, Len(seq))

Message(role, c, claims, links) == [role |-> role, call |-> c, content |-> claims, evidence |-> links]
Question(c) == Message("user", c, <<>>, <<>>)

(* Messages are inserted whether or not the session still exists. *)
Store(s, message) == messages' = [messages EXCEPT ![s] = Append(@, message)]

(* build_evidence_ledger *)
LedgerOf(version, chunks) == {[version |-> version, chunk |-> k] : k \in chunks}
Ledger(c) == LedgerOf(VersionOf[session[c]], hits[c])

(* Mutant: the key forgets what was retrieved. *)
KeyWithoutHits(c) == <<VersionOf[session[c]], question[c], {}>>

(* The parts of a key are joined by bars: questions and ids that contain one,  *)
(* and could make two keys equal, are left out.                             *)
Key(c) == <<VersionOf[session[c]], question[c], hits[c]>>

Init ==
  /\ sessions = Sessions
  /\ messages = [s \in Sessions |-> <<>>]
  /\ cache = <<>>
  /\ pc = [c \in Calls |-> "idle"]
  /\ session = [c \in Calls |-> NoSession]
  /\ question = [c \in Calls |-> NoQuestion]
  /\ history = [c \in Calls |-> <<>>]
  /\ hits = [c \in Calls |-> {}]
  /\ draft = [c \in Calls |-> <<>>]
  /\ streamed = [c \in Calls |-> <<>>]
  /\ answer = [c \in Calls |-> <<>>]
  /\ basis = [c \in Calls |-> {}]
  /\ judged = [c \in Calls |-> {}]
  /\ broken = {}

-----------------------------------------------------------------------------
(* The endpoints, up to the reader.                                         *)

ReadHistory(c) == history' = [history EXCEPT ![c] = LastOf(messages[session'[c]], HistoryMax)]

(* A stream reads the history before it stores its own question, a buffered *)
(* call when the reader starts.                                             *)
Open(c) ==
  /\ Go(c, "idle", "opened")
  /\ \E s \in sessions : session' = [session EXCEPT ![c] = s]
  /\ \E q \in Questions : question' = [question EXCEPT ![c] = q]
  /\ IF c \in Streamed THEN ReadHistory(c) ELSE UNCHANGED history
  /\ UNCHANGED <<stored, cache, hits, draft, streamed, answer, basis, judged, broken>>

AppendQuestion(c) ==
  /\ \/ c \in Streamed /\ Go(c, "opened", "asked")
     \/ c \notin Streamed /\ Go(c, "answered", "recording")
  /\ Store(session[c], Question(c))
  /\ UNCHANGED <<sessions, cache, local, broken>>

(* The version may be gone: an exception before the reader runs. *)
VersionMissing(c) ==
  /\ Leave(c, IF c \in Streamed THEN "asked" ELSE "opened", "failed")
  /\ UNCHANGED <<stored, cache, broken>>

-----------------------------------------------------------------------------
(* PaperReader.run_events.                                                  *)

(* Rewriting, planning and retrieval touch nothing that is shared.  Without *)
(* history and agent context the question stays as it is.                   *)
Retrieve(c) ==
  /\ Go(c, IF c \in Streamed THEN "asked" ELSE "opened", "retrieved")
  /\ UNCHANGED session
  /\ IF c \in Streamed THEN UNCHANGED history ELSE ReadHistory(c)
  /\ \E q \in IF history'[c] # <<>> \/ question[c] \in Analytic THEN Questions ELSE {question[c]} :
       question' = [question EXCEPT ![c] = q]
  /\ \E found \in Retrievals : hits' = [hits EXCEPT ![c] = found]
  /\ UNCHANGED <<stored, cache, draft, streamed, answer, basis, judged, broken>>

(* retrieval_is_sufficient said no: an answer without claims. *)
AnswerInsufficient(c) ==
  /\ Go(c, "retrieved", "answered")
  /\ UNCHANGED <<stored, cache, local, broken>>

Cached(key) == {k \in DOMAIN cache : cache[k].key = key}

CacheGet(c) ==
  /\ pc[c] = "retrieved" /\ hits[c] # {}
  /\ \/ /\ Cached(Key(c)) = {}
        /\ Go(c, "retrieved", "drafting")
        /\ UNCHANGED <<draft, basis>>
     \/ \E k \in Cached(Key(c)) :
          /\ Go(c, "retrieved", "touching")
          /\ draft' = [draft EXCEPT ![c] = cache[k].draft]
          /\ basis' = [basis EXCEPT ![c] = cache[k].ledger]
  /\ UNCHANGED <<stored, cache, session, history, question, hits, streamed, answer, judged, broken>>

(* OrderedDict.move_to_end raises when the key is not there any more. *)
MoveToEnd(c, from, to) ==
  /\ pc[c] = from
  /\ \/ \E k \in Cached(Key(c)) :
          /\ Go(c, from, to)
          /\ cache' = Append(SubSeq(cache, 1, k - 1) \o SubSeq(cache, k + 1, Len(cache)), cache[k])
          /\ UNCHANGED <<local, broken>>
     \/ /\ Cached(Key(c)) = {}
        /\ Leave(c, from, "failed")
        /\ broken' = IF from = "moving" THEN broken \cup {c} ELSE broken
        /\ UNCHANGED cache
  /\ UNCHANGED stored

CacheTouch(c) == MoveToEnd(c, "touching", "drafted")

DraftAnswer(c) ==
  /\ Go(c, "drafting", "putting")
  /\ \E d \in Drafts : draft' = [draft EXCEPT ![c] = d]
  /\ basis' = [basis EXCEPT ![c] = Ledger(c)]
  /\ UNCHANGED <<stored, cache, session, history, question, hits, streamed, answer, judged, broken>>

DraftFails(c) ==
  /\ Leave(c, "drafting", "failed")
  /\ UNCHANGED <<stored, cache, broken>>

CachePut(c) ==
  /\ Go(c, "putting", "moving")
  /\ LET entry == [key |-> Key(c), draft |-> draft[c], ledger |-> basis[c]]
     IN cache' = IF Cached(Key(c)) = {} THEN Append(cache, entry)
                 ELSE [k \in DOMAIN cache |-> IF k \in Cached(Key(c)) THEN entry ELSE cache[k]]
  /\ UNCHANGED <<stored, local, broken>>

CacheMove(c) == MoveToEnd(c, "moving", "trimming")

(* Mutant: the size is compared before the new entry counts. *)
CacheTrimLate(c) ==
  /\ Go(c, "trimming", "drafted")
  /\ cache' = IF Len(cache) > CacheMax + 1 THEN Tail(cache) ELSE cache
  /\ UNCHANGED <<stored, local, broken>>

CacheTrim(c) ==
  /\ Go(c, "trimming", "drafted")
  /\ cache' = IF Len(cache) > CacheMax THEN Tail(cache) ELSE cache
  /\ UNCHANGED <<stored, local, broken>>

(* The guard, then one verifier call for each claim it accepted. *)
Attribute(c) ==
  /\ Go(c, "drafted", "attributed")
  /\ LET claims == Validate(Ledger(c), draft[c])
     IN \E verdicts \in [DOMAIN claims -> Verdicts] :
          /\ streamed' = [streamed EXCEPT ![c] = Named(claims, SupportedIds(claims, verdicts))]
          /\ judged' = [judged EXCEPT ![c] =
                          {claims[k] : k \in {i \in DOMAIN claims : verdicts[i] = Supported}}]
  /\ UNCHANGED <<stored, cache, session, history, question, hits, draft, answer, basis, broken>>

(* finalize sees the ids of the announced claims only. *)
Complete(c) ==
  /\ Go(c, "attributed", "answered")
  /\ answer' = [answer EXCEPT ![c] =
       Finalize(Ledger(c), draft[c], {streamed[c][k].id : k \in DOMAIN streamed[c]})]
  /\ UNCHANGED <<stored, cache, session, history, question, hits, draft, streamed, basis, judged, broken>>

(* Mutant: a buffered call stores its answer before its question. *)
AppendAnswerFirst(c) ==
  /\ Leave(c, "answered", "completed")
  /\ Store(session[c], Message("assistant", c, answer[c], streamed[c]))
  /\ UNCHANGED <<sessions, cache, broken>>

(* The answer is stored with the announced claims as its evidence. *)
AppendAnswer(c) ==
  /\ Leave(c, IF c \in Streamed THEN "answered" ELSE "recording", "completed")
  /\ Store(session[c], Message("assistant", c, answer[c], streamed[c]))
  /\ UNCHANGED <<sessions, cache, broken>>

-----------------------------------------------------------------------------
(* A client that leaves closes the generator of its stream where it yields. *)
Disconnect(c) ==
  /\ c \in Streamed
  /\ \E at \in {"asked", "retrieved", "drafted", "attributed"} : Leave(c, at, "dropped")
  /\ UNCHANGED <<stored, cache, broken>>

DeleteSession(s) ==
  /\ s \in sessions
  /\ Cardinality(Sessions \ sessions) < MaxDeletes
  /\ messages' = [messages EXCEPT ![s] = <<>>]
  /\ sessions' = sessions \ {s}
  /\ UNCHANGED <<cache, pc, local, broken>>

Step(c) ==
  \/ Open(c) \/ AppendQuestion(c) \/ VersionMissing(c)
  \/ Retrieve(c) \/ AnswerInsufficient(c)
  \/ CacheGet(c) \/ CacheTouch(c) \/ DraftAnswer(c) \/ DraftFails(c)
  \/ CachePut(c) \/ CacheMove(c) \/ CacheTrim(c)
  \/ Attribute(c) \/ Complete(c) \/ AppendAnswer(c)

Next ==
  \/ \E c \in Calls : Step(c) \/ Disconnect(c)
  \/ \E s \in Sessions : DeleteSession(s)
Spec == Init /\ [][Next]_vars

-----------------------------------------------------------------------------
PC == {"idle", "opened", "asked", "retrieved", "touching", "drafting", "putting", "moving",
       "trimming", "drafted", "attributed", "answered", "recording"} \cup Ended

Keys == {VersionOf[s] : s \in Sessions} \X Questions \X SUBSET Chunks
Evidences == [version : {VersionOf[s] : s \in Sessions}, chunk : Chunks]
Entries == [key : Keys, draft : Drafts, ledger : SUBSET Evidences]

(* A running call has a session and a question.                             *)
CallTypes ==
  /\ pc \in [Calls -> PC]
  /\ session \in [Calls -> Sessions \cup {NoSession}]
  /\ question \in [Calls -> Questions \cup {NoQuestion}]
  /\ hits \in [Calls -> SUBSET Chunks]
  /\ draft \in [Calls -> Drafts \cup {<<>>}]
  /\ basis \in [Calls -> SUBSET Evidences]
  /\ \A c \in Calls : pc[c] \notin Ended \cup {"idle"} => session[c] \in Sessions /\ question[c] \in Questions
  /\ \A c \in Calls : pc[c] \in {"touching", "putting"} => draft[c] \in Drafts

SharedTypes == sessions \subseteq Sessions /\ cache \in Seq(Entries) /\ broken \subseteq Calls

(* Messages are of calls, and at most HistoryMax of them are read back.      *)
MessageTypes ==
  /\ \A s \in Sessions : \A k \in DOMAIN messages[s] :
       messages[s][k].role \in {"user", "assistant"} /\ messages[s][k].call \in Calls
  /\ \A c \in Calls : Len(history[c]) <= HistoryMax

(* Type correctness.                                                        *)
TypeOK == CallTypes /\ SharedTypes /\ MessageTypes

ClaimsOf(seq) == {seq[k] : k \in DOMAIN seq}
UniqueIds(d) == \A i, k \in DOMAIN d : d[i].id = d[k].id => i = k

(* Every link of a shown claim is literal: its span is in the excerpt, says *)
(* what the quote says, comes from evidence the model was shown for this    *)
(* very answer, cached or not, and every block it is traced to lies within  *)
(* the block's own part of the excerpt.                                     *)
ShownQuotesAreLiteral ==
  \A c \in Calls : \A claim \in ClaimsOf(answer[c]) : \A link \in claim.links :
    LET text == Excerpt[link.evidence.chunk]
    IN /\ link.evidence \in basis[c]
       /\ 0 <= link.from /\ link.to <= Len(text)
       /\ Slice(text, link.from, link.to) = link.quote
       /\ \A spot \in LocateChunkSpans(link.evidence.chunk, link.from, link.to) :
            \E segment \in ClaimsOf(Segments[link.evidence.chunk]) :
              /\ segment.block = spot.block
              /\ segment.blockFrom <= spot.from /\ spot.from < spot.to
              /\ spot.to <= segment.blockFrom + (segment.to - segment.from)
              /\ spot.from - segment.blockFrom + segment.from >= link.from

(* A draft that names its claims apart is shown only as far as each claim's  *)
(* own verifier call supported it.                                          *)
ShownClaimsWereJudged ==
  \A c \in Calls : UniqueIds(draft[c]) => ClaimsOf(answer[c]) \subseteq judged[c]

(* reader.py:34: a cached draft cites only the ledger of the request that   *)
(* reuses it, because the key holds the version and the retrieved chunks.   *)
CachedDraftsCiteTheLedger == \A c \in Calls : basis[c] # {} => basis[c] = Ledger(c)

(* What a client saw announced, what the answer lists and what is stored as  *)
(* the answer's evidence are the same claims.                               *)
StreamMatchesRecord ==
  /\ \A c \in Calls : pc[c] \in {"answered", "recording"} => answer[c] = streamed[c]
  /\ \A s \in Sessions : \A k \in DOMAIN messages[s] :
       messages[s][k].role = "assistant" => messages[s][k].content = messages[s][k].evidence

(* However calls overlap in a session that exists, each answer has its       *)
(* question before it, and no message is stored twice.                      *)
AnswersFollowTheirQuestions ==
  \A s \in sessions :
    /\ \A i, k \in DOMAIN messages[s] :
         messages[s][i].role = messages[s][k].role /\ messages[s][i].call = messages[s][k].call => i = k
    /\ \A k \in DOMAIN messages[s] :
         messages[s][k].role = "assistant" =>
           \E i \in 1..k - 1 : messages[s][i] = Question(messages[s][k].call)

Storing == {c \in Calls : pc[c] \in {"moving", "trimming"}}

(* The cache is larger than its limit by at most the calls that are storing  *)
(* a draft and those that failed between storing it and moving it, which     *)
(* never trim; a call that fails on a hit adds nothing.  A key is held once. *)
CacheAccounted ==
  /\ Len(cache) <= CacheMax + Cardinality(Storing) + Cardinality(broken)
  /\ \A i, k \in DOMAIN cache : cache[i].key = cache[k].key => i = k
=============================================================================
