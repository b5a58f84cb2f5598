----------------------------- MODULE AgentPanel -----------------------------
(***************************************************************************)
(* The question panel of the reader: it restores the latest session of the *)
(* paper, streams a question's answer, falls back to the buffered endpoint *)
(* when the stream breaks, and lets the user switch, create and delete     *)
(* sessions at any time.  What it shows is a list of messages of its own;  *)
(* what the server stores is a list for each session.  How an answer is    *)
(* made is left to Chat: here the server stores a question, then an answer *)
(* or nothing.  A request to create or delete a session and its reply are  *)
(* one step, and so are the last event of a stream and its end.            *)
(***************************************************************************)
EXTENDS Naturals, FiniteSets, Sequences

CONSTANTS
  OldSessions,  \* how many sessions the paper has when it is opened
  MaxSessions,  \* bound: how many it ever has
  MaxRuns,      \* bound: questions sent on this panel
  MaxBreaks,    \* bound: questions whose stream breaks
  MaxMoves      \* bound: switches to, creations and deletions of sessions, the
                \* creation on entering the paper included

ASSUME PanelAssumption ==
  /\ MaxSessions \in Nat /\ OldSessions \in 0..MaxSessions
  /\ MaxRuns \in Nat /\ MaxBreaks \in Nat /\ MaxMoves \in Nat

VARIABLES
  exists,      \* the sessions that exist on the server
  deleted,     \* those that were deleted
  store,       \* session -> its stored messages
  sessionRef,  \* the session the panel asks in, NoSession if none
  promise,     \* what the first session request resolved to
  messages,    \* the messages shown
  busy,        \* a question is being answered
  pc, sid,     \* question -> where its run is, the session it was asked in
  stream,      \* question -> how far the server is with its stream
  post,        \* question -> how far the server is with its buffered request
  loads,       \* message lists requested, with the rows once read
  recreating,  \* the shown session was deleted, its successor is not created
  moves,       \* bounded counter
  disturbed    \* history: the user did not wait for the panel to come to rest,
               \* or loading a message list failed

session == <<exists, deleted, sessionRef, promise, recreating, moves>>
vars == <<exists, deleted, store, sessionRef, promise, messages, busy, pc, sid,
          stream, post, loads, recreating, moves, disturbed>>

Runs == 1..MaxRuns
(* Sessions are numbered in the order they are created. *)
Sessions == 1..MaxSessions
NoSession == 0
Pending == MaxSessions + 1
Rejected == MaxSessions + 2
Row(role, run) == [role |-> role, run |-> run]
Message(role, run, text) == [role |-> role, run |-> run, text |-> text]
Shown(row) == Message(row.role, row.run, IF row.role = "user" THEN "question" ELSE "answer")
Restored(rows) == [i \in DOMAIN rows |-> Shown(rows[i])]
Placeholder(r) == Message("assistant", r, "stage")

(* The messages of a list but those with some text, in their order. *)
Rank(S, n) == Cardinality({m \in S : m < n})
InOrder(S) == [i \in 1..Cardinality(S) |-> CHOOSE n \in S : Rank(S, n) = i - 1]
Without(list, text) ==
  LET left == InOrder({i \in DOMAIN list : list[i].text # text})
  IN [i \in DOMAIN left |-> list[left[i]]]

Broken(r) == post[r] # "none"
Active(r) == pc[r] \in {"waiting", "streaming", "buffered"}
AtRest ==
  /\ \A r \in Runs : ~Active(r)
  /\ loads = {} /\ ~recreating /\ promise # Pending

Init ==
  /\ exists = 1..OldSessions /\ deleted = {}
  /\ store = [s \in Sessions |-> IF s \in exists THEN <<Row("user", 0), Row("assistant", 0)>> ELSE <<>>]
  /\ sessionRef = NoSession
  /\ promise = Pending
  /\ messages = <<>>
  /\ busy = FALSE
  /\ pc = [r \in Runs |-> "idle"]
  /\ sid = [r \in Runs |-> NoSession]
  /\ stream = [r \in Runs |-> "none"]
  /\ post = [r \in Runs |-> "none"]
  /\ loads = {}
  /\ recreating = FALSE
  /\ moves = 0
  /\ disturbed = FALSE

Load(kind, s) == [kind |-> kind, session |-> s, read |-> FALSE, rows |-> <<>>]
Disturbs == disturbed' = (disturbed \/ ~AtRest)
Move == moves < MaxMoves /\ moves' = moves + 1 /\ Disturbs
-----------------------------------------------------------------------------
(* Sessions.                                                                *)
Latest == CHOOSE s \in exists : \A t \in exists : t <= s
Created == CHOOSE s \in Sessions : s = Cardinality(exists \cup deleted) + 1
CanCreate == Cardinality(exists \cup deleted) < MaxSessions

(* Entering the paper: the latest session, or a new one when asking for it fails
   for whatever reason, becomes the session the panel asks in, whatever the user
   chose meanwhile, and its messages are loaded.  Both requests may fail, which
   leaves the promise rejected.  A creation counts as a move, to bound them. *)
Enter ==
  /\ promise = Pending
  /\ \/ \E s \in Sessions :
          /\ \/ exists # {} /\ s = Latest /\ UNCHANGED moves
             \/ CanCreate /\ s = Created /\ moves < MaxMoves /\ moves' = moves + 1
          /\ promise' = s /\ sessionRef' = s
          /\ exists' = exists \cup {s}
          /\ loads' = loads \cup {Load("restore", s)}
     \/ promise' = Rejected /\ UNCHANGED <<sessionRef, exists, loads, moves>>
  /\ UNCHANGED <<deleted, store, messages, busy, pc, sid, stream, post, recreating, disturbed>>

ReadRows(l) ==
  /\ l \in loads /\ ~l.read
  /\ loads' = (loads \ {l}) \cup {[l EXCEPT !.read = TRUE, !.rows = store[l.session]]}
  /\ UNCHANGED <<session, store, messages, busy, pc, sid, stream, post, disturbed>>

(* The initial restore only fills an empty list; a switch replaces the list,
   whatever session is shown and whatever was asked since.  A load may fail. *)
Loaded(l) ==
  /\ l \in loads /\ loads' = loads \ {l}
  /\ \/ /\ l.read
        /\ messages' = IF l.kind = "restore" /\ messages # <<>> THEN messages
                       ELSE Restored(l.rows)
     \/ ~l.read /\ UNCHANGED messages
  /\ UNCHANGED <<session, store, busy, pc, sid, stream, post>>
  /\ disturbed' = (disturbed \/ ~l.read)

Switch(s) ==
  /\ s \in exists
  /\ sessionRef' = s /\ messages' = <<>>
  /\ loads' = loads \cup {Load("switch", s)}
  /\ Move
  /\ UNCHANGED <<exists, deleted, store, promise, busy, pc, sid, stream, post, recreating>>

NewSession ==
  /\ CanCreate
  /\ exists' = exists \cup {Created}
  /\ sessionRef' = Created /\ messages' = <<>>
  /\ Move
  /\ UNCHANGED <<deleted, store, promise, busy, pc, sid, stream, post, loads, recreating>>

(* Mutant: the shown messages outlive their session. *)
DeleteKeepsMessages(s) ==
  /\ s \in exists
  /\ exists' = exists \ {s} /\ deleted' = deleted \cup {s}
  /\ store' = [store EXCEPT ![s] = <<>>]
  /\ IF sessionRef = s THEN sessionRef' = NoSession /\ recreating' = TRUE
     ELSE UNCHANGED <<sessionRef, recreating>>
  /\ Move
  /\ UNCHANGED <<messages, promise, busy, pc, sid, stream, post, loads>>

(* Deleting the session that is shown leaves the panel without one until its
   successor is created. *)
Delete(s) ==
  /\ s \in exists
  /\ exists' = exists \ {s} /\ deleted' = deleted \cup {s}
  /\ store' = [store EXCEPT ![s] = <<>>]
  /\ IF sessionRef = s
     THEN sessionRef' = NoSession /\ messages' = <<>> /\ recreating' = TRUE
     ELSE UNCHANGED <<sessionRef, messages, recreating>>
  /\ Move
  /\ UNCHANGED <<promise, busy, pc, sid, stream, post, loads>>

Recreate ==
  /\ recreating /\ CanCreate
  /\ recreating' = FALSE
  /\ exists' = exists \cup {Created} /\ sessionRef' = Created
  /\ UNCHANGED <<deleted, store, promise, messages, busy, pc, sid, stream, post, loads, moves, disturbed>>
-----------------------------------------------------------------------------
(* Questions.                                                               *)
(* runQuestion once it has a session: busy, a placeholder, the stream. *)
Begin(r, s, list) ==
  /\ pc' = [pc EXCEPT ![r] = "streaming"]
  /\ sid' = [sid EXCEPT ![r] = s]
  /\ stream' = [stream EXCEPT ![r] = "open"]
  /\ busy' = TRUE
  /\ messages' = Append(list, Placeholder(r))

(* send: only `busy` guards it, which is not set while the session is awaited.
   Without a session the question stays unanswered. *)
Send(r) ==
  /\ ~busy /\ pc[r] = "idle" /\ \A q \in Runs : q < r => pc[q] # "idle"
  /\ LET asked == Append(messages, Message("user", r, "question"))
         s == IF sessionRef # NoSession THEN sessionRef ELSE promise
     IN IF s \in Sessions THEN Begin(r, s, asked)
        ELSE /\ messages' = asked
             /\ pc' = [pc EXCEPT ![r] = IF s = Pending THEN "waiting" ELSE "over"]
             /\ UNCHANGED <<busy, sid, stream>>
  /\ Disturbs
  /\ UNCHANGED <<session, store, post, loads>>

Awaited(r) ==
  /\ pc[r] = "waiting" /\ promise # Pending
  /\ IF promise \in Sessions THEN Begin(r, promise, messages)
     ELSE pc' = [pc EXCEPT ![r] = "over"] /\ UNCHANGED <<busy, messages, sid, stream>>
  /\ UNCHANGED <<session, store, post, loads, disturbed>>

(* The server's side of the stream: the question is stored first, the answer
   before it is sent.  A broken connection need not stop it at once. *)
StreamAsk(r) ==
  /\ stream[r] = "open"
  /\ IF sid[r] \in exists
     THEN /\ store' = [store EXCEPT ![sid[r]] = Append(@, Row("user", r))]
          /\ stream' = [stream EXCEPT ![r] = "asked"]
     ELSE stream' = [stream EXCEPT ![r] = "error"] /\ UNCHANGED store
  /\ UNCHANGED <<session, messages, busy, pc, sid, post, loads, disturbed>>

(* Mutant: the answer is sent and left to be stored afterwards. *)
StreamAnswerUnstored(r) ==
  /\ stream[r] = "asked"
  /\ stream' = [stream EXCEPT ![r] = "completed"]
  /\ UNCHANGED <<session, store, messages, busy, pc, sid, post, loads, disturbed>>

StreamAnswer(r) ==
  /\ stream[r] = "asked"
  /\ \/ /\ store' = [store EXCEPT ![sid[r]] = Append(@, Row("assistant", r))]
        /\ stream' = [stream EXCEPT ![r] = "completed"]
     \/ stream' = [stream EXCEPT ![r] = "error"] /\ UNCHANGED store
  /\ UNCHANGED <<session, messages, busy, pc, sid, post, loads, disturbed>>

(* patchLast: the last message, if it is a placeholder, becomes this event. *)
Patched(list, r, text) ==
  IF list # <<>> /\ list[Len(list)].text = "stage"
  THEN [list EXCEPT ![Len(list)] = Message("assistant", r, text)] ELSE list

Over(r) == pc' = [pc EXCEPT ![r] = "over"] /\ busy' = FALSE

(* Mutant: an error event leaves the panel busy. *)
FinishedBusy(r) ==
  /\ pc[r] = "streaming" /\ stream[r] \in {"completed", "error"}
  /\ messages' = Patched(messages, r, IF stream[r] = "completed" THEN "answer" ELSE "error")
  /\ stream' = [stream EXCEPT ![r] = "done"]
  /\ pc' = [pc EXCEPT ![r] = "over"] /\ busy' = (stream[r] = "error")
  /\ UNCHANGED <<session, store, sid, post, loads, disturbed>>

Finished(r) ==
  /\ pc[r] = "streaming" /\ stream[r] \in {"completed", "error"}
  /\ messages' = Patched(messages, r, IF stream[r] = "completed" THEN "answer" ELSE "error")
  /\ stream' = [stream EXCEPT ![r] = "done"]
  /\ Over(r)
  /\ UNCHANGED <<session, store, sid, post, loads, disturbed>>

(* The stream breaks (it has no timeout of its own): every placeholder is dropped, a
   new one shown, and the question posted to the buffered endpoint. *)
NoPlaceholder(list) == Without(list, "stage")
Break(r) ==
  /\ pc[r] = "streaming" /\ Cardinality({q \in Runs : Broken(q)}) < MaxBreaks
  /\ messages' = Append(NoPlaceholder(messages), Placeholder(r))
  /\ pc' = [pc EXCEPT ![r] = "buffered"]
  /\ post' = [post EXCEPT ![r] = "sent"]
  /\ UNCHANGED <<session, store, busy, sid, stream, loads, disturbed>>

(* The buffered endpoint stores question and answer together, or fails. *)
Post(r) ==
  /\ post[r] = "sent"
  /\ \/ /\ sid[r] \in exists
        /\ store' = [store EXCEPT ![sid[r]] = @ \o <<Row("user", r), Row("assistant", r)>>]
        /\ post' = [post EXCEPT ![r] = "stored"]
     \/ post' = [post EXCEPT ![r] = "failed"] /\ UNCHANGED store
  /\ UNCHANGED <<session, messages, busy, pc, sid, stream, loads, disturbed>>

(* Mutant: a request that timed out is sent again. *)
PostedRetries(r) ==
  /\ pc[r] = "buffered" /\ post[r] = "stored"
  /\ \/ /\ messages' = Append(NoPlaceholder(messages), Message("assistant", r, "answer"))
        /\ Over(r) /\ UNCHANGED post
     \/ post' = [post EXCEPT ![r] = "sent"] /\ UNCHANGED <<messages, pc, busy>>
  /\ UNCHANGED <<session, store, sid, stream, loads, disturbed>>

(* The buffered answer, or after a failure or 180 seconds the error, is appended
   to the messages shown then. *)
Posted(r) ==
  /\ pc[r] = "buffered"
  /\ \/ /\ post[r] = "stored"
        /\ messages' = Append(NoPlaceholder(messages), Message("assistant", r, "answer"))
     \/ messages' = Append(NoPlaceholder(messages), Message("assistant", r, "error"))
  /\ Over(r)
  /\ UNCHANGED <<session, store, sid, stream, post, loads, disturbed>>
-----------------------------------------------------------------------------
Reply == \E l \in loads : ReadRows(l) \/ Loaded(l)
ServerStep(r) == StreamAsk(r) \/ StreamAnswer(r) \/ Post(r)
ClientStep(r) == Awaited(r) \/ Finished(r) \/ Posted(r)

Next ==
  \/ Enter \/ NewSession \/ Recreate \/ Reply
  \/ \E s \in Sessions : Switch(s) \/ Delete(s)
  \/ \E r \in Runs : Send(r) \/ Break(r) \/ ServerStep(r) \/ ClientStep(r)

(* Work on a question goes on at the server or in the panel while either has some. *)
Fairness == \A r \in Runs : WF_vars(ServerStep(r) \/ ClientStep(r))

Spec == Init /\ [][Next]_vars /\ Fairness
-----------------------------------------------------------------------------
(* While the user waits for the panel to come to rest between two actions and no
   stream breaks, it shows at rest exactly what the session has stored, in that
   order, besides errors; restoring, switching, creating and deleting included. *)
ShownIsTheRecord ==
  AtRest /\ ~disturbed /\ sessionRef # NoSession /\ (\A r \in Runs : ~Broken(r)) =>
    Without(messages, "error") = Restored(store[sessionRef])

(* However sessions, streams, fallbacks and loads overlap, an answer is only ever
   shown when it is stored in the session its question was asked in, unless that
   session was deleted. *)
ShownAnswersAreStored ==
  \A i \in DOMAIN messages :
    LET m == messages[i]
    IN m.text = "answer" /\ m.run \in Runs =>
         \/ sid[m.run] \in deleted
         \/ \E k \in DOMAIN store[sid[m.run]] :
              store[sid[m.run]][k] = Row("assistant", m.run)

(* A question is stored again only by the fallback of its broken stream, and then
   once: a later question sees at most one copy too many in its history. *)
QuestionsStoredPerAttempt ==
  \A r \in Runs, s \in Sessions :
    Cardinality({i \in DOMAIN store[s] : store[s][i] = Row("user", r)})
      <= (IF s = sid[r] THEN 1 + (IF Broken(r) THEN 1 ELSE 0) ELSE 0)

(* A panel that is busy becomes free again, however its streams break. *)
BusyEnds == busy ~> ~busy
=============================================================================
