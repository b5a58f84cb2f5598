----------------------------- MODULE Workbench -----------------------------
(***************************************************************************)
(* Translations in the reader: a background loop over the pages an import  *)
(* did not translate, a request for every page that comes into view and    *)
(* its successor, and a button on each page, all unaware of one another;   *)
(* and the units the reader loads when a request is answered.  The server  *)
(* side is Translations at the grain of pages: a request reads the whole   *)
(* document, and writes it back whole after every page.                    *)
(***************************************************************************)
EXTENDS Naturals, Sequences, SequencesExt, FiniteSets

CONSTANTS
  NumPages,   \* pages of the paper
  AutoFrom,   \* the first page the loop translates, 4 in the code
  BatchSize,  \* pages the loop asks for at once, 5 in the code
  Outcomes,   \* how the translation of a page may turn out
  MaxActs,    \* bound: scrolls, presses and mode changes of the user
  MaxFailures \* bound: requests that fail or time out

ASSUME SizeAssumption ==
  NumPages \in Nat \ {0} /\ AutoFrom \in Nat \ {0, 1} /\ BatchSize \in Nat \ {0} /\ {MaxActs, MaxFailures} \subseteq Nat
ASSUME OutcomesAssumption == Outcomes \subseteq {"retry", "done"}

VARIABLES
  units,    \* server: page -> state of its units
  asks,     \* the translation requests sent, in order
  loads,    \* requests for the units of a page, with the state once read
  pages,    \* how many pages the reader knows: none before the document is there
  display,  \* display mode
  auto,     \* autoTranslate
  rest,     \* the pages the loop has not asked for
  notice,   \* translatingPage is set: the page buttons are disabled
  timer,    \* a failed button's timer to clear the notice is running
  shown,    \* page -> state of the units in the reader's map
  acts,     \* bounded counter
  failures, \* bounded counter
  lost      \* history: the pages whose units were overwritten with none

vars == <<units, asks, loads, pages, display, auto, rest, notice, timer, shown, acts, failures, lost>>

Pages == 1..NumPages
States == {"none", "retry", "done"}
Modes == {"original", "bilingual", "chinese"}
Known == 1..pages
(* What the loop translates; pageCount is 1 while the document is not there. *)
AutoPages(known) ==
  IF known >= AutoFrom THEN [i \in 1..(known - AutoFrom + 1) |-> AutoFrom + i - 1]
  ELSE IF known \in {0, 1} THEN <<1>> ELSE <<>>

NoSnap == [p \in Pages |-> "none"]
Ask(from, chosen) ==
  [from |-> from, pages |-> chosen, stage |-> "sent", open |-> TRUE,
   snap |-> NoSnap, fresh |-> {}]
Load(i, p) == [ask |-> i, page |-> p, state |-> "none"]

(* Mutant: only the first page of a request is loaded, not the prefetched one. *)
LoadsOfFirst(i) ==
  {Load(i, CHOOSE p \in asks[i].pages : \A q \in asks[i].pages : p <= q)}

LoadsOf(i) == {Load(i, p) : p \in asks[i].pages}
-----------------------------------------------------------------------------
(* The next batch of the loop; when nothing is left the loop ends. *)
Batch(list) == SubSeq(list, 1, IF Len(list) < BatchSize THEN Len(list) ELSE BatchSize)
Continue(list, sofar) ==
  /\ rest' = SubSeq(list, Len(Batch(list)) + 1, Len(list))
  /\ auto' = (list # <<>>) /\ notice' = (list # <<>>)
  /\ asks' = IF list = <<>> THEN sofar ELSE Append(sofar, Ask("loop", ToSet(Batch(list))))

(* translateAll, which does nothing while it is running. *)
TranslateAll(list) ==
  IF auto THEN UNCHANGED <<asks, auto, rest, notice>> ELSE Continue(list, asks)

(* The effect that starts the loop. *)
StartLoop ==
  IF AutoPages(pages') = <<>> \/ display' = "original" THEN UNCHANGED <<asks, auto, rest, notice>>
  ELSE TranslateAll(AutoPages(pages'))

(* The effect first runs when the reader is mounted, before the document is there:
   for one page. *)
Init ==
  /\ units \in {[p \in Pages |-> IF p <= k THEN s ELSE "none"] :
                  k \in 0..(AutoFrom - 1), s \in {"retry", "done"}}
  /\ asks = <<Ask("loop", ToSet(AutoPages(0)))>>
  /\ loads = {}
  /\ pages = 0
  /\ display = "bilingual"
  /\ auto = TRUE /\ rest = <<>> /\ notice = TRUE /\ timer = FALSE
  /\ shown = [p \in Pages |-> "none"]
  /\ acts = 0
  /\ failures = 0
  /\ lost = {}

(* The document arrives: the units of every page are loaded, and if the number of
   pages changed the effect runs again. *)
Document ==
  /\ pages = 0
  /\ pages' = NumPages
  /\ loads' = loads \cup {Load(0, p) : p \in Pages}
  /\ UNCHANGED display
  /\ IF NumPages # 1 THEN StartLoop ELSE UNCHANGED <<asks, auto, rest, notice>>
  /\ UNCHANGED <<units, timer, shown, acts, failures, lost>>

Fail == failures < MaxFailures /\ failures' = failures + 1
Act == acts < MaxActs /\ acts' = acts + 1

(* Every change of the mode runs the effect, unless to the original. *)
SetDisplayMode(m) ==
  /\ m # display /\ display' = m
  /\ UNCHANGED pages
  /\ StartLoop
  /\ Act
  /\ UNCHANGED <<units, loads, timer, shown, failures, lost>>

TranslateAllPressed ==
  /\ pages # 0 /\ ~auto
  /\ TranslateAll([i \in Known |-> i])
  /\ Act
  /\ UNCHANGED <<units, loads, pages, display, timer, shown, failures, lost>>

(* translateVisible: the observer reports a page whenever it comes into view. *)
TranslateVisible(p) ==
  /\ p \in Known /\ display # "original"
  /\ asks' = Append(asks, Ask("visible", {p, p + 1} \cap Known))
  /\ Act
  /\ UNCHANGED <<units, loads, pages, display, auto, rest, notice, timer, shown, failures, lost>>

(* translatePages: the button of a page, and its polls until the answer. *)
TranslatePages(p) ==
  /\ p \in Known /\ display # "original" /\ ~notice
  /\ asks' = Append(asks, Ask("button", {p}))
  /\ notice' = TRUE
  /\ Act
  /\ UNCHANGED <<units, loads, pages, display, auto, rest, timer, shown, failures, lost>>

Poll(i) ==
  /\ asks[i].from = "button" /\ asks[i].open
  /\ loads \cap LoadsOf(i) = {}
  /\ loads' = loads \cup LoadsOf(i)
  /\ UNCHANGED <<units, asks, pages, display, auto, rest, notice, timer, shown, acts, failures, lost>>
-----------------------------------------------------------------------------
(* The server. *)
Todo(a) == {p \in a.pages : a.snap[p] # "done"}

ReadUnits(i) ==
  /\ asks[i].stage = "sent"
  /\ asks' = [asks EXCEPT ![i].stage = "working", ![i].snap = units]
  /\ UNCHANGED <<units, loads, pages, display, auto, rest, notice, timer, shown, acts, failures, lost>>

Write(doc) ==
  /\ units' = doc
  /\ lost' = lost \cup {p \in Pages : units[p] # "none" /\ doc[p] = "none"}

(* A page is translated, or part of it not: the document is written as it was read,
   with the pages of this request so far. *)
StoreUnits(i) ==
  LET a == asks[i]
  IN /\ a.stage = "working"
     /\ \E p \in Todo(a) \ a.fresh, s \in Outcomes :
          LET written == [a.snap EXCEPT ![p] = s]
          IN /\ Write(written)
             /\ asks' = [asks EXCEPT ![i].snap = written, ![i].fresh = @ \cup {p}]
     /\ UNCHANGED <<loads, pages, display, auto, rest, notice, timer, shown, acts, failures>>

(* The answer follows a last write, if anything was translated. *)
Respond(i) ==
  LET a == asks[i]
      responded(stage) ==
        asks' = [asks EXCEPT ![i].stage = stage, ![i].snap = NoSnap, ![i].fresh = {}]
  IN /\ a.stage = "working"
     /\ \/ /\ Todo(a) \subseteq a.fresh
           /\ IF a.fresh = {} THEN UNCHANGED <<units, lost>> ELSE Write(a.snap)
           /\ responded("answered") /\ UNCHANGED failures
        \/ responded("refused") /\ Fail /\ UNCHANGED <<units, lost>>
     /\ UNCHANGED <<loads, pages, display, auto, rest, notice, timer, shown, acts>>
-----------------------------------------------------------------------------
(* What each request does when it ends; a failure of the loop ends it, and a failed
   button's notice is cleared at once and again by a timer. *)
Ended(i, ok) ==
  LET closed == [asks EXCEPT ![i].open = FALSE]
  IN CASE asks[i].from = "loop" ->
            Continue(IF ok THEN rest ELSE <<>>, closed) /\ UNCHANGED timer
       [] asks[i].from = "button" ->
            /\ asks' = closed /\ notice' = FALSE /\ timer' = (timer \/ ~ok)
            /\ UNCHANGED <<auto, rest>>
       [] asks[i].from = "visible" ->
            asks' = closed /\ UNCHANGED <<auto, rest, notice, timer>>

Answered(i) ==
  /\ asks[i].open /\ asks[i].stage = "answered"
  /\ loads' = loads \cup LoadsOf(i)
  /\ Ended(i, TRUE)
  /\ UNCHANGED <<units, pages, display, shown, acts, failures, lost>>

(* The request is refused, or not answered within 180 seconds. *)
Failed(i) ==
  /\ asks[i].open /\ asks[i].stage # "answered"
  /\ Ended(i, FALSE)
  /\ IF asks[i].stage = "refused" THEN UNCHANGED failures ELSE Fail
  /\ UNCHANGED <<units, loads, pages, display, shown, acts, lost>>

ClearNotice ==
  /\ timer /\ timer' = FALSE /\ notice' = FALSE
  /\ UNCHANGED <<units, asks, loads, pages, display, auto, rest, shown, acts, failures, lost>>

(* An empty reply changes nothing and is not kept. *)
ReadLoad(l) ==
  /\ l \in loads /\ l.state = "none"
  /\ loads' = (loads \ {l}) \cup
       {m \in {[l EXCEPT !.state = units[l.page]]} : m.state # "none"}
  /\ UNCHANGED <<units, asks, pages, display, auto, rest, notice, timer, shown, acts, failures, lost>>

(* The units read replace those of the same blocks, whichever are newer. *)
Loaded(l) ==
  /\ l \in loads /\ loads' = loads \ {l}
  /\ \/ l.state # "none" /\ shown' = [shown EXCEPT ![l.page] = l.state] /\ UNCHANGED failures
     \/ l.state = "none" /\ Fail /\ UNCHANGED shown
  /\ UNCHANGED <<units, asks, pages, display, auto, rest, notice, timer, acts, lost>>
-----------------------------------------------------------------------------
ServerStep(i) == ReadUnits(i) \/ StoreUnits(i) \/ Respond(i)
ClientStep(i) == Answered(i) \/ Failed(i)

Next ==
  \/ Document \/ TranslateAllPressed \/ ClearNotice
  \/ \E m \in Modes : SetDisplayMode(m)
  \/ \E p \in Pages : TranslateVisible(p) \/ TranslatePages(p)
  \/ \E i \in DOMAIN asks : Poll(i) \/ ServerStep(i) \/ ClientStep(i)
  \/ \E l \in loads : ReadLoad(l) \/ Loaded(l)

(* The document arrives and every request is answered or given up. *)
Fairness == WF_vars(Document) /\ \A i \in 1..(NumPages + MaxActs + 1) :
  WF_vars(i \in DOMAIN asks /\ ClientStep(i)) /\ WF_vars(i \in DOMAIN asks /\ ServerStep(i))

Spec == Init /\ [][Next]_vars /\ Fairness
-----------------------------------------------------------------------------
(* However loop, scrolling and buttons overlap, when nothing is under way and nothing
   failed, the reader shows units for every page that has some, unless a writer that
   had not seen them once overwrote them. *)
AtRest == pages # 0 /\ loads = {} /\ \A i \in DOMAIN asks : ~asks[i].open
StoredPagesAreShown ==
  AtRest /\ failures = 0 => \A p \in Pages \ lost : units[p] # "none" => shown[p] # "none"

(* Workbench.tsx: once the reader is open the rest of the paper is translated in the
   background, to its end. *)
RestIsAsked ==
  pages # 0 ~> \/ failures > 0 \/ display = "original"
               \/ \A p \in {AutoPages(pages)[i] : i \in DOMAIN AutoPages(pages)} :
                    \E i \in DOMAIN asks : p \in asks[i].pages
=============================================================================
