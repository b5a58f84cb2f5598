------------------------------ MODULE EventBus ------------------------------
(***************************************************************************)
(* The in-process event bus of server/app/events.py: job threads publish   *)
(* numbered events, every SSE connection owns one bounded queue, and one   *)
(* lock guards the registry and each whole publish.  A connection takes    *)
(* events from its queue WITHOUT the lock, so a consumer can run between   *)
(* the Full of a publisher's put and the get_nowait that follows it.       *)
(*                                                                         *)
(* An event is the number of its publish on its channel; payload text and  *)
(* the 0.15 s poll of an empty queue are left out.                         *)
(***************************************************************************)
EXTENDS Naturals, Sequences, SequencesExt

CONSTANTS
  Jobs,         \* channels: the ids events are published under
  Subscribers,  \* SSE connections; each one subscribes at most once
  Capacity,     \* queue.Queue(maxsize=500) of the code
  MaxEvents,    \* bound on the publishes of one channel
  Free,         \* the lock is not held
  NotYet,       \* the connection has not subscribed
  Closed        \* the connection is gone

ASSUME CapacityAssumption == Capacity \in Nat \ {0}
ASSUME MaxEventsAssumption == MaxEvents \in Nat
ASSUME FreeAssumption == Free \notin Jobs
ASSUME ChannelAssumption == NotYet \notin Jobs /\ Closed \notin Jobs /\ NotYet # Closed

VARIABLES
  lock,       \* the channel whose publish holds the bus lock, or Free
  todo,       \* subscribers the publish in progress has still to serve
  full,       \* the put to Head(todo) raised queue.Full, get_nowait is next
  registered, \* channel -> list of its subscribers
  channel,    \* subscriber -> its channel, NotYet or Closed
  queue,      \* subscriber -> events waiting in its queue
  published,  \* channel -> number of publishes so far
  last,       \* subscriber -> the newest event it took, 0 for none
  raised,     \* channels on which a publish raised queue.Empty
  due,        \* history: publishes made while the subscriber was registered
  taken,      \* history: events the subscriber took
  lost        \* history: events the subscriber will never see

busVars  == <<lock, todo, full>>
history  == <<due, taken, lost>>
vars == <<lock, todo, full, registered, channel, queue, published, last, raised,
          due, taken, lost>>

Init ==
  /\ lock = Free
  /\ todo = <<>>
  /\ full = FALSE
  /\ registered = [j \in Jobs |-> <<>>]
  /\ channel = [s \in Subscribers |-> NotYet]
  /\ queue = [s \in Subscribers |-> <<>>]
  /\ published = [j \in Jobs |-> 0]
  /\ last = [s \in Subscribers |-> 0]
  /\ raised = {}
  /\ due = [s \in Subscribers |-> 0]
  /\ taken = [s \in Subscribers |-> 0]
  /\ lost = [s \in Subscribers |-> 0]

(* 1 when the subscriber is in the list, 0 when not. *)
Occurs(list, s) == IF s \in ToSet(list) THEN 1 ELSE 0

-----------------------------------------------------------------------------
(* Registry, under the lock. *)

Subscribe(s, j) ==
  /\ lock = Free
  /\ channel[s] = NotYet
  /\ channel' = [channel EXCEPT ![s] = j]
  /\ registered' = [registered EXCEPT ![j] = Append(@, s)]
  /\ UNCHANGED <<lock, todo, full, queue, published, last, raised, history>>

(* The finally of the generator: the client disconnected. *)
Unsubscribe(s) ==
  /\ lock = Free
  /\ channel[s] \in Jobs
  /\ \E i \in 1..Len(registered[channel[s]]) :
       /\ registered[channel[s]][i] = s
       /\ registered' = [registered EXCEPT ![channel[s]] = RemoveAt(@, i)]
  /\ channel' = [channel EXCEPT ![s] = Closed]
  /\ UNCHANGED <<lock, todo, full, queue, published, last, raised, history>>

-----------------------------------------------------------------------------
(* publish: one critical section, one queue operation per step.            *)

PublishBegin(j) ==
  /\ lock = Free
  /\ published[j] < MaxEvents
  /\ lock' = j
  /\ todo' = registered[j]
  /\ published' = [published EXCEPT ![j] = @ + 1]
  /\ due' = [s \in Subscribers |->
               due[s] + Occurs(registered[j], s)]
  /\ UNCHANGED <<full, registered, channel, queue, last, raised, taken, lost>>

(* Mutant: the put succeeds but the loop visits the subscriber again. *)
PutEventTwice ==
  /\ lock # Free /\ todo # <<>> /\ ~full
  /\ LET s == Head(todo) IN
       /\ Len(queue[s]) < Capacity
       /\ queue' = [queue EXCEPT ![s] = Append(@, published[lock])]
  /\ UNCHANGED <<busVars, registered, channel, published, last, raised, history>>

(* Mutant: a queue that accepts one event more than its maximum. *)
PutEventOverflow ==
  /\ lock # Free /\ todo # <<>> /\ ~full
  /\ LET s == Head(todo) IN
       /\ Len(queue[s]) <= Capacity
       /\ queue' = [queue EXCEPT ![s] = Append(@, published[lock])]
       /\ todo' = Tail(todo)
  /\ UNCHANGED <<lock, full, registered, channel, published, last, raised, history>>

PutEvent ==
  /\ lock # Free /\ todo # <<>> /\ ~full
  /\ LET s == Head(todo) IN
       /\ Len(queue[s]) < Capacity
       /\ queue' = [queue EXCEPT ![s] = Append(@, published[lock])]
       /\ todo' = Tail(todo)
  /\ UNCHANGED <<lock, full, registered, channel, published, last, raised, history>>

(* Mutant: the queue is taken for full one event early. *)
PutFullEarly ==
  /\ lock # Free /\ todo # <<>> /\ ~full
  /\ Len(queue[Head(todo)]) + 1 >= Capacity
  /\ full' = TRUE
  /\ UNCHANGED <<lock, todo, registered, channel, queue, published, last, raised, history>>

PutFull ==
  /\ lock # Free /\ todo # <<>> /\ ~full
  /\ Len(queue[Head(todo)]) >= Capacity
  /\ full' = TRUE
  /\ UNCHANGED <<lock, todo, registered, channel, queue, published, last, raised, history>>

(* except queue.Full: the oldest event is removed, the new one is not put
   again: both are lost to this subscriber. *)
DropOldest ==
  /\ full /\ queue[Head(todo)] # <<>>
  /\ LET s == Head(todo) IN
       /\ queue' = [queue EXCEPT ![s] = Tail(@)]
       /\ lost' = [lost EXCEPT ![s] = @ + 2]
  /\ todo' = Tail(todo)
  /\ full' = FALSE
  /\ UNCHANGED <<lock, registered, channel, published, last, raised, due, taken>>

(* Mutant: a blocking get() where the code calls get_nowait(). *)
DropBlocks == full /\ queue[Head(todo)] = <<>> /\ UNCHANGED vars

(* The consumer drained the queue after the Full: get_nowait raises
   queue.Empty out of publish.  The lock is released by the with statement;
   this subscriber and those after it never see the event. *)
DropRaises ==
  /\ full /\ queue[Head(todo)] = <<>>
  /\ lost' = [s \in Subscribers |-> lost[s] + Occurs(todo, s)]
  /\ raised' = raised \cup {lock}
  /\ lock' = Free
  /\ todo' = <<>>
  /\ full' = FALSE
  /\ UNCHANGED <<registered, channel, queue, published, last, due, taken>>

PublishEnd ==
  /\ lock # Free /\ todo = <<>>
  /\ lock' = Free
  /\ UNCHANGED <<todo, full, registered, channel, queue, published, last, raised, history>>

-----------------------------------------------------------------------------
(* stream: the consumer, outside the lock. *)

(* Mutant: a last-in first-out queue. *)
TakeNewest(s) ==
  /\ channel[s] \in Jobs /\ queue[s] # <<>>
  /\ last' = [last EXCEPT ![s] = queue[s][Len(queue[s])]]
  /\ queue' = [queue EXCEPT ![s] = SubSeq(@, 1, Len(@) - 1)]
  /\ taken' = [taken EXCEPT ![s] = @ + 1]
  /\ UNCHANGED <<lock, todo, full, registered, channel, published, raised, due, lost>>

(* Mutant: the generator returns after its first event. *)
TakeOnce(s) ==
  /\ channel[s] \in Jobs /\ queue[s] # <<>> /\ taken[s] = 0
  /\ last' = [last EXCEPT ![s] = Head(queue[s])]
  /\ queue' = [queue EXCEPT ![s] = Tail(@)]
  /\ taken' = [taken EXCEPT ![s] = @ + 1]
  /\ UNCHANGED <<lock, todo, full, registered, channel, published, raised, due, lost>>

Take(s) ==
  /\ channel[s] \in Jobs /\ queue[s] # <<>>
  /\ last' = [last EXCEPT ![s] = Head(queue[s])]
  /\ queue' = [queue EXCEPT ![s] = Tail(@)]
  /\ taken' = [taken EXCEPT ![s] = @ + 1]
  /\ UNCHANGED <<lock, todo, full, registered, channel, published, raised, due, lost>>

Publish == PutEvent \/ PutFull \/ DropOldest \/ DropRaises \/ PublishEnd

Next ==
  \/ \E s \in Subscribers, j \in Jobs : Subscribe(s, j)
  \/ \E s \in Subscribers : Unsubscribe(s)
  \/ \E j \in Jobs : PublishBegin(j)
  \/ Publish
  \/ \E s \in Subscribers : Take(s)

(* A publisher inside publish is a running thread, and the event loop polls
   every open connection; nobody has to connect, leave or publish. *)
Fairness == WF_vars(Publish) /\ \A s \in Subscribers : WF_vars(Take(s))

Spec == Init /\ [][Next]_vars /\ Fairness

-----------------------------------------------------------------------------
(* Properties. *)

(* Type correctness; in particular no queue grows past its maxsize. *)
TypeOK ==
  /\ lock \in Jobs \cup {Free}
  /\ todo \in Seq(Subscribers)
  /\ full \in BOOLEAN
  /\ registered \in [Jobs -> Seq(Subscribers)]
  /\ channel \in [Subscribers -> Jobs \cup {NotYet, Closed}]
  /\ queue \in [Subscribers -> Seq(Nat)]
  /\ \A s \in Subscribers : Len(queue[s]) <= Capacity
  /\ published \in [Jobs -> Nat]
  /\ last \in [Subscribers -> Nat]
  /\ raised \in SUBSET Jobs
  /\ due \in [Subscribers -> Nat]
  /\ taken \in [Subscribers -> Nat]
  /\ lost \in [Subscribers -> Nat]

(* What a connection takes next is newer than everything it took before, and
   its queue is strictly increasing: no event is repeated or reordered, over
   any number of overflows and failed publishes. *)
InOrder ==
  \A s \in Subscribers :
    /\ \A i \in 1..Len(queue[s]) : last[s] < queue[s][i]
    /\ \A i, k \in 1..Len(queue[s]) : i < k => queue[s][i] < queue[s][k]

(* Every event published while a connection is registered was taken by it, is
   in its queue, is about to be put there, or was lost to an overflow: no path
   through publish loses or duplicates an event unaccounted. *)
Accounting ==
  \A s \in Subscribers :
    due[s] = taken[s] + Len(queue[s]) + lost[s] + Occurs(todo, s)

(* The practical guarantee behind maxsize=500: on a channel that published at
   most Capacity events, publish never raised into the job thread and no
   connection of the channel lost anything, however slow it is. *)
LosslessBelowCapacity ==
  \A j \in Jobs :
    published[j] <= Capacity =>
      /\ j \notin raised
      /\ \A s \in Subscribers : channel[s] = j => lost[s] = 0

(* "drop oldest rather than block": publish always returns and frees the lock. *)
PublishReturns == [](lock # Free => <>(lock = Free))

(* An event that waits in the queue of a connection that stays open does not
   wait for ever. *)
QueueDrains ==
  \A s \in Subscribers :
    [](queue[s] # <<>> => <>(queue[s] = <<>> \/ channel[s] = Closed))
=============================================================================
