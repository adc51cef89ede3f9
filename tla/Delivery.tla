------------------------------ MODULE Delivery -----------------------------
(***************************************************************************)
(* What a client sends and what it is sent, through every queue of a game  *)
(* server: the Relay handler's Inbox, the bounded drain of a tick, the     *)
(* Events channel, drainEvents, and the queue and sender of the client's   *)
(* registration.  Who observes a change is World's subject: here it is any *)
(* set of clients.  An event is the number it is published under.          *)
(***************************************************************************)
EXTENDS Integers, Sequences, FiniteSets

CONSTANTS
  Avatars,            \* client ids
  Regs,               \* registrations, 1 .. MaxRegs, in the order they are made
  NoReg,
  InboxCap, EventCap, QueueCap,   \* inboxBuffer, eventBuffer, newBoundedSendQueue(64)
  MaxPerTick,         \* maxPacketsPerTick
  MaxPackets, MaxEvents           \* bounds on packets and events

ASSUME DeliveryAssumption ==
  /\ Regs \subseteq Nat \ {0} /\ NoReg \notin Regs
  /\ InboxCap \in Nat /\ EventCap \in Nat /\ QueueCap \in Nat \ {0}
  /\ MaxPerTick \in Nat \ {0} /\ MaxPackets \in Nat /\ MaxEvents \in Nat

VARIABLES
  inbox,              \* packets waiting in Game.Inbox
  accepted, handled,  \* history: packets that entered and left the Inbox
  tick,               \* [pc, processed, observers still to publish to]
  events,             \* Game.Events: sequence of [to, num]
  published,          \* history: events published or dropped so far
  clients,            \* clientRegistry.clients: avatar -> registration
  reg,                \* registration -> [of, sender]
  queue,              \* registration -> boundedSendQueue.ch
  drops,              \* registration -> boundedSendQueue.drops
  sent,               \* history: registration -> what its sender took
  pushed,             \* history: registration -> completed pushes
  drain               \* drainEvents: [pc, to, num, reg]

deliveryVars == <<inbox, accepted, handled, tick, events, published, clients,
                  reg, queue, drops, sent, pushed, drain>>
inVars == <<inbox, accepted, handled>>
outVars == <<clients, reg, queue, drops, sent, pushed>>

Nobody == [pc |-> "take", to |-> NoReg, num |-> 0, reg |-> NoReg]

DeliveryInit ==
  /\ inbox = 0 /\ accepted = 0 /\ handled = 0
  /\ tick = [pc |-> "idle", processed |-> 0, todo |-> {}]
  /\ events = <<>> /\ published = 0
  /\ clients = [a \in Avatars |-> NoReg]
  /\ reg = [r \in Regs |-> [of |-> NoReg, sender |-> "none"]]
  /\ queue = [r \in Regs |-> <<>>] /\ sent = [r \in Regs |-> <<>>]
  /\ drops = [r \in Regs |-> 0] /\ pushed = [r \in Regs |-> 0]
  /\ drain = Nobody

-----------------------------------------------------------------------------
\* Relay's DATA case: a full Inbox loses the packet.
RelayData ==
  /\ inbox < InboxCap /\ accepted < MaxPackets
  /\ inbox' = inbox + 1 /\ accepted' = accepted + 1
  /\ UNCHANGED <<handled, tick, events, published, outVars, drain>>

\* Mutant: the count of the tick before is kept.
TickStarts_KeepsCount ==
  /\ tick.pc = "idle"
  /\ tick' = [tick EXCEPT !.pc = "drain"]
  /\ UNCHANGED <<inVars, events, published, outVars, drain>>

\* A tick begins to drain the Inbox.
TickStarts ==
  /\ tick.pc = "idle"
  /\ tick' = [pc |-> "drain", processed |-> 0, todo |-> {}]
  /\ UNCHANGED <<inVars, events, published, outVars, drain>>

\* dispatch: a position or a state is published to the avatars in range
\* (enqueueMove, and the loop of the EntityState case); a packet that does not
\* decode, an unknown or unzoned entity, and an action, whose entity nobody
\* owns, are published to none.
Dispatch(observers) ==
  /\ published + Cardinality(observers) <= MaxEvents
  /\ tick.pc = "drain" /\ tick.todo = {}
  /\ inbox > 0 /\ tick.processed < MaxPerTick
  /\ inbox' = inbox - 1 /\ handled' = handled + 1
  /\ tick' = [tick EXCEPT !.processed = @ + 1, !.todo = observers]
  /\ UNCHANGED <<accepted, events, published, outVars, drain>>

\* The Inbox is empty or the tick took its share: simulate and
\* updateVisibility publish the rest of the tick's events.
DrainEnds(observers) ==
  /\ published + Cardinality(observers) <= MaxEvents
  /\ tick.pc = "drain" /\ tick.todo = {}
  /\ inbox = 0 \/ tick.processed >= MaxPerTick
  /\ tick' = [tick EXCEPT !.pc = "publish", !.todo = observers]
  /\ UNCHANGED <<inVars, events, published, outVars, drain>>

TickEnds ==
  /\ tick.pc = "publish" /\ tick.todo = {}
  /\ tick' = [tick EXCEPT !.pc = "idle"]
  /\ UNCHANGED <<inVars, events, published, outVars, drain>>

\* Mutant: a full channel is bypassed.
publish_Direct(a) ==
  LET r == clients[a]
      direct == Len(events) >= EventCap /\ r # NoReg /\ Len(queue[r]) < QueueCap
  IN /\ a \in tick.todo
     /\ published' = published + 1
     /\ tick' = [tick EXCEPT !.todo = @ \ {a}]
     /\ events' = IF Len(events) < EventCap
                  THEN Append(events, [to |-> a, num |-> published']) ELSE events
     /\ queue' = IF direct THEN [queue EXCEPT ![r] = Append(@, published')] ELSE queue
     /\ pushed' = IF direct THEN [pushed EXCEPT ![r] = @ + 1] ELSE pushed
     /\ UNCHANGED <<inVars, clients, reg, drops, sent, drain>>

\* A full channel loses the event.
publish(a) ==
  /\ a \in tick.todo
  /\ published' = published + 1
  /\ tick' = [tick EXCEPT !.todo = @ \ {a}]
  /\ events' = IF Len(events) < EventCap
               THEN Append(events, [to |-> a, num |-> published']) ELSE events
  /\ UNCHANGED <<inVars, outVars, drain>>

-----------------------------------------------------------------------------
\* drainEvents takes an event; encodeEvent gives every kind a packet.
DrainTake ==
  /\ drain.pc = "take" /\ events # <<>>
  /\ drain' = [Nobody EXCEPT !.pc = "lookup", !.to = Head(events).to, !.num = Head(events).num]
  /\ events' = Tail(events)
  /\ UNCHANGED <<inVars, tick, published, outVars>>

\* send() looks the registration up and releases the lock.
SendLookup ==
  /\ drain.pc = "lookup"
  /\ drain' = IF clients[drain.to] = NoReg THEN Nobody
              ELSE [drain EXCEPT !.pc = "push", !.reg = clients[drain.to]]
  /\ UNCHANGED <<inVars, tick, events, published, outVars>>

Room(r) == Len(queue[r]) < QueueCap

Pushed(r) ==
  /\ queue' = [queue EXCEPT ![r] = Append(@, drain.num)]
  /\ pushed' = [pushed EXCEPT ![r] = @ + 1]
  /\ drain' = Nobody
  /\ UNCHANGED <<inVars, tick, events, published, clients, reg, drops, sent>>

\* Mutant: the channel send waits for room.
push_Blocks ==
  /\ drain.pc = "push" /\ Room(drain.reg)
  /\ Pushed(drain.reg)

\* push: the first select.
push ==
  /\ drain.pc = "push"
  /\ IF Room(drain.reg) THEN Pushed(drain.reg)
     ELSE /\ drain' = [drain EXCEPT !.pc = "pop"]
          /\ UNCHANGED <<inVars, tick, events, published, outVars>>

\* push: the second select drops the oldest, unless the sender just took it.
pushPop ==
  LET r == drain.reg
  IN /\ drain.pc = "pop"
     /\ drain' = [drain EXCEPT !.pc = "retry"]
     /\ IF queue[r] = <<>> THEN UNCHANGED <<queue, drops>>
        ELSE /\ queue' = [queue EXCEPT ![r] = Tail(@)]
             /\ drops' = [drops EXCEPT ![r] = @ + 1]
     /\ UNCHANGED <<inVars, tick, events, published, clients, reg, sent, pushed>>

\* push: the third select.
pushRetry ==
  LET r == drain.reg
  IN /\ drain.pc = "retry"
     /\ IF Room(r) THEN Pushed(r)
        ELSE /\ drops' = [drops EXCEPT ![r] = @ + 1]
             /\ pushed' = [pushed EXCEPT ![r] = @ + 1]
             /\ drain' = Nobody
             /\ UNCHANGED <<inVars, tick, events, published, clients, reg, queue, sent>>

-----------------------------------------------------------------------------
\* CONNECT: register() puts a fresh queue in place of the client's old one.
DRegister(r, a) ==
  /\ reg[r].sender = "none"
  /\ \A s \in Regs : s < r => reg[s].sender # "none"
  /\ reg' = [reg EXCEPT ![r] = [of |-> a, sender |-> "run"]]
  /\ clients' = [clients EXCEPT ![a] = r]
  /\ UNCHANGED <<inVars, tick, events, published, queue, drops, sent, pushed, drain>>

\* unregister() of the client's current registration, with senders as s.
DUnregister(a, s) ==
  /\ reg' = IF clients[a] = NoReg THEN s
            ELSE [s EXCEPT ![clients[a]].sender = IF @ = "run" THEN "closed" ELSE @]
  /\ clients' = [clients EXCEPT ![a] = NoReg]

\* DISCONNECT, or the cleanup of the stream.
RelayUnregisters(a) ==
  /\ clients[a] # NoReg
  /\ DUnregister(a, reg)
  /\ UNCHANGED <<inVars, tick, events, published, queue, drops, sent, pushed, drain>>

\* The sender takes a datum and sends it.  A closed done and a datum are equal
\* cases of its select.
SenderTakes(r) ==
  /\ reg[r].sender \in {"run", "closed"} /\ queue[r] # <<>>
  /\ sent' = [sent EXCEPT ![r] = Append(@, Head(queue[r]))]
  /\ queue' = [queue EXCEPT ![r] = Tail(@)]
  /\ UNCHANGED <<inVars, tick, events, published, clients, reg, drops, pushed, drain>>

\* done is closed, the stream ended or Send failed: the deferred unregister
\* ends whatever registration the client has by now.
SenderExits(r) ==
  /\ reg[r].sender \in {"run", "closed"}
  /\ DUnregister(reg[r].of, [reg EXCEPT ![r].sender = "exit"])
  /\ UNCHANGED <<inVars, tick, events, published, queue, drops, sent, pushed, drain>>

TickStep ==
  \/ TickStarts \/ TickEnds
  \/ \E o \in SUBSET Avatars : Dispatch(o)
  \/ \E o \in SUBSET Avatars : DrainEnds(o)
  \/ \E a \in Avatars : publish(a)

DrainStep == DrainTake \/ SendLookup \/ push \/ pushPop \/ pushRetry

DeliveryNext ==
  \/ RelayData
  \/ TickStep
  \/ DrainStep
  \/ \E r \in Regs, a \in Avatars : DRegister(r, a)
  \/ \E a \in Avatars : RelayUnregisters(a)
  \/ \E r \in Regs : SenderTakes(r) \/ SenderExits(r)

DeliverySpec == DeliveryInit /\ [][DeliveryNext]_deliveryVars

\* The tick loop and drainEvents run; nothing is assumed of the senders, whose
\* clients may be as slow as they like.
DeliveryFairness == WF_deliveryVars(TickStep) /\ WF_deliveryVars(DrainStep)

-----------------------------------------------------------------------------
Increasing(s) == \A i, j \in 1 .. Len(s) : i < j => s[i] < s[j]

Stream(r) == sent[r] \o queue[r]

\* What a registration is sent is in the order it was published, and what a
\* client's later registration is sent was published later than all that an
\* earlier one got: a reconnection neither repeats nor reorders events, though
\* the old sender may still be running.
DeliveryOrder ==
  \A r \in Regs :
    /\ Increasing(Stream(r))
    /\ \A s \in Regs : s < r /\ reg[s].of = reg[r].of =>
         \A i \in 1 .. Len(Stream(s)), j \in 1 .. Len(Stream(r)) : Stream(s)[i] < Stream(r)[j]

\* push never drops the datum it brings: only drainEvents pushes, so the room
\* it made is still there at its third select, whatever the sender does.
NewestIsKept == drain.pc = "retry" => Room(drain.reg)

\* Every datum pushed to a client is sent, waiting, or counted in drops, also
\* when the sender takes from the queue between the selects of push.
DropsAreCounted ==
  \A r \in Regs : pushed[r] = Len(sent[r]) + Len(queue[r]) + drops[r]

\* A packet that entered the Inbox is handled by some tick, however many
\* packets follow it.
PacketsAreHandled == \A n \in 1 .. MaxPackets : accepted >= n ~> handled >= n

Undelivered(n) ==
  \/ \E i \in 1 .. Len(events) : events[i].num = n
  \/ drain.pc # "take" /\ drain.num = n

\* A slow client holds nobody up: drainEvents takes every event and is done
\* with it even if no sender ever takes from its queue.
EventsAreDrained == \A n \in 1 .. MaxEvents : Undelivered(n) ~> ~Undelivered(n)
============================================================================
