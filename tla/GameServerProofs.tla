-------------------------- MODULE GameServerProofs -------------------------
(***************************************************************************)
(* What is proved of the queues of a game server (Delivery), of its        *)
(* connections to its peers (Peers) and of the scenarios that kill and     *)
(* freeze it (Scenario).  The modules share no state; each section has an  *)
(* inductive invariant of its own.                                         *)
(***************************************************************************)
EXTENDS Delivery, Peers, Scenario, SequenceTheorems, TLAPS

-----------------------------------------------------------------------------
(* push of boundedSendQueue.  The invariant adds the bound on the queues:   *)
(* drainEvents is the only goroutine that puts data in, so between its      *)
(* selects a queue can only get shorter.                                    *)

DrainType ==
  [pc : {"take", "lookup", "push", "pop", "retry"}, to : Avatars \cup {NoReg},
   num : Nat, reg : Regs \cup {NoReg}]

\* What the proof needs of the types, and which registrations have a client.
QueueTypes ==
  /\ queue \in [Regs -> Seq(Nat)] /\ sent \in [Regs -> Seq(Nat)]
  /\ drops \in [Regs -> Nat] /\ pushed \in [Regs -> Nat]
  /\ events \in Seq([to : Avatars, num : Nat])
  /\ published \in Nat
  /\ clients \in [Avatars -> Regs \cup {NoReg}]
  /\ reg \in [Regs -> [of : Avatars \cup {NoReg}, sender : {"none", "run", "closed", "exit"}]]
  /\ \A r \in Regs : reg[r].sender # "none" => reg[r].of \in Avatars
  /\ drain \in DrainType
  /\ drain.pc = "lookup" => drain.to \in Avatars
  /\ drain.pc \in {"push", "pop", "retry"} => drain.reg \in Regs

IPush ==
  /\ QueueTypes
  /\ \A r \in Regs : Len(queue[r]) <= QueueCap
  /\ NewestIsKept
  /\ DropsAreCounted

pushVars == <<queue, sent, drops, pushed, drain>>

\* drainEvents between two events.
LEMMA NobodyType == Nobody \in DrainType /\ Nobody.pc = "take"
BY DEF Nobody, DrainType

\* drainEvents within push.
LEMMA DrainGoes ==
  ASSUME drain \in DrainType, NEW p \in {"pop", "retry"}, drain' = [drain EXCEPT !.pc = p]
  PROVE  drain' \in DrainType /\ drain'.pc = p /\ drain'.reg = drain.reg
BY DEF DrainType

\* Nothing is queued.
LEMMA IPushInit == DeliveryInit => IPush
BY DeliveryAssumption, NobodyType
   DEF DeliveryInit, IPush, QueueTypes, NewestIsKept, DropsAreCounted

\* A step that leaves the queues and drainEvents alone keeps all but the types.
LEMMA IPushElsewhere ==
  ASSUME IPush, QueueTypes', UNCHANGED pushVars PROVE IPush'
BY DEF IPush, pushVars, NewestIsKept, DropsAreCounted, Room

\* Appending keeps the elements' type.
LEMMA AppendType == ASSUME NEW S, NEW s \in Seq(S), NEW e \in S PROVE Append(s, e) \in Seq(S)
OBVIOUS

\* The ends of a sequence have its elements' type.
LEMMA EndsType ==
  ASSUME NEW S, NEW s \in Seq(S), s # <<>> PROVE Head(s) \in S /\ Tail(s) \in Seq(S)
OBVIOUS

\* Appending to one queue and taking from its front.
LEMMA Lengths ==
  ASSUME NEW s \in Seq(Nat), NEW n \in Nat
  PROVE  /\ Len(s) \in Nat
         /\ Append(s, n) \in Seq(Nat) /\ Len(Append(s, n)) = Len(s) + 1
         /\ s # <<>> => /\ Len(s) > 0 /\ Head(s) \in Nat
                        /\ Tail(s) \in Seq(Nat) /\ Len(Tail(s)) = Len(s) - 1
OBVIOUS

\* The sum in DropsAreCounted when a datum is queued, and when one is dropped.
LEMMA OneMore ==
  ASSUME NEW a \in Nat, NEW b \in Nat, NEW c \in Nat
  PROVE  (a + b + c) + 1 = a + (b + 1) + c /\ a + b + c = a + (b - 1) + (c + 1)
OBVIOUS

\* A tick only publishes.
LEMMA IPushTick == ASSUME IPush, TickStep PROVE IPush'
<1>1. UNCHANGED <<pushVars, clients, reg>>
  BY DEF TickStep, TickStarts, TickEnds, Dispatch, DrainEnds, publish, outVars, pushVars
<1>2. events' \in Seq([to : Avatars, num : Nat]) /\ published' \in Nat
  <2>1. ASSUME NEW a \in Avatars, publish(a)
        PROVE  events' \in Seq([to : Avatars, num : Nat]) /\ published' \in Nat
    <3>1. published' \in Nat /\ [to |-> a, num |-> published'] \in [to : Avatars, num : Nat]
      BY <2>1 DEF publish, IPush, QueueTypes
    <3>2. Append(events, [to |-> a, num |-> published']) \in Seq([to : Avatars, num : Nat])
      BY <3>1, AppendType DEF IPush, QueueTypes
    <3> QED
      BY <2>1, <3>1, <3>2 DEF publish, IPush, QueueTypes
  <2> QED
    BY <2>1 DEF TickStep, TickStarts, TickEnds, Dispatch, DrainEnds, IPush, QueueTypes
<1>3. QueueTypes'
  BY <1>1, <1>2 DEF IPush, QueueTypes, pushVars
<1> QED
  BY <1>1, <1>3, IPushElsewhere

\* Registrations come and go; their queues stay.
LEMMA IPushClients ==
  ASSUME IPush,
         \/ \E r \in Regs, a \in Avatars : DRegister(r, a)
         \/ \E a \in Avatars : RelayUnregisters(a)
         \/ \E r \in Regs : SenderExits(r)
  PROVE  IPush'
<1>1. UNCHANGED <<pushVars, events, published>>
  BY DEF DRegister, RelayUnregisters, SenderExits, pushVars
<1> DEFINE RegType == [of : Avatars \cup {NoReg}, sender : {"none", "run", "closed", "exit"}]
           OK(c, s) == /\ c \in [Avatars -> Regs \cup {NoReg}] /\ s \in [Regs -> RegType]
                       /\ \A r \in Regs : s[r].sender # "none" => s[r].of \in Avatars
<1>2. ASSUME NEW a \in Avatars, NEW s, OK(clients, s), DUnregister(a, s)
      PROVE  OK(clients', reg')
  <2>1. clients' \in [Avatars -> Regs \cup {NoReg}]
    BY <1>2 DEF DUnregister
  <2>2. CASE clients[a] = NoReg
    BY <1>2, <2>1, <2>2 DEF DUnregister
  <2>3. CASE clients[a] # NoReg
    <3> DEFINE c == clients[a]
               w == IF s[c].sender = "run" THEN "closed" ELSE s[c].sender
    <3>1. c \in Regs
      BY <1>2, <2>3
    <3>2. reg' = [s EXCEPT ![c].sender = w]
      BY <1>2, <2>3 DEF DUnregister
    <3>3. s[c] \in RegType /\ w \in {"none", "run", "closed", "exit"}
          /\ (w # "none" => s[c].sender # "none")
      BY <1>2, <3>1
    <3> HIDE DEF c, w
    <3>4. reg' \in [Regs -> RegType]
      BY <1>2, <3>1, <3>2, <3>3
    <3>5. \A r \in Regs : reg'[r].sender # "none" => reg'[r].of \in Avatars
      BY <1>2, <3>1, <3>2, <3>3
    <3> QED
      BY <2>1, <3>4, <3>5
  <2> QED
    BY <2>2, <2>3
<1>3. OK(clients', reg')
  <2>1. ASSUME NEW r \in Regs, NEW a \in Avatars, DRegister(r, a) PROVE OK(clients', reg')
    BY <2>1 DEF DRegister, IPush, QueueTypes
  <2>2. ASSUME NEW a \in Avatars, RelayUnregisters(a) PROVE OK(clients', reg')
    BY <1>2, <2>2 DEF RelayUnregisters, IPush, QueueTypes
  <2>3. ASSUME NEW r \in Regs, SenderExits(r) PROVE OK(clients', reg')
    <3> DEFINE s == [reg EXCEPT ![r].sender = "exit"]
    <3>1. OK(clients, s) /\ reg[r].of \in Avatars
      BY <2>3 DEF SenderExits, IPush, QueueTypes
    <3>2. DUnregister(reg[r].of, s)
      BY <2>3 DEF SenderExits
    <3> QED
      BY <1>2, <3>1, <3>2
  <2> QED
    BY <2>1, <2>2, <2>3
<1>4. QueueTypes'
  BY <1>1, <1>3 DEF IPush, QueueTypes, pushVars
<1> QED
  BY <1>1, <1>4, IPushElsewhere

\* A sender shortens its queue by what it sends.
LEMMA IPushSender == ASSUME IPush, NEW r \in Regs, SenderTakes(r) PROVE IPush'
<1>1. /\ queue[r] \in Seq(Nat) /\ sent[r] \in Seq(Nat) /\ queue[r] # <<>>
      /\ sent' = [sent EXCEPT ![r] = Append(@, Head(queue[r]))]
      /\ queue' = [queue EXCEPT ![r] = Tail(@)]
      /\ UNCHANGED <<events, published, clients, reg, drops, pushed, drain>>
  BY DEF SenderTakes, IPush, QueueTypes
<1>2. /\ sent'[r] \in Seq(Nat) /\ Len(sent'[r]) = Len(sent[r]) + 1
      /\ queue'[r] \in Seq(Nat) /\ Len(queue'[r]) = Len(queue[r]) - 1
      /\ Len(queue[r]) \in Nat /\ Len(sent[r]) \in Nat
      /\ \A s \in Regs \ {r} : sent'[s] = sent[s] /\ queue'[s] = queue[s]
  BY <1>1, Lengths DEF IPush, QueueTypes
<1>3. QueueTypes'
  BY <1>1, <1>2 DEF IPush, QueueTypes
<1>4. ASSUME NEW s \in Regs PROVE Len(queue'[s]) <= Len(queue[s])
  <2>1. queue[s] \in Seq(Nat)
    BY DEF IPush, QueueTypes
  <2>2. Len(queue[s]) \in Nat
    BY <2>1
  <2> QED
    BY <1>2, <2>2
<1>5. \A s \in Regs : Len(queue'[s]) <= QueueCap
  BY <1>3, <1>4, DeliveryAssumption, Lengths DEF IPush, QueueTypes
<1>6. NewestIsKept'
  BY <1>1, <1>3, <1>4, DeliveryAssumption, Lengths DEF IPush, QueueTypes, NewestIsKept, Room
<1>7. DropsAreCounted'
  BY <1>1, <1>2 DEF IPush, QueueTypes, DropsAreCounted
<1> QED
  BY <1>3, <1>5, <1>6, <1>7 DEF IPush

\* drainEvents takes an event and finds the client's registration.
LEMMA IPushTake == ASSUME IPush, DrainTake \/ SendLookup PROVE IPush'
<1>1. UNCHANGED <<published, clients, reg, queue, drops, sent, pushed>>
  BY DEF DrainTake, SendLookup, outVars
<1>2. /\ events' \in Seq([to : Avatars, num : Nat])
      /\ drain' \in DrainType /\ drain'.pc # "retry"
      /\ drain'.pc = "lookup" => drain'.to \in Avatars
      /\ drain'.pc \in {"push", "pop", "retry"} => drain'.reg \in Regs
  <2>1. CASE DrainTake
    <3> DEFINE e == Head(events)
    <3>1. e \in [to : Avatars, num : Nat] /\ events' \in Seq([to : Avatars, num : Nat])
      BY <2>1, EndsType DEF DrainTake, IPush, QueueTypes
    <3>2. drain' = [pc |-> "lookup", to |-> e.to, num |-> e.num, reg |-> NoReg]
      BY <2>1 DEF DrainTake, Nobody
    <3> HIDE DEF e
    <3> QED
      BY <3>1, <3>2 DEF DrainType
  <2>2. CASE SendLookup /\ clients[drain.to] = NoReg
    BY <2>2, NobodyType DEF SendLookup, outVars, IPush, QueueTypes
  <2>3. CASE SendLookup /\ clients[drain.to] # NoReg
    <3> DEFINE r == clients[drain.to]
    <3>1. r \in Regs /\ drain \in DrainType
      BY <2>3 DEF SendLookup, IPush, QueueTypes
    <3>2. drain' = [drain EXCEPT !.pc = "push", !.reg = r] /\ events' = events
      BY <2>3 DEF SendLookup
    <3> HIDE DEF r
    <3>3. drain' \in DrainType /\ drain'.pc = "push" /\ drain'.reg = r
      BY <3>1, <3>2 DEF DrainType
    <3> QED
      BY <3>1, <3>2, <3>3 DEF IPush, QueueTypes
  <2> QED
    BY <2>1, <2>2, <2>3
<1>3. QueueTypes'
  BY <1>1, <1>2 DEF IPush, QueueTypes
<1> QED
  BY <1>1, <1>2, <1>3 DEF IPush, NewestIsKept, DropsAreCounted

\* A datum is put where there is room.
LEMMA IPushPushed ==
  ASSUME IPush, drain.reg \in Regs, Room(drain.reg), Pushed(drain.reg)
  PROVE  IPush'
<1> DEFINE r == drain.reg
<1>1. /\ queue[r] \in Seq(Nat) /\ drain.num \in Nat /\ Len(queue[r]) < QueueCap
      /\ queue' = [queue EXCEPT ![r] = Append(@, drain.num)]
      /\ pushed' = [pushed EXCEPT ![r] = @ + 1]
      /\ drain' = Nobody
      /\ UNCHANGED <<events, published, clients, reg, drops, sent>>
  BY DEF Pushed, Room, IPush, QueueTypes, DrainType
<1>2. /\ queue'[r] \in Seq(Nat) /\ Len(queue'[r]) = Len(queue[r]) + 1 /\ Len(queue[r]) \in Nat
      /\ pushed'[r] = pushed[r] + 1 /\ pushed[r] \in Nat
      /\ \A s \in Regs \ {r} : queue'[s] = queue[s] /\ pushed'[s] = pushed[s]
  BY <1>1, Lengths DEF IPush, QueueTypes
<1>3. QueueTypes'
  <2>1. pushed \in [Regs -> Nat] /\ queue \in [Regs -> Seq(Nat)]
    BY DEF IPush, QueueTypes
  <2>2. pushed' \in [Regs -> Nat]
    BY <1>1, <2>1
  <2>3. queue' \in [Regs -> Seq(Nat)]
    BY <1>1, <1>2, <2>1
  <2> QED
    BY <1>1, <2>2, <2>3, NobodyType DEF IPush, QueueTypes
<1>4. \A s \in Regs : Len(queue'[s]) <= QueueCap
  BY <1>1, <1>2, DeliveryAssumption DEF IPush
<1>5. NewestIsKept'
  BY <1>1, NobodyType DEF NewestIsKept
<1>6. ASSUME NEW s \in Regs
      PROVE  pushed'[s] = Len(sent'[s]) + Len(queue'[s]) + drops'[s]
  <2>1. pushed[s] = Len(sent[s]) + Len(queue[s]) + drops[s]
        /\ sent[s] \in Seq(Nat) /\ queue[s] \in Seq(Nat) /\ drops[s] \in Nat
        /\ sent'[s] = sent[s] /\ drops'[s] = drops[s]
    BY <1>1 DEF IPush, QueueTypes, DropsAreCounted
  <2>2. Len(sent[s]) \in Nat /\ Len(queue[s]) \in Nat
    BY <2>1
  <2>3. CASE s = r
    <3>1. pushed'[s] = pushed[s] + 1 /\ Len(queue'[s]) = Len(queue[s]) + 1
      <4>1. pushed'[r] = pushed[r] + 1 /\ Len(queue'[r]) = Len(queue[r]) + 1
        BY <1>2
      <4> HIDE DEF r
      <4> QED
        BY <2>3, <4>1, Zenon
    <3>2. Len(sent'[s]) = Len(sent[s]) /\ drops'[s] = drops[s]
      BY <2>1
    <3>3. (Len(sent[s]) + Len(queue[s]) + drops[s]) + 1
            = Len(sent[s]) + (Len(queue[s]) + 1) + drops[s]
      BY <2>1, <2>2, OneMore
    <3> QED
      BY <2>1, <3>1, <3>2, <3>3, Zenon
  <2>4. CASE s # r
    BY <1>2, <2>1, <2>4
  <2> QED
    BY <2>3, <2>4
<1> QED
  BY <1>3, <1>4, <1>5, <1>6 DEF IPush, DropsAreCounted

\* The types, for the second select of push, which leaves the rest of the state alone.
LEMMA PushTypes ==
  ASSUME QueueTypes, UNCHANGED <<events, published, clients, reg, sent, pushed>>,
         queue' \in [Regs -> Seq(Nat)], drops' \in [Regs -> Nat],
         drain' \in DrainType, drain'.pc = "retry", drain'.reg \in Regs
  PROVE  QueueTypes'
<1>1. /\ reg' \in [Regs -> [of : Avatars \cup {NoReg}, sender : {"none", "run", "closed", "exit"}]]
      /\ \A r \in Regs : reg'[r].sender # "none" => reg'[r].of \in Avatars
  BY DEF QueueTypes
<1>2. /\ sent' \in [Regs -> Seq(Nat)] /\ pushed' \in [Regs -> Nat]
      /\ events' \in Seq([to : Avatars, num : Nat]) /\ published' \in Nat
      /\ clients' \in [Avatars -> Regs \cup {NoReg}]
  BY DEF QueueTypes
<1> QED
  BY <1>1, <1>2 DEF QueueTypes

\* The second select makes room, or the sender did.
LEMMA IPushPop == ASSUME IPush, pushPop PROVE IPush'
<1> DEFINE r == drain.reg
<1>1. /\ r \in Regs /\ queue[r] \in Seq(Nat) /\ drain' = [drain EXCEPT !.pc = "retry"]
      /\ UNCHANGED <<events, published, clients, reg, sent, pushed>>
  BY DEF pushPop, IPush, QueueTypes
<1>2. drain' \in DrainType /\ drain'.pc = "retry" /\ drain'.reg = r
  BY <1>1, DrainGoes DEF IPush, QueueTypes
<1>3. CASE queue[r] = <<>>
  <2>1. UNCHANGED <<queue, drops>>
    BY <1>3 DEF pushPop
  <2>2. Len(queue'[r]) = 0
    BY <1>3, <2>1
  <2>3. QueueTypes'
    BY <1>1, <1>2, <2>1 DEF IPush, QueueTypes
  <2>4. NewestIsKept'
    BY <1>2, <2>2, DeliveryAssumption DEF NewestIsKept, Room
  <2> QED
    BY <1>1, <2>1, <2>3, <2>4 DEF IPush, DropsAreCounted
<1>4. CASE queue[r] # <<>>
  <2>1. queue' = [queue EXCEPT ![r] = Tail(@)] /\ drops' = [drops EXCEPT ![r] = @ + 1]
    BY <1>4 DEF pushPop
  <2>2. /\ queue'[r] \in Seq(Nat) /\ Len(queue'[r]) = Len(queue[r]) - 1 /\ Len(queue[r]) \in Nat
        /\ drops'[r] = drops[r] + 1 /\ drops[r] \in Nat
        /\ \A s \in Regs \ {r} : queue'[s] = queue[s] /\ drops'[s] = drops[s]
    BY <1>1, <1>4, <2>1, Lengths DEF IPush, QueueTypes
  <2>3. QueueTypes'
    <3>1. QueueTypes
      BY DEF IPush
    <3>2. queue \in [Regs -> Seq(Nat)] /\ drops \in [Regs -> Nat]
      BY <3>1 DEF QueueTypes
    <3>3. queue' \in [Regs -> Seq(Nat)]
      BY <2>1, <2>2, <3>2
    <3>4. drops' \in [Regs -> Nat]
      BY <2>1, <2>2, <3>2
    <3> QED
      BY <1>1, <1>2, <3>1, <3>3, <3>4, PushTypes
  <2>4. ASSUME NEW s \in Regs PROVE Len(queue'[s]) <= QueueCap
    <3>1. Len(queue[s]) <= QueueCap /\ QueueCap \in Nat
      BY DeliveryAssumption DEF IPush
    <3>2. CASE s = r
      <4>1. Len(queue'[s]) = Len(queue[s]) - 1 /\ Len(queue[s]) \in Nat
        BY <2>2, <3>2
      <4> QED
        BY <3>1, <4>1
    <3>3. CASE s # r
      BY <2>2, <3>1, <3>3
    <3> QED
      BY <3>2, <3>3
  <2>5. NewestIsKept'
    <3>1. Len(queue'[r]) < QueueCap
      <4>1. Len(queue[r]) <= QueueCap
        BY <1>1 DEF IPush
      <4>2. QueueCap \in Nat
        BY DeliveryAssumption
      <4> QED
        BY <2>2, <4>1, <4>2
    <3> QED
      BY <1>2, <3>1 DEF NewestIsKept, Room
  <2>6. ASSUME NEW s \in Regs
        PROVE  pushed'[s] = Len(sent'[s]) + Len(queue'[s]) + drops'[s]
    <3>1. pushed[s] = Len(sent[s]) + Len(queue[s]) + drops[s]
          /\ sent[s] \in Seq(Nat) /\ queue[s] \in Seq(Nat) /\ drops[s] \in Nat
          /\ sent'[s] = sent[s] /\ pushed'[s] = pushed[s]
      BY <1>1 DEF IPush, QueueTypes, DropsAreCounted
    <3>2. Len(sent[s]) \in Nat /\ Len(queue[s]) \in Nat
      BY <3>1
    <3>3. CASE s = r
      <4>1. Len(queue'[s]) = Len(queue[s]) - 1 /\ drops'[s] = drops[s] + 1
        <5>1. Len(queue'[r]) = Len(queue[r]) - 1 /\ drops'[r] = drops[r] + 1
          BY <2>2
        <5> HIDE DEF r
        <5> QED
          BY <3>3, <5>1, Zenon
      <4>2. Len(sent'[s]) = Len(sent[s]) /\ pushed'[s] = pushed[s]
        BY <3>1
      <4>3. Len(sent[s]) + Len(queue[s]) + drops[s]
              = Len(sent[s]) + (Len(queue[s]) - 1) + (drops[s] + 1)
        BY <3>1, <3>2, OneMore
      <4> QED
        BY <3>1, <4>1, <4>2, <4>3, Zenon
    <3>4. CASE s # r
      BY <2>2, <3>1, <3>4
    <3> QED
      BY <3>3, <3>4
  <2> QED
    BY <2>3, <2>4, <2>5, <2>6 DEF IPush, DropsAreCounted
<1> QED
  BY <1>3, <1>4

\* push as a whole: its third select always finds room.
LEMMA IPushPush == ASSUME IPush, push \/ pushPop \/ pushRetry PROVE IPush'
<1>1. CASE push
  <2>1. drain.reg \in Regs
    BY <1>1 DEF push, IPush, QueueTypes
  <2>2. CASE Room(drain.reg)
    BY <1>1, <2>1, <2>2, IPushPushed DEF push
  <2>3. CASE ~Room(drain.reg)
    <3>1. drain' = [drain EXCEPT !.pc = "pop"]
          /\ UNCHANGED <<events, published, clients, reg, queue, drops, sent, pushed>>
      BY <1>1, <2>3 DEF push, outVars
    <3>2. drain' \in DrainType /\ drain'.pc = "pop" /\ drain'.reg = drain.reg
      BY <3>1, DrainGoes DEF IPush, QueueTypes
    <3> QED
      BY <2>1, <3>1, <3>2 DEF IPush, QueueTypes, NewestIsKept, DropsAreCounted
  <2> QED
    BY <2>2, <2>3
<1>2. CASE pushPop
  BY <1>2, IPushPop
<1>3. CASE pushRetry
  <2>1. drain.reg \in Regs /\ Room(drain.reg)
    BY <1>3 DEF pushRetry, IPush, QueueTypes, NewestIsKept
  <2> QED
    BY <1>3, <2>1, IPushPushed DEF pushRetry
<1> QED
  BY <1>1, <1>2, <1>3

\* The invariant is inductive.
LEMMA IPushNext == IPush /\ [DeliveryNext]_deliveryVars => IPush'
<1> SUFFICES ASSUME IPush, [DeliveryNext]_deliveryVars PROVE IPush'
  OBVIOUS
<1>1. CASE RelayData \/ UNCHANGED deliveryVars
  <2>1. UNCHANGED <<pushVars, events, published, clients, reg>>
    BY <1>1 DEF RelayData, outVars, deliveryVars, pushVars
  <2>2. QueueTypes'
    BY <2>1 DEF IPush, QueueTypes, pushVars
  <2> QED
    BY <2>1, <2>2, IPushElsewhere
<1> QED
  BY <1>1, IPushTick, IPushClients, IPushSender, IPushTake, IPushPush DEF DeliveryNext, DrainStep

\* The third select of push always finds the room its second select made,
\* however slow or fast the sender is.
THEOREM NewestAreKept == DeliverySpec => []NewestIsKept
<1>1. IPush => NewestIsKept
  BY DEF IPush
<1> QED
  BY <1>1, IPushInit, IPushNext, PTL DEF DeliverySpec

\* Every datum pushed is sent, waiting, or counted as dropped.
THEOREM AllDropsAreCounted == DeliverySpec => []DropsAreCounted
<1>1. IPush => DropsAreCounted
  BY DEF IPush
<1> QED
  BY <1>1, IPushInit, IPushNext, PTL DEF DeliverySpec

-----------------------------------------------------------------------------
(* The order of delivery.  What is under way is older the further it got:   *)
(* what the registrations have, then what drainEvents holds, then what is   *)
(* in the channel.  A client's registration in the registry is its latest,  *)
(* and while drainEvents pushes to one that was replaced since it was       *)
(* looked up, the one that replaced it has nothing yet.                     *)

Made(r) == reg[r].sender # "none"
Pushing == drain.pc \in {"push", "pop", "retry"}

\* Registrations are made in order, and data are for those that were made.
RegsInOrder ==
  /\ \A s, t \in Regs : s < t /\ Made(t) => Made(s)
  /\ \A r \in Regs : ~Made(r) => Stream(r) = <<>>

ClientsAreLatest ==
  \A a \in Avatars : clients[a] # NoReg =>
    /\ Made(clients[a]) /\ reg[clients[a]].of = a
    /\ \A s \in Regs : s > clients[a] /\ Made(s) => reg[s].of # a

\* What comes later was published later.
Behind(n) ==
  /\ n <= published
  /\ \A i \in 1 .. Len(events) : n < events[i].num

PendingInOrder ==
  /\ \A i, j \in 1 .. Len(events) : i < j => events[i].num < events[j].num
  /\ \A i \in 1 .. Len(events) : events[i].num <= published
  /\ drain.pc # "take" => Behind(drain.num)

StreamsBehind ==
  \A r \in Regs : \A i \in 1 .. Len(Stream(r)) :
    /\ Behind(Stream(r)[i])
    /\ drain.pc # "take" => Stream(r)[i] < drain.num

PushesToLatest ==
  Pushing =>
    /\ Made(drain.reg)
    /\ \A r \in Regs : r > drain.reg /\ reg[r].of = reg[drain.reg].of => Stream(r) = <<>>

IOrder ==
  /\ RegsInOrder /\ ClientsAreLatest
  /\ PendingInOrder /\ StreamsBehind /\ PushesToLatest
  /\ DeliveryOrder

\* What a registration has is a sequence of numbers.
LEMMA StreamType ==
  ASSUME QueueTypes, NEW r \in Regs
  PROVE  Stream(r) \in Seq(Nat) /\ Len(Stream(r)) \in Nat
         /\ \A i \in 1 .. Len(Stream(r)) : Stream(r)[i] \in Nat
<1>1. sent[r] \in Seq(Nat) /\ queue[r] \in Seq(Nat)
  BY DEF QueueTypes
<1>2. Stream(r) \in Seq(Nat)
  BY <1>1, ConcatProperties DEF Stream
<1> QED
  BY <1>2, ElementOfSeq, LenProperties

\* The numbers in the channel.
LEMMA EventsType ==
  ASSUME QueueTypes
  PROVE  Len(events) \in Nat /\ \A i \in 1 .. Len(events) : events[i].num \in Nat
<1>1. events \in Seq([to : Avatars, num : Nat])
  BY DEF QueueTypes
<1>2. Len(events) \in Nat
  BY <1>1, LenProperties
<1>3. ASSUME NEW i \in 1 .. Len(events) PROVE events[i].num \in Nat
  <2>1. events[i] \in [to : Avatars, num : Nat]
    BY <1>1, ElementOfSeq
  <2> QED
    BY <2>1
<1> QED
  BY <1>2, <1>3

\* Moving the front of the queue to the end of what was sent changes nothing.
LEMMA MoveFront ==
  ASSUME NEW s \in Seq(Nat), NEW q \in Seq(Nat), q # <<>>
  PROVE  Append(s, Head(q)) \o Tail(q) = s \o q
<1>1. /\ Head(q) = q[1] /\ Head(q) \in Nat /\ Len(q) \in Nat /\ Len(q) > 0 /\ Len(s) \in Nat
      /\ Tail(q) \in Seq(Nat) /\ Len(Tail(q)) = Len(q) - 1
      /\ \A i \in 1 .. Len(q) - 1 : Tail(q)[i] = q[i + 1]
  BY HeadTailProperties, LenProperties
<1> DEFINE a == Append(s, Head(q))
           u == Tail(q)
           l == a \o u
           m == s \o q
           N == Len(s) + Len(q)
<1>2. /\ a \in Seq(Nat) /\ Len(a) = Len(s) + 1 /\ a[Len(s) + 1] = q[1]
      /\ \A i \in 1 .. Len(s) : a[i] = s[i]
  BY <1>1
<1>3. /\ u \in Seq(Nat) /\ Len(u) = Len(q) - 1
      /\ \A i \in 1 .. Len(q) - 1 : u[i] = q[i + 1]
  BY <1>1
<1> HIDE DEF a, u
<1>4. /\ m \in Seq(Nat) /\ Len(m) = N
      /\ \A i \in 1 .. N : i <= Len(s) => m[i] = s[i]
      /\ \A i \in 1 .. N : i > Len(s) => m[i] = q[i - Len(s)]
  BY <1>1, ConcatProperties
<1>5. /\ l \in Seq(Nat) /\ Len(l) = Len(a) + Len(u)
      /\ \A i \in 1 .. Len(a) + Len(u) : l[i] = IF i <= Len(a) THEN a[i] ELSE u[i - Len(a)]
  BY <1>2, <1>3, ConcatProperties
<1> HIDE DEF l, m
<1>6. /\ Len(l) = N
      /\ \A i \in 1 .. N : i <= Len(s) + 1 => l[i] = a[i]
      /\ \A i \in 1 .. N : i > Len(s) + 1 => l[i] = u[i - (Len(s) + 1)]
  <2>1. Len(a) + Len(u) = N
    BY <1>1, <1>2, <1>3
  <2>2. ASSUME NEW i \in 1 .. N
        PROVE  l[i] = IF i <= Len(s) + 1 THEN a[i] ELSE u[i - (Len(s) + 1)]
    <3>1. i \in 1 .. Len(a) + Len(u)
      BY <2>1
    <3>2. l[i] = IF i <= Len(a) THEN a[i] ELSE u[i - Len(a)]
      BY <1>5, <3>1
    <3> QED
      BY <1>2, <3>2
  <2>3. \A i \in 1 .. N : i > Len(s) + 1 => ~(i <= Len(s) + 1)
    BY <1>1
  <2> HIDE DEF N
  <2> QED
    BY <1>5, <2>1, <2>2, <2>3
<1>7. ASSUME NEW i \in 1 .. N PROVE l[i] = m[i]
  <2>1. CASE i <= Len(s)
    <3>1. i \in 1 .. Len(s) /\ i <= Len(s) + 1
      BY <1>1, <2>1
    <3> HIDE DEF N
    <3> QED
      BY <1>2, <1>4, <1>6, <2>1, <3>1
  <2>2. CASE i = Len(s) + 1
    <3>1. i - Len(s) = 1 /\ i > Len(s) /\ i <= Len(s) + 1
      BY <1>1, <2>2
    <3> QED
      BY <1>2, <1>4, <1>6, <2>2, <3>1
  <2>3. CASE i > Len(s) + 1
    <3>1. i - (Len(s) + 1) \in 1 .. Len(q) - 1 /\ (i - (Len(s) + 1)) + 1 = i - Len(s)
          /\ i > Len(s)
      BY <1>1, <2>3
    <3>2. u[i - (Len(s) + 1)] = q[i - Len(s)]
      BY <1>3, <3>1
    <3> QED
      BY <1>4, <1>6, <2>3, <3>1, <3>2
  <2> QED
    BY <1>1, <2>1, <2>2, <2>3
<1> HIDE DEF N
<1>8. l = m
  BY <1>4, <1>5, <1>6, <1>7, SeqEqual
<1> QED
  BY <1>8 DEF l, m, a, u

\* What is put at the end of the queue is at the end of the stream.
LEMMA PutBack ==
  ASSUME NEW s \in Seq(Nat), NEW q \in Seq(Nat), NEW n \in Nat, NEW t, t = s \o Append(q, n)
  PROVE  /\ Len(t) = Len(s \o q) + 1 /\ t[Len(s \o q) + 1] = n
         /\ \A i \in 1 .. Len(s \o q) : t[i] = (s \o q)[i]
<1> DEFINE a == Append(q, n)
           m == s \o q
<1>1. /\ a \in Seq(Nat) /\ Len(a) = Len(q) + 1 /\ a[Len(q) + 1] = n
      /\ \A i \in 1 .. Len(q) : a[i] = q[i]
      /\ Len(q) \in Nat /\ Len(s) \in Nat
  OBVIOUS
<1>2. /\ Len(m) = Len(s) + Len(q)
      /\ \A i \in 1 .. Len(s) + Len(q) : m[i] = IF i <= Len(s) THEN s[i] ELSE q[i - Len(s)]
  BY ConcatProperties
<1> HIDE DEF a
<1>3. /\ Len(t) = Len(s) + Len(a)
      /\ \A i \in 1 .. Len(s) + Len(a) : t[i] = IF i <= Len(s) THEN s[i] ELSE a[i - Len(s)]
  BY <1>1, ConcatProperties DEF a
<1> HIDE DEF m
<1>4. Len(t) = Len(m) + 1 /\ t[Len(m) + 1] = n
  <2>1. Len(m) + 1 \in 1 .. Len(s) + Len(a) /\ ~(Len(m) + 1 <= Len(s))
        /\ (Len(m) + 1) - Len(s) = Len(q) + 1 /\ Len(t) = Len(m) + 1
    BY <1>1, <1>2, <1>3
  <2> QED
    BY <1>1, <1>3, <2>1
<1>5. ASSUME NEW i \in 1 .. Len(m) PROVE t[i] = m[i]
  <2>1. i \in 1 .. Len(s) + Len(q) /\ i \in 1 .. Len(s) + Len(a)
    BY <1>1, <1>2
  <2>2. CASE i <= Len(s)
    BY <1>2, <1>3, <2>1, <2>2
  <2>3. CASE ~(i <= Len(s))
    <3>1. i - Len(s) \in 1 .. Len(q)
      BY <1>1, <2>1, <2>3
    <3> QED
      BY <1>1, <1>2, <1>3, <2>1, <2>3, <3>1
  <2> QED
    BY <2>2, <2>3
<1> QED
  BY <1>4, <1>5 DEF m

\* Where the i-th of t was in s, when t has all of s but one.
Was(k, i) == IF i <= k THEN i ELSE i + 1

\* The front of the queue taken away.
LEMMA TakeFront ==
  ASSUME NEW s \in Seq(Nat), NEW q \in Seq(Nat), q # <<>>, NEW t, t = s \o Tail(q)
  PROVE  /\ Len(s) \in Nat /\ Len(s \o q) \in Nat /\ Len(t) = Len(s \o q) - 1
         /\ \A i \in 1 .. Len(t) : /\ Was(Len(s), i) \in 1 .. Len(s \o q)
                                   /\ t[i] = (s \o q)[Was(Len(s), i)]
<1> DEFINE m == s \o q
<1>1. /\ Len(q) \in Nat /\ Len(q) > 0 /\ Len(s) \in Nat
      /\ Tail(q) \in Seq(Nat) /\ Len(Tail(q)) = Len(q) - 1
      /\ \A i \in 1 .. Len(q) - 1 : Tail(q)[i] = q[i + 1]
  BY HeadTailProperties, LenProperties
<1>2. /\ Len(m) = Len(s) + Len(q)
      /\ \A i \in 1 .. Len(s) + Len(q) : m[i] = IF i <= Len(s) THEN s[i] ELSE q[i - Len(s)]
  BY ConcatProperties
<1> HIDE DEF m
<1>3. /\ Len(t) = Len(s) + (Len(q) - 1)
      /\ \A i \in 1 .. Len(s) + (Len(q) - 1) :
           t[i] = IF i <= Len(s) THEN s[i] ELSE Tail(q)[i - Len(s)]
  BY <1>1, ConcatProperties
<1>4. ASSUME NEW i \in 1 .. Len(t)
      PROVE  Was(Len(s), i) \in 1 .. Len(m) /\ t[i] = m[Was(Len(s), i)]
  <2>1. i \in 1 .. Len(s) + (Len(q) - 1) /\ i \in 1 .. Len(s) + Len(q)
        /\ i + 1 \in 1 .. Len(s) + Len(q)
    BY <1>1, <1>3
  <2>2. CASE i <= Len(s)
    BY <1>2, <1>3, <2>1, <2>2 DEF Was
  <2>3. CASE ~(i <= Len(s))
    <3>1. i - Len(s) \in 1 .. Len(q) - 1 /\ (i - Len(s)) + 1 = (i + 1) - Len(s)
          /\ ~(i + 1 <= Len(s))
      BY <1>1, <2>1, <2>3
    <3>2. t[i] = q[(i + 1) - Len(s)]
      BY <1>1, <1>3, <2>1, <2>3, <3>1
    <3>3. m[i + 1] = q[(i + 1) - Len(s)]
      BY <1>2, <2>1, <3>1
    <3> QED
      BY <1>2, <2>1, <2>3, <3>2, <3>3 DEF Was
  <2> QED
    BY <2>2, <2>3
<1>5. Len(m) \in Nat /\ Len(t) = Len(m) - 1
  BY <1>1, <1>2, <1>3
<1> QED
  BY <1>1, <1>4, <1>5 DEF m

\* Nothing is published and nobody is registered.
LEMMA IOrderInit == DeliveryInit => IOrder
<1> SUFFICES ASSUME DeliveryInit PROVE IOrder
  OBVIOUS
<1>1. ASSUME NEW r \in Regs PROVE Stream(r) = <<>> /\ Len(Stream(r)) = 0 /\ ~Made(r)
  <2>1. sent[r] = <<>> /\ queue[r] = <<>> /\ ~Made(r)
    BY DEF DeliveryInit, Made
  <2>2. Stream(r) = <<>>
    BY <2>1, ConcatEmptySeq, EmptySeq DEF Stream
  <2> QED
    BY <2>1, <2>2
<1>2. Len(events) = 0 /\ drain.pc = "take" /\ \A a \in Avatars : clients[a] = NoReg
  BY DEF DeliveryInit, Nobody
<1>3. RegsInOrder /\ ClientsAreLatest
  BY <1>1, <1>2 DEF RegsInOrder, ClientsAreLatest
<1>4. PendingInOrder /\ StreamsBehind /\ PushesToLatest /\ DeliveryOrder
  BY <1>1, <1>2
     DEF PendingInOrder, StreamsBehind, PushesToLatest, Pushing, DeliveryOrder, Increasing
<1> QED
  BY <1>3, <1>4 DEF IOrder

\* A step that changes no queue changes no stream.
LEMMA SameStreams ==
  ASSUME UNCHANGED <<queue, sent>> PROVE \A r \in Regs : Stream(r)' = Stream(r)
BY DEF Stream

\* The order among the streams depends on them and on whose they are.
LEMMA SameOrder ==
  ASSUME IOrder, \A r \in Regs : Stream(r)' = Stream(r) /\ reg'[r].of = reg[r].of
  PROVE  DeliveryOrder'
BY DEF IOrder, DeliveryOrder

\* A tick appends the newest of all to the channel, or changes none of this.
LEMMA IOrderTick == ASSUME IPush, IOrder, TickStep PROVE IOrder'
<1>1. UNCHANGED <<clients, reg, queue, sent, drain>>
  BY DEF TickStep, TickStarts, TickEnds, Dispatch, DrainEnds, publish, outVars
<1>2. \A r \in Regs : Stream(r)' = Stream(r)
  BY <1>1, SameStreams
<1>3. RegsInOrder' /\ ClientsAreLatest' /\ PushesToLatest' /\ DeliveryOrder'
  <2>1. RegsInOrder' /\ ClientsAreLatest' /\ PushesToLatest'
    BY <1>1, <1>2 DEF IOrder, RegsInOrder, ClientsAreLatest, PushesToLatest, Made, Pushing
  <2>2. DeliveryOrder'
    BY <1>1, <1>2, SameOrder
  <2> QED
    BY <2>1, <2>2
<1> DEFINE Nums == /\ Len(events') \in Nat /\ published' >= published
                   /\ \A i \in 1 .. Len(events') :
                        \/ i \in 1 .. Len(events) /\ events'[i].num = events[i].num
                        \/ i = Len(events') /\ events'[i].num = published' /\ published' > published
<1>4. published \in Nat /\ published' \in Nat /\ Nums
  <2>1. CASE UNCHANGED <<events, published>>
    <3>1. published \in Nat /\ Len(events) \in Nat
      BY EventsType DEF IPush, QueueTypes
    <3> QED
      BY <2>1, <3>1
  <2>2. ASSUME NEW a \in Avatars, publish(a) PROVE published' \in Nat /\ Nums
    <3>1. published' \in Nat /\ published' > published /\ published' >= published
      BY <2>2 DEF publish, IPush, QueueTypes
    <3>2. CASE events' = events
      BY <3>1, <3>2, EventsType DEF IPush
    <3>3. CASE events' = Append(events, [to |-> a, num |-> published'])
      <4> DEFINE e == [to |-> a, num |-> published']
                 T == [to : Avatars, num : Nat]
      <4>1. events \in Seq(T) /\ e \in T /\ e.num = published'
        BY <3>1 DEF IPush, QueueTypes
      <4>2. events' = Append(events, e)
        BY <3>3
      <4> HIDE DEF e, T
      <4>3. /\ Len(events) \in Nat /\ Len(events') = Len(events) + 1
            /\ events'[Len(events) + 1] = e
            /\ \A i \in 1 .. Len(events) : events'[i] = events[i]
        BY <4>1, <4>2
      <4>4. \A i \in 1 .. Len(events') : i \in 1 .. Len(events) \/ i = Len(events')
        <5>1. Len(events) \in Nat /\ Len(events') = Len(events) + 1
          BY <4>3
        <5> QED
          BY <5>1
      <4> QED
        BY <3>1, <4>1, <4>3, <4>4
    <3> QED
      BY <2>2, <3>2, <3>3 DEF publish
  <2> QED
    BY <2>1, <2>2
       DEF TickStep, TickStarts, TickEnds, Dispatch, DrainEnds, IPush, QueueTypes
<1> HIDE DEF Nums
<1>5. ASSUME NEW n \in Nat, Behind(n) PROVE Behind(n)'
  <2>1. n <= published /\ \A i \in 1 .. Len(events) : n < events[i].num
    BY <1>5 DEF Behind
  <2>2. n' = n /\ n <= published'
    BY <1>4, <2>1 DEF Nums
  <2>3. \A i \in 1 .. Len(events') : n < events'[i].num
    BY <1>4, <2>1 DEF Nums
  <2> QED
    BY <2>2, <2>3 DEF Behind
<1>6. PendingInOrder'
  <2>1. \A i \in 1 .. Len(events') : events'[i].num <= published'
    BY <1>4, EventsType DEF Nums, IPush, IOrder, PendingInOrder
  <2>2. ASSUME NEW i \in 1 .. Len(events'), NEW j \in 1 .. Len(events'), i < j
        PROVE  events'[i].num < events'[j].num
    <3>1. i \in 1 .. Len(events) /\ events'[i].num = events[i].num
      BY <1>4, <2>2 DEF Nums
    <3>2. events[i].num \in Nat /\ events[i].num <= published
      BY <3>1, EventsType DEF IPush, IOrder, PendingInOrder
    <3>3. CASE j \in 1 .. Len(events) /\ events'[j].num = events[j].num
      BY <2>2, <3>1, <3>3 DEF IOrder, PendingInOrder
    <3>4. CASE events'[j].num = published' /\ published' > published
      BY <1>4, <3>1, <3>2, <3>4
    <3> QED
      BY <1>4, <3>3, <3>4 DEF Nums
  <2>3. drain'.pc # "take" => Behind(drain.num)'
    <3>1. drain.num \in Nat
      BY DEF IPush, QueueTypes, DrainType
    <3> QED
      BY <1>1, <1>5, <3>1 DEF IOrder, PendingInOrder
  <2> QED
    BY <2>1, <2>2, <2>3 DEF PendingInOrder
<1>7. StreamsBehind'
  <2>1. ASSUME NEW r \in Regs, NEW i \in 1 .. Len(Stream(r))
        PROVE  Behind(Stream(r)[i])' /\ (drain'.pc # "take" => Stream(r)[i] < drain'.num)
    <3> DEFINE n == Stream(r)[i]
    <3>1. n \in Nat /\ Behind(n) /\ (drain.pc # "take" => n < drain.num)
      BY StreamType DEF IPush, IOrder, StreamsBehind
    <3>2. n' = n
      BY <1>2
    <3> QED
      BY <1>1, <1>5, <3>1, <3>2
  <2> QED
    BY <1>2, <2>1 DEF StreamsBehind
<1> QED
  BY <1>3, <1>6, <1>7 DEF IOrder

\* A step that changes neither a stream nor what is pending keeps their order.
LEMMA SamePending ==
  ASSUME IOrder, \A r \in Regs : Stream(r)' = Stream(r), UNCHANGED <<events, published, drain>>
  PROVE  PendingInOrder' /\ StreamsBehind'
BY DEF IOrder, PendingInOrder, StreamsBehind, Behind

\* A sender moves a datum from its queue to what it sent.
LEMMA IOrderSender == ASSUME IPush, IOrder, NEW r \in Regs, SenderTakes(r) PROVE IOrder'
<1>1. UNCHANGED <<events, published, clients, reg, drain>>
  BY DEF SenderTakes
<1>2. ASSUME NEW s \in Regs PROVE Stream(s)' = Stream(s)
  <2>1. /\ sent[s] \in Seq(Nat) /\ queue[s] \in Seq(Nat)
        /\ sent' = [sent EXCEPT ![r] = Append(@, Head(queue[r]))] /\ queue[r] # <<>>
        /\ queue' = [queue EXCEPT ![r] = Tail(@)]
    BY DEF SenderTakes, IPush, QueueTypes
  <2>2. CASE s = r
    <3>1. sent'[s] = Append(sent[s], Head(queue[s])) /\ queue'[s] = Tail(queue[s])
      BY <2>1, <2>2 DEF IPush, QueueTypes
    <3>2. Append(sent[s], Head(queue[s])) \o Tail(queue[s]) = sent[s] \o queue[s]
      BY <2>1, <2>2, MoveFront
    <3> QED
      BY <3>1, <3>2 DEF Stream
  <2>3. CASE s # r
    BY <2>1, <2>3 DEF Stream, IPush, QueueTypes
  <2> QED
    BY <2>2, <2>3
<1>3. PendingInOrder' /\ StreamsBehind' /\ DeliveryOrder'
  BY <1>1, <1>2, SamePending, SameOrder
<1>4. \A s \in Regs : Made(s)' <=> Made(s)
  BY <1>1 DEF Made
<1>5. RegsInOrder'
  BY <1>2, <1>4 DEF IOrder, RegsInOrder
<1>6. ClientsAreLatest'
  BY <1>1 DEF IOrder, ClientsAreLatest, Made
<1>7. PushesToLatest'
  <2>1. (Pushing' <=> Pushing) /\ (Made(drain.reg)' <=> Made(drain.reg))
    BY <1>1 DEF Pushing, Made
  <2> QED
    BY <1>1, <1>2, <2>1 DEF IOrder, PushesToLatest
<1> QED
  BY <1>3, <1>5, <1>6, <1>7 DEF IOrder

\* An end of a registration: it stays made and its client's.
LEMMA IOrderEnds ==
  ASSUME IPush, IOrder, NEW a \in Avatars, NEW t, DUnregister(a, t),
         t \in [Regs -> [of : Avatars \cup {NoReg}, sender : {"none", "run", "closed", "exit"}]],
         \A r \in Regs : t[r].of = reg[r].of /\ (t[r].sender = "none" <=> ~Made(r)),
         UNCHANGED <<queue, sent, events, published, drain>>
  PROVE  IOrder'
<1>1. \A r \in Regs : Stream(r)' = Stream(r)
  BY SameStreams
<1>2. ASSUME NEW b \in Avatars PROVE clients'[b] \in {clients[b], NoReg}
  BY DEF DUnregister, IPush, QueueTypes
<1>3. ASSUME NEW r \in Regs PROVE reg'[r].of = reg[r].of /\ (Made(r)' <=> Made(r))
  <2>1. CASE clients[a] = NoReg
    BY <2>1 DEF DUnregister, Made
  <2>2. CASE clients[a] # NoReg
    <3> DEFINE c == clients[a]
               w == IF t[c].sender = "run" THEN "closed" ELSE t[c].sender
    <3>1. c \in Regs /\ reg' = [t EXCEPT ![c].sender = w]
      BY <2>2 DEF DUnregister, IPush, QueueTypes
    <3>2. w = "none" <=> t[c].sender = "none"
      OBVIOUS
    <3> HIDE DEF c, w
    <3>3. reg'[r].of = t[r].of /\ reg'[r].sender = IF r = c THEN w ELSE t[r].sender
      BY <3>1
    <3> QED
      BY <3>2, <3>3 DEF Made
  <2> QED
    BY <2>1, <2>2
<1>4. PendingInOrder' /\ StreamsBehind' /\ DeliveryOrder'
  BY <1>1, <1>3, SamePending, SameOrder
<1>5. RegsInOrder'
  BY <1>1, <1>3 DEF IOrder, RegsInOrder
<1>6. ClientsAreLatest'
  <2>1. \A b \in Avatars : clients[b] \in Regs \cup {NoReg}
    BY DEF IPush, QueueTypes
  <2> QED
    BY <1>2, <1>3, <2>1 DEF IOrder, ClientsAreLatest
<1>7. PushesToLatest'
  <2>1. Pushing => drain.reg \in Regs
    BY DEF Pushing, IPush, QueueTypes
  <2>2. Made(drain.reg)' <=> reg'[drain.reg].sender # "none"
    BY DEF Made
  <2>3. ASSUME Pushing PROVE reg'[drain.reg].of = reg[drain.reg].of /\ Made(drain.reg)'
    BY <1>3, <2>1, <2>3 DEF IOrder, PushesToLatest, Made
  <2>4. drain' = drain /\ (Pushing' <=> Pushing)
    BY DEF Pushing
  <2>5. ASSUME Pushing, NEW r \in Regs, r > drain.reg, reg'[r].of = reg'[drain.reg].of
        PROVE  Stream(r) = <<>>
    <3>1. reg[r].of = reg[drain.reg].of
      BY <1>3, <2>3, <2>5
    <3> QED
      BY <2>5, <3>1 DEF IOrder, PushesToLatest
  <2> QED
    BY <1>1, <2>3, <2>4, <2>5 DEF PushesToLatest
<1> QED
  BY <1>4, <1>5, <1>6, <1>7 DEF IOrder

\* A new registration is its client's latest, and has nothing yet.
LEMMA IOrderRegister ==
  ASSUME IPush, IOrder, NEW r \in Regs, NEW a \in Avatars, DRegister(r, a)
  PROVE  IOrder'
<1>1. /\ ~Made(r) /\ \A s \in Regs : s < r => Made(s)
      /\ reg' = [reg EXCEPT ![r] = [of |-> a, sender |-> "run"]]
      /\ clients' = [clients EXCEPT ![a] = r]
      /\ UNCHANGED <<queue, sent, events, published, drain>>
  BY DEF DRegister, Made
<1>2. \A s \in Regs : Stream(s)' = Stream(s)
  BY <1>1, SameStreams
<1>3. /\ reg'[r].of = a /\ Made(r)' /\ Stream(r) = <<>>
      /\ \A s \in Regs \ {r} : reg'[s].of = reg[s].of /\ (Made(s)' <=> Made(s))
  BY <1>1 DEF IPush, QueueTypes, Made, IOrder, RegsInOrder
<1>4. r \in Nat /\ \A s \in Regs : s \in Nat /\ (Made(s) => s < r)
  <2>1. \A s \in Regs : s \in Nat
    BY DeliveryAssumption
  <2>2. \A s \in Regs : Made(s) => s # r /\ ~(r < s)
    BY <1>1 DEF IOrder, RegsInOrder
  <2> QED
    BY <2>1, <2>2
<1>5. RegsInOrder'
  <2>1. ASSUME NEW s \in Regs, NEW t \in Regs, s < t, Made(t)' PROVE Made(s)'
    <3>1. CASE t = r
      <4>1. s < r
        BY <2>1, <3>1
      <4>2. Made(s) /\ s # r
        BY <1>1, <1>4, <4>1
      <4> QED
        BY <1>3, <4>2
    <3>2. CASE t # r
      BY <1>1, <1>3, <2>1, <3>2 DEF IOrder, RegsInOrder
    <3> QED
      BY <3>1, <3>2
  <2>2. ASSUME NEW s \in Regs, ~Made(s)' PROVE Stream(s)' = <<>>
    BY <1>2, <1>3, <2>2 DEF IOrder, RegsInOrder
  <2> QED
    BY <2>1, <2>2 DEF RegsInOrder
<1>6. ClientsAreLatest'
  <2>1. ASSUME NEW b \in Avatars, clients'[b] # NoReg
        PROVE  /\ Made(clients[b])' /\ reg'[clients'[b]].of = b
               /\ \A s \in Regs : s > clients'[b] /\ Made(s)' => reg'[s].of # b
    <3>1. Made(clients[b])' <=> reg'[clients'[b]].sender # "none"
      BY DEF Made
    <3>2. CASE b = a
      <4>1. clients'[b] = r
        BY <1>1, <3>2 DEF IPush, QueueTypes
      <4>2. \A s \in Regs : s > r => ~Made(s)'
        BY <1>3, <1>4
      <4>3. reg'[r].sender # "none"
        BY <1>3 DEF Made
      <4> QED
        BY <1>3, <3>1, <3>2, <4>1, <4>2, <4>3
    <3>3. CASE b # a
      <4> DEFINE c == clients[b]
      <4>1. clients'[b] = c /\ c # NoReg /\ c \in Regs
        BY <1>1, <2>1, <3>3 DEF IPush, QueueTypes
      <4>2. Made(c) /\ reg[c].of = b /\ \A s \in Regs : s > c /\ Made(s) => reg[s].of # b
        BY <4>1 DEF IOrder, ClientsAreLatest
      <4> HIDE DEF c
      <4>3. c # r /\ reg'[c] = reg[c]
        BY <1>1, <4>1, <4>2 DEF IPush, QueueTypes
      <4>4. \A s \in Regs : s > c /\ Made(s)' => reg'[s].of # b
        BY <1>3, <3>3, <4>2
      <4> QED
        BY <3>1, <4>1, <4>2, <4>3, <4>4 DEF Made
    <3> QED
      BY <3>2, <3>3
  <2> QED
    BY <2>1 DEF ClientsAreLatest
<1>7. PushesToLatest'
  <2> DEFINE d == drain.reg
  <2>1. ASSUME Pushing
        PROVE  d \in Regs /\ d # r /\ reg'[d] = reg[d] /\ Made(d)
    BY <1>1, <2>1 DEF IOrder, PushesToLatest, Pushing, IPush, QueueTypes
  <2>2. ASSUME Pushing, NEW s \in Regs, s > d, reg'[s].of = reg'[d].of PROVE Stream(s)' = <<>>
    BY <1>2, <1>3, <2>1, <2>2 DEF IOrder, PushesToLatest
  <2>3. Made(d)' <=> reg'[drain'.reg].sender # "none"
    BY DEF Made
  <2> QED
    BY <1>1, <2>1, <2>2, <2>3 DEF PushesToLatest, Pushing, Made
<1>8. DeliveryOrder'
  <2>1. Len(Stream(r)) = 0
    BY <1>3
  <2>2. ASSUME NEW t \in Regs, NEW s \in Regs, s < t, reg'[s].of = reg'[t].of,
               NEW i \in 1 .. Len(Stream(s)), NEW j \in 1 .. Len(Stream(t))
        PROVE  Stream(s)[i] < Stream(t)[j]
    <3>1. s # r /\ t # r
      BY <2>1
    <3> QED
      BY <1>3, <2>2, <3>1 DEF IOrder, DeliveryOrder
  <2>3. \A t \in Regs : Increasing(Stream(t))
    BY DEF IOrder, DeliveryOrder
  <2> QED
    BY <1>2, <2>2, <2>3 DEF DeliveryOrder, Increasing
<1>9. PendingInOrder' /\ StreamsBehind'
  BY <1>1, <1>2, SamePending
<1> QED
  BY <1>5, <1>6, <1>7, <1>8, <1>9 DEF IOrder

\* Registrations come and go.
LEMMA IOrderClients ==
  ASSUME IPush, IOrder,
         \/ \E r \in Regs, a \in Avatars : DRegister(r, a)
         \/ \E a \in Avatars : RelayUnregisters(a)
         \/ \E r \in Regs : SenderExits(r)
  PROVE  IOrder'
<1>1. ASSUME NEW a \in Avatars, RelayUnregisters(a) PROVE IOrder'
  <2>1. DUnregister(a, reg) /\ UNCHANGED <<queue, sent, events, published, drain>>
    BY <1>1 DEF RelayUnregisters
  <2>2. reg \in [Regs -> [of : Avatars \cup {NoReg}, sender : {"none", "run", "closed", "exit"}]]
        /\ \A r \in Regs : reg[r].sender = "none" <=> ~Made(r)
    BY DEF IPush, QueueTypes, Made
  <2> QED
    BY <2>1, <2>2, IOrderEnds
<1>2. ASSUME NEW r \in Regs, SenderExits(r) PROVE IOrder'
  <2> DEFINE t == [reg EXCEPT ![r].sender = "exit"]
             a == reg[r].of
  <2>1. DUnregister(a, t) /\ UNCHANGED <<queue, sent, events, published, drain>>
    BY <1>2 DEF SenderExits
  <2>2. a \in Avatars
    BY <1>2 DEF SenderExits, IPush, QueueTypes
  <2>3. t \in [Regs -> [of : Avatars \cup {NoReg}, sender : {"none", "run", "closed", "exit"}]]
    BY DEF IPush, QueueTypes
  <2>4. \A s \in Regs : t[s].of = reg[s].of /\ (t[s].sender = "none" <=> ~Made(s))
    BY <1>2 DEF SenderExits, IPush, QueueTypes, Made
  <2> HIDE DEF a, t
  <2> QED
    BY <2>1, <2>2, <2>3, <2>4, IOrderEnds
<1> QED
  BY <1>1, <1>2, IOrderRegister

\* drainEvents takes the oldest event of the channel.
LEMMA IOrderTake == ASSUME IPush, IOrder, DrainTake PROVE IOrder'
<1> DEFINE n == Head(events).num
           T == [to : Avatars, num : Nat]
<1>1. /\ events \in Seq(T) /\ events # <<>> /\ events' = Tail(events) /\ drain.pc = "take"
      /\ UNCHANGED <<published, clients, reg, queue, sent>>
  BY DEF DrainTake, outVars, IPush, QueueTypes
<1>2. drain'.pc = "lookup" /\ drain'.num = n
  BY DEF DrainTake, Nobody
<1>3. \A r \in Regs : Stream(r)' = Stream(r)
  BY <1>1, SameStreams
<1>4. /\ Len(events) \in Nat /\ 1 \in 1 .. Len(events) /\ n = events[1].num
      /\ \A i \in 1 .. Len(events') : i + 1 \in 1 .. Len(events) /\ events'[i] = events[i + 1]
                                      /\ i \in Nat /\ 1 < i + 1
  <2> HIDE DEF T
  <2> QED
    BY <1>1, HeadTailProperties, LenProperties
<1> HIDE DEF n, T
<1>5. n <= published' /\ \A i \in 1 .. Len(events') : n < events'[i].num
  <2>1. n <= published
    BY <1>4 DEF IOrder, PendingInOrder
  <2>2. \A i \in 1 .. Len(events') : n < events'[i].num
    BY <1>4 DEF IOrder, PendingInOrder
  <2> QED
    BY <1>1, <2>1, <2>2
<1>6. PendingInOrder'
  <2>1. \A i \in 1 .. Len(events') : events'[i].num <= published'
    BY <1>1, <1>4 DEF IOrder, PendingInOrder
  <2>2. ASSUME NEW i \in 1 .. Len(events'), NEW j \in 1 .. Len(events'), i < j
        PROVE  events'[i].num < events'[j].num
    <3>1. i + 1 < j + 1
      BY <2>2
    <3> QED
      BY <1>4, <3>1 DEF IOrder, PendingInOrder
  <2> QED
    BY <1>2, <1>5, <2>1, <2>2 DEF PendingInOrder, Behind
<1>7. StreamsBehind'
  <2>1. ASSUME NEW r \in Regs, NEW i \in 1 .. Len(Stream(r))
        PROVE  /\ Stream(r)[i] <= published' /\ Stream(r)[i] < n
               /\ \A j \in 1 .. Len(events') : Stream(r)[i] < events'[j].num
    BY <1>1, <1>4 DEF IOrder, StreamsBehind, Behind
  <2> QED
    BY <1>2, <1>3, <2>1 DEF StreamsBehind, Behind
<1>8. RegsInOrder' /\ ClientsAreLatest'
  BY <1>1, <1>3 DEF IOrder, RegsInOrder, ClientsAreLatest, Made
<1>9. PushesToLatest' /\ DeliveryOrder'
  BY <1>1, <1>2, <1>3, SameOrder DEF PushesToLatest, Pushing
<1> QED
  BY <1>6, <1>7, <1>8, <1>9 DEF IOrder

\* It finds the client's latest registration, or drops the event.
LEMMA IOrderLookup == ASSUME IPush, IOrder, SendLookup PROVE IOrder'
<1>1. drain.pc = "lookup" /\ UNCHANGED <<events, published, clients, reg, queue, sent>>
  BY DEF SendLookup, outVars
<1>2. \A r \in Regs : Stream(r)' = Stream(r)
  BY <1>1, SameStreams
<1>3. RegsInOrder' /\ ClientsAreLatest' /\ DeliveryOrder'
  <2>1. RegsInOrder' /\ ClientsAreLatest'
    BY <1>1, <1>2 DEF IOrder, RegsInOrder, ClientsAreLatest, Made
  <2> QED
    BY <1>1, <1>2, <2>1, SameOrder
<1>4. CASE drain' = Nobody
  BY <1>1, <1>2, <1>3, <1>4, NobodyType
     DEF IOrder, PendingInOrder, StreamsBehind, PushesToLatest, Pushing, Behind
<1>5. CASE clients[drain.to] # NoReg
  <2> DEFINE c == clients[drain.to]
  <2>1. drain' = [drain EXCEPT !.pc = "push", !.reg = c] /\ drain \in DrainType
        /\ drain.to \in Avatars /\ c \in Regs
    BY <1>1, <1>5 DEF SendLookup, IPush, QueueTypes
  <2>2. Made(c) /\ \A s \in Regs : s > c /\ Made(s) => reg[s].of # reg[c].of
    BY <1>5, <2>1 DEF IOrder, ClientsAreLatest
  <2> HIDE DEF c
  <2>3. drain'.pc = "push" /\ drain'.reg = c /\ drain'.num = drain.num
    BY <2>1 DEF DrainType
  <2>4. PendingInOrder' /\ StreamsBehind'
    BY <1>1, <1>2, <2>3 DEF IOrder, PendingInOrder, StreamsBehind, Behind
  <2>5. \A s \in Regs : s > c /\ reg[s].of = reg[c].of => Stream(s) = <<>>
    BY <2>2 DEF IOrder, RegsInOrder
  <2>6. PushesToLatest'
    BY <1>1, <1>2, <2>2, <2>3, <2>5 DEF PushesToLatest, Made
  <2> QED
    BY <1>3, <2>4, <2>6 DEF IOrder
<1> QED
  BY <1>4, <1>5 DEF SendLookup

\* What drainEvents holds goes to the end of the stream it was looked up for.
LEMMA IOrderPushed ==
  ASSUME IPush, IOrder, Pushing, NEW d \in Regs, NEW n \in Nat,
         d = drain.reg, n = drain.num, Pushed(d)
  PROVE  IOrder'
<1>1. /\ queue' = [queue EXCEPT ![d] = Append(@, n)]
      /\ drain.pc # "take" /\ drain'.pc = "take"
      /\ UNCHANGED <<events, published, clients, reg, sent>>
  BY NobodyType DEF Pushed, Pushing
<1>2. \A s \in Regs \ {d} : Stream(s)' = Stream(s)
  BY <1>1 DEF Stream, IPush, QueueTypes
<1> DEFINE t == Stream(d)'
           l == Len(Stream(d))
<1>3. /\ l \in Nat /\ Len(t) = l + 1 /\ t[l + 1] = n
      /\ \A i \in 1 .. l : t[i] = Stream(d)[i]
  <2>1. t = sent[d] \o Append(queue[d], n) /\ sent[d] \in Seq(Nat) /\ queue[d] \in Seq(Nat)
    BY <1>1 DEF Stream, IPush, QueueTypes
  <2>2. Stream(d) = sent[d] \o queue[d]
    BY DEF Stream
  <2> DEFINE s == sent[d]
             q == queue[d]
  <2> HIDE DEF t, s, q
  <2>3. /\ Len(t) = Len(s \o q) + 1 /\ t[Len(s \o q) + 1] = n
        /\ \A i \in 1 .. Len(s \o q) : t[i] = (s \o q)[i]
    <3>1. t = s \o Append(q, n) /\ s \in Seq(Nat) /\ q \in Seq(Nat)
      BY <2>1 DEF s, q
    <3> QED
      BY <3>1, PutBack
  <2>4. Stream(d) = s \o q
    BY <2>2 DEF s, q
  <2> QED
    BY <2>3, <2>4, StreamType DEF IPush
<1>4. \A i \in 1 .. Len(t) : i \in 1 .. l \/ i = l + 1
  BY <1>3
<1>5. ASSUME NEW s \in Regs, NEW i \in 1 .. Len(Stream(s)) PROVE Stream(s)[i] < n
  BY <1>1 DEF IOrder, StreamsBehind
<1>6. n <= published /\ \A i \in 1 .. Len(events) : n < events[i].num
  BY <1>1 DEF IOrder, PendingInOrder, Behind
<1> HIDE DEF t, l
<1>7. PendingInOrder'
  BY <1>1 DEF IOrder, PendingInOrder
<1>8. StreamsBehind'
  <2>1. ASSUME NEW s \in Regs, NEW i \in 1 .. Len(Stream(s)')
        PROVE  /\ Stream(s)'[i] <= published
               /\ \A j \in 1 .. Len(events) : Stream(s)'[i] < events[j].num
    <3>1. CASE s = d
      BY <1>3, <1>4, <1>6, <3>1 DEF t, l, IOrder, StreamsBehind, Behind
    <3>2. CASE s # d
      BY <1>2, <3>2 DEF IOrder, StreamsBehind, Behind
    <3> QED
      BY <3>1, <3>2
  <2> QED
    BY <1>1, <2>1 DEF StreamsBehind, Behind
<1>9. RegsInOrder' /\ ClientsAreLatest' /\ PushesToLatest'
  <2>1. Made(d)
    BY DEF IOrder, PushesToLatest
  <2> QED
    BY <1>1, <1>2, <2>1
       DEF IOrder, RegsInOrder, ClientsAreLatest, PushesToLatest, Pushing, Made
<1>10. DeliveryOrder'
  <2>1. ASSUME NEW s \in Regs PROVE Increasing(Stream(s)')
    <3>1. CASE s = d
      <4>1. ASSUME NEW i \in 1 .. Len(t), NEW j \in 1 .. Len(t), i < j PROVE t[i] < t[j]
        <5>1. i \in 1 .. l
          BY <1>3, <4>1
        <5>2. CASE j \in 1 .. l
          BY <1>3, <4>1, <5>1, <5>2 DEF l, IOrder, DeliveryOrder, Increasing
        <5>3. CASE j = l + 1
          BY <1>3, <1>5, <5>1, <5>3 DEF l
        <5> QED
          BY <1>4, <5>2, <5>3
      <4> QED
        BY <3>1, <4>1 DEF t, Increasing
    <3>2. CASE s # d
      BY <1>2, <3>2 DEF IOrder, DeliveryOrder
    <3> QED
      BY <3>1, <3>2
  <2>2. ASSUME NEW u \in Regs, NEW s \in Regs, s < u, reg[s].of = reg[u].of,
               NEW i \in 1 .. Len(Stream(s)'), NEW j \in 1 .. Len(Stream(u)')
        PROVE  Stream(s)'[i] < Stream(u)'[j]
    <3>1. s # u
      BY <2>2, DeliveryAssumption
    <3>2. CASE s = d
      <4>1. Stream(u) = <<>>
        <5>1. u > d
          BY <2>2, <3>2
        <5> QED
          BY <2>2, <3>2, <5>1 DEF IOrder, PushesToLatest
      <4>2. Len(Stream(u)') = 0
        BY <1>2, <3>1, <3>2, <4>1
      <4> QED
        BY <4>2
    <3>3. CASE u = d
      <4>1. Stream(s)' = Stream(s)
        BY <1>2, <3>1, <3>3
      <4>2. CASE j \in 1 .. l
        <5>1. Stream(u)'[j] = Stream(d)[j]
          BY <1>3, <3>3, <4>2 DEF t
        <5> QED
          BY <2>2, <3>3, <4>1, <4>2, <5>1 DEF l, IOrder, DeliveryOrder
      <4>3. CASE j = l + 1
        <5>1. Stream(u)'[j] = n
          BY <1>3, <3>3, <4>3 DEF t
        <5> QED
          BY <1>5, <2>2, <4>1, <5>1
      <4>4. j \in 1 .. l \/ j = l + 1
        BY <1>4, <3>3 DEF t
      <4> QED
        BY <4>2, <4>3, <4>4
    <3>4. CASE s # d /\ u # d
      BY <1>2, <2>2, <3>4 DEF IOrder, DeliveryOrder
    <3> QED
      BY <3>2, <3>3, <3>4
  <2> QED
    BY <1>1, <2>1, <2>2 DEF DeliveryOrder, Increasing
<1> QED
  BY <1>7, <1>8, <1>9, <1>10 DEF IOrder

\* The second select of push takes the front of the queue, or nothing.
LEMMA IOrderPop ==
  ASSUME IPush, IOrder, pushPop, NEW d \in Regs, d = drain.reg PROVE IOrder'
<1>1. /\ Pushing /\ drain.pc # "take" /\ drain' = [drain EXCEPT !.pc = "retry"]
      /\ drain \in DrainType /\ UNCHANGED <<events, published, clients, reg, sent>>
  BY DEF pushPop, Pushing, IPush, QueueTypes
<1>2. drain'.pc = "retry" /\ drain'.reg = d /\ drain'.num = drain.num
  BY <1>1 DEF DrainType
<1> DEFINE k == Len(sent[d])
           Thin == /\ k \in Nat /\ Len(Stream(d)) \in Nat /\ Len(Stream(d)') < Len(Stream(d))
                   /\ \A i \in 1 .. Len(Stream(d)') :
                        /\ Was(k, i) \in 1 .. Len(Stream(d))
                        /\ Stream(d)'[i] = Stream(d)[Was(k, i)]
<1>3. /\ Stream(d)' = Stream(d) \/ Thin
      /\ \A s \in Regs \ {d} : Stream(s)' = Stream(s)
  <2>1. CASE queue[d] = <<>>
    <3>1. queue' = queue
      BY <2>1 DEF pushPop
    <3> QED
      BY <1>1, <3>1 DEF Stream
  <2>2. CASE queue[d] # <<>>
    <3>1. queue' = [queue EXCEPT ![d] = Tail(@)]
      BY <2>2 DEF pushPop
    <3>2. \A s \in Regs \ {d} : Stream(s)' = Stream(s)
      BY <1>1, <3>1 DEF Stream, IPush, QueueTypes
    <3>3. /\ Stream(d)' = sent[d] \o Tail(queue[d]) /\ Stream(d) = sent[d] \o queue[d]
          /\ sent[d] \in Seq(Nat) /\ queue[d] \in Seq(Nat)
      BY <1>1, <3>1 DEF Stream, IPush, QueueTypes
    <3>4. /\ k \in Nat /\ Len(Stream(d)) \in Nat /\ Len(Stream(d)') = Len(Stream(d)) - 1
          /\ \A i \in 1 .. Len(Stream(d)') : /\ Was(k, i) \in 1 .. Len(Stream(d))
                                             /\ Stream(d)'[i] = Stream(d)[Was(k, i)]
      <4> DEFINE s == sent[d]
                 q == queue[d]
                 t == Stream(d)'
      <4>1. /\ s \in Seq(Nat) /\ q \in Seq(Nat) /\ q # <<>> /\ t = s \o Tail(q)
            /\ Stream(d) = s \o q /\ k = Len(s)
        BY <2>2, <3>3
      <4> HIDE DEF s, q, t, k
      <4>2. /\ Len(s) \in Nat /\ Len(s \o q) \in Nat /\ Len(t) = Len(s \o q) - 1
            /\ \A i \in 1 .. Len(t) : /\ Was(Len(s), i) \in 1 .. Len(s \o q)
                                      /\ t[i] = (s \o q)[Was(Len(s), i)]
        BY <4>1, TakeFront
      <4> QED
        BY <4>1, <4>2 DEF t
    <3>5. Len(Stream(d)') < Len(Stream(d))
      BY <3>4
    <3> QED
      BY <3>2, <3>4, <3>5
  <2> QED
    BY <2>1, <2>2
<1> HIDE DEF k, Thin
<1>4. ASSUME NEW s \in Regs, NEW i \in 1 .. Len(Stream(s)')
      PROVE  \E j \in 1 .. Len(Stream(s)) : Stream(s)'[i] = Stream(s)[j]
  BY <1>3 DEF Thin
<1>5. ASSUME NEW s \in Regs, Stream(s) = <<>> PROVE Stream(s)' = <<>>
  <2>1. CASE s = d /\ Thin
    <3>1. Len(Stream(d)) = 0 /\ Len(Stream(d)') < 0 /\ Stream(d)' \in Seq(Nat)
      BY <1>5, <2>1, IPushPop, StreamType DEF Thin, IPush
    <3> QED
      BY <3>1
  <2> QED
    BY <1>3, <1>5, <2>1
<1>6. ASSUME NEW s \in Regs PROVE Increasing(Stream(s)')
  <2>1. Increasing(Stream(s))
    BY DEF IOrder, DeliveryOrder
  <2>2. CASE s = d /\ Thin
    <3>1. ASSUME NEW i \in 1 .. Len(Stream(d)'), NEW j \in 1 .. Len(Stream(d)'), i < j
          PROVE  Stream(d)'[i] < Stream(d)'[j]
      <4>1. Was(k, i) < Was(k, j)
        BY <2>2, <3>1 DEF Was, Thin
      <4> QED
        BY <2>1, <2>2, <4>1 DEF Increasing, Thin
    <3> QED
      BY <2>2, <3>1 DEF Increasing
  <2> QED
    BY <1>3, <2>1, <2>2
<1>7. PendingInOrder' /\ StreamsBehind'
  BY <1>1, <1>2, <1>4 DEF IOrder, PendingInOrder, StreamsBehind, Behind
<1>8. RegsInOrder' /\ ClientsAreLatest' /\ PushesToLatest'
  BY <1>1, <1>2, <1>5
     DEF IOrder, RegsInOrder, ClientsAreLatest, PushesToLatest, Pushing, Made
<1>9. DeliveryOrder'
  <2>1. ASSUME NEW u \in Regs, NEW s \in Regs, s < u, reg[s].of = reg[u].of,
               NEW i \in 1 .. Len(Stream(s)'), NEW j \in 1 .. Len(Stream(u)')
        PROVE  Stream(s)'[i] < Stream(u)'[j]
    BY <1>4, <2>1 DEF IOrder, DeliveryOrder
  <2> QED
    BY <1>1, <1>6, <2>1 DEF DeliveryOrder
<1> QED
  BY <1>7, <1>8, <1>9 DEF IOrder

\* push as a whole.
LEMMA IOrderPush == ASSUME IPush, IOrder, push \/ pushPop \/ pushRetry PROVE IOrder'
<1>1. drain.reg \in Regs /\ drain.num \in Nat /\ Pushing /\ drain \in DrainType
  BY DEF push, pushPop, pushRetry, Pushing, IPush, QueueTypes, DrainType
<1>2. CASE push /\ ~Room(drain.reg)
  <2>1. drain' = [drain EXCEPT !.pc = "pop"] /\ drain.pc # "take"
        /\ UNCHANGED <<events, published, clients, reg, queue, sent>>
    BY <1>2 DEF push, outVars
  <2>2. drain'.pc = "pop" /\ drain'.reg = drain.reg /\ drain'.num = drain.num
    BY <1>1, <2>1 DEF DrainType
  <2>3. \A r \in Regs : Stream(r)' = Stream(r)
    BY <2>1, SameStreams
  <2>4. PendingInOrder' /\ StreamsBehind'
    BY <2>1, <2>2, <2>3 DEF IOrder, PendingInOrder, StreamsBehind, Behind
  <2>5. RegsInOrder' /\ ClientsAreLatest' /\ PushesToLatest'
    BY <1>1, <2>1, <2>2, <2>3
       DEF IOrder, RegsInOrder, ClientsAreLatest, PushesToLatest, Made
  <2>6. DeliveryOrder'
    BY <2>1, <2>3, SameOrder
  <2> QED
    BY <2>4, <2>5, <2>6 DEF IOrder
<1>3. CASE pushPop
  BY <1>1, <1>3, IOrderPop
<1>4. CASE Pushed(drain.reg)
  BY <1>1, <1>4, IOrderPushed
<1> QED
  BY <1>2, <1>3, <1>4 DEF push, pushRetry, IPush, NewestIsKept

\* The invariant is inductive.
LEMMA IOrderNext == IPush /\ IOrder /\ [DeliveryNext]_deliveryVars => IOrder'
<1> SUFFICES ASSUME IPush, IOrder, [DeliveryNext]_deliveryVars PROVE IOrder'
  OBVIOUS
<1>1. CASE RelayData \/ UNCHANGED deliveryVars
  <2>1. UNCHANGED <<queue, sent, drain, events, published, clients, reg>>
    BY <1>1 DEF RelayData, outVars, deliveryVars
  <2>2. \A r \in Regs : Stream(r)' = Stream(r)
    BY <2>1, SameStreams
  <2>3. PendingInOrder' /\ StreamsBehind' /\ DeliveryOrder'
    BY <2>1, <2>2, SamePending, SameOrder
  <2>4. RegsInOrder' /\ ClientsAreLatest' /\ PushesToLatest'
    BY <2>1, <2>2 DEF IOrder, RegsInOrder, ClientsAreLatest, PushesToLatest, Pushing, Made
  <2> QED
    BY <2>3, <2>4 DEF IOrder
<1> QED
  BY <1>1, IOrderTick, IOrderClients, IOrderSender, IOrderTake, IOrderLookup, IOrderPush
     DEF DeliveryNext, DrainStep

\* What a registration is sent is in the order it was published, and a client's
\* later registration is sent later events than its earlier ones, although
\* drainEvents may push to a registration that was replaced after the lookup and
\* the old sender may still be running.
THEOREM DeliveriesAreOrdered == DeliverySpec => []DeliveryOrder
<1>1. IOrder => DeliveryOrder
  BY DEF IOrder
<1> QED
  BY <1>1, IPushInit, IPushNext, IOrderInit, IOrderNext, PTL DEF DeliverySpec

-----------------------------------------------------------------------------
(* PeerRegistry.  An entry has a connection exactly when it has an address. *)

EntryTypes ==
  /\ entry \in [PeerIds -> [addr : Addresses \cup {NoPeer}, conn : Nat]]
  /\ \A p \in PeerIds : entry[p].addr = NoPeer <=> entry[p].conn = 0

IConns == EntryTypes /\ ConnectionsAreOwned

\* ConnectionsAreOwned by its elements.
LEMMA OwnedIff ==
  ASSUME EntryTypes
  PROVE  ConnectionsAreOwned <=>
           /\ \A c : c \in open <=> \E p \in PeerIds : entry[p].conn = c /\ c # 0
           /\ \A p, q \in PeerIds : p # q /\ entry[p].conn # 0 => entry[p].conn # entry[q].conn
BY DEF EntryTypes, ConnectionsAreOwned

\* There are no entries.
LEMMA IConnsInit == PeersInit => IConns
<1> SUFFICES ASSUME PeersInit PROVE IConns
  OBVIOUS
<1>1. \A p \in PeerIds : entry[p] = [addr |-> NoPeer, conn |-> 0]
  BY DEF PeersInit, NoEntryYet
<1>2. EntryTypes /\ open = {}
  BY <1>1 DEF PeersInit, NoEntryYet, EntryTypes
<1> QED
  BY <1>1, <1>2, OwnedIff DEF IConns

\* A new connection is in no entry and not open.
LEMMA FreshIsFree ==
  ASSUME EntryTypes, Free # {}
  PROVE  /\ FreshConn \in Nat \ {0} /\ FreshConn \notin open
         /\ \A p \in PeerIds : entry[p].conn # FreshConn
<1>1. FreshConn \in Free
  BY DEF FreshConn
<1> QED
  BY <1>1, PeersAssumption DEF Free

\* An entry is replaced and its old connection closed; the new one, if any, is
\* nobody else's.
LEMMA IConnsReplaced ==
  ASSUME IConns, NEW p \in PeerIds, NEW a \in Addresses \cup {NoPeer}, NEW c \in Nat,
         a = NoPeer <=> c = 0,
         \A q \in PeerIds : c # 0 => entry[q].conn # c,
         entry' = [entry EXCEPT ![p] = [addr |-> a, conn |-> c]],
         open' = (open \ {entry[p].conn}) \cup ({c} \ {0})
  PROVE  IConns'
<1>1. EntryTypes'
  BY DEF IConns, EntryTypes
<1>2. /\ entry'[p].conn = c
      /\ \A q \in PeerIds \ {p} : entry'[q].conn = entry[q].conn
  BY DEF IConns, EntryTypes
<1>3. /\ \A d : d \in open <=> \E q \in PeerIds : entry[q].conn = d /\ d # 0
      /\ \A q, r \in PeerIds : q # r /\ entry[q].conn # 0 => entry[q].conn # entry[r].conn
  BY OwnedIff DEF IConns
<1>4. ASSUME NEW d PROVE d \in open' <=> \E q \in PeerIds : entry'[q].conn = d /\ d # 0
  <2>1. ASSUME d \in open' PROVE \E q \in PeerIds : entry'[q].conn = d /\ d # 0
    BY <1>2, <1>3, <2>1
  <2>2. ASSUME NEW q \in PeerIds, entry'[q].conn = d, d # 0 PROVE d \in open'
    <3>1. CASE q = p
      BY <1>2, <2>2, <3>1
    <3>2. CASE q # p
      BY <1>2, <1>3, <2>2, <3>2
    <3> QED
      BY <3>1, <3>2
  <2> QED
    BY <2>1, <2>2
<1>5. \A q, r \in PeerIds : q # r /\ entry'[q].conn # 0 => entry'[q].conn # entry'[r].conn
  BY <1>2, <1>3
<1>6. ConnectionsAreOwned'
  <2>1. \A q \in PeerIds : entry'[q].addr # NoPeer <=> entry'[q].conn # 0
    BY <1>1 DEF EntryTypes
  <2>2. open' = {entry'[q].conn : q \in {s \in PeerIds : entry'[s].addr # NoPeer}}
    BY <1>4, <2>1
  <2> QED
    BY <1>5, <2>2 DEF ConnectionsAreOwned
<1> QED
  BY <1>1, <1>6 DEF IConns

\* The invariant is inductive.
LEMMA IConnsNext == IConns /\ [PeersNext]_peerVars => IConns'
<1> SUFFICES ASSUME IConns, [PeersNext]_peerVars PROVE IConns'
  OBVIOUS
<1>1. CASE UNCHANGED <<entry, open>>
  BY <1>1 DEF IConns, EntryTypes, ConnectionsAreOwned
<1>2. ASSUME NEW p \in PeerIds, NEW a \in Addresses, Upsert(p, a) PROVE IConns'
  <2> DEFINE c == FreshConn
  <2>1. c \in Nat \ {0} /\ \A q \in PeerIds : entry[q].conn # c
    BY <1>2, FreshIsFree DEF Upsert, IConns
  <2>2. /\ entry' = [entry EXCEPT ![p] = [addr |-> a, conn |-> c]]
        /\ open' = (open \ {entry[p].conn}) \cup {c}
    BY <1>2 DEF Upsert
  <2> HIDE DEF c
  <2>3. open' = (open \ {entry[p].conn}) \cup ({c} \ {0}) /\ a # NoPeer
    BY <2>1, <2>2, PeersAssumption
  <2> QED
    BY <2>1, <2>2, <2>3, IConnsReplaced
<1>3. ASSUME NEW p \in PeerIds, NEW a \in Addresses, UpsertFails(p, a) PROVE IConns'
  <2>1. /\ entry' = [entry EXCEPT ![p] = [addr |-> NoPeer, conn |-> 0]]
        /\ open' = (open \ {entry[p].conn}) \cup ({0} \ {0})
    BY <1>3 DEF UpsertFails, NoEntryYet
  <2> QED
    BY <2>1, IConnsReplaced
<1>4. CASE ClosePeers
  <2>1. entry' = [p \in PeerIds |-> [addr |-> NoPeer, conn |-> 0]]
    BY <1>4 DEF ClosePeers, NoEntryYet
  <2>2. EntryTypes' /\ \A p \in PeerIds : entry'[p].addr = NoPeer /\ entry'[p].conn = 0
    BY <2>1 DEF EntryTypes
  <2>3. open' = {}
    BY <1>4 DEF ClosePeers, IConns, ConnectionsAreOwned
  <2>4. ConnectionsAreOwned'
    BY <2>2, <2>3 DEF ConnectionsAreOwned
  <2> QED
    BY <2>2, <2>4 DEF IConns
<1> QED
  BY <1>1, <1>2, <1>3, <1>4
     DEF PeersNext, TickLocks, TickUnlocks, ReconcileLocks, ReconcileEnds, peerVars

\* Each open connection belongs to exactly one entry and each entry's connection
\* is open, through changes of address, failed dials and Close.
THEOREM AllConnectionsAreOwned == PeersSpec => []ConnectionsAreOwned
<1>1. IConns => ConnectionsAreOwned
  BY DEF IConns
<1> QED
  BY <1>1, IConnsInit, IConnsNext, PTL DEF PeersSpec

\* Who waits has the lock of its own server, and asks a neighbour.
ILocks ==
  /\ PeersTypeOK
  /\ \A s \in Sims : asking[s] # NoPeer => lock[s] = "reconcile" /\ asking[s] \in Asks[s]
  /\ \A s \in Sims : lock[s] = "reconcile" => asking[s] # NoPeer

\* No lock is held.
LEMMA ILocksInit == PeersInit => ILocks
<1> SUFFICES ASSUME PeersInit PROVE ILocks
  OBVIOUS
<1>1. lock \in [Sims -> {NoPeer, "tick", "reconcile"}] /\ asking \in [Sims -> Sims \cup {NoPeer}]
  BY DEF PeersInit
<1>2. entry \in [PeerIds -> [addr : Addresses \cup {NoPeer}, conn : 0..MaxDials]]
  BY PeersAssumption DEF PeersInit, NoEntryYet
<1>3. open \subseteq 1..MaxDials
  BY DEF PeersInit
<1>4. \A s \in Sims : asking[s] = NoPeer /\ lock[s] # "reconcile"
  BY PeersAssumption DEF PeersInit
<1> QED
  BY <1>1, <1>2, <1>3, <1>4 DEF ILocks, PeersTypeOK

\* The registry's steps keep the types.
LEMMA RegistryKeepsType ==
  ASSUME PeersTypeOK, \/ \E p \in PeerIds, a \in Addresses : Upsert(p, a) \/ UpsertFails(p, a)
                      \/ ClosePeers
  PROVE  PeersTypeOK'
<1>1. NoEntryYet \in [addr : Addresses \cup {NoPeer}, conn : 0 .. MaxDials]
  BY PeersAssumption DEF NoEntryYet
<1>2. ASSUME NEW p \in PeerIds, NEW a \in Addresses, Upsert(p, a) PROVE PeersTypeOK'
  <2>1. FreshConn \in 1 .. MaxDials
    BY <1>2 DEF Upsert, FreshConn, Free
  <2>2. [addr |-> a, conn |-> FreshConn] \in [addr : Addresses \cup {NoPeer}, conn : 0 .. MaxDials]
    BY <2>1, PeersAssumption
  <2> QED
    BY <1>2, <2>1, <2>2 DEF Upsert, PeersTypeOK, lockVars
<1>3. ASSUME NEW p \in PeerIds, NEW a \in Addresses, UpsertFails(p, a) PROVE PeersTypeOK'
  BY <1>1, <1>3 DEF UpsertFails, PeersTypeOK, lockVars
<1>4. CASE ClosePeers
  BY <1>1, <1>4 DEF ClosePeers, PeersTypeOK, lockVars
<1> QED
  BY <1>2, <1>3, <1>4

\* A server's lock changes together with what it asks.
LEMMA LockChanges ==
  ASSUME ILocks, NEW s \in Sims, NEW v \in {NoPeer, "tick", "reconcile"},
         NEW n \in Asks[s] \cup {NoPeer}, v = "reconcile" <=> n # NoPeer,
         lock' = [lock EXCEPT ![s] = v], asking' = [asking EXCEPT ![s] = n],
         UNCHANGED <<entry, open>>
  PROVE  ILocks'
<1>1. n \in Sims \cup {NoPeer}
  BY PeersAssumption
<1>2. PeersTypeOK'
  BY <1>1 DEF ILocks, PeersTypeOK
<1>3. lock'[s] = v /\ asking'[s] = n
  BY DEF ILocks, PeersTypeOK
<1>4. \A t \in Sims \ {s} : lock'[t] = lock[t] /\ asking'[t] = asking[t]
  BY DEF ILocks, PeersTypeOK
<1> QED
  BY <1>2, <1>3, <1>4 DEF ILocks

\* Every step keeps the invariant of the locks.
LEMMA ILocksNext == ILocks /\ [PeersNext]_peerVars => ILocks'
<1> SUFFICES ASSUME ILocks, [PeersNext]_peerVars PROVE ILocks'
  OBVIOUS
<1>1. NoPeer # "reconcile"
  BY PeersAssumption
<1>2. CASE UNCHANGED peerVars
  BY <1>2 DEF ILocks, PeersTypeOK, peerVars
<1>3. CASE \/ \E p \in PeerIds, a \in Addresses : Upsert(p, a) \/ UpsertFails(p, a)
           \/ ClosePeers
  <2>1. PeersTypeOK'
    BY <1>3, RegistryKeepsType DEF ILocks
  <2>2. UNCHANGED <<lock, asking>>
    BY <1>3 DEF Upsert, UpsertFails, ClosePeers, lockVars
  <2> QED
    BY <2>1, <2>2 DEF ILocks
<1>4. ASSUME NEW s \in Sims, TickLocks(s) PROVE ILocks'
  <2>1. asking[s] = NoPeer /\ asking \in [Sims -> Sims \cup {NoPeer}]
    BY <1>4, PeersAssumption DEF TickLocks, ILocks, PeersTypeOK
  <2>2. asking' = [asking EXCEPT ![s] = NoPeer]
    BY <1>4, <2>1 DEF TickLocks
  <2> QED
    BY <1>4, <2>2, LockChanges DEF TickLocks
<1>5. ASSUME NEW s \in Sims, TickUnlocks(s) PROVE ILocks'
  <2>1. asking[s] = NoPeer /\ asking \in [Sims -> Sims \cup {NoPeer}]
    BY <1>5, PeersAssumption DEF TickUnlocks, ILocks, PeersTypeOK
  <2>2. asking' = [asking EXCEPT ![s] = NoPeer]
    BY <1>5, <2>1 DEF TickUnlocks
  <2> QED
    BY <1>5, <1>1, <2>2, LockChanges DEF TickUnlocks
<1>6. ASSUME NEW s \in Sims, ReconcileLocks(s) PROVE ILocks'
  <2>1. PICK n \in Asks[s] : asking' = [asking EXCEPT ![s] = n]
    BY <1>6 DEF ReconcileLocks, Asked
  <2>2. n # NoPeer
    BY PeersAssumption
  <2> QED
    BY <1>6, <2>1, <2>2, LockChanges DEF ReconcileLocks
<1>7. ASSUME NEW s \in Sims, ReconcileEnds(s) PROVE ILocks'
  BY <1>7, <1>1, LockChanges DEF ReconcileEnds
<1> QED
  BY <1>2, <1>3, <1>4, <1>5, <1>6, <1>7 DEF PeersNext

\* Locks, entries and connections keep their types.
THEOREM PeerTypes == PeersSpec => []PeersTypeOK
<1>1. ILocks => PeersTypeOK
  BY DEF ILocks
<1> QED
  BY <1>1, ILocksInit, ILocksNext, PTL DEF PeersSpec

\* The servers do not all wait for each other, for any number of servers, as long
\* as no server asks, through others, for its own lock: of the reconciles that
\* wait for a lock that is taken, one asks a server that is not among them.
THEOREM ReconcilesDoNotDeadlock ==
  ASSUME NoCycle PROVE PeersSpec => []SomeoneGoesOn
<1>1. ILocks => SomeoneGoesOn
  <2> SUFFICES ASSUME ILocks, NEW s \in Sims, asking[s] # NoPeer,
                      \A t \in Sims : lock[t] # "tick",
                      \A t \in Sims : asking[t] # NoPeer => lock[asking[t]] # NoPeer
               PROVE  FALSE
    BY DEF SomeoneGoesOn
  <2> DEFINE Waiting == {t \in Sims : asking[t] # NoPeer}
  <2>1. PICK t \in Waiting : Asks[t] \cap Waiting = {}
    <3>1. Waiting \in SUBSET Sims /\ Waiting # {}
      OBVIOUS
    <3> QED
      BY <3>1 DEF NoCycle
  <2>2. asking[t] \in Asks[t] /\ asking[t] \in Sims
    BY <2>1, PeersAssumption DEF ILocks
  <2>3. lock[asking[t]] = "reconcile"
    BY <2>1, <2>2 DEF ILocks, PeersTypeOK
  <2>4. asking[t] \in Waiting
    BY <2>2, <2>3 DEF ILocks
  <2> QED
    BY <2>1, <2>2, <2>4
<1> QED
  BY <1>1, ILocksInit, ILocksNext, PTL DEF PeersSpec

-----------------------------------------------------------------------------
(* ScenarioRunner.Run.  The teardown has killed every process that comes     *)
(* after the next one, and nothing starts or thaws one again.                *)

IsDead(i) == os[StartOrder[i]] = "dead"

IScen ==
  /\ os \in [Procs -> {"none", "up", "stopped", "dead"}]
  /\ spc = "teardown" => /\ sNext \in 0 .. Len(StartOrder)
                         /\ \A i \in 1 .. Len(StartOrder) : i > sNext => IsDead(i)
  /\ spc = "done" => \A i \in 1 .. Len(StartOrder) : IsDead(i)

\* Run has not been called.
LEMMA IScenInit == ScenInit => IScen
BY DEF ScenInit, IScen

\* The deferred calls begin.
LEMMA IScenUnwinds == ASSUME IScen, NEW b, Unwinds(b), os' = os PROVE IScen'
<1>1. Len(StartOrder) \in Nat
  BY ScenarioAssumption, LenProperties
<1>2. spc' \in {"recover", "teardown"} /\ (spc' = "teardown" => sNext' = Len(StartOrder))
  BY DEF Unwinds
<1> QED
  BY <1>1, <1>2 DEF IScen, IsDead

\* Before the teardown the processes do as they like.
LEMMA IScenBefore ==
  ASSUME os' \in [Procs -> {"none", "up", "stopped", "dead"}], spc' \notin {"teardown", "done"}
  PROVE  IScen'
BY DEF IScen

\* A cleanup kills the next process and no dead one comes back.
LEMMA IScenCleanup == ASSUME IScen, Cleanup PROVE IScen'
<1> DEFINE p == StartOrder[sNext]
<1>1. /\ os' = [os EXCEPT ![p] = "dead"] /\ sNext' = sNext - 1 /\ spc' = "teardown"
      /\ sNext \in 0 .. Len(StartOrder) /\ sNext > 0
  BY DEF Cleanup, Terminated, IScen
<1>2. Len(StartOrder) \in Nat
  BY ScenarioAssumption, LenProperties
<1>3. sNext \in 1 .. Len(StartOrder) /\ sNext' \in 0 .. Len(StartOrder)
  BY <1>1, <1>2
<1>4. \A i \in 1 .. Len(StartOrder) : StartOrder[i] \in Procs
  BY DEF Procs
<1>5. ASSUME NEW i \in 1 .. Len(StartOrder), i > sNext' PROVE os'[StartOrder[i]] = "dead"
  <2>1. CASE i = sNext
    BY <1>1, <1>4, <2>1 DEF IScen
  <2>2. CASE i > sNext
    BY <1>1, <1>4, <2>2 DEF IScen, IsDead, Cleanup
  <2> QED
    BY <1>1, <1>2, <1>3, <1>5, <2>1, <2>2
<1>6. os' \in [Procs -> {"none", "up", "stopped", "dead"}]
  BY <1>1 DEF IScen
<1> QED
  BY <1>1, <1>3, <1>5, <1>6 DEF IScen, IsDead

\* The invariant is inductive.
LEMMA IScenNext == IScen /\ [ScenNext]_scenVars => IScen'
<1> SUFFICES ASSUME IScen, [ScenNext]_scenVars PROVE IScen'
  OBVIOUS
<1> DEFINE T == {"none", "up", "stopped", "dead"}
<1>1. os \in [Procs -> T]
  BY DEF IScen
<1>2. CASE RequirementsUnmet \/ ObserveFails \/ InjectFails \/ Panics
           \/ \E b \in BOOLEAN : Accepts(b)
  BY <1>2, IScenUnwinds DEF RequirementsUnmet, ObserveFails, InjectFails, Panics, Accepts
<1>3. CASE \/ RunCalled \/ SetupAborts \/ SetupReturns \/ RequirementsMet \/ BaselineObserved
           \/ PostObserved \/ Injected \/ Recovered \/ WaitEnds
           \/ \E b \in BOOLEAN : Validates(b)
  <2>1. os' = os /\ spc' \notin {"teardown", "done"}
    BY <1>3 DEF RunCalled, SetupAborts, SetupReturns, RequirementsMet, BaselineObserved,
                PostObserved, Injected, Recovered, WaitEnds, Validates
  <2> QED
    BY <1>1, <2>1, IScenBefore
<1>4. CASE StartProcess \/ InjectSignals \/ Thaws
  <2>1. spc' \notin {"teardown", "done"}
    BY <1>4 DEF StartProcess, InjectSignals, Thaws
  <2>2. os' \in [Procs -> T]
    BY <1>1, <1>4 DEF StartProcess, InjectSignals, Thaws
  <2> QED
    BY <2>1, <2>2, IScenBefore
<1>5. CASE RecoverReturns
  <2>1. Len(StartOrder) \in Nat
    BY ScenarioAssumption, LenProperties
  <2> QED
    BY <1>5, <2>1 DEF RecoverReturns, RecoverEnds, IScen
<1>6. CASE RunReturns
  BY <1>6 DEF RunReturns, IScen, IsDead
<1>7. ASSUME NEW p \in Procs, ProcessDies(p) PROVE IScen'
  <2>1. os' = [os EXCEPT ![p] = "dead"] /\ UNCHANGED <<spc, sNext>>
    BY <1>7 DEF ProcessDies
  <2>2. \A i \in 1 .. Len(StartOrder) : IsDead(i) => IsDead(i)'
    BY <1>1, <2>1 DEF IsDead, Procs
  <2>3. os' \in [Procs -> T]
    BY <1>1, <2>1
  <2> QED
    BY <2>1, <2>2, <2>3 DEF IScen
<1>8. CASE UNCHANGED scenVars
  BY <1>8 DEF scenVars, IScen, IsDead
<1> QED
  BY <1>2, <1>3, <1>4, <1>5, <1>6, <1>7, <1>8, IScenCleanup DEF ScenNext, RunStep

\* A run that got through its setup leaves no process behind, however it ended.
THEOREM NothingIsLeftRunning == ScenSpec => []NothingLeftRunning
<1>1. IScen => NothingLeftRunning
  BY DEF IScen, IsDead, NothingLeftRunning, Procs
<1> QED
  BY <1>1, IScenInit, IScenNext, PTL DEF ScenSpec

\* Run has set an outcome by the time it returns.
IRun == ScenTypeOK /\ (spc = "accept" => outcome # "")

\* The lists have a length.
LEMMA ListLengths == Len(StartOrder) \in Nat /\ Len(Targets) \in Nat
BY ScenarioAssumption, LenProperties

\* The next place in one of two lists.
LEMMA NextPlace ==
  ASSUME NEW k \in Nat, NEW l \in Nat, NEW n, n \in 0 .. k + 1 \/ n \in 1 .. l + 1,
         NEW m, \/ n <= k /\ m = n + 1
                \/ n <= l /\ m = n + 1
                \/ n > 0 /\ m = n - 1
  PROVE  m \in 0 .. k + 1 \/ m \in 1 .. l + 1
OBVIOUS

\* The ends of a list are places in it.
LEMMA EndPlaces == ASSUME NEW k \in Nat PROVE 1 \in 0 .. k + 1 /\ k \in 0 .. k + 1
OBVIOUS

\* The deferred calls begin, with an outcome.
LEMMA IRunUnwinds ==
  ASSUME IRun, NEW b \in BOOLEAN, Unwinds(b), outcome' \in Outcomes,
         UNCHANGED <<injector, os, deferred>>, frozen' \in BOOLEAN
  PROVE  IRun'
<1>1. spc' \in {"recover", "teardown"} /\ sNext' \in 0 .. Len(StartOrder) + 1
  BY ListLengths DEF Unwinds
<1>2. report' \in Outcomes \cup {"nil"}
  BY DEF Unwinds
<1> QED
  BY <1>1, <1>2 DEF IRun, ScenTypeOK

\* A process of a list changes, and the place in the list.
LEMMA IRunList ==
  ASSUME IRun, UNCHANGED <<spc, injector, deferred, outcome, report>>, frozen' \in BOOLEAN,
         os' \in [Procs -> {"none", "up", "stopped", "dead"}],
         \/ sNext <= Len(StartOrder) /\ sNext' = sNext + 1
         \/ sNext <= Len(Targets) /\ sNext' = sNext + 1
         \/ sNext > 0 /\ sNext' = sNext - 1
  PROVE  IRun'
<1>1. sNext' \in 0 .. Len(StartOrder) + 1 \/ sNext' \in 1 .. Len(Targets) + 1
  <2>1. sNext \in 0 .. Len(StartOrder) + 1 \/ sNext \in 1 .. Len(Targets) + 1
    BY DEF IRun, ScenTypeOK
  <2> QED
    BY <2>1, ListLengths, NextPlace
<1> QED
  BY <1>1 DEF IRun, ScenTypeOK

\* Run goes on to another phase.
LEMMA IRunPhase ==
  ASSUME IRun, UNCHANGED <<injector, os, frozen, report>>,
         sNext' \in {sNext, 1, Len(StartOrder)}, deferred' \subseteq {"teardown", "recover"},
         spc' \in {"setup", "require", "baseline", "inject", "wait", "post", "validate", "accept",
                    "teardown", "done", "aborted"},
         outcome' \in Outcomes \cup {""}, spc' = "accept" => outcome' # ""
  PROVE  IRun'
<1>1. sNext' \in 0 .. Len(StartOrder) + 1 \/ sNext' \in 1 .. Len(Targets) + 1
  <2>1. sNext \in 0 .. Len(StartOrder) + 1 \/ sNext \in 1 .. Len(Targets) + 1
    BY DEF IRun, ScenTypeOK
  <2>2. 1 \in 0 .. Len(StartOrder) + 1 /\ Len(StartOrder) \in 0 .. Len(StartOrder) + 1
    BY ListLengths, EndPlaces
  <2> QED
    BY <2>1, <2>2
<1> QED
  BY <1>1 DEF IRun, ScenTypeOK

\* Every step keeps the types.
LEMMA IRunNext == IRun /\ [ScenNext]_scenVars => IRun'
<1> SUFFICES ASSUME IRun, [ScenNext]_scenVars PROVE IRun'
  OBVIOUS
<1>1. os \in [Procs -> {"none", "up", "stopped", "dead"}] /\ frozen \in BOOLEAN
  BY DEF IRun, ScenTypeOK
<1>2. CASE RequirementsUnmet \/ ObserveFails \/ InjectFails \/ Panics
  BY <1>1, <1>2, IRunUnwinds
     DEF RequirementsUnmet, ObserveFails, InjectFails, Panics, Outcomes
<1>3. ASSUME NEW b \in BOOLEAN, Accepts(b) PROVE IRun'
  <2>1. outcome' \in Outcomes
    BY <1>3 DEF Accepts, IRun, ScenTypeOK, Outcomes
  <2> QED
    BY <1>1, <1>3, <2>1, IRunUnwinds DEF Accepts
<1>4. outcome \in Outcomes \cup {""} /\ deferred \subseteq {"teardown", "recover"}
  BY DEF IRun, ScenTypeOK
<1>5. CASE RunCalled \/ SetupAborts \/ RequirementsMet \/ PostObserved \/ Injected \/ Recovered
           \/ RunReturns
  BY <1>4, <1>5, IRunPhase
     DEF RunCalled, SetupAborts, RequirementsMet, PostObserved, Injected, Recovered, RunReturns
<1>6. CASE WaitEnds \/ SetupReturns \/ BaselineObserved \/ RecoverReturns
  BY <1>4, <1>6, IRunPhase
     DEF WaitEnds, SetupReturns, BaselineObserved, RecoverReturns, RecoverEnds, Outcomes
<1>7. ASSUME NEW b \in BOOLEAN, Validates(b) PROVE IRun'
  <2>1. outcome' \in Outcomes \cup {""} /\ outcome' # ""
    BY <1>4, <1>7 DEF Validates, Verdict, Outcomes
  <2> QED
    BY <1>4, <1>7, <2>1, IRunPhase DEF Validates
<1>8. CASE StartProcess
  BY <1>1, <1>8, IRunList DEF StartProcess
<1>9. CASE InjectSignals
  <2>1. os' \in [Procs -> {"none", "up", "stopped", "dead"}]
    BY <1>1, <1>9 DEF InjectSignals
  <2> QED
    BY <1>9, <2>1, IRunList DEF InjectSignals
<1>10. CASE Thaws
  <2>1. os' \in [Procs -> {"none", "up", "stopped", "dead"}]
    BY <1>1, <1>10 DEF Thaws
  <2> QED
    BY <1>1, <1>10, <2>1, IRunList DEF Thaws
<1>11. CASE Cleanup
  BY <1>1, <1>11, IRunList DEF Cleanup, Terminated
<1>12. ASSUME NEW p \in Procs, ProcessDies(p) PROVE IRun'
  BY <1>12 DEF ProcessDies, IRun, ScenTypeOK
<1>13. CASE UNCHANGED scenVars
  BY <1>13 DEF scenVars, IRun, ScenTypeOK
<1> QED
  BY <1>2, <1>3, <1>4, <1>5, <1>6, <1>7, <1>8, <1>9, <1>10, <1>11, <1>12, <1>13
     DEF ScenNext, RunStep

\* Run returns a report with an outcome, or nil after a panic, and its state keeps
\* its types.
THEOREM ScenarioTypes == ScenSpec => []ScenTypeOK
<1>1. ScenInit => IRun
  <2> SUFFICES ASSUME ScenInit PROVE IRun
    OBVIOUS
  <2>1. sNext \in 0 .. Len(StartOrder) + 1
    BY ListLengths, EndPlaces DEF ScenInit
  <2> QED
    BY <2>1 DEF ScenInit, IRun, ScenTypeOK
<1>2. IRun => ScenTypeOK
  BY DEF IRun
<1> QED
  BY <1>1, <1>2, IRunNext, PTL DEF ScenSpec
=============================================================================
