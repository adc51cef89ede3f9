-------------------------------- MODULE Wire --------------------------------
(***************************************************************************)
(* The packet format (pkg/protocol) and the test client of tools/client    *)
(* that speaks it over one WebSocket: its read loop, its write loop and    *)
(* the context that ends both.                                             *)
(*                                                                         *)
(* A frame is its eight header bytes and a body.  A payload is known by    *)
(* its size and the size gzip gives it; a body is a payload, packed by     *)
(* gzip or not.  A sequence number is the pair of its 16-bit halves.  The  *)
(* connection keeps the order and the boundaries of messages.              *)
(***************************************************************************)
EXTENDS Integers, Sequences

CONSTANTS
  PacketIds,    \* packet ids the server sends
  Payloads,     \* payloads: records of size and packed size
  SeqNumbers,   \* sequence numbers, as pairs of halves
  CompressMin,  \* compressMinSize
  ActionGiven,  \* the client was started with -action
  FrameCap,     \* bound on the frames under way in one direction
  MaxFrames     \* bound on the frames sent in one direction

ASSUME WireAssumption ==
  /\ \A id \in PacketIds : id \in Nat /\ id <= 65535
  /\ Payloads \subseteq [size : Nat, packed : Nat]
  /\ \A s \in SeqNumbers : s \in Nat \X Nat /\ s[1] <= 65535 /\ s[2] <= 65535
  /\ CompressMin \in Nat /\ FrameCap \in Nat /\ MaxFrames \in Nat
  /\ ActionGiven \in BOOLEAN

PositionUpdate == 3
EntityAction == 7

VARIABLES
  toClient,   \* frames on their way to the client
  toServer,   \* frames on their way to the server
  fromServer, \* history: what the server gave to Encode
  displayed,  \* what the read loop has decoded
  written,    \* ids of the packets the write loop has sent
  cTick,      \* tick of the write loop
  loops,      \* the client's loops that have not returned
  ctxDone,    \* the client's context is cancelled
  broken      \* the connection is gone

wireVars == <<toClient, toServer, fromServer, displayed, written, cTick, loops,
              ctxDone, broken>>

Byte(n, k) == (n \div (IF k = 1 THEN 256 ELSE 1)) % 256

Packs(p, compress) == compress /\ p.size > CompressMin /\ p.packed < p.size

Encode(id, p, compress, seq) ==
  LET gz == Packs(p, compress) IN
  [head |-> <<1, Byte(id, 1), Byte(id, 0), IF gz THEN 1 ELSE 0,
              Byte(seq[1], 1), Byte(seq[1], 0), Byte(seq[2], 1), Byte(seq[2], 0)>>,
   body |-> [gzip |-> gz, of |-> p]]

DecodeError == [ok |-> FALSE]

\* Mutant: the id is read with its bytes swapped.
Uint16_Little(head, i) == head[i + 1] * 256 + head[i]

Uint16(head, i) == head[i] * 256 + head[i + 1]

Decode(frame) ==
  IF \/ Len(frame.head) < 8
     \/ frame.head[1] # 1
     \/ frame.head[4] % 2 = 1 /\ ~ frame.body.gzip
  THEN DecodeError
  ELSE [ok |-> TRUE,
        id |-> Uint16(frame.head, 2),
        payload |-> frame.body.of,
        packed |-> frame.head[4] % 2 = 1,
        seq |-> <<Uint16(frame.head, 5), Uint16(frame.head, 7)>>]

\* Frames Decode refuses: cut off in the header, of another version, or flagged
\* as compressed with a body that is not.
BadFrames ==
  {[head |-> h, body |-> [gzip |-> FALSE, of |-> CHOOSE p \in Payloads : TRUE]] :
     h \in {<<1, 0, 4>>, <<2, 0, 4, 0, 0, 0, 0, 0>>, <<1, 0, 4, 1, 0, 0, 0, 0>>}}

WireTypeOK ==
  /\ Len(toClient) <= FrameCap /\ Len(toServer) <= FrameCap
  /\ Len(fromServer) <= MaxFrames /\ Len(displayed) <= MaxFrames
  /\ written \in Seq({PositionUpdate, EntityAction})
  /\ cTick \in 0..MaxFrames
  /\ loops \subseteq {"read", "write"}
  /\ ctxDone \in BOOLEAN /\ broken \in BOOLEAN

WireInit ==
  /\ toClient = <<>> /\ toServer = <<>>
  /\ fromServer = <<>> /\ displayed = <<>> /\ written = <<>>
  /\ cTick = 0
  /\ loops = {"read", "write"}
  /\ ctxDone = FALSE /\ broken = FALSE

ServerSends(id, p, compress, seq) ==
  /\ ~ broken
  /\ Len(toClient) < FrameCap /\ Len(fromServer) < MaxFrames
  /\ toClient' = Append(toClient, Encode(id, p, compress, seq))
  /\ fromServer' = Append(fromServer, [id |-> id, payload |-> p, seq |-> seq])
  /\ UNCHANGED <<toServer, displayed, written, cTick, loops, ctxDone, broken>>

BadFrameArrives(f) ==
  /\ ~ broken
  /\ Len(toClient) < FrameCap
  /\ toClient' = Append(toClient, f)
  /\ UNCHANGED <<toServer, fromServer, displayed, written, cTick, loops, ctxDone, broken>>

\* The read loop takes a message; one that does not decode is logged and skipped.
ClientReads ==
  /\ "read" \in loops /\ ~ ctxDone
  /\ toClient # <<>>
  /\ LET d == Decode(Head(toClient)) IN
       displayed' = IF d.ok
                    THEN Append(displayed, [id |-> d.id, payload |-> d.payload, seq |-> d.seq])
                    ELSE displayed
  /\ toClient' = Tail(toClient)
  /\ UNCHANGED <<toServer, fromServer, written, cTick, loops, ctxDone, broken>>

\* After tick++: the action follows the first update.
SendsAction == ActionGiven /\ cTick = 0

\* A tick of the write loop; packet seq is 0 for an update and 1 for an action.
ClientWrites ==
  /\ "write" \in loops /\ ~ ctxDone /\ ~ broken
  /\ cTick < MaxFrames
  /\ LET p == CHOOSE q \in Payloads : TRUE
         update == Encode(PositionUpdate, p, FALSE, <<0, 0>>)
         action == Encode(EntityAction, p, FALSE, <<0, 1>>)
         frames == IF SendsAction THEN <<update, action>> ELSE <<update>> IN
       /\ Len(toServer) + Len(frames) <= FrameCap
       /\ toServer' = toServer \o frames
       /\ written' = written \o IF SendsAction THEN <<PositionUpdate, EntityAction>>
                                ELSE <<PositionUpdate>>
  /\ cTick' = cTick + 1
  /\ UNCHANGED <<toClient, fromServer, displayed, loops, ctxDone, broken>>

ServerReads ==
  /\ toServer # <<>>
  /\ toServer' = Tail(toServer)
  /\ UNCHANGED <<toClient, fromServer, displayed, written, cTick, loops, ctxDone, broken>>

ConnectionBreaks ==
  /\ ~ broken
  /\ broken' = TRUE
  /\ toClient' = <<>> /\ toServer' = <<>>
  /\ UNCHANGED <<fromServer, displayed, written, cTick, loops, ctxDone>>

ReadFails ==
  /\ "read" \in loops
  /\ broken \/ ctxDone
  /\ loops' = loops \ {"read"}
  /\ ctxDone' = TRUE
  /\ UNCHANGED <<toClient, toServer, fromServer, displayed, written, cTick, broken>>

\* The write loop ends with the context, or with an error of its Write, which
\* happens at a tick only.
WriteEnds ==
  /\ "write" \in loops
  /\ ctxDone \/ (broken /\ cTick < MaxFrames)
  /\ loops' = loops \ {"write"}
  /\ ctxDone' = TRUE
  /\ UNCHANGED <<toClient, toServer, fromServer, displayed, written, cTick, broken>>

WireNext ==
  \/ \E id \in PacketIds, p \in Payloads, z \in BOOLEAN, s \in SeqNumbers :
       ServerSends(id, p, z, s)
  \/ \E f \in BadFrames : BadFrameArrives(f)
  \/ ClientReads \/ ClientWrites \/ ServerReads
  \/ ConnectionBreaks \/ ReadFails \/ WriteEnds

WireSpec == WireInit /\ [][WireNext]_wireVars

(* The client sees what the server encoded, field by field and in order, with
   and without compression and at the edges of the header's fields; frames that
   do not decode in between cost nothing but themselves. *)
ShownIsSent ==
  /\ Len(displayed) <= Len(fromServer)
  /\ \A i \in 1..Len(displayed) : displayed[i] = fromServer[i]
=============================================================================
