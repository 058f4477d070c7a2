----------------------------- MODULE ListExchange -----------------------------
(***************************************************************************)
(* A list of messages from one program to another: the sender builds it,   *)
(* has its sizes computed and writes a header and the list into a buffer   *)
(* (OcpMessageWriter), the receiver reads the header and as many messages  *)
(* as it announces (OcpMessageReader).  One action is one turn of a loop.  *)
(* The callers of the codec are its tests; they may build and change the   *)
(* list in any order, and forget to compute the sizes again.               *)
(***************************************************************************)
EXTENDS Ocp1Codec

CONSTANTS
    NewMessage,    \* NewMessage[k]: what the constructors and the caller give a message
    AddedByte,     \* bytes that a caller appends to a parameter vector
    MaxMessages,   \* bound on the length of a list
    MaxVector,     \* bound on the length of a vector that grows
    Spare          \* sizes by which the buffer exceeds what was computed

ASSUME NewMessageAssumption ==
    \A k \in Kind : \A m \in NewMessage[k] : m \in Message(k) /\ m.size = 0
ASSUME AddedByteAssumption == AddedByte \subseteq OcaUint8
ASSUME BoundAssumption == MaxMessages \in OcaUint16 /\ MaxVector \in Nat /\ Spare \subseteq Nat

VARIABLES
    phase,      \* what the two programs do
    kind,       \* of the messages in the list
    messages,   \* the sender's list
    total,      \* what ComputeXListDataSize returned
    buffer,
    header,     \* the header as it was read
    next,       \* the loop's iterator or counter
    message,    \* the loop's pointer into the buffer, as an offset
    received    \* the receiver's list

vars == <<phase, kind, messages, total, buffer, header, next, message, received>>

OCP1_HEADER_SIZE == 9
NoHeader == [protocolVersion |-> 0, messageSize |-> 0, messageType |-> 0, messageCount |-> 0]

Init ==
    /\ phase = "build"
    /\ kind \in Kind
    /\ messages = <<>> /\ total = 0
    /\ buffer = <<>>
    /\ header = NoHeader
    /\ next = 1 /\ message = 0
    /\ received = <<>>

-----------------------------------------------------------------------------
\* The sender's list.  The vector that can grow and shrink is the last one.

Vector(k, m) == IF k = "notification" THEN m.parameters.eventData.eventParameters
                ELSE m.parameters.parameters
WithVector(k, m, v) ==
    IF k = "notification" THEN [m EXCEPT !.parameters.eventData.eventParameters = v]
    ELSE [m EXCEPT !.parameters.parameters = v]

PushMessage ==
    /\ phase = "build" /\ Len(messages) < MaxMessages
    /\ \E m \in NewMessage[kind] : messages' = Append(messages, m)
    /\ UNCHANGED <<phase, kind, total, buffer, header, next, message, received>>

Change(i, v) ==
    /\ phase = "build"
    /\ messages' = [messages EXCEPT ![i] = WithVector(kind, @, v)]
    /\ UNCHANGED <<phase, kind, total, buffer, header, next, message, received>>
Grow(i) ==
    /\ Len(Vector(kind, messages[i])) < MaxVector
    /\ \E byte \in AddedByte : Change(i, Append(Vector(kind, messages[i]), byte))
Shrink(i) ==
    /\ Vector(kind, messages[i]) # <<>>
    /\ Change(i, SubSeq(Vector(kind, messages[i]), 1, Len(Vector(kind, messages[i])) - 1))

\* ComputeXListDataSize sets the size field of every message.
ComputeBegin ==
    /\ phase = "build"
    /\ phase' = "compute" /\ next' = 1 /\ total' = 0
    /\ UNCHANGED <<kind, messages, buffer, header, message, received>>

ComputeNext ==
    /\ phase = "compute" /\ next <= Len(messages)
    /\ messages' = [messages EXCEPT ![next].size = DataSize(kind, messages[next])]
    /\ total' = Wrap32(total + DataSize(kind, messages[next]))
    /\ next' = next + 1
    /\ UNCHANGED <<phase, kind, buffer, header, message, received>>

ComputeEnd ==
    /\ phase = "compute" /\ next > Len(messages)
    /\ phase' = "build"
    /\ UNCHANGED <<kind, messages, total, buffer, header, next, message, received>>

-----------------------------------------------------------------------------
\* The sender writes into a buffer with room for what was computed, and perhaps
\* for more; it need not be cleared.

Put(b, p, bytes) == [i \in DOMAIN b |-> IF i - p \in DOMAIN bytes THEN bytes[i - p] ELSE b[i]]

MessageType == CASE kind = "command" -> OcaCmdRrq
                 [] kind = "response" -> OcaRsp
                 [] kind = "notification" -> OcaNtf

WriteHeader ==
    /\ phase = "build"
    /\ \E more \in Spare, filler \in {0, Radix - 1} :
          buffer' = Put([i \in 1..(OCP1_HEADER_SIZE + total + more) |-> filler], 0, HeaderBytes(
                         [protocolVersion |-> 1, messageSize |-> Wrap32(OCP1_HEADER_SIZE + total),
                          messageType |-> MessageType, messageCount |-> Len(messages)]))
    /\ phase' = "write" /\ next' = 1 /\ message' = OCP1_HEADER_SIZE
    /\ UNCHANGED <<kind, messages, total, header, received>>

\* An assertion fails, or bytes are written behind the buffer: the program stops,
\* or its behaviour is undefined.
WriteFails ==
    /\ phase = "write" /\ next <= Len(messages)
    /\ phase' = IF kind = "notification" /\ ~BlobFits(messages[next].parameters.context)
                THEN "aborted" ELSE "outside"
    /\ \/ phase' = "aborted"
       \/ message + Len(MessageBytes(kind, messages[next])) > Len(buffer)
    /\ UNCHANGED <<kind, messages, total, buffer, header, next, message, received>>

WriteNext ==
    /\ phase = "write" /\ next <= Len(messages)
    /\ kind = "notification" => BlobFits(messages[next].parameters.context)
    /\ message + Len(MessageBytes(kind, messages[next])) <= Len(buffer)
    /\ buffer' = Put(buffer, message, MessageBytes(kind, messages[next]))
    /\ message' = message + messages[next].size
    /\ next' = next + 1
    /\ UNCHANGED <<phase, kind, messages, total, header, received>>

WriteEnd ==
    /\ phase = "write" /\ next > Len(messages)
    /\ phase' = "sent"
    /\ UNCHANGED <<kind, messages, total, buffer, header, next, message, received>>

-----------------------------------------------------------------------------
\* The receiver: the type of the message says which list follows.

HeaderKind == CASE header.messageType = OcaRsp -> "response"
                [] header.messageType = OcaNtf -> "notification"
                [] OTHER -> "command"

ReadHeader ==
    /\ phase = "sent"
    /\ header' = HeaderFromBuffer(buffer, 0)
    /\ phase' = "read" /\ next' = 1 /\ message' = OCP1_HEADER_SIZE
    /\ UNCHANGED <<kind, messages, total, buffer, received>>

ReadFails ==
    /\ phase = "read" /\ next <= header.messageCount
    /\ IF StaysInside(HeaderKind, buffer, message)
       THEN Throws(HeaderKind, buffer, message) /\ phase' = "thrown"
       ELSE phase' = "outside"
    /\ UNCHANGED <<kind, messages, total, buffer, header, next, message, received>>

ReadNext ==
    /\ phase = "read" /\ next <= header.messageCount
    /\ StaysInside(HeaderKind, buffer, message) /\ ~Throws(HeaderKind, buffer, message)
    /\ received' = Append(received, MessageFromBuffer(HeaderKind, buffer, message))
    /\ message' = message + Uint32FromBuffer(buffer, message)
    /\ next' = next + 1
    /\ UNCHANGED <<phase, kind, messages, total, buffer, header>>

ReadEnd ==
    /\ phase = "read" /\ next > header.messageCount
    /\ phase' = "done"
    /\ UNCHANGED <<kind, messages, total, buffer, header, next, message, received>>

Next ==
    \/ PushMessage \/ (\E i \in DOMAIN messages : Grow(i) \/ Shrink(i))
    \/ ComputeBegin \/ ComputeNext \/ ComputeEnd
    \/ WriteHeader \/ WriteFails \/ WriteNext \/ WriteEnd
    \/ ReadHeader \/ ReadFails \/ ReadNext \/ ReadEnd

Spec == Init /\ [][Next]_vars

-----------------------------------------------------------------------------
\* Every variable has its type (src/Ocp1*.hxx), what was read included: it is made
\* of bytes as they are.
TypeOK ==
    /\ phase \in {"build", "compute", "write", "sent", "read", "done",
                  "aborted", "outside", "thrown"}
    /\ kind \in Kind
    /\ messages \in Seq(Message(kind)) /\ Len(messages) <= MaxMessages
    /\ total \in OcaUint32 /\ next \in Nat /\ message \in Nat
    /\ buffer \in Bytes
    /\ header \in Header
    /\ received \in Seq(Message(HeaderKind))

\* Every size field is what ComputeXDataSize makes of the message as it is.
Computed == \A i \in DOMAIN messages : messages[i].size = DataSize(kind, messages[i])

\* Three functions must agree on the extent of a message (ComputeXDataSize, WriteX
\* and XFromBuffer, OcpMessageWriter.cxx:129-284, OcpMessageReader.cxx:104-219): a
\* list whose sizes are computed fits the room that was computed, is read to the
\* end without an exception, and comes out as it went in.
RoundTrip ==
    Computed =>
        /\ phase \notin {"outside", "thrown"}
        /\ \A i \in DOMAIN received : received[i] = messages[i]
        /\ phase = "done" => Len(received) = Len(messages)

\* A size that was not computed again after the message had changed (the loops
\* at OcpMessageWriter.cxx:93-103, 149-158, 249-258 go by it) costs bytes of that
\* message or adds some; all the rest of the list is read as it was written.
StaleSizeIsLocal ==
    \A i \in DOMAIN received :
        LET sent == Vector(kind, messages[i])
            got == Vector(kind, received[i])
        IN  /\ WithVector(kind, received[i], <<>>) = WithVector(kind, messages[i], <<>>)
            /\ Len(got) - Len(sent) = messages[i].size - Size(kind, messages[i])
            /\ \A j \in DOMAIN sent \cap DOMAIN got : got[j] = sent[j]

\* A size smaller than what is read in any case wraps around (OcpMessageReader.cxx
\* 117, 159, 184, 194, 205): it ends in an exception, never in a walk that stands
\* still or in a message without a vector.
WalkAdvances ==
    [][received' # received => message' >= message + FixedSize(HeaderKind)]_vars
=============================================================================
