------------------------------ MODULE Ocp1Codec ------------------------------
(***************************************************************************)
(* The messages of OCP.1 (src/src/Ocp1*.hxx) and their bytes:              *)
(* oca::OcpMessageWriter and oca::OcpMessageReader, with the basic types   *)
(* of OcaBasicTypeWriter and OcaBasicTypeReader.                           *)
(*                                                                         *)
(* XBytes(x) is what a function WriteXToBuffer puts into the buffer, and   *)
(* XFromBuffer(b, p) reads buffer b from offset p on.  A byte has Radix    *)
(* values: 256, or fewer where sizes are to reach the limits of their      *)
(* types.  In bytes, OcaUint32, OcaONo and OcaMethodId take 4, OcaUint16   *)
(* 2, OcaUint8 and OcaStatus 1, OcaEvent 8.                                *)
(***************************************************************************)
EXTENDS Integers, Sequences

CONSTANT Radix   \* values of a byte

ASSUME RadixAssumption == Radix \in Nat /\ Radix >= 5   \* OcaMessageType fits

Kind == {"command", "response", "notification"}

Square == Radix * Radix
OcaUint8 == 0..(Radix - 1)
OcaUint16 == 0..(Square - 1)
OcaUint32 == 0..(Square * Square - 1)
Bytes == Seq(OcaUint8)
Wrap32(n) == n % (Square * Square)

-----------------------------------------------------------------------------
\* The structs.  "size" stands for commandSize, responseSize, notificationSize.

OcaMessageType == 0..4
OcaCmdRrq == 1
OcaNtf == 2
OcaRsp == 3
OcaMethodId == [treeLevel : OcaUint16, methodIndex : OcaUint16]
OcaEventId == [treeLevel : OcaUint16, eventIndex : OcaUint16]
OcaEvent == [emitterONo : OcaUint32, eventId : OcaEventId]

Header == [protocolVersion : OcaUint16, messageSize : OcaUint32,
           messageType : OcaMessageType, messageCount : OcaUint16]
Parameters == [parameterCount : OcaUint8, parameters : Bytes]
Command == [size : OcaUint32, handle : OcaUint32, targetONo : OcaUint32,
            methodId : OcaMethodId, parameters : Parameters]
Response == [size : OcaUint32, handle : OcaUint32, statusCode : OcaUint8,
             parameters : Parameters]
EventData == [event : OcaEvent, eventParameters : Bytes]
NtfParams == [parameterCount : OcaUint8, context : Bytes, eventData : EventData]
Notification == [size : OcaUint32, targetONo : OcaUint32, methodId : OcaMethodId,
                 parameters : NtfParams]

Message(k) == CASE k = "command" -> Command
                [] k = "response" -> Response
                [] k = "notification" -> Notification

-----------------------------------------------------------------------------
\* Writing: every number goes through htons or htonl.

Uint16Bytes(v) == <<v \div Radix, v % Radix>>
Uint32Bytes(v) == Uint16Bytes(v \div Square) \o Uint16Bytes(v % Square)

\* assert(blob.size() < 0xFFFF), without which the cast to OcaUint16 cuts.
BlobFitsAlways(blob) == TRUE
BlobFits(blob) == Len(blob) < Square - 1
BlobBytes(blob) == Uint16Bytes(Len(blob) % Square) \o blob

HeaderBytes(h) == Uint16Bytes(h.protocolVersion) \o Uint32Bytes(h.messageSize)
                     \o <<h.messageType>> \o Uint16Bytes(h.messageCount)
MethodIdBytes(id) == Uint16Bytes(id.treeLevel) \o Uint16Bytes(id.methodIndex)
ParametersBytes(ps) == <<ps.parameterCount>> \o ps.parameters
CommandBytes(c) == Uint32Bytes(c.size) \o Uint32Bytes(c.handle) \o Uint32Bytes(c.targetONo)
                      \o MethodIdBytes(c.methodId) \o ParametersBytes(c.parameters)
ResponseBytes(r) == Uint32Bytes(r.size) \o Uint32Bytes(r.handle) \o <<r.statusCode>>
                       \o ParametersBytes(r.parameters)
EventIdBytes(e) == Uint16Bytes(e.treeLevel) \o Uint16Bytes(e.eventIndex)
EventBytes(e) == Uint32Bytes(e.emitterONo) \o EventIdBytes(e.eventId)
EventDataBytes(d) == EventBytes(d.event) \o d.eventParameters
NtfParamsBytes(ps) == <<ps.parameterCount>> \o BlobBytes(ps.context)
                         \o EventDataBytes(ps.eventData)
NotificationBytes(n) == Uint32Bytes(n.size) \o Uint32Bytes(n.targetONo)
                           \o MethodIdBytes(n.methodId) \o NtfParamsBytes(n.parameters)

MessageBytes(k, m) == CASE k = "command" -> CommandBytes(m)
                        [] k = "response" -> ResponseBytes(m)
                        [] k = "notification" -> NotificationBytes(m)

\* ComputeXDataSize, in an OcaUint32.
ComputeCommandDataSizeShort(c) == Len(c.parameters.parameters) + 16
ComputeCommandDataSize(c) == Len(c.parameters.parameters) + 1 + 16
ComputeResponseDataSize(r) == Len(r.parameters.parameters) + 1 + 9
ComputeNotificationDataSize(n) ==
    Len(n.parameters.eventData.eventParameters) + 8 + Len(n.parameters.context) + 2 + 1 + 12

Size(k, m) == CASE k = "command" -> ComputeCommandDataSize(m)
                [] k = "response" -> ComputeResponseDataSize(m)
                [] k = "notification" -> ComputeNotificationDataSize(m)
DataSize(k, m) == Wrap32(Size(k, m))

-----------------------------------------------------------------------------
\* Reading.

Uint8FromBuffer(b, p) == b[p + 1]
Uint16FromBuffer(b, p) == b[p + 1] * Radix + b[p + 2]
Uint32FromBuffer(b, p) == Uint16FromBuffer(b, p) * Square + Uint16FromBuffer(b, p + 2)
BufferToUint8Vector(b, p, numBytes) == SubSeq(b, p + 1, p + numBytes)

HeaderFromBufferShifted(b, p) ==
    [protocolVersion |-> Uint16FromBuffer(b, p), messageSize |-> Uint32FromBuffer(b, p + 2),
     messageType |-> Uint8FromBuffer(b, p + 5), messageCount |-> Uint16FromBuffer(b, p + 7)]
HeaderFromBuffer(b, p) ==
    [protocolVersion |-> Uint16FromBuffer(b, p), messageSize |-> Uint32FromBuffer(b, p + 2),
     messageType |-> Uint8FromBuffer(b, p + 6), messageCount |-> Uint16FromBuffer(b, p + 7)]

\* What is read before the last vector of the message at p, and how many bytes
\* then go into that vector.  The code takes the difference to the size field in a
\* size_t: what is negative here wraps around to more than a vector can hold.
ContextSize(b, p) == Uint16FromBuffer(b, p + 13)
HeadSize(k, b, p) == CASE k = "command" -> (4 + 4 + 4 + 4) + 1
                       [] k = "response" -> (4 + 4 + 1) + 1
                       [] k = "notification" -> 4 + 4 + 4 + 1 + ContextSize(b, p) + 2 + 8
VectorSizeClamped(k, b, p) ==
    IF Uint32FromBuffer(b, p) < HeadSize(k, b, p) THEN 0
    ELSE Uint32FromBuffer(b, p) - HeadSize(k, b, p)
VectorSize(k, b, p) == Uint32FromBuffer(b, p) - HeadSize(k, b, p)

\* vec.reserve(numBytes) throws std::length_error.
Throws(k, b, p) == VectorSize(k, b, p) < 0

\* Nobody tells the reader where the buffer ends.
FixedSize(k) == CASE k = "command" -> 17 [] k = "response" -> 10 [] k = "notification" -> 15
StaysInside(k, b, p) ==
    /\ p + FixedSize(k) <= Len(b)
    /\ p + HeadSize(k, b, p) <= Len(b)
    /\ p + Uint32FromBuffer(b, p) <= Len(b)

MethodIdFromBuffer(b, p) ==
    [treeLevel |-> Uint16FromBuffer(b, p), methodIndex |-> Uint16FromBuffer(b, p + 2)]
ParametersFromBuffer(b, p, n) ==
    [parameterCount |-> Uint8FromBuffer(b, p), parameters |-> BufferToUint8Vector(b, p + 1, n)]
CommandFromBuffer(b, p) ==
    [size |-> Uint32FromBuffer(b, p), handle |-> Uint32FromBuffer(b, p + 4),
     targetONo |-> Uint32FromBuffer(b, p + 8), methodId |-> MethodIdFromBuffer(b, p + 12),
     parameters |-> ParametersFromBuffer(b, p + 16, VectorSize("command", b, p))]
ResponseFromBuffer(b, p) ==
    [size |-> Uint32FromBuffer(b, p), handle |-> Uint32FromBuffer(b, p + 4),
     statusCode |-> Uint8FromBuffer(b, p + 8),
     parameters |-> ParametersFromBuffer(b, p + 9, VectorSize("response", b, p))]

EventIdFromBuffer(b, p) ==
    [treeLevel |-> Uint16FromBuffer(b, p), eventIndex |-> Uint16FromBuffer(b, p + 2)]
EventFromBuffer(b, p) ==
    [emitterONo |-> Uint32FromBuffer(b, p), eventId |-> EventIdFromBuffer(b, p + 4)]
EventDataFromBuffer(b, p, n) ==
    [event |-> EventFromBuffer(b, p), eventParameters |-> BufferToUint8Vector(b, p + 8, n)]
BlobFromBuffer(b, p) == BufferToUint8Vector(b, p + 2, Uint16FromBuffer(b, p))
NtfParamsFromBuffer(b, p, n) ==
    [parameterCount |-> Uint8FromBuffer(b, p), context |-> BlobFromBuffer(b, p + 1),
     eventData |-> EventDataFromBuffer(b, p + 3 + Uint16FromBuffer(b, p + 1), n)]
NotificationFromBuffer(b, p) ==
    [size |-> Uint32FromBuffer(b, p), targetONo |-> Uint32FromBuffer(b, p + 4),
     methodId |-> MethodIdFromBuffer(b, p + 8),
     parameters |-> NtfParamsFromBuffer(b, p + 12, VectorSize("notification", b, p))]

MessageFromBuffer(k, b, p) == CASE k = "command" -> CommandFromBuffer(b, p)
                                [] k = "response" -> ResponseFromBuffer(b, p)
                                [] k = "notification" -> NotificationFromBuffer(b, p)
=============================================================================
