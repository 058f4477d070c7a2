--------------------------- MODULE MCListExchange ---------------------------
(***************************************************************************)
(* An instance of ListExchange: bytes of six values, so that the size of a *)
(* blob reaches the limit of its type; two messages of any one kind.       *)
(***************************************************************************)
EXTENDS ListExchange

Id(level) == [treeLevel |-> level, methodIndex |-> 35]
NoParameters == [parameterCount |-> 0, parameters |-> <<>>]
OneParameter == [parameterCount |-> 1, parameters |-> <<4>>]

\* A context whose size is more than fits into 16 bits, and short ones.
Huge == [i \in 1..37 |-> 3]
Contexts == {<<>>, <<2, 1>>, Huge}

MCNewMessage == [k \in Kind |->
    CASE k = "command" ->
             {[size |-> 0, handle |-> 1295, targetONo |-> 7, methodId |-> Id(1), parameters |-> ps] :
                  ps \in {NoParameters, OneParameter}}
      [] k = "response" ->
             {[size |-> 0, handle |-> 44, statusCode |-> 5, parameters |-> ps] :
                  ps \in {NoParameters, OneParameter}}
      [] k = "notification" ->
             {[size |-> 0, targetONo |-> 217, methodId |-> Id(3),
               parameters |-> [parameterCount |-> 2, context |-> context,
                   eventData |-> [event |-> [emitterONo |-> 1000,
                                             eventId |-> [treeLevel |-> 2, eventIndex |-> 1]],
                                  eventParameters |-> <<>>]]] : context \in Contexts}]
=============================================================================
