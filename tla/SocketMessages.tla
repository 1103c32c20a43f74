---------------------------- MODULE SocketMessages ----------------------------
(* One direction of the socket between the app and an extension process: a      *)
(* blocking writer whose writes may be partial, a byte stream cut anywhere, and *)
(* a reader that splits lines off its buffer and hands each to a handler that   *)
(* may raise or close the connection. A piece of a message is a record; only    *)
(* the last piece of a message ends its line.                                   *)
EXTENDS Naturals, Sequences, SequencesExt

CONSTANTS MaxMessages,  \* bound on the messages sent
          MaxPieces     \* bound on the pieces one message is written or read in
ASSUME SocketAssumption == MaxMessages \in Nat /\ MaxPieces \in Nat \ {0}

VARIABLES sent, unwritten, stream, readBuffer, handledMsgs, controller,
          inCall,     \* a call of _read_available is at its loop over the lines
          excused     \* a handler raised since data last arrived
socketVars == <<sent, unwritten, stream, readBuffer, handledMsgs, controller, inCall, excused>>

\* What a message does to its reader: "invalid" is a line that is not JSON.
Effects == {"fine", "raises", "closes", "invalid"}
Message == [id: 1..MaxMessages, effect: Effects]
Piece == [msg: Message, nr: 1..MaxPieces, last: BOOLEAN]

SocketTypeOK ==
    /\ sent \in Seq(Message) /\ handledMsgs \in Seq(Message)
    /\ unwritten \in Seq(Piece) /\ stream \in Seq(Piece) /\ readBuffer \in Seq(Piece)
    /\ controller \in {"listening", "closed"}
    /\ inCall \in BOOLEAN /\ excused \in BOOLEAN

SocketInit ==
    /\ sent = <<>> /\ unwritten = <<>> /\ stream = <<>> /\ readBuffer = <<>>
    /\ handledMsgs = <<>> /\ controller = "listening" /\ inCall = FALSE /\ excused = FALSE

-----------------------------------------------------------------------------
Send == \E effect \in Effects, n \in 1..MaxPieces :
    /\ unwritten = <<>> /\ Len(sent) < MaxMessages
    /\ LET m == [id |-> Len(sent) + 1, effect |-> effect] IN
       /\ sent' = Append(sent, m)
       /\ unwritten' = [i \in 1..n |-> [msg |-> m, nr |-> i, last |-> i = n]]
    /\ UNCHANGED <<stream, readBuffer, handledMsgs, controller, inCall, excused>>

\* os.write takes a part of the payload; the loop writes the rest.
WritePart ==
    /\ unwritten # <<>> /\ stream' = Append(stream, Head(unwritten)) /\ unwritten' = Tail(unwritten)
    /\ UNCHANGED <<sent, readBuffer, handledMsgs, controller, inCall, excused>>

-----------------------------------------------------------------------------
\* The ends of the lines in the buffer.
Ends(pieces) == {i \in DOMAIN pieces : pieces[i].last}
LineEnd == Min(Ends(readBuffer))
\* A line parses if it is one whole message and that is JSON.
LineParses ==
    LET m == readBuffer[LineEnd].msg IN
    m.effect # "invalid" /\ \A i \in 1..LineEnd : readBuffer[i].msg = m /\ readBuffer[i].nr = i
\* The first line leaves the buffer before its handler runs.
\* Mutant: it leaves when its handler is through.
RestUnlessRaised ==
    IF LineParses /\ readBuffer[LineEnd].msg.effect = "raises" THEN readBuffer
    ELSE SubSeq(readBuffer, LineEnd + 1, Len(readBuffer))
RestOfBuffer == SubSeq(readBuffer, LineEnd + 1, Len(readBuffer))

\* _read_available: what arrived goes behind what is in the buffer.
ReadChunk == \E n \in 1..Len(stream) :
    /\ controller = "listening" /\ ~inCall
    /\ readBuffer' = readBuffer \o SubSeq(stream, 1, n)
    /\ stream' = SubSeq(stream, n + 1, Len(stream))
    /\ inCall' = TRUE /\ excused' = FALSE
    /\ UNCHANGED <<sent, unwritten, handledMsgs, controller>>

\* One round of its loop over the lines. A handler that raises ends the call; one that closes the controller
\* does not stop the loop over the lines that are already in the buffer.
HandleLine ==
    /\ inCall /\ Ends(readBuffer) # {}
    /\ readBuffer' = RestOfBuffer
    /\ LET m == readBuffer[LineEnd].msg IN
       IF LineParses
       THEN /\ handledMsgs' = Append(handledMsgs, m)
            /\ controller' = IF m.effect = "closes" THEN "closed" ELSE controller
            /\ inCall' = (m.effect # "raises") /\ excused' = (m.effect = "raises")
       ELSE UNCHANGED <<handledMsgs, controller, inCall, excused>>
    /\ UNCHANGED <<sent, unwritten, stream>>
ReadDone ==
    /\ inCall /\ Ends(readBuffer) = {} /\ inCall' = FALSE
    /\ UNCHANGED <<sent, unwritten, stream, readBuffer, handledMsgs, controller, excused>>

\* By another callback of the main loop, or because the other end hung up.
CloseSocket ==
    /\ controller = "listening" /\ ~inCall /\ controller' = "closed"
    /\ UNCHANGED <<sent, unwritten, stream, readBuffer, handledMsgs, inCall, excused>>

SocketNext == Send \/ WritePart \/ ReadChunk \/ HandleLine \/ ReadDone \/ CloseSocket
SocketSpec == SocketInit /\ [][SocketNext]_socketVars

-----------------------------------------------------------------------------
\* What is written and not handled yet, in the order in which it arrives.
OnTheWay == readBuffer \o stream \o unwritten
\* Message i of those sent is handled, or some of it is still to come.
HandledIn(i) == \E k \in DOMAIN handledMsgs : handledMsgs[k] = sent[i]
ComingIn(i) == \E k \in Ends(OnTheWay) : OnTheWay[k].msg = sent[i]

\* Framing survives partial writes, reads cut anywhere and handlers that raise or
\* close: the handled messages are messages that were sent, each once and in order,
\* and none was passed over; while the controller listens, every message that
\* parses is handled or its line is still to come, and not both. A complete line
\* waits in the buffer only behind a handler that raised in the last read.
FramesKept ==
    /\ \A k \in DOMAIN handledMsgs : \E i \in DOMAIN sent : handledMsgs[k] = sent[i]
    /\ \A k \in DOMAIN handledMsgs : \A l \in DOMAIN handledMsgs : k < l => handledMsgs[k].id < handledMsgs[l].id
    /\ \A i \in DOMAIN sent : sent[i].effect # "invalid" =>
         /\ (\E k \in DOMAIN handledMsgs : handledMsgs[k].id > i) => HandledIn(i)
         /\ controller = "listening" => (HandledIn(i) <=> ~ComingIn(i))
    /\ Ends(readBuffer) # {} /\ ~inCall => excused
===============================================================================
