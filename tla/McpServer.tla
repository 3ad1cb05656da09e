----------------------------- MODULE McpServer ------------------------------
(***************************************************************************)
(* The server of mcp-server (lib.rs): ByteTransport, which cuts the bytes  *)
(* of its input into lines and parses them, and Server::run, which answers *)
(* them one after the other.  The peer and the handler of the service are  *)
(* external.                                                               *)
(*                                                                         *)
(* The bytes of a message are two pieces: all but its newline, and the     *)
(* newline (or, of a message that reaches the reader in two chunks, the    *)
(* two chunks).  Only the whole line parses; anything else is malformed.   *)
(***************************************************************************)
EXTENDS Integers, SequencesExt

CONSTANTS
    Messages,   \* the lines the peer may send, each once
    NoMessage,  \* no message: an error without id, or nothing being written
    Form,       \* Form[m]: what the line of m holds
    Chunked,    \* the messages that can reach the reader in two chunks
    MaxErrors   \* bound on the errors a broken input makes the server write

\* "skipped" is a response, a notification, an error or nil; "malformed" is not
\* UTF-8, not JSON, not an object, not version 2.0 or no JsonRpcMessage.
Forms == {"request", "skipped", "malformed"}

ASSUME ServerAssumption ==
    /\ NoMessage \notin Messages
    /\ Form \in [Messages -> Forms]
    /\ Chunked \subseteq Messages
    /\ MaxErrors \in Nat

VARIABLES
    (* the peer *)
    sent,       \* the messages it began to write, in order
    half,       \* the message it has written the first chunk of
    pipe,       \* pieces on their way to the reader
    input,      \* the peer's end of the input
    output,     \* the peer's end of the output
    (* ByteTransport *)
    readBuf,    \* the buffer of the BufReader
    line,       \* buf of the poll of read_until in progress
    (* Server::run *)
    server,     \* where the loop is
    current,    \* the request the service handles
    response,   \* the line to be written
    written     \* the lines written

peerVars == <<sent, half, pipe, input, output>>
readerVars == <<readBuf, line>>
loopVars == <<server, current, response, written>>
vars == <<peerVars, readerVars, loopVars>>

Piece(m, last) == [of |-> m, last |-> last]
Pieces == {Piece(m, b) : m \in Messages, b \in BOOLEAN}
WholeLine(m) == <<Piece(m, FALSE), Piece(m, TRUE)>>

\* The response to request m; an error for a line that made no sense.
Answer(m) == [tag |-> "response", to |-> m]
LineError == [tag |-> "error", to |-> NoMessage]
Replies == {Answer(m) : m \in Messages} \cup {LineError}

\* The type invariant; buf never holds more than the first chunk of one line.
TypeOK ==
    /\ sent \in Seq(Messages)
    /\ half \in Messages \cup {NoMessage}
    /\ pipe \in Seq(Pieces)
    /\ input \in {"open", "closed", "broken"}
    /\ output \in {"open", "closed"}
    /\ readBuf \in Seq(Pieces)
    /\ line \in {<<>>} \cup {<<Piece(m, FALSE)>> : m \in Messages}
    /\ server \in {"polling", "serving", "writing", "ended", "failed"}
    /\ current \in Messages \cup {NoMessage}
    /\ response \in Replies
    /\ written \in Seq(Replies)

\* ByteTransport::new, and Server::run at its first poll.
Init ==
    /\ sent = <<>>
    /\ half = NoMessage
    /\ pipe = <<>>
    /\ input = "open"
    /\ output = "open"
    /\ readBuf = <<>>
    /\ line = <<>>
    /\ server = "polling"
    /\ current = NoMessage
    /\ response = LineError
    /\ written = <<>>

-----------------------------------------------------------------------------
(* The peer (external): a client that writes whole lines, one at a time. *)

MayWrite(m) == input = "open" /\ half = NoMessage /\ m \notin Range(sent)

PeerWrites(m) ==
    /\ MayWrite(m)
    /\ sent' = Append(sent, m)
    /\ pipe' = pipe \o WholeLine(m)
    /\ UNCHANGED <<half, input, output, readerVars, loopVars>>

\* The pipe holds 64 KiB, a segment less: the rest of the line follows later.
PeerWritesFirstChunk(m) ==
    /\ MayWrite(m)
    /\ m \in Chunked
    /\ sent' = Append(sent, m)
    /\ half' = m
    /\ pipe' = Append(pipe, Piece(m, FALSE))
    /\ UNCHANGED <<input, output, readerVars, loopVars>>

PeerWritesRest ==
    /\ input = "open"
    /\ half # NoMessage
    /\ pipe' = Append(pipe, Piece(half, TRUE))
    /\ half' = NoMessage
    /\ UNCHANGED <<sent, input, output, readerVars, loopVars>>

\* Possibly in the middle of a line.
InputEnds ==
    /\ input = "open"
    /\ input' \in {"closed", "broken"}
    /\ UNCHANGED <<sent, half, pipe, output, readerVars, loopVars>>

OutputCloses ==
    /\ output = "open"
    /\ output' = "closed"
    /\ UNCHANGED <<sent, half, pipe, input, readerVars, loopVars>>

Peer ==
    \/ \E m \in Messages : PeerWrites(m) \/ PeerWritesFirstChunk(m)
    \/ PeerWritesRest \/ InputEnds \/ OutputCloses

-----------------------------------------------------------------------------
(* ByteTransport::poll_next. *)

Starved == server = "polling" /\ readBuf = <<>>

\* fill_buf: whatever the input has, up to the 2 MB of the BufReader.
FillBuffer ==
    /\ Starved
    /\ pipe # <<>>
    /\ readBuf' = pipe
    /\ pipe' = <<>>
    /\ UNCHANGED <<sent, half, input, output, line, loopVars>>

\* The input has nothing for now.  The future of read_until goes, and with it
\* buf, whose bytes are no longer in the BufReader.
PollPending ==
    /\ Starved
    /\ line # <<>>
    /\ line' = <<>>
    /\ UNCHANGED <<peerVars, readBuf, loopVars>>

\* What Server::run does with the bytes of a line.
HandleLine(bytes) ==
    \/ \E m \in Messages :
        /\ bytes = WholeLine(m) /\ Form[m] = "request"
        /\ server' = "serving"
        /\ current' = m
        /\ UNCHANGED response
    \/ \E m \in Messages :
        /\ bytes = WholeLine(m) /\ Form[m] = "skipped"
        /\ UNCHANGED <<server, current, response>>
    \/ /\ \A m \in Messages : bytes = WholeLine(m) => Form[m] = "malformed"
       /\ server' = "writing"
       /\ response' = LineError
       /\ UNCHANGED current

\* The number of pieces of the buffer up to its first newline.
FirstLine == SelectInSeq(readBuf, LAMBDA p : p.last)

\* Fault: buf is kept across polls and not cleared with the line.
TakeLineKeepsBuf ==
    /\ server = "polling"
    /\ FirstLine > 0
    /\ HandleLine(line \o SubSeq(readBuf, 1, FirstLine))
    /\ line' = line \o SubSeq(readBuf, 1, FirstLine)
    /\ readBuf' = SubSeq(readBuf, FirstLine + 1, Len(readBuf))
    /\ UNCHANGED <<peerVars, written>>

\* Fault: the rest of the buffer goes with the line.
TakeLineDropsRest ==
    /\ server = "polling"
    /\ FirstLine > 0
    /\ HandleLine(line \o SubSeq(readBuf, 1, FirstLine))
    /\ line' = <<>>
    /\ readBuf' = <<>>
    /\ UNCHANGED <<peerVars, written>>

\* Fault: the line is not consumed.
TakeLineStays ==
    /\ server = "polling"
    /\ FirstLine > 0
    /\ HandleLine(line \o SubSeq(readBuf, 1, FirstLine))
    /\ line' = <<>>
    /\ UNCHANGED <<peerVars, readBuf, written>>

TakeLine ==
    /\ server = "polling"
    /\ FirstLine > 0
    /\ HandleLine(line \o SubSeq(readBuf, 1, FirstLine))
    /\ line' = <<>>
    /\ readBuf' = SubSeq(readBuf, FirstLine + 1, Len(readBuf))
    /\ UNCHANGED <<peerVars, written>>

\* Without a newline in the buffer all of it moves to buf.
TakePart ==
    /\ server = "polling"
    /\ readBuf # <<>> /\ FirstLine = 0
    /\ line' = line \o readBuf
    /\ readBuf' = <<>>
    /\ UNCHANGED <<peerVars, loopVars>>

EndOfInput == Starved /\ pipe = <<>> /\ input = "closed"

\* A last line without its newline is parsed all the same: its first chunk may
\* lack more than that.
TakeLastPart ==
    /\ EndOfInput
    /\ line # <<>>
    /\ HandleLine(line) \/ HandleLine(WholeLine(line[1].of))
    /\ line' = <<>>
    /\ UNCHANGED <<peerVars, readBuf, written>>

\* Fault: the end of the input is taken for an empty line.
FinishReadsOn ==
    /\ EndOfInput
    /\ line = <<>>
    /\ Len(written) < Len(sent) + MaxErrors
    /\ server' = "writing"
    /\ response' = LineError
    /\ UNCHANGED <<peerVars, readerVars, current, written>>

\* Ok(0): the stream is over and run returns Ok.
Finish ==
    /\ EndOfInput
    /\ line = <<>>
    /\ server' = "ended"
    /\ UNCHANGED <<peerVars, readerVars, current, response, written>>

\* An I/O error is one more line that made no sense, and the loop goes on.
ReadFails ==
    /\ Starved /\ pipe = <<>> /\ input = "broken"
    /\ Len(written) < Len(sent) + MaxErrors
    /\ line' = <<>>
    /\ server' = "writing"
    /\ response' = LineError
    /\ UNCHANGED <<peerVars, readBuf, current, written>>

-----------------------------------------------------------------------------
(* Server::run. *)

\* Fault: the request stays the current one and can be answered again.
ServiceAnswersAgain ==
    /\ server \in {"serving", "polling"} /\ current # NoMessage
    /\ server' = "writing"
    /\ response' = Answer(current)
    /\ UNCHANGED <<peerVars, readerVars, current, written>>

\* The service returns a response or an error; both become a response that
\* carries the id of the request.
ServiceAnswers ==
    /\ server = "serving"
    /\ server' = "writing"
    /\ response' = Answer(current)
    /\ current' = NoMessage
    /\ UNCHANGED <<peerVars, readerVars, written>>

WriteMessage ==
    /\ server = "writing"
    /\ output = "open"
    /\ written' = Append(written, response)
    /\ server' = "polling"
    /\ UNCHANGED <<peerVars, readerVars, current, response>>

\* run returns the error, and a request already read is never answered.
WriteFails ==
    /\ server = "writing"
    /\ output = "closed"
    /\ server' = "failed"
    /\ UNCHANGED <<peerVars, readerVars, current, response, written>>

Server ==
    \/ FillBuffer \/ PollPending \/ TakeLine \/ TakePart \/ TakeLastPart \/ Finish \/ ReadFails
    \/ ServiceAnswers \/ WriteMessage \/ WriteFails

Next == Peer \/ Server

Spec == Init /\ [][Next]_vars

\* The task is polled, handlers return and the peer reads what is written, but
\* nothing makes the peer write; PollPending only happens, it need not.
Fairness ==
    /\ WF_vars(FillBuffer \/ TakeLine \/ TakePart \/ TakeLastPart \/ Finish \/ ReadFails)
    /\ WF_vars(ServiceAnswers)
    /\ WF_vars(WriteMessage \/ WriteFails)

FairSpec == Spec /\ Fairness

-----------------------------------------------------------------------------
(* Safety *)

Place(m) == SelectInSeq(sent, LAMBDA s : s = m)
Answered(m) == Answer(m) \in Range(written)

\* While reading works a line yields at most one line in return, a response or
\* an error but not both, and responses leave in the order of the requests, none
\* twice, however lines arrive in the buffer, get cut or fail in between
\* (lib.rs:146-204).
AnswersInOrder ==
    /\ input # "broken" => Len(written) <= Len(sent)
    /\ \A i, j \in DOMAIN written :
           i < j /\ written[i].tag = "response" /\ written[j].tag = "response"
           => 0 < Place(written[i].to) /\ Place(written[i].to) < Place(written[j].to)

\* When the server waits for input and nothing is on its way, every request that
\* came in one chunk has been answered.
WholeRequestsAnswered ==
    Starved /\ pipe = <<>> =>
        \A m \in Range(sent) \ Chunked : Form[m] = "request" => Answered(m)

Errors == Len(SelectSeq(written, LAMBDA r : r = LineError))

\* "buffering the underlying data across poll calls" (lib.rs:24): while the input
\* is open, an error means that the peer sent something malformed.
BufferedAcrossPolls ==
    input = "open" => Errors <= Len(SelectSeq(sent, LAMBDA m : Form[m] = "malformed"))

-----------------------------------------------------------------------------
(* Liveness *)

\* A request that came in one chunk is answered unless a write has failed,
\* whatever else the peer sends and though the input ends or breaks.
AnswerComes ==
    \A m \in Messages \ Chunked :
        Form[m] = "request" /\ m \in Range(sent) ~> Answered(m) \/ server = "failed"

\* run returns once the peer has closed the input.
ServerEnds == input = "closed" ~> server \in {"ended", "failed"}

=============================================================================
