-------------------------- MODULE McpServerProofs ---------------------------
(***************************************************************************)
(* Machine-checked proofs about McpServer: its type invariant and its      *)
(* safety invariants, for any messages, any of them chunked, and any       *)
(* bound on the errors of a broken input.                                  *)
(***************************************************************************)
EXTENDS McpServer, QueueFacts, TLAPS

-----------------------------------------------------------------------------
(* The inductive invariant, in named parts.  Pieces are counted from the   *)
(* start of the input: message number i is its pieces 2 * i - 1 and 2 * i. *)

\* How many pieces the peer has written, the reader has taken from the buffer,
\* and the buffer has taken from the pipe.
PiecesWritten == 2 * Len(sent) - (IF half = NoMessage THEN 0 ELSE 1)
Filled == PiecesWritten - Len(pipe)
Consumed == Filled - Len(readBuf)

\* How far the answers may have got: the end of a closed input counts as the
\* rest of the line it cut off.
Exhausted == input = "closed" /\ pipe = <<>> /\ readBuf = <<>> /\ line = <<>>
Reached == IF Exhausted THEN 2 * Len(sent) ELSE Consumed

\* What the queue s holds when `taken' pieces came before it.
Continues(s, taken) ==
    \A k \in DOMAIN s : \E i \in DOMAIN sent :
        \/ taken + k = 2 * i - 1 /\ s[k] = Piece(sent[i], FALSE)
        \/ taken + k = 2 * i /\ s[k] = Piece(sent[i], TRUE)

\* No piece is lost, doubled or out of its place between the peer and the
\* reader, and buf holds the piece before them or nothing.
InSequence ==
    /\ IsInjective(sent)
    /\ Consumed \in Nat
    /\ Continues(readBuf, Consumed)
    /\ Continues(pipe, Filled)
    /\ half # NoMessage => sent # <<>> /\ half = sent[Len(sent)]
    /\ line # <<>> =>
        \E i \in DOMAIN sent : Consumed = 2 * i - 1 /\ line = <<Piece(sent[i], FALSE)>>

\* Only a chunked message is ever cut between two places.
CutWhereChunked ==
    \A i \in DOMAIN sent :
        2 * i - 1 \in {Consumed, Filled, PiecesWritten} => sent[i] \in Chunked

\* The request that is handled, or whose response is being written.
Held(m) ==
    \/ server = "serving" /\ current = m
    \/ server = "writing" /\ response = Answer(m)

Busy == IF server \in {"serving", "writing"} THEN 1 ELSE 0

\* The loop has at most one message in hand, and one the peer has sent.
Loop ==
    /\ current # NoMessage <=> server = "serving"
    /\ server = "serving" => current \in Range(sent)
    /\ server = "writing" => response = LineError \/ \E m \in Range(sent) : response = Answer(m)

\* Every line written belongs to a line read.
Counted == input # "broken" => 2 * (Len(written) + Busy) <= Reached

\* The responses written so far and the one in hand are in order.
InOrder ==
    /\ \A n \in DOMAIN written : written[n] # LineError =>
        \E i \in DOMAIN sent : written[n] = Answer(sent[i])
    /\ \A n \in DOMAIN written, i \in DOMAIN sent :
        written[n] = Answer(sent[i]) => 2 * i <= Reached
    /\ \A n, o \in DOMAIN written, i, j \in DOMAIN sent :
        n < o /\ written[n] = Answer(sent[i]) /\ written[o] = Answer(sent[j]) => i < j
    /\ \A i \in DOMAIN sent : Held(sent[i]) =>
        /\ 2 * i <= Reached
        /\ \A n \in DOMAIN written, j \in DOMAIN sent : written[n] = Answer(sent[j]) => j < i

\* WholeRequestsAnswered of the lines consumed so far, at every moment.
ConsumedAnswered ==
    \A i \in DOMAIN sent :
        2 * i <= Consumed /\ sent[i] \notin Chunked /\ Form[sent[i]] = "request"
        => Answered(sent[i]) \/ Held(sent[i]) \/ server = "failed"

IInv ==
    /\ TypeOK /\ InSequence /\ CutWhereChunked /\ Loop
    /\ Counted /\ InOrder /\ ConsumedAnswered

-----------------------------------------------------------------------------
(* Facts about pieces, replies and the first newline. *)

\* Pieces and replies are told apart by what they are made of.
LEMMA PieceFacts ==
    \A m \in Messages : /\ Piece(m, FALSE) \in Pieces /\ ~Piece(m, FALSE).last
                        /\ Piece(m, TRUE) \in Pieces /\ Piece(m, TRUE).last
                        /\ Piece(m, FALSE).of = m
<1> TAKE m \in Messages
<1>1. \A b \in BOOLEAN : Piece(m, b) \in Pieces
  BY DEF Piece, Pieces
<1>2. Piece(m, FALSE).last = FALSE /\ Piece(m, TRUE).last = TRUE /\ Piece(m, FALSE).of = m
  BY DEF Piece
<1>3. Piece(m, FALSE) \in Pieces /\ Piece(m, TRUE) \in Pieces
  BY <1>1, Zenon
<1> QED
  BY <1>2, <1>3

LEMMA ReplyFacts ==
    /\ LineError \in Replies
    /\ \A m \in Messages : Answer(m) \in Replies /\ Answer(m) # LineError
    /\ \A m, n : Answer(m) = Answer(n) => m = n
    /\ \A m : Answer(m).tag = "response" /\ Answer(m).to = m
    /\ LineError.tag # "response"
    /\ \A r \in Replies : r # LineError => \E m \in Messages : r = Answer(m)
  BY DEF Answer, LineError, Replies

\* A whole line is its two pieces.
LEMMA WholeLineFacts ==
    ASSUME NEW m \in Messages
    PROVE  /\ WholeLine(m) \in Seq(Pieces) /\ Len(WholeLine(m)) = 2
           /\ WholeLine(m)[1] = Piece(m, FALSE) /\ WholeLine(m)[2] = Piece(m, TRUE)
           /\ \A n \in Messages : WholeLine(m) = WholeLine(n) => m = n
           /\ \A p \in Pieces : WholeLine(m) # <<p>>
<1>1. \A n \in Messages : Piece(n, FALSE) \in Pieces /\ Piece(n, TRUE) \in Pieces
  BY PieceFacts
<1>2. \A n \in Messages :
        /\ WholeLine(n) \in Seq(Pieces) /\ Len(WholeLine(n)) = 2
        /\ WholeLine(n)[1] = Piece(n, FALSE) /\ WholeLine(n)[2] = Piece(n, TRUE)
  BY <1>1, ShortFacts DEF WholeLine
<1>3. ASSUME NEW n \in Messages, WholeLine(m) = WholeLine(n)
      PROVE  m = n
  <2>1. Piece(m, FALSE) = Piece(n, FALSE)
    BY <1>2, <1>3
  <2>2. Piece(m, FALSE).of = m /\ Piece(n, FALSE).of = n
    BY PieceFacts
  <2> QED
    BY <2>1, <2>2
<1>4. \A p \in Pieces : WholeLine(m) # <<p>>
  BY DEF WholeLine
<1> QED
  BY <1>2, <1>3, <1>4

\* The least element of a set of numbers.
LEMMA MinFacts ==
    ASSUME NEW S \in SUBSET Nat, NEW n \in S, \A k \in S : n <= k
    PROVE  Min(S) = n
<1>1. \A x \in S : (\A y \in S : x =< y) => x = n
  OBVIOUS
<1>2. Min(S) \in S /\ \A y \in S : Min(S) =< y
  BY DEF Min
<1> QED
  BY <1>1, <1>2

\* Where the first newline of the buffer is.
LEMMA FirstLineFacts ==
    ASSUME readBuf \in Seq(Pieces)
    PROVE  /\ readBuf = <<>> => FirstLine = 0
           /\ Len(readBuf) >= 1 /\ readBuf[1].last => FirstLine = 1
           /\ Len(readBuf) = 1 /\ ~readBuf[1].last => FirstLine = 0
           /\ Len(readBuf) >= 2 /\ ~readBuf[1].last /\ readBuf[2].last => FirstLine = 2
<1> DEFINE I == {i \in 1..Len(readBuf) : readBuf[i].last}
<1>1. FirstLine = IF I # {} THEN Min(I) ELSE 0
  BY DEF FirstLine, SelectInSeq
<1>2. Len(readBuf) \in Nat /\ I \in SUBSET Nat
  BY LenProperties
<1>3. CASE readBuf = <<>>
  BY <1>1, <1>3
<1>4. CASE Len(readBuf) >= 1 /\ readBuf[1].last
  <2>1. 1 \in I /\ \A k \in I : 1 <= k
    BY <1>2, <1>4
  <2>2. Min(I) = 1
    BY ONLY <1>2, <2>1, MinFacts
  <2> QED
    BY <1>1, <1>2, <1>4, <2>1, <2>2
<1>5. CASE Len(readBuf) = 1 /\ ~readBuf[1].last
  <2>1. I = {}
    BY <1>2, <1>5
  <2> QED
    BY <1>1, <1>5, <2>1
<1>6. CASE Len(readBuf) >= 2 /\ ~readBuf[1].last /\ readBuf[2].last
  <2>1. 2 \in I /\ \A k \in I : 2 <= k
    BY <1>2, <1>6
  <2>2. Min(I) = 2
    BY ONLY <1>2, <2>1, MinFacts
  <2> QED
    BY <1>1, <1>2, <1>6, <2>1, <2>2
<1> QED
  BY <1>3, <1>4, <1>5, <1>6

\* The counters are numbers, in this order.
LEMMA Counters ==
    ASSUME TypeOK
    PROVE  /\ Len(sent) \in Nat /\ DOMAIN sent = 1..Len(sent)
           /\ Len(pipe) \in Nat /\ DOMAIN pipe = 1..Len(pipe)
           /\ Len(readBuf) \in Nat /\ DOMAIN readBuf = 1..Len(readBuf)
           /\ Len(written) \in Nat /\ DOMAIN written = 1..Len(written)
           /\ PiecesWritten \in Int /\ PiecesWritten <= 2 * Len(sent)
           /\ Filled \in Int /\ Filled <= PiecesWritten
           /\ Consumed \in Int /\ Consumed <= Filled
           /\ Busy \in {0, 1}
           /\ (pipe = <<>> <=> Len(pipe) = 0) /\ (readBuf = <<>> <=> Len(readBuf) = 0)
<1>1. /\ Len(sent) \in Nat /\ DOMAIN sent = 1..Len(sent)
      /\ Len(pipe) \in Nat /\ DOMAIN pipe = 1..Len(pipe)
      /\ Len(readBuf) \in Nat /\ DOMAIN readBuf = 1..Len(readBuf)
      /\ Len(written) \in Nat /\ DOMAIN written = 1..Len(written)
  BY LenProperties DEF TypeOK
<1>2. (pipe = <<>> <=> Len(pipe) = 0) /\ (readBuf = <<>> <=> Len(readBuf) = 0)
  BY EmptySeq DEF TypeOK
<1>3. PiecesWritten \in Int /\ PiecesWritten <= 2 * Len(sent)
  BY <1>1 DEF PiecesWritten
<1>4. Filled \in Int /\ Filled <= PiecesWritten
  BY <1>1, <1>3 DEF Filled
<1>5. Consumed \in Int /\ Consumed <= Filled
  BY <1>1, <1>4 DEF Consumed
<1> QED
  BY <1>1, <1>2, <1>3, <1>4, <1>5 DEF Busy

\* Messages have numbers, and no two the same.
LEMMA Numbers ==
    ASSUME IInv
    PROVE  /\ \A i \in DOMAIN sent : i \in Nat /\ 1 <= i /\ i <= Len(sent) /\ sent[i] \in Messages
           /\ \A i, j \in DOMAIN sent : sent[i] = sent[j] => i = j
           /\ Reached \in Int /\ Consumed \in Nat
<1>1. \A i \in DOMAIN sent : i \in Nat /\ 1 <= i /\ i <= Len(sent)
  BY Counters DEF IInv
<1>2. \A i \in DOMAIN sent : sent[i] \in Messages
  BY Counters, ElementOfSeq DEF IInv, TypeOK
<1>3. \A i, j \in DOMAIN sent : sent[i] = sent[j] => i = j
  BY DEF IInv, InSequence, IsInjective
<1>4. Reached \in Int /\ Consumed \in Nat
  BY Counters DEF IInv, InSequence, Reached
<1> QED
  BY <1>1, <1>2, <1>3, <1>4

-----------------------------------------------------------------------------
(* Every step keeps the invariant. *)

\* A message the peer begins to write is new to the loop, and the messages
\* before it keep their numbers.
LEMMA SentGrows ==
    ASSUME IInv, NEW m \in Messages, MayWrite(m), sent' = Append(sent, m),
           Consumed' = Consumed,
           UNCHANGED <<input, readerVars, loopVars>>
    PROVE  /\ sent' \in Seq(Messages) /\ IsInjective(sent)'
           /\ Len(sent') = Len(sent) + 1 /\ DOMAIN sent' = 1..(Len(sent) + 1)
           /\ \A i \in DOMAIN sent : i \in DOMAIN sent' /\ sent'[i] = sent[i]
           /\ sent'[Len(sent) + 1] = m
           /\ \A i \in DOMAIN sent' : i \in DOMAIN sent \/ i = Len(sent) + 1
           /\ Loop' /\ Counted' /\ InOrder' /\ ConsumedAnswered'
<1> USE DEF IInv, MayWrite, readerVars, loopVars
<1>1. /\ sent' \in Seq(Messages) /\ Len(sent') = Len(sent) + 1
      /\ \A i \in 1..Len(sent) : sent'[i] = sent[i]
      /\ sent'[Len(sent) + 1] = m
  BY AppendProperties DEF TypeOK
<1>2. IsInjective(sent)' /\ Range(sent') = Range(sent) \cup {m}
  BY AppendFacts DEF TypeOK, InSequence
<1>3. DOMAIN sent = 1..Len(sent) /\ Len(sent) \in Nat
  BY Counters
<1>4. /\ DOMAIN sent' = 1..(Len(sent) + 1)
      /\ \A i \in DOMAIN sent : i \in DOMAIN sent' /\ sent'[i] = sent[i]
      /\ \A i \in DOMAIN sent' : i \in DOMAIN sent \/ i = Len(sent) + 1
  BY <1>1, <1>3, LenProperties
<1>5. \A i \in DOMAIN sent : sent[i] \in Range(sent) /\ sent[i] # m
  BY DEF Range
<1>6. Reached' = Consumed /\ Reached = Consumed
  BY DEF Reached, Exhausted
<1>7. Loop'
  BY <1>2 DEF Loop
<1>8. Counted'
  BY <1>6 DEF Counted, Busy
<1>9. ~Held(m) /\ \A n \in DOMAIN written : written[n] # Answer(m)
  <2>1. ~Held(m)
    BY ReplyFacts, m \notin Range(sent) DEF Loop, Held
  <2>2. ASSUME NEW n \in DOMAIN written, written[n] = Answer(m)
        PROVE  FALSE
    BY <2>2, <1>5, ReplyFacts DEF InOrder
  <2> QED
    BY <2>1, <2>2
<1>10. InOrder'
  BY <1>1, <1>4, <1>6, <1>9 DEF InOrder, Held
<1>11. ConsumedAnswered'
  <2>1. ASSUME NEW i \in DOMAIN sent', 2 * i <= Consumed
        PROVE  i \in DOMAIN sent
    BY <1>3, <1>4, <2>1, Counters
  <2> QED
    BY <1>4, <2>1 DEF ConsumedAnswered, Answered, Held
<1> QED
  BY <1>1, <1>2, <1>4, <1>7, <1>8, <1>10, <1>11

\* A line that the peer writes at once goes to the end of the pipe.
LEMMA PeerWritesKeeps ==
    ASSUME IInv, NEW m \in Messages, PeerWrites(m)
    PROVE  IInv'
<1> USE DEF IInv
<1>1. /\ MayWrite(m) /\ sent' = Append(sent, m) /\ pipe' = pipe \o WholeLine(m)
      /\ half = NoMessage /\ half' = half
      /\ UNCHANGED <<input, output, readerVars, loopVars>>
  BY DEF PeerWrites, MayWrite
<1>2. /\ pipe' \in Seq(Pieces) /\ Len(pipe') = Len(pipe) + 2
      /\ \A k \in DOMAIN pipe : pipe'[k] = pipe[k]
      /\ \A k \in DOMAIN pipe' : k \in DOMAIN pipe \/ k = Len(pipe) + 1 \/ k = Len(pipe) + 2
      /\ pipe'[Len(pipe) + 1] = Piece(m, FALSE)
      /\ pipe'[Len(pipe) + 2] = Piece(m, TRUE)
  <2> DEFINE p == Piece(m, FALSE)
             q == Piece(m, TRUE)
  <2>1. pipe \in Seq(Pieces) /\ p \in Pieces /\ q \in Pieces
    BY PieceFacts DEF TypeOK
  <2>2. pipe' = pipe \o <<p, q>>
    BY <1>1 DEF WholeLine
  <2> HIDE DEF p, q
  <2>3. /\ pipe' \in Seq(Pieces) /\ Len(pipe') = Len(pipe) + 2
        /\ \A k \in DOMAIN pipe : pipe'[k] = pipe[k]
        /\ \A k \in DOMAIN pipe' : k \in DOMAIN pipe \/ k = Len(pipe) + 1 \/ k = Len(pipe) + 2
        /\ pipe'[Len(pipe) + 1] = p /\ pipe'[Len(pipe) + 2] = q
    BY <2>1, <2>2, PairPlaces
  <2> QED
    BY <2>3 DEF p, q
<1>3. Len(sent') = Len(sent) + 1
  BY <1>1, AppendProperties DEF TypeOK
<1>4. /\ PiecesWritten = 2 * Len(sent) /\ PiecesWritten' = PiecesWritten + 2
      /\ Filled' = Filled /\ Consumed' = Consumed
  BY <1>1, <1>2, <1>3, Counters DEF PiecesWritten, Filled, Consumed, readerVars
<1>5. /\ sent' \in Seq(Messages) /\ IsInjective(sent)'
      /\ DOMAIN sent' = 1..(Len(sent) + 1)
      /\ \A i \in DOMAIN sent : i \in DOMAIN sent' /\ sent'[i] = sent[i]
      /\ sent'[Len(sent) + 1] = m
      /\ \A i \in DOMAIN sent' : i \in DOMAIN sent \/ i = Len(sent) + 1
      /\ Loop' /\ Counted' /\ InOrder' /\ ConsumedAnswered'
  BY <1>1, <1>4, SentGrows
<1>6. TypeOK'
  BY <1>1, <1>2, <1>5 DEF TypeOK, readerVars, loopVars
<1>7. InSequence'
  <2>0. Len(sent) + 1 \in DOMAIN sent'
    BY <1>5, Counters
  <2>1. Continues(readBuf, Consumed)'
    <3>1. readBuf' = readBuf /\ Consumed' = Consumed
      BY <1>1, <1>4 DEF readerVars
    <3>2. ASSUME NEW k \in DOMAIN readBuf
          PROVE  \E i \in DOMAIN sent' :
                    \/ Consumed + k = 2 * i - 1 /\ readBuf[k] = Piece(sent'[i], FALSE)
                    \/ Consumed + k = 2 * i /\ readBuf[k] = Piece(sent'[i], TRUE)
      <4>1. PICK i \in DOMAIN sent :
              \/ Consumed + k = 2 * i - 1 /\ readBuf[k] = Piece(sent[i], FALSE)
              \/ Consumed + k = 2 * i /\ readBuf[k] = Piece(sent[i], TRUE)
        BY DEF InSequence, Continues
      <4>2. i \in DOMAIN sent' /\ sent'[i] = sent[i]
        BY <1>5
      <4> QED
        BY <4>1, <4>2, Zenon
    <3> QED
      BY <3>1, <3>2 DEF Continues
  <2>2. ASSUME NEW k \in DOMAIN pipe'
        PROVE  \E i \in DOMAIN sent' :
                  \/ Filled + k = 2 * i - 1 /\ pipe'[k] = Piece(sent'[i], FALSE)
                  \/ Filled + k = 2 * i /\ pipe'[k] = Piece(sent'[i], TRUE)
    <3>1. CASE k \in DOMAIN pipe
      <4>1. PICK i \in DOMAIN sent :
              \/ Filled + k = 2 * i - 1 /\ pipe[k] = Piece(sent[i], FALSE)
              \/ Filled + k = 2 * i /\ pipe[k] = Piece(sent[i], TRUE)
        BY <3>1 DEF InSequence, Continues
      <4>2. i \in DOMAIN sent' /\ sent'[i] = sent[i] /\ pipe'[k] = pipe[k]
        BY <1>2, <1>5, <3>1
      <4> QED
        BY <4>1, <4>2, Zenon
    <3>2. CASE k = Len(pipe) + 1
      <4>1. Filled + k = 2 * (Len(sent) + 1) - 1
        BY <1>4, <3>2, Counters DEF Filled
      <4> QED
        BY <1>2, <1>5, <3>2, <4>1, <2>0
    <3>3. CASE k = Len(pipe) + 2
      <4>1. Filled + k = 2 * (Len(sent) + 1)
        BY <1>4, <3>3, Counters DEF Filled
      <4> QED
        BY <1>2, <1>5, <3>3, <4>1, <2>0
    <3> QED
      BY <1>2, <3>1, <3>2, <3>3
  <2>3. Continues(pipe, Filled)'
    BY <1>4, <2>2 DEF Continues
  <2> QED
    BY <1>1, <1>4, <1>5, <2>1, <2>3 DEF InSequence, readerVars
<1>8. CutWhereChunked'
  <2> SUFFICES ASSUME NEW i \in DOMAIN sent',
                      2 * i - 1 \in {Consumed', Filled', PiecesWritten'}
               PROVE  sent'[i] \in Chunked
    BY DEF CutWhereChunked
  <2>1. 2 * i - 1 \in {Consumed, Filled, PiecesWritten + 2} /\ i \in Nat
    BY <1>4, <1>5, Counters
  <2>2. i # Len(sent) + 1 /\ 2 * i - 1 # PiecesWritten + 2
    BY <1>4, <2>1, Counters
  <2>3. i \in DOMAIN sent /\ sent'[i] = sent[i]
    BY <1>5, <2>2
  <2> QED
    BY <2>1, <2>2, <2>3 DEF CutWhereChunked
<1> QED
  BY <1>5, <1>6, <1>7, <1>8

\* The first chunk of a line goes to the end of the pipe and leaves it cut.
LEMMA PeerWritesFirstChunkKeeps ==
    ASSUME IInv, NEW m \in Messages, PeerWritesFirstChunk(m)
    PROVE  IInv'
<1> USE DEF IInv
<1>1. /\ MayWrite(m) /\ sent' = Append(sent, m) /\ pipe' = Append(pipe, Piece(m, FALSE))
      /\ half = NoMessage /\ half' = m /\ m # NoMessage /\ m \in Chunked
      /\ UNCHANGED <<input, output, readerVars, loopVars>>
  BY ServerAssumption DEF PeerWritesFirstChunk, MayWrite
<1>2. /\ pipe' \in Seq(Pieces) /\ Len(pipe') = Len(pipe) + 1
      /\ \A k \in DOMAIN pipe : pipe'[k] = pipe[k]
      /\ \A k \in DOMAIN pipe' : k \in DOMAIN pipe \/ k = Len(pipe) + 1
      /\ pipe'[Len(pipe) + 1] = Piece(m, FALSE)
  <2> DEFINE p == Piece(m, FALSE)
  <2>1. pipe \in Seq(Pieces) /\ p \in Pieces /\ pipe' = Append(pipe, p)
    BY <1>1, PieceFacts DEF TypeOK
  <2> HIDE DEF p
  <2>2. /\ pipe' \in Seq(Pieces) /\ Len(pipe') = Len(pipe) + 1
        /\ \A k \in DOMAIN pipe : pipe'[k] = pipe[k]
        /\ \A k \in DOMAIN pipe' : k \in DOMAIN pipe \/ k = Len(pipe) + 1
        /\ pipe'[Len(pipe) + 1] = p
    BY <2>1, AppendPlaces
  <2> QED
    BY <2>2 DEF p
<1>3. Len(sent') = Len(sent) + 1
  BY <1>1, AppendProperties DEF TypeOK
<1>4. /\ PiecesWritten = 2 * Len(sent) /\ PiecesWritten' = PiecesWritten + 1
      /\ Filled' = Filled /\ Consumed' = Consumed
  BY <1>1, <1>2, <1>3, Counters DEF PiecesWritten, Filled, Consumed, readerVars
<1>5. /\ sent' \in Seq(Messages) /\ IsInjective(sent)'
      /\ DOMAIN sent' = 1..(Len(sent) + 1)
      /\ \A i \in DOMAIN sent : i \in DOMAIN sent' /\ sent'[i] = sent[i]
      /\ sent'[Len(sent) + 1] = m
      /\ \A i \in DOMAIN sent' : i \in DOMAIN sent \/ i = Len(sent) + 1
      /\ Loop' /\ Counted' /\ InOrder' /\ ConsumedAnswered'
  BY <1>1, <1>4, SentGrows
<1>6. TypeOK'
  BY <1>1, <1>2, <1>5 DEF TypeOK, readerVars, loopVars
<1>7. InSequence'
  <2>0. Len(sent) + 1 \in DOMAIN sent'
    BY <1>5, Counters
  <2>1. Continues(readBuf, Consumed)'
    <3>1. readBuf' = readBuf /\ Consumed' = Consumed
      BY <1>1, <1>4 DEF readerVars
    <3>2. ASSUME NEW k \in DOMAIN readBuf
          PROVE  \E i \in DOMAIN sent' :
                    \/ Consumed + k = 2 * i - 1 /\ readBuf[k] = Piece(sent'[i], FALSE)
                    \/ Consumed + k = 2 * i /\ readBuf[k] = Piece(sent'[i], TRUE)
      <4>1. PICK i \in DOMAIN sent :
              \/ Consumed + k = 2 * i - 1 /\ readBuf[k] = Piece(sent[i], FALSE)
              \/ Consumed + k = 2 * i /\ readBuf[k] = Piece(sent[i], TRUE)
        BY DEF InSequence, Continues
      <4>2. i \in DOMAIN sent' /\ sent'[i] = sent[i]
        BY <1>5
      <4> QED
        BY <4>1, <4>2, Zenon
    <3> QED
      BY <3>1, <3>2 DEF Continues
  <2>2. ASSUME NEW k \in DOMAIN pipe'
        PROVE  \E i \in DOMAIN sent' :
                  \/ Filled + k = 2 * i - 1 /\ pipe'[k] = Piece(sent'[i], FALSE)
                  \/ Filled + k = 2 * i /\ pipe'[k] = Piece(sent'[i], TRUE)
    <3>1. CASE k \in DOMAIN pipe
      <4>1. PICK i \in DOMAIN sent :
              \/ Filled + k = 2 * i - 1 /\ pipe[k] = Piece(sent[i], FALSE)
              \/ Filled + k = 2 * i /\ pipe[k] = Piece(sent[i], TRUE)
        BY <3>1 DEF InSequence, Continues
      <4>2. i \in DOMAIN sent' /\ sent'[i] = sent[i] /\ pipe'[k] = pipe[k]
        BY <1>2, <1>5, <3>1
      <4> QED
        BY <4>1, <4>2, Zenon
    <3>2. CASE k = Len(pipe) + 1
      <4>1. Filled + k = 2 * (Len(sent) + 1) - 1
        BY <1>4, <3>2, Counters DEF Filled
      <4> QED
        BY <1>2, <1>5, <3>2, <4>1, <2>0
    <3> QED
      BY <1>2, <3>1, <3>2
  <2>3. Continues(pipe, Filled)'
    BY <1>4, <2>2 DEF Continues
  <2>4. sent' # <<>> /\ half' = sent'[Len(sent')]
    BY <1>1, <1>3, <1>5, EmptySeq, Counters
  <2> QED
    BY <1>1, <1>4, <1>5, <2>1, <2>3, <2>4 DEF InSequence, readerVars
<1>8. CutWhereChunked'
  <2>1. ASSUME NEW i \in DOMAIN sent, 2 * i - 1 = PiecesWritten'
        PROVE  FALSE
    BY <1>4, <2>1, Counters
  <2> QED
    BY <1>1, <1>4, <1>5, <2>1, Counters DEF CutWhereChunked
<1> QED
  BY <1>5, <1>6, <1>7, <1>8

\* The rest of the line completes the last message.
LEMMA PeerWritesRestKeeps ==
    ASSUME IInv, PeerWritesRest
    PROVE  IInv'
<1> USE DEF IInv
<1>1. /\ input = "open" /\ half # NoMessage /\ half' = NoMessage
      /\ pipe' = Append(pipe, Piece(half, TRUE))
      /\ UNCHANGED <<sent, input, output, readBuf, line, server, current, response, written>>
  BY DEF PeerWritesRest, readerVars, loopVars
<1>2. /\ half \in Messages /\ half = sent[Len(sent)] /\ Len(sent) \in DOMAIN sent
  BY <1>1, EmptySeq, Counters DEF TypeOK, InSequence
<1>3. /\ pipe' \in Seq(Pieces) /\ Len(pipe') = Len(pipe) + 1
      /\ \A k \in DOMAIN pipe : pipe'[k] = pipe[k]
      /\ \A k \in DOMAIN pipe' : k \in DOMAIN pipe \/ k = Len(pipe) + 1
      /\ pipe'[Len(pipe) + 1] = Piece(half, TRUE)
  <2> DEFINE p == Piece(half, TRUE)
  <2>1. pipe \in Seq(Pieces) /\ p \in Pieces /\ pipe' = Append(pipe, p)
    BY <1>2, <1>1, PieceFacts DEF TypeOK
  <2> HIDE DEF p
  <2>2. /\ pipe' \in Seq(Pieces) /\ Len(pipe') = Len(pipe) + 1
        /\ \A k \in DOMAIN pipe : pipe'[k] = pipe[k]
        /\ \A k \in DOMAIN pipe' : k \in DOMAIN pipe \/ k = Len(pipe) + 1
        /\ pipe'[Len(pipe) + 1] = p
    BY <2>1, AppendPlaces
  <2> QED
    BY <2>2 DEF p
<1>4. /\ PiecesWritten = 2 * Len(sent) - 1 /\ PiecesWritten' = 2 * Len(sent)
      /\ Filled' = Filled /\ Consumed' = Consumed
  BY <1>1, <1>3, Counters DEF PiecesWritten, Filled, Consumed
<1>5. TypeOK'
  BY <1>1, <1>3 DEF TypeOK
<1>6. InSequence'
  <2>1. ASSUME NEW k \in DOMAIN pipe'
        PROVE  \E i \in DOMAIN sent :
                  \/ Filled + k = 2 * i - 1 /\ pipe'[k] = Piece(sent[i], FALSE)
                  \/ Filled + k = 2 * i /\ pipe'[k] = Piece(sent[i], TRUE)
    <3>1. CASE k \in DOMAIN pipe
      BY <1>3, <3>1 DEF Continues, InSequence
    <3>2. CASE k = Len(pipe) + 1
      <4>1. Filled + k = 2 * Len(sent)
        BY <1>4, <3>2, Counters DEF Filled
      <4> QED
        BY <1>2, <1>3, <3>2, <4>1
    <3> QED
      BY <1>3, <3>1, <3>2
  <2>2. Continues(pipe, Filled)'
    BY <1>1, <1>4, <2>1 DEF Continues
  <2>3. Continues(readBuf, Consumed)'
    BY <1>1, <1>4 DEF Continues, InSequence
  <2> QED
    BY <1>1, <1>4, <2>2, <2>3 DEF InSequence
<1>7. CutWhereChunked'
  BY <1>1, <1>4, Counters DEF CutWhereChunked
<1>8. Reached' = Reached
  BY <1>1, <1>4 DEF Reached, Exhausted
<1>9. Loop' /\ Counted' /\ InOrder' /\ ConsumedAnswered'
  BY <1>1, <1>4, <1>8 DEF Loop, Counted, Busy, InOrder, Held, ConsumedAnswered, Answered
<1> QED
  BY <1>5, <1>6, <1>7, <1>9

\* The loop stays where it is, and what it may have answered does not shrink.
LEMMA LoopRests ==
    ASSUME IInv, UNCHANGED <<sent, loopVars>>, input = "broken" => input' = "broken",
           Reached' \in Int, Reached <= Reached'
    PROVE  Loop' /\ Counted' /\ InOrder'
<1>1. /\ Reached \in Int /\ DOMAIN sent \subseteq Nat
      /\ Len(written) \in Nat /\ Busy \in {0, 1} /\ Busy' = Busy
  BY Counters DEF IInv, Reached, Busy, loopVars
<1>2. Loop'
  BY DEF IInv, Loop, loopVars
<1>3. Counted'
  BY <1>1 DEF IInv, Counted, loopVars
<1>4. \A i \in DOMAIN sent : 2 * i <= Reached => 2 * i <= Reached'
  BY <1>1
<1>5. InOrder'
  BY <1>4 DEF IInv, InOrder, Held, loopVars
<1> QED
  BY <1>2, <1>3, <1>5

\* The end of the input says nothing of what was written before it.
LEMMA InputEndsKeeps ==
    ASSUME IInv, InputEnds
    PROVE  IInv'
<1>1. /\ input = "open" /\ input' \in {"closed", "broken"}
      /\ UNCHANGED <<sent, half, pipe, output, readerVars, loopVars>>
  BY DEF InputEnds
<1>2. PiecesWritten' = PiecesWritten /\ Filled' = Filled /\ Consumed' = Consumed
  BY <1>1 DEF PiecesWritten, Filled, Consumed, readerVars
<1>3. Reached = Consumed /\ Reached' \in {Consumed, 2 * Len(sent)}
  BY <1>1, <1>2 DEF Reached, Exhausted
<1>4. Reached' \in Int /\ Reached <= Reached'
  BY <1>3, Counters DEF IInv
<1>5. Loop' /\ Counted' /\ InOrder'
  BY <1>1, <1>4, LoopRests
<1>6. TypeOK'
  BY <1>1 DEF IInv, TypeOK, readerVars, loopVars
<1>7. InSequence' /\ CutWhereChunked' /\ ConsumedAnswered'
  BY <1>1, <1>2 DEF IInv, InSequence, Continues, CutWhereChunked, ConsumedAnswered,
                    Answered, Held, readerVars, loopVars
<1> QED
  BY <1>5, <1>6, <1>7 DEF IInv

\* The closing of the output only matters to the next write.
LEMMA OutputClosesKeeps ==
    ASSUME IInv, OutputCloses
    PROVE  IInv'
<1> USE DEF OutputCloses, readerVars, loopVars
<1>1. PiecesWritten' = PiecesWritten /\ Filled' = Filled /\ Consumed' = Consumed
  BY DEF PiecesWritten, Filled, Consumed
<1>2. Reached' = Reached
  BY <1>1 DEF Reached, Exhausted
<1>3. TypeOK' /\ Loop' /\ Counted'
  BY <1>2 DEF IInv, TypeOK, Loop, Counted, Busy
<1>4. InSequence' /\ CutWhereChunked'
  BY <1>1 DEF IInv, InSequence, Continues, CutWhereChunked
<1>5. InOrder' /\ ConsumedAnswered'
  BY <1>1, <1>2 DEF IInv, InOrder, ConsumedAnswered, Answered, Held
<1> QED
  BY <1>3, <1>4, <1>5 DEF IInv

\* The pieces of the pipe become those of the empty buffer.
LEMMA FillBufferKeeps ==
    ASSUME IInv, FillBuffer
    PROVE  IInv'
<1>1. /\ readBuf = <<>> /\ readBuf' = pipe /\ pipe' = <<>> /\ pipe # <<>>
      /\ UNCHANGED <<sent, half, input, output, line, loopVars>>
  BY DEF FillBuffer, Starved
<1>2. Len(readBuf) = 0 /\ Len(pipe') = 0 /\ Len(readBuf') = Len(pipe)
  BY <1>1, Counters, EmptySeq DEF IInv
<1>3. /\ PiecesWritten' = PiecesWritten
      /\ Filled' = PiecesWritten /\ Filled = PiecesWritten - Len(pipe)
      /\ Consumed = Filled /\ Consumed' = Filled
  BY <1>1, <1>2, Counters DEF IInv, PiecesWritten, Filled, Consumed
<1>4. Reached = Consumed /\ Reached' = Consumed
  BY <1>1, <1>3 DEF Reached, Exhausted
<1>5. Reached' \in Int /\ Reached <= Reached'
  BY <1>4, Counters DEF IInv
<1>6. Loop' /\ Counted' /\ InOrder'
  BY <1>1, <1>5, LoopRests
<1>7. TypeOK'
  BY <1>1, EmptySeq DEF IInv, TypeOK, loopVars
<1>8. InSequence'
  <2>1. Continues(readBuf, Consumed)'
    BY <1>1, <1>3 DEF IInv, InSequence, Continues
  <2>2. Continues(pipe, Filled)'
    BY <1>1 DEF Continues
  <2> QED
    BY <1>1, <1>3, <2>1, <2>2 DEF IInv, InSequence
<1>9. CutWhereChunked' /\ ConsumedAnswered'
  BY <1>1, <1>3 DEF IInv, CutWhereChunked, ConsumedAnswered, Answered, Held, loopVars
<1> QED
  BY <1>6, <1>7, <1>8, <1>9 DEF IInv

\* What buf held is gone: the line has been consumed and will not be whole.
LEMMA PollPendingKeeps ==
    ASSUME IInv, PollPending
    PROVE  IInv'
<1>1. /\ line # <<>> /\ line' = <<>>
      /\ UNCHANGED <<sent, half, pipe, input, output, readBuf, loopVars>>
  BY DEF PollPending, peerVars
<1>2. PiecesWritten' = PiecesWritten /\ Filled' = Filled /\ Consumed' = Consumed
  BY <1>1 DEF PiecesWritten, Filled, Consumed
<1>3. Reached = Consumed /\ Reached' \in {Consumed, 2 * Len(sent)}
  BY <1>1, <1>2 DEF Reached, Exhausted
<1>4. Reached' \in Int /\ Reached <= Reached'
  BY <1>3, Counters DEF IInv
<1>5. Loop' /\ Counted' /\ InOrder'
  BY <1>1, <1>4, LoopRests
<1>6. TypeOK'
  BY <1>1 DEF IInv, TypeOK, loopVars
<1>7. InSequence' /\ CutWhereChunked' /\ ConsumedAnswered'
  BY <1>1, <1>2 DEF IInv, InSequence, Continues, CutWhereChunked, ConsumedAnswered,
                    Answered, Held, loopVars
<1> QED
  BY <1>5, <1>6, <1>7 DEF IInv

\* The first piece of the buffer is the next one of a message that was sent;
\* with its newline it makes a whole line unless the message is chunked.
LEMMA NextPiece ==
    ASSUME IInv, readBuf # <<>>
    PROVE  \E i \in DOMAIN sent :
            \/ /\ Consumed = 2 * i - 1 /\ FirstLine = 1
               /\ readBuf[1] = Piece(sent[i], TRUE)
               /\ line \in {<<>>, <<Piece(sent[i], FALSE)>>}
            \/ /\ Consumed + 2 = 2 * i /\ FirstLine = 2 /\ Len(readBuf) >= 2
               /\ readBuf[1] = Piece(sent[i], FALSE) /\ readBuf[2] = Piece(sent[i], TRUE)
               /\ line = <<>>
            \/ /\ Consumed + 2 = 2 * i /\ FirstLine = 0
               /\ readBuf = <<Piece(sent[i], FALSE)>>
               /\ line = <<>>
<1>1. /\ readBuf \in Seq(Pieces) /\ Len(readBuf) \in Nat /\ Len(readBuf) >= 1
      /\ DOMAIN readBuf = 1..Len(readBuf) /\ 1 \in DOMAIN readBuf
      /\ \A i \in DOMAIN sent : i \in Nat /\ sent[i] \in Messages
      /\ Consumed \in Nat
  <2>1. readBuf \in Seq(Pieces) /\ Len(readBuf) \in Nat /\ DOMAIN readBuf = 1..Len(readBuf)
    BY Counters DEF IInv, TypeOK
  <2>2. Len(readBuf) >= 1
    BY <2>1, EmptySeq
  <2> QED
    BY <2>1, <2>2, Numbers
<1>2. Continues(readBuf, Consumed)
  BY DEF IInv, InSequence
<1>3. line # <<>> =>
        \E i \in DOMAIN sent : Consumed = 2 * i - 1 /\ line = <<Piece(sent[i], FALSE)>>
  BY DEF IInv, InSequence
<1>4. PICK i \in DOMAIN sent :
        \/ Consumed + 1 = 2 * i - 1 /\ readBuf[1] = Piece(sent[i], FALSE)
        \/ Consumed + 1 = 2 * i /\ readBuf[1] = Piece(sent[i], TRUE)
  BY <1>1, <1>2 DEF Continues
<1>5. i \in Nat /\ sent[i] \in Messages
  BY <1>1
<1>6. CASE Consumed + 1 = 2 * i /\ readBuf[1] = Piece(sent[i], TRUE)
  <2>1. FirstLine = 1
    BY <1>1, <1>5, <1>6, PieceFacts, FirstLineFacts
  <2>2. Consumed = 2 * i - 1
    BY <1>1, <1>5, <1>6
  <2>3. \A j \in DOMAIN sent : Consumed = 2 * j - 1 => j = i
    BY <1>1, <1>5, <2>2
  <2>4. line \in {<<>>, <<Piece(sent[i], FALSE)>>}
    BY <1>3, <2>3
  <2> QED
    BY <1>6, <2>1, <2>2, <2>4
<1>7. CASE Consumed + 1 = 2 * i - 1 /\ readBuf[1] = Piece(sent[i], FALSE)
  <2>1. Consumed + 2 = 2 * i
    BY <1>1, <1>5, <1>7
  <2>2. ~readBuf[1].last
    BY <1>5, <1>7, PieceFacts
  <2>3. line = <<>>
    <3>1. \A j \in DOMAIN sent : Consumed # 2 * j - 1
      BY <1>1, <1>5, <2>1
    <3> QED
      BY <1>3, <3>1
  <2>4. CASE Len(readBuf) = 1
    <3>1. FirstLine = 0
      BY <1>1, <2>2, <2>4, FirstLineFacts
    <3>2. readBuf = <<Piece(sent[i], FALSE)>>
      <4> DEFINE p == Piece(sent[i], FALSE)
      <4>1. p \in Pieces /\ readBuf[1] = p
        BY <1>5, <1>7, PieceFacts
      <4> HIDE DEF p
      <4>2. <<p>> \in Seq(Pieces) /\ Len(<<p>>) = 1 /\ <<p>>[1] = p
        BY <4>1, ShortFacts
      <4>3. \A k \in 1..Len(readBuf) : readBuf[k] = <<p>>[k]
        BY <2>4, <4>1, <4>2
      <4>4. readBuf = <<p>>
        BY <1>1, <2>4, <4>2, <4>3, SeqEqual
      <4> QED
        BY <4>4 DEF p
    <3> QED
      BY <2>1, <2>3, <3>1, <3>2
  <2>5. CASE Len(readBuf) >= 2
    <3>1. 2 \in DOMAIN readBuf
      BY <1>1, <2>5
    <3>2. PICK j \in DOMAIN sent :
            \/ Consumed + 2 = 2 * j - 1 /\ readBuf[2] = Piece(sent[j], FALSE)
            \/ Consumed + 2 = 2 * j /\ readBuf[2] = Piece(sent[j], TRUE)
      BY <1>2, <3>1 DEF Continues
    <3>3. j \in Nat
      BY <1>1
    <3>4. 2 * i # 2 * j - 1 /\ (2 * i = 2 * j => i = j)
      BY <1>5, <3>3
    <3>5. readBuf[2] = Piece(sent[i], TRUE)
      BY <2>1, <3>2, <3>4
    <3>6. FirstLine = 2
      BY <1>1, <1>5, <2>2, <2>5, <3>5, PieceFacts, FirstLineFacts
    <3> QED
      BY <1>7, <2>1, <2>3, <2>5, <3>5, <3>6
  <2>6. Len(readBuf) = 1 \/ Len(readBuf) >= 2
    BY <1>1
  <2> QED
    BY <2>4, <2>5, <2>6, Zenon
<1> QED
  BY <1>4, <1>6, <1>7, Zenon

\* A buffer without a newline holds the first chunk of one line.
LEMMA TakePartKeeps ==
    ASSUME IInv, TakePart
    PROVE  IInv'
<1>1. /\ readBuf # <<>> /\ FirstLine = 0
      /\ line' = line \o readBuf /\ readBuf' = <<>>
      /\ UNCHANGED <<sent, half, pipe, input, output, loopVars>>
  BY DEF TakePart, peerVars
<1>2. PICK i \in DOMAIN sent :
        /\ Consumed + 2 = 2 * i /\ readBuf = <<Piece(sent[i], FALSE)>> /\ line = <<>>
  <2>1. 0 # 1 /\ 0 # 2
    OBVIOUS
  <2> QED
    BY <1>1, <2>1, NextPiece, Zenon
<1>3. i \in Nat /\ sent[i] \in Messages /\ Piece(sent[i], FALSE) \in Pieces
  BY Numbers, PieceFacts
<1>4. line' = <<Piece(sent[i], FALSE)>> /\ line' # <<>>
  BY <1>1, <1>2, <1>3, ConcatEmptySeq DEF IInv, TypeOK
<1>5. /\ PiecesWritten' = PiecesWritten /\ Filled' = Filled
      /\ Consumed' = Consumed + 1 /\ Consumed' = 2 * i - 1 /\ Consumed' = Filled
  <2>1. Len(readBuf) = 1 /\ Len(readBuf') = 0
    BY <1>1, <1>2, EmptySeq
  <2> QED
    BY <1>1, <1>2, <1>3, <2>1, Counters DEF IInv, PiecesWritten, Filled, Consumed
<1>6. Reached = Consumed /\ Reached' = Consumed'
  BY <1>1, <1>4 DEF Reached, Exhausted
<1>7. Reached' \in Int /\ Reached <= Reached'
  BY <1>5, <1>6, Counters DEF IInv
<1>8. Loop' /\ Counted' /\ InOrder'
  BY <1>1, <1>7, LoopRests
<1>9. TypeOK'
  BY <1>1, <1>3, <1>4, EmptySeq DEF IInv, TypeOK, loopVars
<1>10. InSequence'
  <2>1. Continues(readBuf, Consumed)'
    BY <1>1 DEF Continues
  <2>2. Continues(pipe, Filled)'
    BY <1>1, <1>5 DEF IInv, InSequence, Continues
  <2>3. Consumed' \in Nat
    BY <1>3, <1>5, Numbers
  <2>4. \E j \in DOMAIN sent : Consumed' = 2 * j - 1 /\ line' = <<Piece(sent[j], FALSE)>>
    BY <1>4, <1>5
  <2>5. IsInjective(sent) /\ (half # NoMessage => sent # <<>> /\ half = sent[Len(sent)])
    BY DEF IInv, InSequence
  <2> QED
    BY <1>1, <2>1, <2>2, <2>3, <2>4, <2>5 DEF InSequence
<1>11. CutWhereChunked'
  BY <1>1, <1>5 DEF IInv, CutWhereChunked
<1>12. ConsumedAnswered'
  <2>1. \A j \in DOMAIN sent : 2 * j <= Consumed' => 2 * j <= Consumed
    BY <1>2, <1>3, <1>5, Counters DEF IInv
  <2> QED
    BY <1>1, <2>1 DEF IInv, ConsumedAnswered, Answered, Held, loopVars
<1> QED
  BY <1>8, <1>9, <1>10, <1>11, <1>12 DEF IInv

\* Server::run takes line number i, whole or what is left of it, in its hands;
\* the responses written so far were to earlier ones.
LEMMA LineHandled ==
    ASSUME IInv, server = "polling", NEW i \in DOMAIN sent, NEW bytes,
           bytes = WholeLine(sent[i]) \/ \E p \in Pieces : bytes = <<p>>,
           HandleLine(bytes),
           Reached <= 2 * i - 1, 2 * i <= Reached', Reached' \in Int,
           UNCHANGED <<sent, input, written>>
    PROVE  /\ server' \in {"polling", "serving", "writing"}
           /\ current' \in Messages \cup {NoMessage} /\ response' \in Replies
           /\ Loop' /\ Counted' /\ InOrder'
           /\ bytes = WholeLine(sent[i]) /\ Form[sent[i]] = "request" => Held(sent[i])'
<1>1. /\ Reached \in Int /\ Len(written) \in Nat /\ Busy = 0 /\ Busy' \in {0, 1}
      /\ \A j \in DOMAIN sent : j \in Nat /\ sent[j] \in Messages
  BY Counters, Numbers DEF IInv, Busy
<1>2. \A j \in DOMAIN sent : sent[j] = sent[i] => j = i
  BY Numbers
<1>3. \A n \in DOMAIN written, j \in DOMAIN sent :
        written[n] = Answer(sent[j]) => j < i /\ 2 * j <= Reached'
  <2>1. \A j \in DOMAIN sent : 2 * j <= Reached => j < i /\ 2 * j <= Reached'
    BY <1>1
  <2> QED
    BY <2>1 DEF IInv, InOrder
<1>4. Counted'
  <2>1. input # "broken" => 2 * (Len(written) + Busy') <= Reached'
    BY <1>1 DEF IInv, Counted
  <2> QED
    BY <2>1 DEF Counted
<1>5. \A m \in Messages : bytes = WholeLine(m) => m = sent[i]
  BY <1>1, WholeLineFacts
<1>6. \/ /\ bytes = WholeLine(sent[i]) /\ Form[sent[i]] = "request"
         /\ server' = "serving" /\ current' = sent[i] /\ response' = response
      \/ /\ bytes = WholeLine(sent[i]) => Form[sent[i]] # "request"
         /\ server' = "polling" /\ current' = current /\ response' = response
      \/ /\ bytes = WholeLine(sent[i]) => Form[sent[i]] # "request"
         /\ server' = "writing" /\ current' = current /\ response' = LineError
  BY <1>1, <1>5 DEF HandleLine
<1>7. current = NoMessage /\ sent[i] # NoMessage /\ sent[i] \in Range(sent)
  BY <1>1, ServerAssumption DEF IInv, TypeOK, Loop, Range
<1>8. Loop'
  BY <1>6, <1>7 DEF Loop
<1>9. \A j \in DOMAIN sent : Held(sent[j])' => j = i
  BY <1>1, <1>2, <1>6, ReplyFacts DEF Held
<1>10. InOrder'
  BY <1>3, <1>9 DEF IInv, InOrder
<1>11. /\ server' \in {"polling", "serving", "writing"}
       /\ current' \in Messages \cup {NoMessage} /\ response' \in Replies
  BY <1>1, <1>6, ReplyFacts DEF IInv, TypeOK
<1> QED
  BY <1>4, <1>6, <1>8, <1>10, <1>11 DEF Held

\* A line leaves the buffer and is handled.
LEMMA TakeLineKeeps ==
    ASSUME IInv, TakeLine
    PROVE  IInv'
<1> DEFINE bytes == line \o SubSeq(readBuf, 1, FirstLine)
<1>1. /\ server = "polling" /\ FirstLine > 0 /\ HandleLine(bytes) /\ line' = <<>>
      /\ readBuf' = SubSeq(readBuf, FirstLine + 1, Len(readBuf))
      /\ UNCHANGED <<sent, half, pipe, input, output, written>>
  BY DEF TakeLine, peerVars
<1> HIDE DEF bytes
<1>2. readBuf # <<>>
  BY <1>1, FirstLineFacts DEF IInv, TypeOK
<1>3. PICK i \in DOMAIN sent :
        \/ /\ Consumed = 2 * i - 1 /\ FirstLine = 1
           /\ readBuf[1] = Piece(sent[i], TRUE)
           /\ line \in {<<>>, <<Piece(sent[i], FALSE)>>}
        \/ /\ Consumed + 2 = 2 * i /\ FirstLine = 2 /\ Len(readBuf) >= 2
           /\ readBuf[1] = Piece(sent[i], FALSE) /\ readBuf[2] = Piece(sent[i], TRUE)
           /\ line = <<>>
  <2>1. FirstLine # 0
    BY <1>1
  <2> QED
    BY <1>2, <2>1, NextPiece, Zenon
<1>4. /\ i \in Nat /\ sent[i] \in Messages /\ readBuf \in Seq(Pieces)
      /\ Len(readBuf) \in Nat /\ Len(readBuf) >= 1 /\ DOMAIN readBuf = 1..Len(readBuf)
      /\ FirstLine \in 1..Len(readBuf) /\ Consumed \in Nat
  <2>1. readBuf \in Seq(Pieces) /\ Len(readBuf) \in Nat /\ DOMAIN readBuf = 1..Len(readBuf)
    BY Counters DEF IInv, TypeOK
  <2>2. Len(readBuf) >= 1
    BY <1>2, <2>1, EmptySeq
  <2>3. FirstLine \in 1..Len(readBuf)
    <3>1. CASE FirstLine = 1
      BY <2>1, <2>2, <3>1
    <3>2. CASE FirstLine = 2 /\ Len(readBuf) >= 2
      BY <2>1, <3>2
    <3> QED
      BY <1>3, <3>1, <3>2, Zenon
  <2> QED
    BY <2>1, <2>2, <2>3, Numbers
<1>5. /\ readBuf' \in Seq(Pieces) /\ Len(readBuf') = Len(readBuf) - FirstLine
      /\ DOMAIN readBuf' = 1..(Len(readBuf) - FirstLine)
      /\ \A k \in DOMAIN readBuf' :
          FirstLine + k \in DOMAIN readBuf /\ readBuf'[k] = readBuf[FirstLine + k]
  BY <1>1, <1>4, RestPlaces
<1>6. \/ bytes = WholeLine(sent[i])
      \/ sent[i] \in Chunked /\ \E p \in Pieces : bytes = <<p>>
  <2> DEFINE p == Piece(sent[i], FALSE)
             q == Piece(sent[i], TRUE)
  <2>1. p \in Pieces /\ q \in Pieces
    BY <1>4, PieceFacts
  <2>2. WholeLine(sent[i]) = <<p, q>>
    BY DEF WholeLine
  <2>3. CASE FirstLine = 1 /\ readBuf[1] = q /\ line = <<p>>
    <3>1. readBuf \in Seq(Pieces) /\ Len(readBuf) >= 1 /\ readBuf[1] = q
      BY <1>4, <2>3
    <3>2. bytes = <<p>> \o SubSeq(readBuf, 1, 1)
      BY <2>3 DEF bytes
    <3> HIDE DEF p, q
    <3>3. <<p>> \o SubSeq(readBuf, 1, 1) = <<p, q>>
      BY <2>1, <3>1, FirstPlaces, ZenonT(30)
    <3> QED
      BY <2>2, <3>2, <3>3
  <2>4. CASE Consumed = 2 * i - 1 /\ FirstLine = 1 /\ readBuf[1] = q /\ line = <<>>
    <3>1. sent[i] \in Chunked
      BY <2>4 DEF IInv, CutWhereChunked
    <3>2. bytes = <<q>>
      <4>1. readBuf \in Seq(Pieces) /\ Len(readBuf) >= 1 /\ readBuf[1] = q
        BY <1>4, <2>4
      <4>2. bytes = <<>> \o SubSeq(readBuf, 1, 1)
        BY <2>4 DEF bytes
      <4> HIDE DEF p, q
      <4>3. <<>> \o SubSeq(readBuf, 1, 1) = <<q>>
        BY <2>1, <4>1, FirstPlaces, ZenonT(30)
      <4> QED
        BY <4>2, <4>3
    <3> QED
      BY <2>1, <3>1, <3>2
  <2>5. CASE FirstLine = 2 /\ Len(readBuf) >= 2 /\ readBuf[1] = p /\ readBuf[2] = q /\ line = <<>>
    <3>1. <<>> \o SubSeq(readBuf, 1, 2) = <<p, q>>
      <4>1. readBuf \in Seq(Pieces) /\ Len(readBuf) >= 2 /\ readBuf[1] = p /\ readBuf[2] = q
        BY <1>4, <2>5
      <4> HIDE DEF p, q
      <4> QED
        BY <2>1, <4>1, FirstPlaces, ZenonT(30)
    <3> QED
      BY <2>2, <2>5, <3>1 DEF bytes
  <2> QED
    BY <1>3, <2>3, <2>4, <2>5
<1>7. /\ PiecesWritten' = PiecesWritten /\ Filled' = Filled
      /\ Consumed' = Consumed + FirstLine /\ Consumed' = 2 * i /\ Consumed <= 2 * i - 1
  <2>1. PiecesWritten' = PiecesWritten /\ Filled' = Filled
    BY <1>1 DEF PiecesWritten, Filled
  <2>2. Consumed' = Consumed + FirstLine
    <3>1. Filled \in Int /\ FirstLine \in Int
      BY <1>4, Counters DEF IInv
    <3> QED
      BY <1>4, <1>5, <2>1, <3>1 DEF Consumed
  <2>3. CASE Consumed = 2 * i - 1 /\ FirstLine = 1
    BY <1>4, <2>1, <2>2, <2>3
  <2>4. CASE Consumed + 2 = 2 * i /\ FirstLine = 2
    BY <1>4, <2>1, <2>2, <2>4
  <2> QED
    BY <1>3, <2>3, <2>4, Zenon
<1>8. Reached = Consumed /\ Reached <= 2 * i - 1
  <2>1. Reached = Consumed
    BY <1>2 DEF Reached, Exhausted
  <2> QED
    BY <1>7, <2>1
<1>9. Reached' \in Int /\ 2 * i <= Reached'
  <2>1. Reached' \in {Consumed', 2 * Len(sent)}
    BY <1>1 DEF Reached, Exhausted
  <2> QED
    BY <1>4, <1>7, <2>1, Counters DEF IInv
<1>10. /\ server' \in {"polling", "serving", "writing"}
       /\ current' \in Messages \cup {NoMessage} /\ response' \in Replies
       /\ Loop' /\ Counted' /\ InOrder'
       /\ bytes = WholeLine(sent[i]) /\ Form[sent[i]] = "request" => Held(sent[i])'
  BY <1>1, <1>6, <1>8, <1>9, LineHandled
<1>11. TypeOK'
  BY <1>1, <1>5, <1>10 DEF IInv, TypeOK
<1>12. InSequence'
  <2>1. ASSUME NEW k \in DOMAIN readBuf'
        PROVE  \E j \in DOMAIN sent :
                  \/ Consumed' + k = 2 * j - 1 /\ readBuf'[k] = Piece(sent[j], FALSE)
                  \/ Consumed' + k = 2 * j /\ readBuf'[k] = Piece(sent[j], TRUE)
    <3>1. /\ FirstLine + k \in DOMAIN readBuf /\ readBuf'[k] = readBuf[FirstLine + k]
          /\ Consumed + (FirstLine + k) = Consumed' + k
      BY <1>4, <1>5, <1>7, <2>1
    <3> QED
      BY <3>1 DEF IInv, InSequence, Continues
  <2>2. Continues(readBuf, Consumed)'
    BY <1>1, <2>1 DEF Continues
  <2>3. Continues(pipe, Filled)'
    BY <1>1, <1>7 DEF IInv, InSequence, Continues
  <2>4. Consumed' \in Nat
    BY <1>4, <1>7 DEF IInv, InSequence
  <2> QED
    BY <1>1, <2>2, <2>3, <2>4 DEF IInv, InSequence
<1>13. CutWhereChunked'
  <2>1. ASSUME NEW j \in DOMAIN sent
        PROVE  2 * j - 1 # Consumed'
    <3>1. j \in Nat
      BY Numbers
    <3>2. 2 * j - 1 # 2 * i
      BY <1>4, <3>1
    <3> QED
      BY <1>7, <3>2
  <2> QED
    BY <1>1, <1>7, <2>1 DEF IInv, CutWhereChunked
<1>14. ConsumedAnswered'
  <2>1. ASSUME NEW j \in DOMAIN sent, 2 * j <= Consumed', sent[j] \notin Chunked,
               Form[sent[j]] = "request"
        PROVE  Answered(sent[j]) \/ Held(sent[j])'
    <3>1. CASE j = i
      BY <1>6, <1>10, <2>1, <3>1
    <3>2. CASE j # i
      <4>1. j \in Nat /\ 2 * j <= 2 * i
        BY <1>7, <2>1, Numbers
      <4>2. 2 * j + 2 <= 2 * i
        BY <1>4, <3>2, <4>1
      <4>3. Consumed = 2 * i - 1 \/ Consumed + 2 = 2 * i
        BY <1>3
      <4>4. 2 * j <= Consumed
        BY <1>4, <4>1, <4>2, <4>3
      <4> QED
        BY <1>1, <2>1, <4>4 DEF IInv, ConsumedAnswered, Held
    <3> QED
      BY <3>1, <3>2
  <2> QED
    BY <1>1, <2>1 DEF ConsumedAnswered, Answered
<1> QED
  BY <1>10, <1>11, <1>12, <1>13, <1>14 DEF IInv

\* A last line without its newline is handled, as it is or as what was meant.
LEMMA TakeLastPartKeeps ==
    ASSUME IInv, TakeLastPart
    PROVE  IInv'
<1>1. /\ server = "polling" /\ readBuf = <<>> /\ pipe = <<>> /\ input = "closed"
      /\ line # <<>> /\ line' = <<>>
      /\ HandleLine(line) \/ HandleLine(WholeLine(line[1].of))
      /\ UNCHANGED <<sent, half, pipe, input, output, readBuf, written>>
  BY DEF TakeLastPart, EndOfInput, Starved, peerVars
<1>2. PICK i \in DOMAIN sent : Consumed = 2 * i - 1 /\ line = <<Piece(sent[i], FALSE)>>
  BY <1>1 DEF IInv, InSequence
<1>3. /\ i \in Nat /\ i <= Len(sent) /\ sent[i] \in Messages /\ Len(sent) \in Nat
      /\ Piece(sent[i], FALSE) \in Pieces /\ line[1].of = sent[i]
  <2>1. i \in Nat /\ i <= Len(sent) /\ sent[i] \in Messages /\ Len(sent) \in Nat
    BY Numbers, Counters DEF IInv
  <2>2. line[1] = Piece(sent[i], FALSE)
    BY <1>2
  <2> QED
    BY <2>1, <2>2, PieceFacts
<1>4. PiecesWritten' = PiecesWritten /\ Filled' = Filled /\ Consumed' = Consumed
  BY <1>1 DEF PiecesWritten, Filled, Consumed
<1>5. /\ Reached = Consumed /\ Reached <= 2 * i - 1
      /\ Reached' = 2 * Len(sent) /\ 2 * i <= Reached' /\ Reached' \in Int
  <2>1. Reached = Consumed /\ Reached' = 2 * Len(sent)
    BY <1>1 DEF Reached, Exhausted
  <2>2. 2 * i <= 2 * Len(sent) /\ 2 * Len(sent) \in Int
    BY <1>3
  <2>3. Consumed <= 2 * i - 1
    BY <1>2, <1>3
  <2> QED
    BY <2>1, <2>2, <2>3
<1>6. /\ server' \in {"polling", "serving", "writing"}
      /\ current' \in Messages \cup {NoMessage} /\ response' \in Replies
      /\ Loop' /\ Counted' /\ InOrder'
  <2>1. CASE HandleLine(line)
    BY <1>1, <1>2, <1>3, <1>5, <2>1, LineHandled
  <2>2. CASE HandleLine(WholeLine(line[1].of))
    BY <1>1, <1>3, <1>5, <2>2, LineHandled
  <2> QED
    BY <1>1, <2>1, <2>2
<1>7. TypeOK'
  BY <1>1, <1>6 DEF IInv, TypeOK
<1>8. InSequence' /\ CutWhereChunked'
  BY <1>1, <1>4 DEF IInv, InSequence, Continues, CutWhereChunked
<1>9. ConsumedAnswered'
  BY <1>1, <1>4 DEF IInv, ConsumedAnswered, Answered, Held
<1> QED
  BY <1>6, <1>7, <1>8, <1>9 DEF IInv

\* The loop ends with nothing in hand.
LEMMA FinishKeeps ==
    ASSUME IInv, Finish
    PROVE  IInv'
<1>1. /\ server = "polling" /\ server' = "ended"
      /\ UNCHANGED <<sent, half, pipe, input, output, readBuf, line, current, response, written>>
  BY DEF Finish, EndOfInput, Starved, peerVars, readerVars
<1>2. PiecesWritten' = PiecesWritten /\ Filled' = Filled /\ Consumed' = Consumed
  BY <1>1 DEF PiecesWritten, Filled, Consumed
<1>3. Reached' = Reached
  BY <1>1, <1>2 DEF Reached, Exhausted
<1>4. TypeOK' /\ Loop' /\ Counted'
  BY <1>1, <1>3 DEF IInv, TypeOK, Loop, Counted, Busy
<1>5. InSequence' /\ CutWhereChunked'
  BY <1>1, <1>2 DEF IInv, InSequence, Continues, CutWhereChunked
<1>6. InOrder' /\ ConsumedAnswered'
  BY <1>1, <1>2, <1>3 DEF IInv, InOrder, ConsumedAnswered, Answered, Held
<1> QED
  BY <1>4, <1>5, <1>6 DEF IInv

\* An error of a broken input is nobody's response.
LEMMA ReadFailsKeeps ==
    ASSUME IInv, ReadFails
    PROVE  IInv'
<1>1. /\ server = "polling" /\ input = "broken"
      /\ line' = <<>> /\ server' = "writing" /\ response' = LineError
      /\ UNCHANGED <<sent, half, pipe, input, output, readBuf, current, written>>
  BY DEF ReadFails, Starved, peerVars
<1>2. PiecesWritten' = PiecesWritten /\ Filled' = Filled /\ Consumed' = Consumed
  BY <1>1 DEF PiecesWritten, Filled, Consumed
<1>3. Reached' = Reached
  BY <1>1, <1>2 DEF Reached, Exhausted
<1>4. TypeOK' /\ Loop' /\ Counted'
  BY <1>1, ReplyFacts DEF IInv, TypeOK, Loop, Counted
<1>5. InSequence' /\ CutWhereChunked'
  BY <1>1, <1>2 DEF IInv, InSequence, Continues, CutWhereChunked
<1>6. \A i \in DOMAIN sent : ~Held(sent[i])' /\ ~Held(sent[i])
  BY <1>1, Numbers, ReplyFacts DEF Held
<1>7. InOrder' /\ ConsumedAnswered'
  BY <1>1, <1>2, <1>3, <1>6 DEF IInv, InOrder, ConsumedAnswered, Answered
<1> QED
  BY <1>4, <1>5, <1>7 DEF IInv

\* The request in hand becomes the response in hand.
LEMMA ServiceAnswersKeeps ==
    ASSUME IInv, ServiceAnswers
    PROVE  IInv'
<1>1. /\ server = "serving" /\ server' = "writing"
      /\ response' = Answer(current) /\ current' = NoMessage
      /\ UNCHANGED <<sent, half, pipe, input, output, readBuf, line, written>>
  BY DEF ServiceAnswers, peerVars, readerVars
<1>2. PiecesWritten' = PiecesWritten /\ Filled' = Filled /\ Consumed' = Consumed
  BY <1>1 DEF PiecesWritten, Filled, Consumed
<1>3. Reached' = Reached
  BY <1>1, <1>2 DEF Reached, Exhausted
<1>4. current \in Range(sent) /\ current \in Messages
  BY <1>1, RangeFacts DEF IInv, Loop, TypeOK
<1>5. TypeOK' /\ Loop' /\ Counted'
  BY <1>1, <1>3, <1>4, ReplyFacts DEF IInv, TypeOK, Loop, Counted, Busy
<1>6. InSequence' /\ CutWhereChunked'
  BY <1>1, <1>2 DEF IInv, InSequence, Continues, CutWhereChunked
<1>7. \A m \in Messages : Held(m)' => Held(m)
  BY <1>1, ReplyFacts DEF Held
<1>8. \A m \in Messages : Held(m) => Held(m)'
  BY <1>1 DEF Held
<1>9. InOrder' /\ ConsumedAnswered'
  BY <1>1, <1>2, <1>3, <1>7, <1>8, Numbers DEF IInv, InOrder, ConsumedAnswered, Answered
<1> QED
  BY <1>5, <1>6, <1>9 DEF IInv

\* The response in hand is written after those to earlier messages.
LEMMA WriteMessageKeeps ==
    ASSUME IInv, WriteMessage
    PROVE  IInv'
<1>1. /\ server = "writing" /\ server' = "polling" /\ written' = Append(written, response)
      /\ UNCHANGED <<sent, half, pipe, input, output, readBuf, line, current, response>>
  BY DEF WriteMessage, peerVars, readerVars
<1>2. PiecesWritten' = PiecesWritten /\ Filled' = Filled /\ Consumed' = Consumed
  BY <1>1 DEF PiecesWritten, Filled, Consumed
<1>3. Reached' = Reached
  BY <1>1, <1>2 DEF Reached, Exhausted
<1>4. /\ written' \in Seq(Replies) /\ Len(written') = Len(written) + 1
      /\ \A n \in DOMAIN written : n \in DOMAIN written' /\ written'[n] = written[n]
      /\ written'[Len(written) + 1] = response
      /\ \A n \in DOMAIN written' : n \in DOMAIN written \/ n = Len(written) + 1
      /\ Range(written') = Range(written) \cup {response}
  BY <1>1, AppendPlaces, AppendFacts DEF IInv, TypeOK
<1>5. TypeOK' /\ Loop'
  BY <1>1, <1>4 DEF IInv, TypeOK, Loop
<1>6. Counted'
  BY <1>1, <1>3, <1>4, Counters, Numbers DEF IInv, Counted, Busy
<1>7. InSequence' /\ CutWhereChunked'
  BY <1>1, <1>2 DEF IInv, InSequence, Continues, CutWhereChunked
<1>8. \A i \in DOMAIN sent : response = Answer(sent[i]) <=> Held(sent[i])
  BY <1>1 DEF Held
<1>9. InOrder'
  <2>1. \A n \in DOMAIN written' : written'[n] # LineError =>
          \E i \in DOMAIN sent : written'[n] = Answer(sent[i])
    <3>1. response # LineError => \E i \in DOMAIN sent : response = Answer(sent[i])
      BY <1>1 DEF IInv, Loop, Range
    <3> QED
      BY <1>4, <3>1 DEF IInv, InOrder
  <2>2. \A n \in DOMAIN written', i \in DOMAIN sent :
          written'[n] = Answer(sent[i]) => 2 * i <= Reached
    BY <1>4, <1>8 DEF IInv, InOrder
  <2>3. ASSUME NEW n \in DOMAIN written', NEW o \in DOMAIN written',
               NEW i \in DOMAIN sent, NEW j \in DOMAIN sent,
               n < o, written'[n] = Answer(sent[i]), written'[o] = Answer(sent[j])
        PROVE  i < j
    <3>1. n \in DOMAIN written
      <4>1. \A k \in DOMAIN written : k < Len(written) + 1
        BY Counters DEF IInv
      <4>2. Len(written) + 1 \in Nat /\ \A k \in DOMAIN written : k \in Nat
        BY Counters DEF IInv
      <4> QED
        BY <1>4, <2>3, <4>1, <4>2
    <3>2. CASE o \in DOMAIN written
      BY <1>4, <2>3, <3>1, <3>2 DEF IInv, InOrder
    <3>3. CASE o = Len(written) + 1
      BY <1>4, <1>8, <2>3, <3>1, <3>3 DEF IInv, InOrder
    <3> QED
      BY <1>4, <3>2, <3>3
  <2>4. \A i \in DOMAIN sent : ~Held(sent[i])'
    BY <1>1 DEF Held
  <2> QED
    BY <1>1, <1>3, <2>1, <2>2, <2>3, <2>4 DEF InOrder
<1>10. ConsumedAnswered'
  <2>1. \A i \in DOMAIN sent : Answered(sent[i]) \/ Held(sent[i]) => Answered(sent[i])'
    BY <1>1, <1>4, <1>8 DEF Answered
  <2> QED
    BY <1>1, <1>2, <2>1 DEF IInv, ConsumedAnswered
<1> QED
  BY <1>5, <1>6, <1>7, <1>9, <1>10 DEF IInv

\* The response in hand is lost, and the loop is over.
LEMMA WriteFailsKeeps ==
    ASSUME IInv, WriteFails
    PROVE  IInv'
<1>1. /\ server = "writing" /\ server' = "failed"
      /\ UNCHANGED <<sent, half, pipe, input, output, readBuf, line, current, response, written>>
  BY DEF WriteFails, peerVars, readerVars
<1>2. PiecesWritten' = PiecesWritten /\ Filled' = Filled /\ Consumed' = Consumed
  BY <1>1 DEF PiecesWritten, Filled, Consumed
<1>3. Reached' = Reached
  BY <1>1, <1>2 DEF Reached, Exhausted
<1>4. TypeOK' /\ Loop'
  BY <1>1 DEF IInv, TypeOK, Loop
<1>5. Counted'
  BY <1>1, <1>3, Counters, Numbers DEF IInv, Counted, Busy
<1>6. InSequence' /\ CutWhereChunked'
  BY <1>1, <1>2 DEF IInv, InSequence, Continues, CutWhereChunked
<1>7. InOrder' /\ ConsumedAnswered'
  BY <1>1, <1>2, <1>3 DEF IInv, InOrder, ConsumedAnswered, Answered, Held
<1> QED
  BY <1>4, <1>5, <1>6, <1>7 DEF IInv

-----------------------------------------------------------------------------
(* The invariant and what follows from it. *)

\* Nothing is written, read or answered at first.
LEMMA InitHolds == Init => IInv
<1> SUFFICES ASSUME Init PROVE IInv
  OBVIOUS
<1> USE DEF Init
<1>1. TypeOK
  BY EmptySeq, ReplyFacts DEF TypeOK
<1>2. Len(sent) = 0 /\ DOMAIN sent = {} /\ Len(written) = 0 /\ DOMAIN written = {}
  BY EmptySeq
<1>3. PiecesWritten = 0 /\ Filled = 0 /\ Consumed = 0
  BY <1>2, EmptySeq DEF PiecesWritten, Filled, Consumed
<1>4. Reached = 0
  BY <1>3 DEF Reached, Exhausted
<1>5. InSequence
  BY <1>3, EmptyFacts DEF InSequence, Continues
<1>6. CutWhereChunked /\ Loop /\ InOrder /\ ConsumedAnswered
  BY <1>2, ServerAssumption DEF CutWhereChunked, Loop, InOrder, ConsumedAnswered
<1>7. Counted
  BY <1>2, <1>4 DEF Counted, Busy
<1> QED
  BY <1>1, <1>5, <1>6, <1>7 DEF IInv

\* A step that changes nothing keeps everything.
LEMMA StutterKeeps ==
    ASSUME IInv, UNCHANGED vars
    PROVE  IInv'
<1> USE DEF vars, peerVars, readerVars, loopVars
<1>1. PiecesWritten' = PiecesWritten /\ Filled' = Filled /\ Consumed' = Consumed
  BY DEF PiecesWritten, Filled, Consumed
<1>2. Reached' = Reached
  BY <1>1 DEF Reached, Exhausted
<1>3. TypeOK' /\ Loop' /\ Counted'
  BY <1>2 DEF IInv, TypeOK, Loop, Counted, Busy
<1>4. InSequence' /\ CutWhereChunked'
  BY <1>1 DEF IInv, InSequence, Continues, CutWhereChunked
<1>5. InOrder' /\ ConsumedAnswered'
  BY <1>1, <1>2 DEF IInv, InOrder, ConsumedAnswered, Answered, Held
<1> QED
  BY <1>3, <1>4, <1>5 DEF IInv

\* The order of the lines survives from the peer through the pipe, the buffer,
\* the service and the output (lib.rs:40-75, 146-204).
THEOREM Invariance == Spec => []IInv
<1>1. Init => IInv
  BY InitHolds
<1>2. IInv /\ [Next]_vars => IInv'
  <2> SUFFICES ASSUME IInv, [Next]_vars
               PROVE  IInv'
    OBVIOUS
  <2>1. CASE Peer
    BY <2>1, PeerWritesKeeps, PeerWritesFirstChunkKeeps, PeerWritesRestKeeps,
       InputEndsKeeps, OutputClosesKeeps DEF Peer
  <2>2. CASE Server
    BY <2>2, FillBufferKeeps, PollPendingKeeps, TakeLineKeeps, TakePartKeeps,
       TakeLastPartKeeps, FinishKeeps, ReadFailsKeeps, ServiceAnswersKeeps,
       WriteMessageKeeps, WriteFailsKeeps DEF Server
  <2>3. CASE UNCHANGED vars
    BY <2>3, StutterKeeps
  <2> QED
    BY <2>1, <2>2, <2>3 DEF Next
<1> QED
  BY <1>1, <1>2, PTL DEF Spec

\* buf never holds more than the first chunk of one line.
THEOREM TypeCorrect == Spec => []TypeOK
<1>1. IInv => TypeOK
  BY DEF IInv
<1> QED
  BY <1>1, Invariance, PTL

\* Place gives back the number of a message.
LEMMA PlaceFacts ==
    ASSUME IInv
    PROVE  \A i \in DOMAIN sent : Place(sent[i]) = i
<1> TAKE i \in DOMAIN sent
<1> DEFINE I == {j \in 1..Len(sent) : sent[j] = sent[i]}
<1>1. Place(sent[i]) = IF I # {} THEN Min(I) ELSE 0
  BY DEF Place, SelectInSeq
<1>2. i \in I /\ I \in SUBSET Nat /\ \A j \in I : i <= j
  <2>1. Len(sent) \in Nat /\ DOMAIN sent = 1..Len(sent)
    BY Counters DEF IInv
  <2>2. \A j \in 1..Len(sent) : sent[j] = sent[i] => j = i
    BY <2>1, Numbers
  <2> QED
    BY <2>1, <2>2
<1>3. Min(I) = i
  BY ONLY <1>2, MinFacts
<1> QED
  BY <1>1, <1>2, <1>3

\* A line yields at most one line in return, and responses leave in the order of
\* the requests, none twice (AnswersInOrder).
THEOREM AnswersLeaveInOrder == Spec => []AnswersInOrder
<1>1. ASSUME IInv
      PROVE  AnswersInOrder
  <2>1. input # "broken" => Len(written) <= Len(sent)
    <3>1. Reached <= 2 * Len(sent)
      BY <1>1, Counters, Numbers DEF IInv, Reached
    <3> QED
      BY <1>1, <3>1, Counters, Numbers DEF IInv, Counted
  <2>2. ASSUME NEW n \in DOMAIN written, written[n].tag = "response"
        PROVE  \E i \in DOMAIN sent : written[n] = Answer(sent[i]) /\ Place(written[n].to) = i /\ 0 < i
    <3>1. PICK i \in DOMAIN sent : written[n] = Answer(sent[i])
      BY <1>1, <2>2, ReplyFacts DEF IInv, InOrder
    <3>2. Place(written[n].to) = i
      BY <1>1, <3>1, ReplyFacts, PlaceFacts
    <3>3. 0 < i
      BY <1>1, Numbers
    <3> QED
      BY <3>1, <3>2, <3>3
  <2>3. ASSUME NEW n \in DOMAIN written, NEW o \in DOMAIN written,
               n < o, written[n].tag = "response", written[o].tag = "response"
        PROVE  0 < Place(written[n].to) /\ Place(written[n].to) < Place(written[o].to)
    BY <1>1, <2>2, <2>3 DEF IInv, InOrder
  <2> QED
    BY <2>1, <2>3 DEF AnswersInOrder
<1> QED
  BY <1>1, Invariance, PTL

\* When the server waits for input, every request that came in one chunk has its
\* response (WholeRequestsAnswered).
THEOREM NoRequestIsForgotten == Spec => []WholeRequestsAnswered
<1>1. ASSUME IInv
      PROVE  WholeRequestsAnswered
  <2> SUFFICES ASSUME Starved, pipe = <<>>, NEW m \in Range(sent) \ Chunked,
                      Form[m] = "request"
               PROVE  Answered(m)
    BY DEF WholeRequestsAnswered
  <2>1. PICK i \in DOMAIN sent : m = sent[i]
    BY DEF Range
  <2>2. Consumed = PiecesWritten /\ server = "polling"
    <3>1. Len(pipe) = 0 /\ Len(readBuf) = 0 /\ PiecesWritten \in Int /\ server = "polling"
      BY <1>1, Counters DEF IInv, Starved
    <3> QED
      BY <3>1 DEF Consumed, Filled
  <2>3. 2 * i <= Consumed
    <3>1. i \in Nat /\ i <= Len(sent) /\ Len(sent) \in Nat
      BY <1>1, Numbers, Counters DEF IInv
    <3>2. CASE half = NoMessage
      BY <2>2, <3>1, <3>2 DEF PiecesWritten
    <3>3. CASE half # NoMessage
      <4>1. PiecesWritten = 2 * Len(sent) - 1
        BY <3>1, <3>3 DEF PiecesWritten
      <4>2. i # Len(sent)
        BY <1>1, <2>1, <4>1 DEF IInv, CutWhereChunked
      <4> QED
        BY <2>2, <3>1, <4>1, <4>2
    <3> QED
      BY <3>2, <3>3
  <2> QED
    BY <1>1, <2>1, <2>2, <2>3 DEF IInv, ConsumedAnswered, Held
<1> QED
  BY <1>1, Invariance, PTL

=============================================================================
