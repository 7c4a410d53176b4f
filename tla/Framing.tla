------------------------------- MODULE Framing -------------------------------
(***************************************************************************)
(* How messages of the DF application survive UDP (delay-forward.cc): every *)
(* message is sent as two datagrams, its JSON text and the delimiter "#",  *)
(* and HandleRead appends what arrives to a buffer kept for each sender    *)
(* address, cuts the buffer at delimiters and parses the pieces.           *)
(*                                                                         *)
(* One stream, from one socket of a sender to one receiver.  A JSON text   *)
(* contains no delimiter and is the number of its message; a text glued    *)
(* from two of them, or the empty text, is not a JSON object.  The link    *)
(* keeps the order of datagrams and may lose any of them.                  *)
(***************************************************************************)
EXTENDS Integers, Sequences, SequencesExt

CONSTANTS MaxSent,   \* bound on the number of messages
          Delimiter

ASSUME FramingAssumption == MaxSent \in Nat /\ Delimiter \notin Nat

VARIABLES
    sent,      \* number of messages sent
    channel,   \* datagrams on their way
    buffered,  \* m_bufferedData[from]: texts received since the last delimiter
    delivered, \* messages handed to their handler
    arrived    \* history: datagrams that arrived

vars == <<sent, channel, buffered, delivered, arrived>>

Init ==
    /\ sent = 0
    /\ channel = <<>>
    /\ buffered = <<>>
    /\ delivered = <<>>
    /\ arrived = <<>>

\* What every sender does: Send of the text, then Send of the delimiter.
Datagrams(m) == <<m, Delimiter>>

Send ==
    /\ sent < MaxSent
    /\ sent' = sent + 1
    /\ channel' = channel \o Datagrams(sent + 1)
    /\ UNCHANGED <<buffered, delivered, arrived>>

Lose(i) ==
    /\ channel' = RemoveAt(channel, i)
    /\ UNCHANGED <<sent, buffered, delivered, arrived>>

-----------------------------------------------------------------------------
\* Mutant: a piece that starts with an object counts as one.
StartsWithObject(texts) == texts # <<>>

\* d.IsObject() of the piece up to the delimiter.
IsObject(texts) == Len(texts) = 1

\* Mutant: the piece is not erased.
KeepPiece(texts) == texts

\* The buffer after a delimiter: the piece is erased, whether it was parsed or not.
ErasePiece(texts) == <<>>

HandleText ==
    /\ Head(channel) # Delimiter
    /\ buffered' = Append(buffered, Head(channel))
    /\ UNCHANGED delivered

HandleDelimiter ==
    /\ Head(channel) = Delimiter
    /\ delivered' = IF IsObject(buffered) THEN Append(delivered, Head(buffered))
                                          ELSE delivered
    /\ buffered' = ErasePiece(buffered)

HandleRead ==
    /\ channel # <<>>
    /\ HandleText \/ HandleDelimiter
    /\ channel' = Tail(channel)
    /\ arrived' = Append(arrived, Head(channel))
    /\ UNCHANGED sent

Next == Send \/ HandleRead \/ \E i \in DOMAIN channel : Lose(i)

Spec == Init /\ [][Next]_vars

-----------------------------------------------------------------------------
(* Correctness. *)

Datagram == 1..MaxSent \cup {Delimiter}

TypeOK ==
    /\ sent \in 0..MaxSent
    /\ channel \in Seq(Datagram)
    /\ buffered \in Seq(1..MaxSent)
    /\ delivered \in Seq(1..MaxSent)
    /\ arrived \in Seq(Datagram)

\* Position i of the arrivals holds a text of its own between two delimiters.
Alone(i) ==
    /\ arrived[i] # Delimiter
    /\ i = 1 \/ arrived[i - 1] = Delimiter
    /\ i < Len(arrived) /\ arrived[i + 1] = Delimiter

\* The messages delivered are exactly those whose text arrived alone between two
\* delimiters, whichever delimiters those were.  A lost delimiter costs its own
\* message and, unless the next text is lost as well, the next one; a lost text
\* costs only its message; and nothing is lost after the next delimiter.
DeliveredExactly ==
    ToSet(delivered) = {arrived[i] : i \in {j \in DOMAIN arrived : Alone(j)}}

Link == INSTANCE LossyLink

\* Whatever is lost, the stream delivers messages at most once and in order.
DeliversInOrder == Link!Spec
=============================================================================
