--------------------------- MODULE FramingTheorems ---------------------------
(***************************************************************************)
(* What the framing of messages promises for any number of messages and    *)
(* any losses: exactly the texts that arrive alone are delivered, each     *)
(* once and in order, so that the stream implements LossyLink.             *)
(*                                                                         *)
(* Order is kept because the texts delivered, buffered and on their way    *)
(* are one increasing sequence, from which losses only take away.  What is *)
(* delivered is exact because the buffer is what arrived since the last    *)
(* delimiter.                                                              *)
(***************************************************************************)
EXTENDS Framing, SequenceTheorems, TLAPS

\* Texts and their places.
IsText(x) == x # Delimiter
Increasing(s) ==
    \A i, j \in DOMAIN s : i < j /\ IsText(s[i]) /\ IsText(s[j]) => s[i] < s[j]
AllBefore(s, t) ==
    \A i \in DOMAIN s : \A j \in DOMAIN t :
        IsText(s[i]) /\ IsText(t[j]) => s[i] < t[j]

Types ==
    /\ sent \in 0..MaxSent
    /\ channel \in Seq(1..sent \cup {Delimiter})
    /\ buffered \in Seq(1..sent)
    /\ delivered \in Seq(1..sent)
    /\ arrived \in Seq(1..sent \cup {Delimiter})

InOrder ==
    /\ Increasing(channel) /\ Increasing(buffered)
    /\ AllBefore(delivered, buffered)
    /\ AllBefore(delivered, channel)
    /\ AllBefore(buffered, channel)

\* The position in arrived from which on the buffer holds what came.
Cut == Len(arrived) - Len(buffered)
BufferIsSuffix ==
    /\ Cut \in Nat
    /\ \A i \in 1..Len(buffered) : arrived[Cut + i] = buffered[i]
    /\ Cut > 0 => arrived[Cut] = Delimiter

IInv == Types /\ InOrder /\ BufferIsSuffix /\ DeliveredExactly

-----------------------------------------------------------------------------
(* Sequences with an element appended or taken away. *)

\* A number is not the delimiter.
LEMMA TextsAreNotDelimiters == \A n \in Nat : IsText(n)
BY FramingAssumption DEF IsText

LEMMA AppendFacts ==
    ASSUME NEW S, NEW s \in Seq(S), NEW x \in S
    PROVE  /\ Append(s, x) \in Seq(S)
           /\ Len(Append(s, x)) = Len(s) + 1 /\ Len(s) \in Nat
           /\ DOMAIN Append(s, x) = 1..Len(s) + 1 /\ DOMAIN s = 1..Len(s)
           /\ \A i \in 1..Len(s) : Append(s, x)[i] = s[i]
           /\ Append(s, x)[Len(s) + 1] = x
OBVIOUS

LEMMA TailFacts ==
    ASSUME NEW S, NEW s \in Seq(S), s # <<>>
    PROVE  /\ Head(s) \in S /\ Head(s) = s[1] /\ 1 \in DOMAIN s
           /\ Tail(s) \in Seq(S) /\ Len(s) \in Nat
           /\ \A i \in DOMAIN Tail(s) : i \in Nat /\ i > 0 /\ i + 1 \in DOMAIN s
                                                  /\ Tail(s)[i] = s[i + 1]
<1>1. /\ Head(s) \in S /\ Tail(s) \in Seq(S) /\ Len(Tail(s)) = Len(s) - 1
      /\ \A i \in 1..Len(Tail(s)) : Tail(s)[i] = s[i + 1]
  BY HeadTailProperties
<1>2. Len(s) \in Nat \ {0} /\ DOMAIN s = 1..Len(s)
  BY EmptySeq, LenProperties
<1>3. DOMAIN Tail(s) = 1..Len(s) - 1
  BY <1>1, LenProperties
<1> QED
  BY <1>1, <1>2, <1>3

\* Every element that is left after RemoveAt was there before, in the same order.
LEMMA RemoveAtFacts ==
    ASSUME NEW S, NEW s \in Seq(S), NEW k \in DOMAIN s
    PROVE  /\ RemoveAt(s, k) \in Seq(S)
           /\ \A i \in DOMAIN RemoveAt(s, k) :
                i \in Nat /\ (IF i < k THEN i ELSE i + 1) \in DOMAIN s
                          /\ RemoveAt(s, k)[i] = s[IF i < k THEN i ELSE i + 1]
<1> DEFINE t == SubSeq(s, 1, k - 1)
           u == SubSeq(s, k + 1, Len(s))
<1>1. Len(s) \in Nat /\ k \in 1..Len(s) /\ DOMAIN s = 1..Len(s)
  BY LenProperties
<1>2. \A i \in 1..Len(s) : s[i] \in S
  BY ElementOfSeq
<1>3. /\ t \in Seq(S) /\ Len(t) = k - 1
      /\ \A i \in 1..k - 1 : t[i] = s[i]
  <2>1. 1 \in Int /\ k - 1 \in Int /\ \A i \in 1..k - 1 : s[i] \in S
    BY <1>1, <1>2
  <2>2. /\ t \in Seq(S) /\ Len(t) = IF 1 <= k - 1 THEN k - 1 - 1 + 1 ELSE 0
        /\ \A i \in 1..k - 1 - 1 + 1 : t[i] = s[1 + i - 1]
    BY <2>1, SubSeqProperties
  <2> QED
    BY <1>1, <2>2
<1>4. /\ u \in Seq(S) /\ Len(u) = Len(s) - k
      /\ \A i \in 1..Len(s) - k : u[i] = s[k + i]
  <2>1. k + 1 \in Int /\ Len(s) \in Int /\ \A i \in k + 1..Len(s) : s[i] \in S
    BY <1>1, <1>2
  <2>2. /\ u \in Seq(S) /\ Len(u) = IF k + 1 <= Len(s) THEN Len(s) - (k + 1) + 1 ELSE 0
        /\ \A i \in 1..Len(s) - (k + 1) + 1 : u[i] = s[k + 1 + i - 1]
    BY <2>1, SubSeqProperties
  <2> QED
    BY <1>1, <2>2
<1> HIDE DEF t, u
<1>5. /\ t \o u \in Seq(S) /\ Len(t \o u) = Len(s) - 1
      /\ \A i \in 1..Len(s) - 1 : (t \o u)[i] = IF i <= k - 1 THEN t[i] ELSE u[i - (k - 1)]
  <2>1. /\ t \o u \in Seq(S) /\ Len(t \o u) = Len(t) + Len(u)
        /\ \A i \in 1..Len(t) + Len(u) : (t \o u)[i] = IF i <= Len(t) THEN t[i] ELSE u[i - Len(t)]
    BY <1>3, <1>4, ConcatProperties
  <2>2. Len(t) = k - 1 /\ Len(t) + Len(u) = Len(s) - 1
    BY <1>1, <1>3, <1>4
  <2> QED
    BY <2>1, <2>2
<1>6. \A i \in 1..Len(s) - 1 : (t \o u)[i] = s[IF i < k THEN i ELSE i + 1]
  <2> TAKE i \in 1..Len(s) - 1
  <2>1. CASE i < k
    BY <1>1, <1>3, <1>5, <2>1
  <2>2. CASE ~ i < k
    <3>1. i - (k - 1) \in 1..Len(s) - k /\ k + (i - (k - 1)) = i + 1
      BY <1>1, <2>2
    <3>2. (t \o u)[i] = u[i - (k - 1)]
      BY <1>1, <1>5, <2>2
    <3>3. u[i - (k - 1)] = s[k + (i - (k - 1))]
      BY <1>4, <3>1
    <3> QED
      BY <2>2, <3>1, <3>2, <3>3
  <2> QED
    BY <2>1, <2>2
<1>7. RemoveAt(s, k) = t \o u
  BY DEF RemoveAt, t, u
<1>8. DOMAIN (t \o u) = 1..Len(s) - 1
  BY <1>5, LenProperties
<1>9. \A i \in 1..Len(s) - 1 : (IF i < k THEN i ELSE i + 1) \in 1..Len(s)
  BY <1>1
<1>10. RemoveAt(s, k) \in Seq(S)
  BY <1>5, <1>7
<1>11. ASSUME NEW i \in DOMAIN RemoveAt(s, k)
       PROVE  i \in Nat /\ (IF i < k THEN i ELSE i + 1) \in DOMAIN s
                        /\ RemoveAt(s, k)[i] = s[IF i < k THEN i ELSE i + 1]
  <2>1. i \in 1..Len(s) - 1
    BY <1>7, <1>8, <1>11
  <2>2. i \in Nat
    BY <1>1, <2>1
  <2> QED
    BY <1>1, <1>6, <1>7, <1>9, <2>1, <2>2
<1> QED
  BY <1>10, <1>11

-----------------------------------------------------------------------------
(* The invariant. *)

LEMMA InitInvariant == Init => IInv
<1> SUFFICES ASSUME Init PROVE IInv
  OBVIOUS
<1>1. Types
  BY FramingAssumption, EmptySeq DEF Init, Types
<1>2. /\ DOMAIN channel = {} /\ DOMAIN buffered = {} /\ DOMAIN delivered = {}
      /\ DOMAIN arrived = {} /\ Len(arrived) = 0 /\ Len(buffered) = 0
  BY DEF Init
<1>3. InOrder
  BY <1>2 DEF InOrder, Increasing, AllBefore
<1>4. BufferIsSuffix
  BY <1>2 DEF BufferIsSuffix, Cut
<1>5. DeliveredExactly
  BY <1>2 DEF DeliveredExactly, ToSet
<1> QED
  BY <1>1, <1>3, <1>4, <1>5 DEF IInv

\* The texts of a stream are numbers up to the last one sent.
LEMMA StreamTypes ==
    ASSUME Types
    PROVE  /\ sent \in Nat
           /\ \A i \in DOMAIN channel : IsText(channel[i]) => channel[i] \in 1..sent
           /\ \A i \in DOMAIN buffered : buffered[i] \in 1..sent /\ IsText(buffered[i])
           /\ \A i \in DOMAIN delivered : delivered[i] \in 1..sent /\ IsText(delivered[i])
<1>1. sent \in Nat
  BY FramingAssumption DEF Types
<1>2. \A i \in DOMAIN channel : channel[i] \in 1..sent \cup {Delimiter}
  BY LenProperties, ElementOfSeq DEF Types
<1>3. \A i \in DOMAIN buffered : buffered[i] \in 1..sent
  BY LenProperties, ElementOfSeq DEF Types
<1>4. \A i \in DOMAIN delivered : delivered[i] \in 1..sent
  BY LenProperties, ElementOfSeq DEF Types
<1> QED
  BY <1>1, <1>2, <1>3, <1>4, TextsAreNotDelimiters DEF IsText

\* A new message comes after all texts there are.
LEMMA SendInvariant == ASSUME IInv, Send PROVE IInv'
<1> DEFINE D == 1..sent \cup {Delimiter}
           E == 1..sent + 1 \cup {Delimiter}
           n == Len(channel)
<1>1. sent \in Nat /\ Types /\ sent' = sent + 1 /\ UNCHANGED <<buffered, delivered, arrived>>
  BY StreamTypes DEF IInv, Send
<1>2. /\ channel \in Seq(E) /\ buffered \in Seq(1..sent + 1)
      /\ delivered \in Seq(1..sent + 1) /\ arrived \in Seq(E)
  <2>1. D \subseteq E /\ 1..sent \subseteq 1..sent + 1
    BY <1>1
  <2> QED
    BY <1>1, <2>1, SeqMonotonic DEF Types
<1>3. /\ Datagrams(sent + 1) \in Seq(E) /\ Len(Datagrams(sent + 1)) = 2
      /\ Datagrams(sent + 1)[1] = sent + 1 /\ Datagrams(sent + 1)[2] = Delimiter
  BY <1>1 DEF Datagrams
<1>4. /\ channel' \in Seq(E) /\ Len(channel') = n + 2 /\ n \in Nat
      /\ \A i \in 1..n : channel'[i] = channel[i]
      /\ channel'[n + 1] = sent + 1 /\ channel'[n + 2] = Delimiter
      /\ DOMAIN channel' = 1..n + 2 /\ DOMAIN channel = 1..n
  <2>1. channel' = channel \o Datagrams(sent + 1)
    BY DEF Send
  <2>2. /\ channel' \in Seq(E) /\ Len(channel') = n + Len(Datagrams(sent + 1))
        /\ \A i \in 1..n + Len(Datagrams(sent + 1)) :
              channel'[i] = IF i <= n THEN channel[i] ELSE Datagrams(sent + 1)[i - n]
    BY <1>2, <1>3, <2>1, ConcatProperties
  <2>3. n \in Nat /\ DOMAIN channel = 1..n
    BY <1>2, LenProperties
  <2>4. DOMAIN channel' = 1..n + 2 /\ Len(channel') = n + 2
    BY <1>3, <2>2, <2>3, LenProperties
  <2>5. /\ n + 1 \in 1..n + 2 /\ n + 2 \in 1..n + 2 /\ ~ n + 1 <= n /\ ~ n + 2 <= n
        /\ n + 1 - n = 1 /\ n + 2 - n = 2 /\ \A i \in 1..n : i \in 1..n + 2 /\ i <= n
    BY <2>3
  <2> HIDE DEF n
  <2> QED
    BY <1>3, <2>2, <2>3, <2>4, <2>5
<1>5. Types'
  BY <1>1, <1>2, <1>4, FramingAssumption DEF Send, Types
<1>6. \A i \in DOMAIN channel' :
        IsText(channel'[i]) =>
            \/ i = n + 1 /\ channel'[i] = sent + 1
            \/ i \in DOMAIN channel /\ channel'[i] = channel[i] /\ i < n + 1
  <2> TAKE i \in DOMAIN channel'
  <2>1. i \in 1..n \/ i = n + 1 \/ i = n + 2
    BY <1>4
  <2> QED
    BY <1>4, <2>1 DEF IsText
<1>7. InOrder'
  <2>1. /\ \A i \in DOMAIN channel : IsText(channel[i]) => channel[i] < sent + 1
        /\ \A i \in DOMAIN buffered : buffered[i] < sent + 1
        /\ \A i \in DOMAIN delivered : delivered[i] < sent + 1
    BY <1>1, StreamTypes
  <2>2. Increasing(channel')
    BY <1>4, <1>6, <2>1 DEF IInv, InOrder, Increasing
  <2>3. AllBefore(delivered, channel') /\ AllBefore(buffered, channel')
    BY <1>6, <2>1 DEF IInv, InOrder, AllBefore
  <2> QED
    BY <1>1, <2>2, <2>3 DEF IInv, InOrder
<1> QED
  BY <1>1, <1>5, <1>7 DEF IInv, BufferIsSuffix, Cut, DeliveredExactly, Alone

\* A loss leaves the rest of the stream in order.
LEMMA LoseInvariant == ASSUME IInv, NEW k \in DOMAIN channel, Lose(k) PROVE IInv'
<1>1. channel \in Seq(1..sent \cup {Delimiter}) /\ k \in Nat
  BY LenProperties DEF IInv, Types
<1>2. /\ channel' \in Seq(1..sent \cup {Delimiter})
      /\ \A i \in DOMAIN channel' :
            i \in Nat /\ (IF i < k THEN i ELSE i + 1) \in DOMAIN channel
                      /\ channel'[i] = channel[IF i < k THEN i ELSE i + 1]
  BY <1>1, RemoveAtFacts DEF Lose
<1>3. \A i, j \in DOMAIN channel' :
        i < j => (IF i < k THEN i ELSE i + 1) < (IF j < k THEN j ELSE j + 1)
  BY <1>1, <1>2
<1>4. Increasing(channel')
  BY <1>2, <1>3 DEF IInv, InOrder, Increasing
<1>5. AllBefore(delivered, channel') /\ AllBefore(buffered, channel')
  BY <1>2 DEF IInv, InOrder, AllBefore
<1>6. UNCHANGED <<sent, buffered, delivered, arrived>>
  BY DEF Lose
<1>7. Types'
  BY <1>2, <1>6 DEF IInv, Types
<1>8. InOrder'
  BY <1>4, <1>5, <1>6 DEF IInv, InOrder
<1>9. BufferIsSuffix'
  BY <1>6 DEF IInv, BufferIsSuffix, Cut
<1>10. DeliveredExactly'
  BY <1>6 DEF IInv, DeliveredExactly, Alone
<1> QED
  BY <1>7, <1>8, <1>9, <1>10 DEF IInv

\* What the two ways to handle a datagram have in common.
LEMMA ReadFacts ==
    ASSUME IInv, HandleRead
    PROVE  /\ Head(channel) \in 1..sent \cup {Delimiter} /\ Head(channel) = channel[1]
           /\ 1 \in DOMAIN channel
           /\ channel' \in Seq(1..sent \cup {Delimiter})
           /\ \A i \in DOMAIN channel' :
                i \in Nat /\ i > 0 /\ i + 1 \in DOMAIN channel /\ channel'[i] = channel[i + 1]
           /\ arrived' \in Seq(1..sent \cup {Delimiter})
           /\ Len(arrived') = Len(arrived) + 1 /\ Len(arrived) \in Nat
           /\ DOMAIN arrived' = 1..Len(arrived) + 1 /\ DOMAIN arrived = 1..Len(arrived)
           /\ \A i \in 1..Len(arrived) : arrived'[i] = arrived[i]
           /\ arrived'[Len(arrived) + 1] = Head(channel)
           /\ Increasing(channel') /\ AllBefore(delivered, channel')
<1> DEFINE D == 1..sent \cup {Delimiter}
<1>1. channel \in Seq(D) /\ arrived \in Seq(D) /\ channel # <<>>
  BY DEF IInv, Types, HandleRead
<1>2. channel' = Tail(channel) /\ arrived' = Append(arrived, Head(channel))
  BY DEF HandleRead
<1> HIDE DEF D
<1>3. /\ Head(channel) \in D /\ Head(channel) = channel[1] /\ 1 \in DOMAIN channel
      /\ channel' \in Seq(D)
      /\ \A i \in DOMAIN channel' :
            i \in Nat /\ i > 0 /\ i + 1 \in DOMAIN channel /\ channel'[i] = channel[i + 1]
  BY <1>1, <1>2, TailFacts
<1>4. /\ arrived' \in Seq(D)
      /\ Len(arrived') = Len(arrived) + 1 /\ Len(arrived) \in Nat
      /\ DOMAIN arrived' = 1..Len(arrived) + 1 /\ DOMAIN arrived = 1..Len(arrived)
      /\ \A i \in 1..Len(arrived) : arrived'[i] = arrived[i]
      /\ arrived'[Len(arrived) + 1] = Head(channel)
  BY <1>1, <1>2, <1>3, AppendFacts
<1>5. Increasing(channel')
  <2>1. \A i, j \in DOMAIN channel' : i < j => i + 1 < j + 1
    BY <1>3
  <2> QED
    BY <1>3, <2>1 DEF IInv, InOrder, Increasing
<1>6. AllBefore(delivered, channel')
  BY <1>3 DEF IInv, InOrder, AllBefore
<1> QED
  BY <1>3, <1>4, <1>5, <1>6 DEF D

\* A text moves from the channel to the end of the buffer, and nothing is alone yet.
LEMMA TextInvariant == ASSUME IInv, HandleRead, HandleText PROVE IInv'
<1> DEFINE x == Head(channel)
           b == Len(buffered)
           n == Len(arrived)
<1>1. /\ x \in 1..sent /\ x # Delimiter /\ IsText(x) /\ x = channel[1]
      /\ UNCHANGED <<sent, delivered>> /\ sent \in Nat
  BY ReadFacts, StreamTypes DEF HandleText, HandleRead, IsText, IInv
<1>2. /\ buffered' \in Seq(1..sent) /\ Len(buffered') = b + 1 /\ b \in Nat
      /\ DOMAIN buffered' = 1..b + 1 /\ DOMAIN buffered = 1..b
      /\ \A i \in 1..b : buffered'[i] = buffered[i]
      /\ buffered'[b + 1] = x
  <2>1. buffered' = Append(buffered, x) /\ buffered \in Seq(1..sent)
    BY DEF HandleText, IInv, Types
  <2> HIDE DEF x
  <2> QED
    BY <1>1, <2>1, AppendFacts
<1>3. Types'
  BY <1>1, <1>2, ReadFacts DEF IInv, Types
<1>4. Increasing(buffered')
  <2> SUFFICES ASSUME NEW i \in DOMAIN buffered', NEW j \in DOMAIN buffered', i < j,
                      IsText(buffered'[i]), IsText(buffered'[j])
               PROVE  buffered'[i] < buffered'[j]
    BY DEF Increasing
  <2>1. i \in 1..b /\ (j \in 1..b \/ j = b + 1)
    BY <1>2
  <2>2. CASE j \in 1..b
    BY <1>2, <2>1, <2>2 DEF IInv, InOrder, Increasing
  <2>3. CASE j = b + 1
    BY <1>1, <1>2, <2>1, <2>3, ReadFacts DEF IInv, InOrder, AllBefore
  <2> QED
    BY <2>1, <2>2, <2>3
<1>5. AllBefore(delivered', buffered')
  <2> SUFFICES ASSUME NEW i \in DOMAIN delivered, NEW j \in DOMAIN buffered',
                      IsText(delivered[i]), IsText(buffered'[j])
               PROVE  delivered[i] < buffered'[j]
    BY <1>1 DEF AllBefore
  <2>1. j \in 1..b \/ j = b + 1
    BY <1>2
  <2>2. CASE j \in 1..b
    BY <1>2, <2>2 DEF IInv, InOrder, AllBefore
  <2>3. CASE j = b + 1
    BY <1>1, <1>2, <2>3, ReadFacts DEF IInv, InOrder, AllBefore
  <2> QED
    BY <2>1, <2>2, <2>3
<1>6. AllBefore(buffered', channel')
  <2> SUFFICES ASSUME NEW i \in DOMAIN buffered', NEW j \in DOMAIN channel',
                      IsText(buffered'[i]), IsText(channel'[j])
               PROVE  buffered'[i] < channel'[j]
    BY DEF AllBefore
  <2>1. /\ i \in 1..b \/ i = b + 1
        /\ j \in Nat /\ 1 < j + 1 /\ j + 1 \in DOMAIN channel /\ channel'[j] = channel[j + 1]
    BY <1>2, ReadFacts
  <2>2. CASE i \in 1..b
    BY <1>2, <2>1, <2>2 DEF IInv, InOrder, AllBefore
  <2>3. CASE i = b + 1
    BY <1>1, <1>2, <2>1, <2>3, ReadFacts DEF IInv, InOrder, Increasing
  <2> QED
    BY <2>1, <2>2, <2>3
<1>7. InOrder'
  BY <1>1, <1>4, <1>5, <1>6, ReadFacts DEF InOrder
<1>8. BufferIsSuffix'
  <2>1. Cut' = Cut /\ Cut = n - b /\ n \in Nat /\ Cut \in Nat
    BY <1>2, ReadFacts DEF Cut, IInv, BufferIsSuffix
  <2>2. ASSUME NEW i \in 1..b + 1
        PROVE  arrived'[Cut + i] = buffered'[i]
    <3>1. CASE i \in 1..b
      <4>1. Cut + i \in 1..n /\ arrived[Cut + i] = buffered[i]
        BY <1>2, <2>1, <3>1 DEF IInv, BufferIsSuffix
      <4> QED
        BY <1>2, <3>1, <4>1, ReadFacts
    <3>2. CASE i = b + 1
      <4>1. Cut + i = n + 1
        BY <1>2, <2>1, <3>2
      <4> QED
        BY <1>2, <3>2, <4>1, ReadFacts
    <3>3. i \in 1..b \/ i = b + 1
      BY <1>2
    <3> QED
      BY <3>1, <3>2, <3>3
  <2>3. ASSUME Cut > 0 PROVE arrived'[Cut] = Delimiter
    <3>1. Cut \in 1..n
      BY <1>2, <2>1, <2>3
    <3> QED
      BY <2>3, <3>1, ReadFacts DEF IInv, BufferIsSuffix
  <2> QED
    BY <1>2, <2>1, <2>2, <2>3 DEF BufferIsSuffix
<1>9. DeliveredExactly'
  <2>1. ASSUME NEW i \in 1..n PROVE Alone(i)' <=> Alone(i)
    <3>1. CASE i = n
      <4>1. ~ Alone(i) /\ arrived'[i + 1] = x
        BY <3>1, ReadFacts DEF Alone
      <4> QED
        BY <1>1, <4>1 DEF Alone
    <3>2. CASE i < n
      <4>1. /\ i + 1 \in 1..n /\ i < n + 1 /\ (i = 1 \/ i - 1 \in 1..n) /\ i \in 1..n
        BY <3>2, ReadFacts
      <4>2. /\ arrived'[i] = arrived[i] /\ arrived'[i + 1] = arrived[i + 1]
            /\ i = 1 \/ arrived'[i - 1] = arrived[i - 1]
            /\ Len(arrived') = n + 1
        BY <4>1, ReadFacts
      <4> QED
        BY <3>2, <4>1, <4>2 DEF Alone
    <3>3. i = n \/ i < n
      <4>1. n \in Nat
        BY ReadFacts
      <4> QED
        BY <4>1
    <3> QED
      BY <3>1, <3>2, <3>3
  <2>2. ASSUME NEW i, i = n + 1 PROVE ~ Alone(i)'
    BY <2>2, ReadFacts DEF Alone
  <2>3. {arrived'[i] : i \in {j \in DOMAIN arrived' : Alone(j)'}}
          = {arrived[i] : i \in {j \in DOMAIN arrived : Alone(j)}}
    <3>1. {j \in DOMAIN arrived' : Alone(j)'} = {j \in DOMAIN arrived : Alone(j)}
      <4>1. /\ \A j : j \in DOMAIN arrived' <=> j \in DOMAIN arrived \/ j = n + 1
            /\ DOMAIN arrived = 1..n /\ n + 1 \notin 1..n
        BY ReadFacts
      <4>2. \A j \in DOMAIN arrived' : Alone(j)' <=> j \in DOMAIN arrived /\ Alone(j)
        BY <2>1, <2>2, <4>1
      <4> QED
        BY <4>1, <4>2
    <3> QED
      BY <3>1, ReadFacts
  <2> QED
    BY <1>1, <2>3 DEF IInv, DeliveredExactly
<1> QED
  BY <1>3, <1>7, <1>8, <1>9 DEF IInv

\* At a delimiter the last text is alone exactly if the buffer holds one text.
LEMMA AloneAtDelimiter ==
    ASSUME IInv, HandleRead, HandleDelimiter, NEW i \in DOMAIN arrived'
    PROVE  Alone(i)' <=> (i \in DOMAIN arrived /\ Alone(i))
                         \/ (i = Len(arrived) /\ IsObject(buffered))
<1>1. PICK n \in Nat : n = Len(arrived)
  BY ReadFacts
<1>2. PICK b \in Nat : b = Len(buffered)
  BY LenProperties DEF IInv, Types
<1>3. /\ b <= n /\ Cut = n - b
      /\ \A k \in 1..b : arrived[n - b + k] = buffered[k]
      /\ n - b > 0 => arrived[n - b] = Delimiter
  BY <1>1, <1>2 DEF IInv, BufferIsSuffix, Cut
<1>4. \A k \in 1..b : buffered[k] # Delimiter
  <2>1. DOMAIN buffered = 1..b
    BY <1>2, LenProperties DEF IInv, Types
  <2> QED
    BY <2>1, StreamTypes DEF IInv, IsText
<1>5. /\ Len(arrived') = n + 1 /\ arrived'[n + 1] = Delimiter
      /\ DOMAIN arrived' = 1..n + 1 /\ DOMAIN arrived = 1..n
      /\ \A k \in 1..n : arrived'[k] = arrived[k]
  BY <1>1, ReadFacts DEF HandleDelimiter
<1>6. IsObject(buffered) <=> b = 1
  BY <1>2 DEF IsObject
<1>7. CASE i = n + 1
  BY <1>1, <1>5, <1>7 DEF Alone
<1>8. CASE i \in 1..n /\ i < n
  <2>1. i + 1 \in 1..n /\ (i = 1 \/ i - 1 \in 1..n)
    BY <1>8
  <2>2. /\ arrived'[i] = arrived[i] /\ arrived'[i + 1] = arrived[i + 1]
        /\ i = 1 \/ arrived'[i - 1] = arrived[i - 1]
    BY <1>5, <1>8, <2>1
  <2> QED
    BY <1>1, <1>5, <1>8, <2>2 DEF Alone
<1>9. CASE i \in 1..n /\ i = n
  <2>1. ~ Alone(i)
    BY <1>1, <1>9 DEF Alone
  <2>2. Alone(i)' <=> arrived[n] # Delimiter /\ (n = 1 \/ arrived[n - 1] = Delimiter)
    <3>1. n = 1 \/ n - 1 \in 1..n
      BY <1>9
    <3>2. arrived'[n] = arrived[n] /\ (n = 1 \/ arrived'[n - 1] = arrived[n - 1])
      BY <1>5, <1>9, <3>1
    <3> QED
      BY <1>5, <1>9, <3>2 DEF Alone
  <2>3. CASE b = 0
    BY <1>1, <1>3, <1>6, <1>9, <2>1, <2>2, <2>3
  <2>4. CASE b = 1
    <3>1. arrived[n] # Delimiter
      <4>1. n - b + 1 = n /\ 1 \in 1..b
        BY <2>4
      <4> QED
        BY <1>3, <1>4, <4>1
    <3>2. n = 1 \/ arrived[n - 1] = Delimiter
      BY <1>3, <1>9, <2>4
    <3> QED
      BY <1>1, <1>6, <1>9, <2>2, <2>4, <3>1, <3>2
  <2>5. CASE b > 1
    <3>1. b - 1 \in 1..b /\ n - b + (b - 1) = n - 1 /\ n # 1
      BY <1>3, <2>5
    <3>2. arrived[n - 1] # Delimiter
      BY <1>3, <1>4, <3>1
    <3> QED
      BY <1>1, <1>6, <1>9, <2>1, <2>2, <2>5, <3>1, <3>2
  <2> QED
    BY <2>3, <2>4, <2>5
<1>10. i = n + 1 \/ (i \in 1..n /\ i < n) \/ (i \in 1..n /\ i = n)
  BY <1>5
<1> QED
  BY <1>7, <1>8, <1>9, <1>10

\* A text that is alone at a delimiter is delivered, any other piece is dropped.
LEMMA DelimiterInvariant == ASSUME IInv, HandleRead, HandleDelimiter PROVE IInv'
<1>1. PICK n \in Nat : n = Len(arrived)
  BY ReadFacts
<1>2. /\ Head(channel) = Delimiter /\ buffered' = <<>> /\ UNCHANGED sent
      /\ buffered \in Seq(1..sent) /\ delivered \in Seq(1..sent)
  BY DEF HandleDelimiter, HandleRead, ErasePiece, IInv, Types
<1>3. /\ delivered' \in Seq(1..sent)
      /\ \/ delivered' = delivered /\ ~ IsObject(buffered)
         \/ /\ IsObject(buffered) /\ delivered' = Append(delivered, buffered[1])
            /\ buffered[1] \in 1..sent /\ 1 \in DOMAIN buffered
  <2>1. CASE IsObject(buffered)
    <3>1. Head(buffered) = buffered[1] /\ buffered[1] \in 1..sent /\ 1 \in DOMAIN buffered
      <4>1. buffered # <<>>
        BY <2>1, EmptySeq DEF IsObject
      <4> QED
        BY <1>2, <4>1, TailFacts
    <3> QED
      BY <1>2, <2>1, <3>1 DEF HandleDelimiter
  <2>2. CASE ~ IsObject(buffered)
    BY <1>2, <2>2 DEF HandleDelimiter
  <2> QED
    BY <2>1, <2>2
<1>4. /\ <<>> \in Seq(1..sent) /\ Len(<<>>) = 0 /\ DOMAIN <<>> = {}
  BY EmptySeq
<1>5. Types'
  BY <1>2, <1>3, <1>4, ReadFacts DEF IInv, Types
<1>6. InOrder'
  <2>1. Increasing(buffered') /\ AllBefore(buffered', channel') /\ AllBefore(delivered', buffered')
    BY <1>2, <1>4 DEF Increasing, AllBefore
  <2>2. AllBefore(delivered', channel')
    <3>1. CASE delivered' = delivered
      BY <3>1, ReadFacts
    <3>2. CASE /\ IsObject(buffered) /\ delivered' = Append(delivered, buffered[1])
               /\ buffered[1] \in 1..sent /\ 1 \in DOMAIN buffered
      <4> SUFFICES ASSUME NEW i \in DOMAIN delivered', NEW j \in DOMAIN channel',
                          IsText(delivered'[i]), IsText(channel'[j])
                   PROVE  delivered'[i] < channel'[j]
        BY DEF AllBefore
      <4>1. /\ i \in DOMAIN delivered \/ i = Len(delivered) + 1
            /\ \A k \in DOMAIN delivered : delivered'[k] = delivered[k]
            /\ delivered'[Len(delivered) + 1] = buffered[1]
        BY <1>2, <3>2, AppendFacts
      <4>2. j + 1 \in DOMAIN channel /\ channel'[j] = channel[j + 1]
        BY ReadFacts
      <4>3. CASE i \in DOMAIN delivered
        BY <4>1, <4>2, <4>3 DEF IInv, InOrder, AllBefore
      <4>4. CASE i = Len(delivered) + 1
        BY <3>2, <4>1, <4>2, <4>4 DEF IInv, InOrder, AllBefore
      <4> QED
        BY <4>1, <4>3, <4>4
    <3> QED
      BY <1>3, <3>1, <3>2
  <2> QED
    BY <2>1, <2>2, ReadFacts DEF InOrder
<1>7. BufferIsSuffix'
  <2>1. Cut' = n + 1 /\ Len(buffered') = 0
    BY <1>1, <1>2, <1>4, ReadFacts DEF Cut
  <2>2. arrived'[n + 1] = Delimiter
    BY <1>1, <1>2, ReadFacts
  <2> QED
    BY <2>1, <2>2 DEF BufferIsSuffix
<1>8. DeliveredExactly'
  <2> DEFINE A == {j \in DOMAIN arrived : Alone(j)}
             B == {j \in DOMAIN arrived' : Alone(j)'}
  <2>1. /\ DOMAIN arrived' = 1..n + 1 /\ DOMAIN arrived = 1..n
        /\ \A k \in 1..n : arrived'[k] = arrived[k]
    BY <1>1, ReadFacts
  <2>2. ToSet(delivered) = {arrived[i] : i \in A}
    BY DEF IInv, DeliveredExactly
  <2>3. \A i : i \in B <=> i \in A \/ (i = n /\ n > 0 /\ IsObject(buffered))
    <3>1. \A i \in DOMAIN arrived' :
            Alone(i)' <=> (i \in DOMAIN arrived /\ Alone(i)) \/ (i = n /\ IsObject(buffered))
      BY <1>1, AloneAtDelimiter
    <3>2. /\ \A i : i \in 1..n => i \in 1..n + 1
          /\ n \in 1..n + 1 <=> n > 0
      BY <1>1
    <3> QED
      BY <2>1, <3>1, <3>2
  <2>4. CASE ~ IsObject(buffered)
    <3>1. B = A /\ delivered' = delivered
      BY <1>3, <2>3, <2>4
    <3>2. {arrived'[i] : i \in B} = {arrived[i] : i \in A}
      BY <2>1, <3>1
    <3> QED
      BY <2>2, <3>1, <3>2 DEF DeliveredExactly
  <2>5. CASE IsObject(buffered)
    <3>1. delivered' = Append(delivered, buffered[1]) /\ buffered[1] \in 1..sent
      BY <1>3, <2>5
    <3>2. ToSet(delivered') = ToSet(delivered) \cup {buffered[1]}
      <4>1. /\ DOMAIN delivered' = 1..Len(delivered) + 1 /\ Len(delivered) \in Nat
            /\ DOMAIN delivered = 1..Len(delivered)
            /\ \A k \in DOMAIN delivered : delivered'[k] = delivered[k]
            /\ delivered'[Len(delivered) + 1] = buffered[1]
        BY <1>2, <3>1, AppendFacts
      <4>2. \A k : k \in DOMAIN delivered' <=> k \in DOMAIN delivered \/ k = Len(delivered) + 1
        BY <4>1
      <4> QED
        BY <4>1, <4>2 DEF ToSet
    <3>3. n > 0 /\ arrived[n] = buffered[1]
      <4>1. Len(buffered) = 1 /\ Cut = n - 1 /\ Cut \in Nat /\ 1 \in 1..Len(buffered)
        BY <1>1, <2>5 DEF IsObject, Cut, IInv, BufferIsSuffix
      <4>2. arrived[Cut + 1] = buffered[1] /\ Cut + 1 = n
        BY <4>1 DEF IInv, BufferIsSuffix
      <4> QED
        BY <4>1, <4>2
    <3>4. B = A \cup {n} /\ n \in 1..n
      BY <2>3, <2>5, <3>3
    <3>5. {arrived'[i] : i \in B} = {arrived[i] : i \in A} \cup {buffered[1]}
      <4>1. \A i \in B : arrived'[i] = arrived[i]
        BY <2>1, <3>4
      <4> QED
        BY <3>3, <3>4, <4>1
    <3> QED
      BY <2>2, <3>2, <3>5 DEF DeliveredExactly
  <2> QED
    BY <2>4, <2>5
<1> QED
  BY <1>5, <1>6, <1>7, <1>8 DEF IInv

-----------------------------------------------------------------------------
\* The invariant of the stream holds in every reachable state.
THEOREM FramingInvariant == Spec => []IInv
<1>1. Init => IInv
  BY InitInvariant
<1>2. IInv /\ [Next]_vars => IInv'
  <2> SUFFICES ASSUME IInv, [Next]_vars PROVE IInv'
    OBVIOUS
  <2>1. CASE UNCHANGED vars
    BY <2>1 DEF vars, IInv, Types, InOrder, BufferIsSuffix, Cut, DeliveredExactly, Alone
  <2>2. CASE Send
    BY <2>2, SendInvariant
  <2>3. CASE HandleRead
    BY <2>3, TextInvariant, DelimiterInvariant DEF HandleRead
  <2>4. ASSUME NEW i \in DOMAIN channel, Lose(i) PROVE IInv'
    BY <2>4, LoseInvariant
  <2> QED
    BY <2>1, <2>2, <2>3, <2>4 DEF Next
<1> QED
  BY <1>1, <1>2, PTL DEF Spec

\* Exactly the texts that arrive alone between two delimiters are delivered.
THEOREM FramingDeliversExactly == Spec => []DeliveredExactly
<1>1. IInv => DeliveredExactly
  BY DEF IInv
<1> QED
  BY <1>1, FramingInvariant, PTL

\* A step of the stream delivers a later message than all before, or none.
LEMMA StepsFollowLink == ASSUME IInv, [Next]_vars PROVE [Link!Next]_(Link!vars)
<1>1. CASE UNCHANGED vars
  BY <1>1 DEF vars, Link!vars
<1>2. CASE Send
  BY <1>2 DEF Send, Link!Next, Link!Send
<1>3. CASE HandleRead /\ HandleText
  BY <1>3 DEF HandleRead, HandleText, Link!vars
<1>4. CASE HandleRead /\ HandleDelimiter
  <2>1. CASE ~ IsObject(buffered)
    BY <1>4, <2>1 DEF HandleRead, HandleDelimiter, Link!vars
  <2>2. CASE IsObject(buffered)
    <3>1. /\ Head(buffered) = buffered[1] /\ buffered[1] \in 1..sent /\ 1 \in DOMAIN buffered
      <4>1. buffered # <<>> /\ buffered \in Seq(1..sent)
        <5>1. Len(buffered) = 1 /\ Len(<<>>) = 0
          BY <2>2, EmptySeq DEF IsObject
        <5>2. buffered \in Seq(1..sent)
          BY DEF IInv, Types
        <5>3. buffered # <<>>
          BY <5>1
        <5> QED
          BY <5>2, <5>3
      <4> QED
        BY <4>1, TailFacts
    <3>2. \A i \in DOMAIN delivered : delivered[i] < buffered[1]
      BY <3>1, StreamTypes DEF IInv, InOrder, AllBefore
    <3>3. Link!Deliver(buffered[1])
      BY <1>4, <2>2, <3>1, <3>2 DEF HandleRead, HandleDelimiter, Link!Deliver
    <3> QED
      BY <3>1, <3>3 DEF Link!Next
  <2> QED
    BY <2>1, <2>2
<1>5. ASSUME NEW i \in DOMAIN channel, Lose(i) PROVE UNCHANGED Link!vars
  BY <1>5 DEF Lose, Link!vars
<1> QED
  BY <1>1, <1>2, <1>3, <1>4, <1>5 DEF Next, HandleRead

\* The stream implements a link that loses messages, but neither repeats nor swaps them.
THEOREM FramingDeliversInOrder == Spec => DeliversInOrder
<1>1. Init => Link!Init
  BY DEF Init, Link!Init
<1>2. IInv /\ [Next]_vars => [Link!Next]_(Link!vars)
  BY StepsFollowLink
<1> QED
  BY <1>1, <1>2, FramingInvariant, PTL DEF Spec, DeliversInOrder, Link!Spec
=============================================================================
