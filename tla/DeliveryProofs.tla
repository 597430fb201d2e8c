---------------------------- MODULE DeliveryProofs ----------------------------
(***************************************************************************)
(* Theorems about Delivery for any number of attempts and pieces: its      *)
(* types, that the events of an attempt follow EventProtocol, for the      *)
(* translator's state machine and for a message written as a stream, which *)
(* answers may get lost, and that stop reason, usage and content reach     *)
(* their place.  What becomes of requests is in RequestProofs.             *)
(*                                                                         *)
(* In order: sequences; the events that follow the protocol, the           *)
(* translator, and messages written as streams; the messages that decoders *)
(* make; the steps of the handler, with the first four theorems; then what *)
(* the pieces say, the content of a message, the collector of events, what *)
(* the translator has emitted, and the last theorem.                       *)
(***************************************************************************)
EXTENDS Delivery, NumberLemmas

-----------------------------------------------------------------------------
(***************************************************************************)
(* Sequences, of whatever elements.                                        *)
(***************************************************************************)

Sequence(s) == s \in Seq(Range(s))

LEMMA IsSequence ==
  ASSUME NEW E, NEW s \in Seq(E)
  PROVE  Sequence(s)
<1>1. s \in [1 .. Len(s) -> Range(s)]
  BY DEF Range
<1>2. QED
  BY <1>1 DEF Sequence

LEMMA Listed ==
  ASSUME NEW n \in Nat, NEW s, DOMAIN s = 1 .. n, s = [i \in 1 .. n |-> s[i]]
  PROVE  Sequence(s) /\ Len(s) = n
<1> DEFINE E == {s[i] : i \in 1 .. n}
<1>1. \A i \in 1 .. n : s[i] \in E
  OBVIOUS
<1> HIDE DEF E
<1>2. s \in [1 .. n -> E]
  BY <1>1
<1>3. s \in Seq(E) /\ Len(s) = n
  BY <1>2
<1>4. QED
  BY <1>3, IsSequence

LEMMA Elements ==
  ASSUME NEW s, Sequence(s)
  PROVE  /\ Len(s) \in Nat /\ DOMAIN s = 1 .. Len(s)
         /\ \A n \in 1 .. Len(s) : s[n] \in Range(s)
BY DEF Sequence, Range

LEMMA Longer ==
  ASSUME NEW s, Sequence(s), NEW e
  PROVE  /\ Sequence(Append(s, e))
         /\ Len(Append(s, e)) = Len(s) + 1
         /\ Append(s, e)[Len(s) + 1] = e
         /\ \A n \in 1 .. Len(s) : Append(s, e)[n] = s[n]
<1> DEFINE E == Range(s) \cup {e}
<1>1. s \in Seq(E)
  <2>1. s \in Seq(Range(s))
    BY DEF Sequence
  <2>2. Range(s) \subseteq E
    OBVIOUS
  <2> HIDE DEF E
  <2>3. QED
    BY <2>1, <2>2
<1>2. e \in E
  OBVIOUS
<1> HIDE DEF E
<1>3. Append(s, e) \in Seq(E)
  BY <1>1, <1>2
<1>4. Sequence(Append(s, e))
  BY <1>3, IsSequence, Zenon
<1>5. QED
  BY <1>1, <1>2, <1>4

LEMMA Shorter ==
  ASSUME NEW s, Sequence(s), NEW k \in 0 .. Len(s)
  PROVE  /\ Sequence(SubSeq(s, 1, k)) /\ Len(SubSeq(s, 1, k)) = k
         /\ \A n \in 1 .. k : SubSeq(s, 1, k)[n] = s[n]
<1>1. s \in Seq(Range(s))
  BY DEF Sequence
<1>2. SubSeq(s, 1, k) \in Seq(Range(s))
  BY <1>1
<1>3. Sequence(SubSeq(s, 1, k))
  BY <1>2, IsSequence, Zenon
<1>4. QED
  BY <1>1, <1>3

LEMMA Joined ==
  ASSUME NEW s, NEW t, Sequence(s), Sequence(t)
  PROVE  /\ Sequence(s \o t) /\ Len(s \o t) = Len(s) + Len(t)
         /\ \A n \in 1 .. Len(s) : (s \o t)[n] = s[n]
         /\ \A n \in 1 .. Len(t) : (s \o t)[Len(s) + n] = t[n]
<1> DEFINE E == Range(s) \cup Range(t)
<1>1. s \in Seq(E) /\ t \in Seq(E)
  <2>1. s \in Seq(Range(s)) /\ t \in Seq(Range(t))
    BY DEF Sequence
  <2>2. Range(s) \subseteq E /\ Range(t) \subseteq E
    OBVIOUS
  <2> HIDE DEF E
  <2>3. QED
    BY <2>1, <2>2
<1> HIDE DEF E
<1>2. s \o t \in Seq(E)
  BY <1>1
<1>3. Sequence(s \o t)
  BY <1>2, IsSequence, Zenon
<1>4. QED
  BY <1>1, <1>3

\* Sequences with the same elements are the same.
LEMMA SameSequence ==
  ASSUME NEW s, NEW t, Sequence(s), Sequence(t), Len(s) = Len(t),
         \A n \in 1 .. Len(s) : s[n] = t[n]
  PROVE  s = t
<1> DEFINE E == Range(s) \cup Range(t)
<1>1. s \in Seq(E) /\ t \in Seq(E)
  <2>1. s \in Seq(Range(s)) /\ t \in Seq(Range(t))
    BY DEF Sequence
  <2>2. Range(s) \subseteq E /\ Range(t) \subseteq E
    OBVIOUS
  <2> HIDE DEF E
  <2>3. QED
    BY <2>1, <2>2
<1> HIDE DEF E
<1>2. QED
  BY <1>1

-----------------------------------------------------------------------------
(***************************************************************************)
(* What one more event does to the variables of EventProtocol.             *)
(***************************************************************************)

\* What the protocol allows after the events s.
Legal(s, e) ==
  \/ e.ev = "message_start" /\ Phase(s) = "before"
  \/ e.ev = "block_start" /\ Phase(s) = "open" /\ e.idx = Opened(s)
  \/ e.ev \in {"text_delta", "json_delta", "block_stop"} /\ Phase(s) = "open" /\ e.idx \in Open(s)
  \/ e.ev = "message_delta" /\ Phase(s) \in {"before", "open"} /\ Open(s) = {}
  \/ e.ev = "message_stop" /\ Phase(s) = "closing"

\* Only blocks opened have been written about.
Numbered(s) ==
  Indices(s, "block_start") \cup Indices(s, "block_stop") \subseteq 0 .. Opened(s) - 1

LEMMA AtLonger ==
  ASSUME NEW s, Sequence(s), NEW e, NEW ev
  PROVE  /\ At(s, ev) \subseteq 1 .. Len(s)
         /\ At(Append(s, e), ev) = At(s, ev) \cup (IF e.ev = ev THEN {Len(s) + 1} ELSE {})
         /\ Indices(Append(s, e), ev) = Indices(s, ev) \cup (IF e.ev = ev THEN {e.idx} ELSE {})
<1> DEFINE u == Append(s, e)
<1>1. /\ Len(s) \in Nat /\ DOMAIN s = 1 .. Len(s) /\ DOMAIN u = 1 .. Len(s) + 1
      /\ u[Len(s) + 1] = e /\ \A n \in 1 .. Len(s) : u[n] = s[n]
  BY Elements, Longer
<1> HIDE DEF u
<1>2. At(s, ev) \subseteq 1 .. Len(s)
  BY <1>1 DEF At
<1>3. \A n : n \in 1 .. Len(s) + 1 <=> n \in 1 .. Len(s) \/ n = Len(s) + 1
  BY <1>1
<1>4. At(u, ev) = At(s, ev) \cup (IF e.ev = ev THEN {Len(s) + 1} ELSE {})
  BY <1>1, <1>3 DEF At
<1>5. Indices(u, ev) = Indices(s, ev) \cup (IF e.ev = ev THEN {e.idx} ELSE {})
  <2>1. \A n \in At(s, ev) : u[n] = s[n]
    BY <1>1, <1>2
  <2>2. QED
    BY <1>1, <1>4, <2>1 DEF Indices
<1>6. QED
  BY <1>2, <1>4, <1>5 DEF u

LEMMA Counted ==
  ASSUME NEW s, Sequence(s), NEW ev
  PROVE  IsFiniteSet(At(s, ev)) /\ Cardinality(At(s, ev)) \in Nat /\ Opened(s) \in Nat
<1>1. Len(s) \in Nat /\ \A w : At(s, w) \subseteq 1 .. Len(s)
  BY Elements DEF At
<1>2. IsFiniteSet(1 .. Len(s))
  BY <1>1, FS_Interval
<1>3. \A w : IsFiniteSet(At(s, w)) /\ Cardinality(At(s, w)) \in Nat
  BY <1>1, <1>2, FS_Subset, FS_CardinalityType
<1>4. QED
  BY <1>3 DEF Opened

LEMMA Nothing ==
  /\ Sequence(<<>>) /\ Phase(<<>>) = "before" /\ Opened(<<>>) = 0 /\ Open(<<>>) = {}
  /\ Touched(<<>>) = -1 /\ Numbered(<<>>)
<1>1. <<>> \in Seq({})
  OBVIOUS
<1>2. \A ev : At(<<>>, ev) = {}
  BY DEF At
<1>3. \A ev : Indices(<<>>, ev) = {}
  BY <1>2 DEF Indices
<1>4. QED
  BY <1>1, <1>2, <1>3, IsSequence, FS_EmptySet, Zenon DEF Phase, Opened, Open, Touched, Numbered

\* The effect of one event.
LEMMA Effect ==
  ASSUME NEW s, Sequence(s), Numbered(s), NEW e, Legal(s, e)
  PROVE  /\ Numbered(Append(s, e))
         /\ Phase(Append(s, e)) = CASE e.ev = "message_start" -> "open"
                                    [] e.ev = "message_delta" -> "closing"
                                    [] e.ev = "message_stop"  -> "ended"
                                    [] OTHER                  -> Phase(s)
         /\ Opened(Append(s, e)) = Opened(s) + (IF e.ev = "block_start" THEN 1 ELSE 0)
         /\ Open(Append(s, e)) = CASE e.ev = "block_start" -> Open(s) \cup {e.idx}
                                   [] e.ev = "block_stop"  -> Open(s) \ {e.idx}
                                   [] OTHER                -> Open(s)
         /\ Touched(Append(s, e)) = IF e.ev \in {"text_delta", "json_delta"} THEN e.idx
                                    ELSE Touched(s)
<1> DEFINE u == Append(s, e)
<1>0. /\ Len(s) \in Nat /\ Opened(s) \in Nat /\ DOMAIN s = 1 .. Len(s)
      /\ u[Len(s) + 1] = e /\ \A n \in 1 .. Len(s) : u[n] = s[n]
  BY Elements, Counted, Longer
<1>1. \A ev : /\ At(s, ev) \subseteq 1 .. Len(s)
              /\ At(u, ev) = At(s, ev) \cup (IF e.ev = ev THEN {Len(s) + 1} ELSE {})
              /\ Indices(u, ev) = Indices(s, ev) \cup (IF e.ev = ev THEN {e.idx} ELSE {})
  BY AtLonger
<1> HIDE DEF u
<1>2. Phase(u) = CASE e.ev = "message_start" -> "open"
                   [] e.ev = "message_delta" -> "closing"
                   [] e.ev = "message_stop"  -> "ended"
                   [] OTHER                  -> Phase(s)
  BY <1>1, Zenon DEF Phase, Legal
<1>3. Opened(u) = Opened(s) + (IF e.ev = "block_start" THEN 1 ELSE 0)
  <2>1. IsFiniteSet(At(s, "block_start")) /\ Len(s) + 1 \notin At(s, "block_start")
    BY <1>0, <1>1, Counted
  <2>2. Cardinality(At(s, "block_start") \cup {Len(s) + 1}) = Opened(s) + 1
    BY <2>1, FS_AddElement DEF Opened
  <2>3. At(u, "block_start") = At(s, "block_start")
                               \cup (IF e.ev = "block_start" THEN {Len(s) + 1} ELSE {})
    BY <1>1
  <2>4. CASE e.ev = "block_start"
    BY <2>2, <2>3, <2>4, Zenon DEF Opened
  <2>5. CASE e.ev # "block_start"
    <3>1. At(u, "block_start") = At(s, "block_start")
      BY <2>3, <2>5
    <3>2. Opened(u) = Opened(s)
      BY <3>1 DEF Opened
    <3>3. QED
      BY <1>0, <2>5, <3>2
  <2>6. QED
    BY <2>4, <2>5
<1>4. Open(u) = CASE e.ev = "block_start" -> Open(s) \cup {e.idx}
                  [] e.ev = "block_stop"  -> Open(s) \ {e.idx}
                  [] OTHER                -> Open(s)
  <2>1. CASE e.ev = "block_start"
    <3>1. e.idx = Opened(s)
      BY <2>1 DEF Legal
    <3>2. e.idx \notin Indices(s, "block_stop")
      BY <1>0, <3>1 DEF Numbered
    <3>3. QED
      BY <1>1, <2>1, <3>2 DEF Open
  <2>2. CASE e.ev # "block_start"
    BY <1>1, <2>2 DEF Open
  <2>3. QED
    BY <2>1, <2>2
<1>5. Touched(u) = IF e.ev \in {"text_delta", "json_delta"} THEN e.idx ELSE Touched(s)
  <2> DEFINE d == At(s, "text_delta") \cup At(s, "json_delta")
             w == At(u, "text_delta") \cup At(u, "json_delta")
  <2>1. d \subseteq 1 .. Len(s)
    BY <1>1
  <2>2. CASE e.ev \in {"text_delta", "json_delta"}
    <3>1. w = d \cup {Len(s) + 1} /\ w \in SUBSET (1 .. Len(s) + 1)
      BY <1>0, <1>1, <2>1, <2>2
    <3> HIDE DEF w, d
    <3>2. Max(w) = Len(s) + 1
      BY <1>0, <3>1, MaxOf
    <3>3. Touched(u) = u[Len(s) + 1].idx
      BY <3>1, <3>2, Zenon DEF Touched, w
    <3>4. QED
      BY <1>0, <2>2, <3>3
  <2>3. CASE e.ev \notin {"text_delta", "json_delta"}
    <3>1. w = d
      BY <1>1, <2>3
    <3>2. d # {} => Max(d) \in 1 .. Len(s)
      <4> HIDE DEF d
      <4>1. d # {} => Max(d) \in d
        BY <1>0, <2>1, MaxIn, Zenon
      <4>2. QED
        BY <2>1, <4>1, Zenon
    <3>3. d # {} => u[Max(d)] = s[Max(d)]
      BY <1>0, <3>2
    <3>4. QED
      BY <2>3, <3>1, <3>3, Zenon DEF Touched
  <2>4. QED
    BY <2>2, <2>3
<1>6. Numbered(u)
  <2>1. Indices(s, "block_start") \cup Indices(s, "block_stop") \subseteq 0 .. Opened(s) - 1
    BY DEF Numbered
  <2>2. e.ev = "block_start" => e.idx = Opened(s)
    BY DEF Legal
  <2>3. e.ev = "block_stop" => e.idx \in Indices(s, "block_start")
    BY DEF Legal, Open
  <2>4. Indices(u, "block_start") \cup Indices(u, "block_stop") \subseteq 0 .. Opened(u) - 1
    <3>1. CASE e.ev = "block_start"
      <4>1. /\ Indices(u, "block_start") = Indices(s, "block_start") \cup {Opened(s)}
            /\ Indices(u, "block_stop") = Indices(s, "block_stop")
            /\ Opened(u) = Opened(s) + 1
        BY <1>1, <1>3, <2>2, <3>1, Zenon
      <4>2. 0 .. Opened(u) - 1 = (0 .. Opened(s) - 1) \cup {Opened(s)}
        BY <1>0, <4>1
      <4>3. QED
        BY <2>1, <4>1, <4>2
    <3>2. CASE e.ev # "block_start"
      <4>1. /\ Indices(u, "block_start") = Indices(s, "block_start")
            /\ Indices(u, "block_stop") \subseteq Indices(s, "block_stop") \cup Indices(s, "block_start")
            /\ Opened(u) = Opened(s)
        <5>1. /\ Indices(u, "block_start") = Indices(s, "block_start")
              /\ Indices(u, "block_stop") = Indices(s, "block_stop")
                                              \cup (IF e.ev = "block_stop" THEN {e.idx} ELSE {})
          BY <1>1, <3>2, Zenon
        <5>2. Opened(u) = Opened(s)
          BY <1>0, <1>3, <3>2
        <5>3. QED
          BY <2>3, <5>1, <5>2
      <4>2. QED
        BY <2>1, <4>1
    <3>3. QED
      BY <3>1, <3>2
  <2>5. QED
    BY <2>4 DEF Numbered
<1>7. QED
  BY <1>2, <1>3, <1>4, <1>5, <1>6 DEF u

-----------------------------------------------------------------------------
(***************************************************************************)
(* Sequences of events that the protocol allows, event by event.           *)
(***************************************************************************)

Good(s) ==
  /\ Sequence(s)
  /\ \A k \in 0 .. Len(s) : Numbered(SubSeq(s, 1, k))
  /\ \A k \in 0 .. Len(s) - 1 : Legal(SubSeq(s, 1, k), s[k + 1])

\* All of a sequence, and the first elements of two.
LEMMA Whole ==
  ASSUME NEW s, Sequence(s)
  PROVE  Len(s) \in Nat /\ SubSeq(s, 1, Len(s)) = s
<1>1. Len(s) \in Nat
  BY Elements
<1>2. Sequence(SubSeq(s, 1, Len(s))) /\ Len(SubSeq(s, 1, Len(s))) = Len(s)
      /\ \A n \in 1 .. Len(s) : SubSeq(s, 1, Len(s))[n] = s[n]
  BY <1>1, Shorter
<1>3. QED
  BY <1>1, <1>2, SameSequence, Zenon

LEMMA SamePrefix ==
  ASSUME NEW s, NEW t, Sequence(s), Sequence(t), NEW k \in 0 .. Len(s), k <= Len(t),
         \A n \in 1 .. k : s[n] = t[n]
  PROVE  SubSeq(s, 1, k) = SubSeq(t, 1, k)
<1>1. /\ Len(s) \in Nat /\ Len(t) \in Nat /\ k \in 0 .. Len(t)
  BY Elements
<1>2. /\ Sequence(SubSeq(s, 1, k)) /\ Len(SubSeq(s, 1, k)) = k
      /\ \A n \in 1 .. k : SubSeq(s, 1, k)[n] = s[n]
  BY Shorter
<1>3. /\ Sequence(SubSeq(t, 1, k)) /\ Len(SubSeq(t, 1, k)) = k
      /\ \A n \in 1 .. k : SubSeq(t, 1, k)[n] = t[n]
  BY <1>1, Shorter
<1>4. QED
  BY <1>2, <1>3, SameSequence

\* A prefix is the one before it and an element.
LEMMA NoneYet ==
  ASSUME NEW s, Sequence(s)
  PROVE  SubSeq(s, 1, 0) = <<>>
<1>1. 0 \in 0 .. Len(s)
  BY Elements
<1>2. Sequence(SubSeq(s, 1, 0)) /\ Len(SubSeq(s, 1, 0)) = 0
  BY <1>1, Shorter
<1>3. Sequence(<<>>) /\ Len(<<>>) = 0
  BY Nothing
<1>4. \A i \in 1 .. 0 : SubSeq(s, 1, 0)[i] = <<>>[i]
  OBVIOUS
<1>5. QED
  BY <1>2, <1>3, <1>4, SameSequence

LEMMA OneMore ==
  ASSUME NEW s, Sequence(s), NEW k \in 1 .. Len(s)
  PROVE  SubSeq(s, 1, k) = Append(SubSeq(s, 1, k - 1), s[k])
<1> DEFINE p == SubSeq(s, 1, k)
           q == SubSeq(s, 1, k - 1)
           l == Append(q, s[k])
<1>1. Len(s) \in Nat /\ k \in Nat /\ k \in 0 .. Len(s) /\ k - 1 \in 0 .. Len(s)
  BY Elements
<1>2. Sequence(p) /\ Len(p) = k /\ \A n \in 1 .. k : p[n] = s[n]
  BY <1>1, Shorter
<1>3. Sequence(q) /\ Len(q) = k - 1 /\ \A n \in 1 .. k - 1 : q[n] = s[n]
  BY <1>1, Shorter
<1> HIDE DEF p, q
<1>4. /\ Sequence(l) /\ Len(l) = Len(q) + 1 /\ l[Len(q) + 1] = s[k]
      /\ \A n \in 1 .. Len(q) : l[n] = q[n]
  BY <1>3, Longer
<1> HIDE DEF l
<1>5. Len(l) = k /\ Len(q) + 1 = k
  BY <1>1, <1>3, <1>4
<1>6. ASSUME NEW n \in 1 .. k PROVE p[n] = l[n]
  <2>1. CASE n = k
    BY <1>2, <1>4, <1>5, <2>1
  <2>2. CASE n # k
    <3>1. n \in 1 .. k - 1 /\ n \in 1 .. Len(q)
      BY <1>1, <1>3, <2>2
    <3>2. QED
      BY <1>2, <1>3, <1>4, <3>1
  <2>3. QED
    BY <2>1, <2>2
<1>7. p = l
  BY <1>2, <1>4, <1>5, <1>6, SameSequence
<1>8. QED
  BY <1>7 DEF p, q, l

LEMMA GoodNumbered ==
  ASSUME NEW s, Good(s)
  PROVE  Sequence(s) /\ Numbered(s)
<1>1. Sequence(s) /\ Len(s) \in Nat /\ SubSeq(s, 1, Len(s)) = s
  BY Whole DEF Good
<1>2. Numbered(SubSeq(s, 1, Len(s)))
  BY <1>1 DEF Good
<1>3. QED
  BY <1>1, <1>2, Zenon

LEMMA GoodNothing == Good(<<>>)
<1>1. Len(<<>>) = 0 /\ Sequence(<<>>)
  BY Nothing
<1>2. SubSeq(<<>>, 1, 0) = <<>>
  BY <1>1, Whole
<1>3. Numbered(SubSeq(<<>>, 1, 0))
  BY <1>2, Nothing, Zenon
<1>4. QED
  BY <1>1, <1>3 DEF Good

LEMMA GoodPrefix ==
  ASSUME NEW s, Good(s), NEW m \in 0 .. Len(s)
  PROVE  Good(SubSeq(s, 1, m))
<1> DEFINE t == SubSeq(s, 1, m)
<1>1. /\ Sequence(s) /\ Len(s) \in Nat /\ Sequence(t) /\ Len(t) = m
      /\ \A n \in 1 .. m : t[n] = s[n]
  BY Elements, Shorter DEF Good
<1> HIDE DEF t
<1>2. ASSUME NEW k \in 0 .. m PROVE SubSeq(t, 1, k) = SubSeq(s, 1, k)
  BY <1>1, SamePrefix
<1>3. ASSUME NEW k \in 0 .. m PROVE Numbered(SubSeq(t, 1, k))
  <2>1. k \in 0 .. Len(s)
    BY <1>1
  <2>2. QED
    BY <1>2, <2>1, Zenon DEF Good
<1>4. ASSUME NEW k \in 0 .. m - 1 PROVE Legal(SubSeq(t, 1, k), t[k + 1])
  <2>1. SubSeq(t, 1, k) = SubSeq(s, 1, k) /\ t[k + 1] = s[k + 1] /\ k \in 0 .. Len(s) - 1
    BY <1>1, <1>2
  <2>2. QED
    BY <2>1, Zenon DEF Good
<1>5. QED
  BY <1>1, <1>3, <1>4 DEF Good, t

LEMMA GoodLonger ==
  ASSUME NEW s, Good(s), NEW e, Legal(s, e)
  PROVE  Good(Append(s, e))
<1> DEFINE u == Append(s, e)
<1>1. /\ Sequence(s) /\ Len(s) \in Nat /\ Sequence(u) /\ Len(u) = Len(s) + 1
      /\ u[Len(s) + 1] = e /\ \A n \in 1 .. Len(s) : u[n] = s[n]
  BY Elements, Longer DEF Good
<1>2. Numbered(s) /\ Numbered(u)
  BY GoodNumbered, Effect
<1> HIDE DEF u
<1>3. ASSUME NEW k \in 0 .. Len(s) PROVE SubSeq(u, 1, k) = SubSeq(s, 1, k)
  BY <1>1, SamePrefix
<1>4. SubSeq(u, 1, Len(u)) = u /\ SubSeq(s, 1, Len(s)) = s
  BY <1>1, Whole
<1>5. ASSUME NEW k \in 0 .. Len(u) PROVE Numbered(SubSeq(u, 1, k))
  <2>1. CASE k = Len(u)
    BY <1>1, <1>2, <1>4, <2>1, Zenon
  <2>2. CASE k # Len(u)
    <3>1. k \in 0 .. Len(s)
      BY <1>1, <2>2
    <3>2. QED
      BY <1>3, <3>1, Zenon DEF Good
  <2>3. QED
    BY <2>1, <2>2
<1>6. ASSUME NEW k \in 0 .. Len(u) - 1 PROVE Legal(SubSeq(u, 1, k), u[k + 1])
  <2>1. k \in 0 .. Len(s)
    BY <1>1
  <2>2. CASE k = Len(s)
    <3>1. SubSeq(u, 1, k) = s /\ u[k + 1] = e
      BY <1>1, <1>3, <1>4, <2>1, <2>2
    <3>2. QED
      BY <3>1, Zenon
  <2>3. CASE k # Len(s)
    <3>1. k \in 0 .. Len(s) - 1 /\ u[k + 1] = s[k + 1]
      BY <1>1, <2>1, <2>3
    <3>2. QED
      BY <1>3, <2>1, <3>1, Zenon DEF Good
  <2>4. QED
    BY <2>2, <2>3
<1>7. QED
  BY <1>1, <1>5, <1>6 DEF Good, u

\* An event that is written is a step of the protocol.
LEMMA Written ==
  ASSUME Sequence(out), Numbered(out), NEW e, Legal(out, e), out' = Append(out, e)
  PROVE  Protocol!Next
<1>1. /\ Phase(out)' = Phase(Append(out, e)) /\ Opened(out)' = Opened(Append(out, e))
      /\ Open(out)' = Open(Append(out, e)) /\ Touched(out)' = Touched(Append(out, e))
  BY DEF Phase, Opened, Open, Touched, At, Indices
<1>2. Opened(out) \in Nat
  BY Counted
<1>3. CASE e.ev = "message_start" /\ Phase(out) = "before"
  <2>1. Protocol!StartMessage
    BY <1>1, <1>2, <1>3, Effect DEF Protocol!StartMessage
  <2>2. QED
    BY <2>1 DEF Protocol!Next
<1>4. CASE e.ev = "block_start" /\ Phase(out) = "open" /\ e.idx = Opened(out)
  <2>1. Protocol!StartBlock
    BY <1>1, <1>2, <1>4, Effect DEF Protocol!StartBlock
  <2>2. QED
    BY <2>1 DEF Protocol!Next
<1>5. CASE e.ev \in {"text_delta", "json_delta"} /\ Phase(out) = "open" /\ e.idx \in Open(out)
  <2>1. Protocol!Delta
    BY <1>1, <1>2, <1>5, Effect DEF Protocol!Delta
  <2>2. QED
    BY <2>1 DEF Protocol!Next
<1>6. CASE e.ev = "block_stop" /\ Phase(out) = "open" /\ e.idx \in Open(out)
  <2>1. Protocol!StopBlock
    BY <1>1, <1>2, <1>6, Effect DEF Protocol!StopBlock
  <2>2. QED
    BY <2>1 DEF Protocol!Next
<1>7. CASE e.ev = "message_delta" /\ Phase(out) \in {"before", "open"} /\ Open(out) = {}
  <2>1. Protocol!CloseMessage
    BY <1>1, <1>2, <1>7, Effect DEF Protocol!CloseMessage
  <2>2. QED
    BY <2>1 DEF Protocol!Next
<1>8. CASE e.ev = "message_stop" /\ Phase(out) = "closing"
  <2>1. Protocol!EndMessage
    BY <1>1, <1>2, <1>8, Effect DEF Protocol!EndMessage
  <2>2. QED
    BY <2>1 DEF Protocol!Next
<1>9. QED
  BY <1>3, <1>4, <1>5, <1>6, <1>7, <1>8 DEF Legal

-----------------------------------------------------------------------------
(***************************************************************************)
(* Sorted numbers: what sortInts returns.                                  *)
(***************************************************************************)

Increasing(s, n) == \A i, j \in 1 .. n : i < j => s[i] < s[j]

LEMMA SortedExists ==
  ASSUME NEW S \in SUBSET Nat, IsFiniteSet(S)
  PROVE  \E s \in [1 .. Cardinality(S) -> S] : Increasing(s, Cardinality(S))
<1> DEFINE N == Cardinality(S)
           Sorted(R, k) == \E s \in [1 .. k -> R] : Increasing(s, k)
           T == {k \in 0 .. N : \A R \in SUBSET S : Cardinality(R) = k => Sorted(R, k)}
<1>1. N \in Nat /\ \A R \in SUBSET S : IsFiniteSet(R) /\ Cardinality(R) \in Nat
  BY FS_CardinalityType, FS_Subset, Zenon
<1>2. 0 \in T
  <2>1. ASSUME NEW R \in SUBSET S, Cardinality(R) = 0 PROVE Sorted(R, 0)
    <3>1. [i \in 1 .. 0 |-> i] \in [1 .. 0 -> R]
      OBVIOUS
    <3>2. Increasing([i \in 1 .. 0 |-> i], 0)
      BY DEF Increasing
    <3>3. QED
      BY <3>1, <3>2, Zenon
  <2>2. QED
    BY <1>1, <2>1
<1>3. ASSUME NEW k \in 1 .. N, k - 1 \in T PROVE k \in T
  <2>1. ASSUME NEW R \in SUBSET S, Cardinality(R) = k PROVE Sorted(R, k)
    <3>1. R # {} /\ R \in SUBSET Int /\ IsFiniteSet(R)
      BY <1>1, <2>1, FS_EmptySet
    <3>2. Max(R) \in R /\ \A x \in R : x <= Max(R)
      BY <3>1, Greatest
    <3> DEFINE Q == R \ {Max(R)}
    <3>3. Q \in SUBSET S /\ Cardinality(Q) = k - 1
      BY <1>1, <2>1, <3>1, <3>2, FS_RemoveElement, ZenonT(60)
    <3>4. PICK s \in [1 .. k - 1 -> Q] : Increasing(s, k - 1)
      BY <1>3, <3>3
    <3> DEFINE u == [i \in 1 .. k |-> IF i = k THEN Max(R) ELSE s[i]]
    <3>5. \A i \in 1 .. k : i # k => i \in 1 .. k - 1 /\ s[i] \in R /\ s[i] # Max(R)
      BY <3>4
    <3>6. u \in [1 .. k -> R]
      BY <3>2, <3>5
    <3>7. \A x \in R : x \in Nat
      BY <3>1
    <3>8. ASSUME NEW i \in 1 .. k, NEW j \in 1 .. k, i < j PROVE u[i] < u[j]
      <4>1. i # k /\ i \in 1 .. k - 1
        BY <3>8
      <4>2. CASE j = k
        <5>1. s[i] \in R /\ s[i] # Max(R) /\ s[i] <= Max(R)
          BY <3>2, <3>5, <4>1, Zenon
        <5>2. s[i] \in Nat /\ Max(R) \in Nat
          BY <3>2, <3>7, <5>1, Zenon
        <5>3. s[i] < Max(R)
          BY <5>1, <5>2
        <5>4. u[i] = s[i] /\ u[j] = Max(R)
          BY <4>1, <4>2
        <5>5. QED
          BY <5>3, <5>4
      <4>3. CASE j # k
        <5>1. j \in 1 .. k - 1
          BY <4>3
        <5>2. QED
          BY <3>4, <3>8, <4>1, <4>3, <5>1 DEF Increasing
      <4>4. QED
        BY <4>2, <4>3
    <3> HIDE DEF u
    <3>9. Increasing(u, k)
      BY <3>8 DEF Increasing
    <3>10. QED
      BY <3>6, <3>9
  <2> HIDE DEF Sorted
  <2>2. QED
    BY <1>1, <2>1
<1> HIDE DEF T
<1>4. \A k \in 0 .. N : k \in T
  BY <1>1, <1>2, <1>3, Upwards
<1>5. N \in T
  BY <1>1, <1>4
<1>6. QED
  BY <1>5 DEF T

LEMMA Sorts ==
  ASSUME NEW S \in SUBSET Nat, IsFiniteSet(S)
  PROVE  /\ Cardinality(S) \in Nat
         /\ SortInts(S) \in [1 .. Cardinality(S) -> S]
         /\ \A i, j \in 1 .. Cardinality(S) : i < j => SortInts(S)[i] < SortInts(S)[j]
         /\ \A x \in S : \E i \in 1 .. Cardinality(S) : SortInts(S)[i] = x
<1> DEFINE N == Cardinality(S)
           s == SortInts(S)
<1>1. N \in Nat
  BY FS_CardinalityType
<1>2. \E u \in [1 .. N -> S] : \A i, j \in 1 .. N : i < j => u[i] < u[j]
  BY SortedExists DEF Increasing
<1>3. s \in [1 .. N -> S] /\ \A i, j \in 1 .. N : i < j => s[i] < s[j]
  BY <1>2, Zenon DEF SortInts
<1> HIDE DEF s
<1>4. s \in Injection(1 .. N, S)
  <2>1. ASSUME NEW i \in 1 .. N, NEW j \in 1 .. N, s[i] = s[j] PROVE i = j
    <3>1. i \in Nat /\ j \in Nat /\ s[i] \in Nat /\ s[j] \in Nat
      <4>1. s[i] \in S /\ s[j] \in S
        BY <1>3
      <4>2. s[i] \in Nat /\ s[j] \in Nat
        BY <4>1, Zenon
      <4>3. QED
        BY <1>1, <4>2
    <3>2. ~(i < j) /\ ~(j < i)
      BY <1>3, <2>1, <3>1
    <3>3. QED
      BY <3>1, <3>2
  <2>2. s \in [1 .. N -> S] /\ \A i, j \in 1 .. N : s[i] = s[j] => i = j
    BY <1>3, <2>1
  <2> HIDE DEF N
  <2>3. QED
    BY <2>2 DEF Injection, IsInjective
<1>5. Cardinality(1 .. N) = N
  BY <1>1, FS_Interval
<1>6. s \in Surjection(1 .. N, S)
  BY <1>4, <1>5, FS_Injection
<1>7. \A x \in S : \E i \in 1 .. N : s[i] = x
  BY <1>6 DEF Surjection
<1>8. QED
  BY <1>1, <1>3, <1>7 DEF s

-----------------------------------------------------------------------------
(***************************************************************************)
(* The translator: its fields say which blocks the events so far have left *)
(* open.                                                                   *)
(***************************************************************************)

Growing(s, u) == Len(s) <= Len(u) /\ \A n \in 1 .. Len(s) : u[n] = s[n]

LEMMA Emitted ==
  ASSUME NEW s, Good(s), NEW e, Legal(s, e)
  PROVE  /\ Good(Append(s, e)) /\ Growing(s, Append(s, e))
         /\ Phase(Append(s, e)) = CASE e.ev = "message_start" -> "open"
                                    [] e.ev = "message_delta" -> "closing"
                                    [] e.ev = "message_stop"  -> "ended"
                                    [] OTHER                  -> Phase(s)
         /\ Opened(Append(s, e)) = Opened(s) + (IF e.ev = "block_start" THEN 1 ELSE 0)
         /\ Open(Append(s, e)) = CASE e.ev = "block_start" -> Open(s) \cup {e.idx}
                                   [] e.ev = "block_stop"  -> Open(s) \ {e.idx}
                                   [] OTHER                -> Open(s)
<1>1. Sequence(s) /\ Numbered(s)
  BY GoodNumbered
<1>2. Growing(s, Append(s, e))
  <2>1. Len(s) \in Nat /\ Len(Append(s, e)) = Len(s) + 1
        /\ \A n \in 1 .. Len(s) : Append(s, e)[n] = s[n]
    BY <1>1, Elements, Longer
  <2>2. QED
    BY <2>1 DEF Growing
<1>3. QED
  BY <1>1, <1>2, GoodLonger, Effect

LEMMA Grown ==
  ASSUME NEW s, NEW t, NEW u, Sequence(s), Sequence(t), Sequence(u),
         Growing(s, t), Growing(t, u)
  PROVE  Growing(s, u)
<1>1. Len(s) \in Nat /\ Len(t) \in Nat /\ Len(u) \in Nat
  BY Elements
<1>2. QED
  BY <1>1 DEF Growing

LEMMA OpenBelow ==
  ASSUME NEW s, Good(s)
  PROVE  Opened(s) \in Nat /\ Open(s) \subseteq 0 .. Opened(s) - 1
BY GoodNumbered, Counted DEF Numbered, Open

Fields(t) ==
  t \in [started : BOOLEAN, next : Nat, openText : BOOLEAN, textIdx : Nat, tools : {t.tools},
         stop : {t.stop}, usage : {"estimated", "reported"}, out : {t.out}]

Translating(t) ==
  /\ Fields(t)
  /\ Good(t.out) /\ t.next = Opened(t.out)
  /\ DOMAIN t.tools \subseteq Calls
  /\ \A i, j \in DOMAIN t.tools : t.tools[i] = t.tools[j] => i = j
  /\ t.openText => \A i \in DOMAIN t.tools : t.tools[i] # t.textIdx
  /\ Open(t.out) = {t.tools[i] : i \in DOMAIN t.tools}
                     \cup (IF t.openText THEN {t.textIdx} ELSE {})
  /\ Phase(t.out) = IF t.started THEN "open" ELSE "before"
  /\ ~t.started => t.out = <<>>

\* What an operator of the translator does.
Translates(t, u) == Translating(u) /\ Growing(t.out, u.out) /\ u.started = t.started

LEMMA NewTranslates == Translating(NewTranslator) /\ NewTranslator.out = <<>>
<1>1. DOMAIN <<>> = {}
  OBVIOUS
<1>2. QED
  BY <1>1, Nothing, GoodNothing DEF NewTranslator, Translating, Fields

LEMMA GrowsItself == \A s : Sequence(s) => Growing(s, s)
BY Elements DEF Growing

LEMMA Starts ==
  ASSUME NEW t, Translating(t)
  PROVE  Translating(Start(t)) /\ Growing(t.out, Start(t).out) /\ Start(t).started
<1>1. CASE t.started
  BY <1>1, GrowsItself DEF Start, Translating, Good
<1>2. CASE ~t.started
  <2> DEFINE u == Append(t.out, MessageStart)
  <2>1. Start(t) = [t EXCEPT !.started = TRUE, !.out = u]
    BY <1>2 DEF Start, Emit, Translating, Fields
  <2>2. Good(t.out) /\ Legal(t.out, MessageStart)
    BY <1>2 DEF Translating, Legal, MessageStart
  <2>3. Good(u) /\ Growing(t.out, u) /\ Phase(u) = "open" /\ Opened(u) = Opened(t.out)
        /\ Open(u) = Open(t.out)
    <3>1. Opened(t.out) \in Nat
      BY <2>2, OpenBelow
    <3>2. QED
      BY <2>2, <3>1, Emitted DEF MessageStart
  <2> HIDE DEF u
  <2> DEFINE x == Start(t)
  <2>4. /\ Fields(x) /\ x.started /\ x.next = t.next /\ x.openText = t.openText
        /\ x.textIdx = t.textIdx /\ x.tools = t.tools /\ x.out = u
    BY <2>1, Zenon DEF Translating, Fields
  <2> HIDE DEF x
  <2>5. Translating(x) /\ Growing(t.out, x.out) /\ x.started
    BY <2>3, <2>4 DEF Translating
  <2>6. QED
    BY <2>5 DEF x
<1>3. QED
  BY <1>1, <1>2

LEMMA Closes ==
  ASSUME NEW t, Translating(t)
  PROVE  Translates(t, CloseText(t)) /\ ~CloseText(t).openText /\ CloseText(t).tools = t.tools
         /\ CloseText(t).usage = t.usage /\ CloseText(t).stop = t.stop
<1>1. CASE ~t.openText
  BY <1>1, GrowsItself DEF CloseText, Translates, Translating, Good
<1>2. CASE t.openText
  <2> DEFINE e == BlockStop(t.textIdx)
             u == Append(t.out, e)
  <2>1. CloseText(t) = [t EXCEPT !.openText = FALSE, !.out = u]
    BY <1>2 DEF CloseText, Emit, Translating, Fields
  <2>2. t.started
    BY <1>2, Nothing, Zenon DEF Translating
  <2>3. Good(t.out) /\ Legal(t.out, e) /\ e.ev = "block_stop" /\ e.idx = t.textIdx
    BY <1>2, <2>2 DEF Translating, Legal, BlockStop
  <2> HIDE DEF e
  <2>4. Good(u) /\ Growing(t.out, u) /\ Phase(u) = "open" /\ Opened(u) = Opened(t.out)
        /\ Open(u) = Open(t.out) \ {t.textIdx}
    <3>1. Opened(t.out) \in Nat
      BY <2>3, OpenBelow
    <3>2. Phase(t.out) = "open"
      BY <2>2 DEF Translating
    <3>3. QED
      BY <2>3, <3>1, <3>2, Emitted
  <2> HIDE DEF u
  <2>5. Open(u) = {t.tools[i] : i \in DOMAIN t.tools}
    BY <1>2, <2>4 DEF Translating
  <2> DEFINE x == CloseText(t)
  <2>6. /\ Fields(x) /\ x.started = t.started /\ x.next = t.next /\ ~x.openText
        /\ x.tools = t.tools /\ x.out = u /\ x.usage = t.usage /\ x.stop = t.stop
    BY <2>1, Zenon DEF Translating, Fields
  <2> HIDE DEF x
  <2>7. Translating(x) /\ Growing(t.out, x.out)
    BY <2>2, <2>4, <2>5, <2>6 DEF Translating
  <2>8. QED
    BY <2>6, <2>7 DEF Translates, x
<1>3. QED
  BY <1>1, <1>2

LEMMA TextOpens ==
  ASSUME NEW t, Translating(t), t.started
  PROVE  Translates(t, EnsureText(t)) /\ EnsureText(t).openText
<1>1. CASE t.openText
  BY <1>1, GrowsItself, Zenon DEF EnsureText, Translates, Translating, Good
<1>2. CASE ~t.openText
  <2> DEFINE e == TextStart(t.next)
             u == Append(t.out, e)
  <2>1. EnsureText(t) = [t EXCEPT !.openText = TRUE, !.textIdx = t.next, !.next = t.next + 1, !.out = u]
    BY <1>2 DEF EnsureText, Emit, Translating, Fields
  <2>2. Good(t.out) /\ Legal(t.out, e) /\ e.ev = "block_start" /\ e.idx = t.next
    BY DEF Translating, Legal, TextStart
  <2> HIDE DEF e
  <2>3. Good(u) /\ Growing(t.out, u) /\ Phase(u) = "open" /\ Opened(u) = Opened(t.out) + 1
        /\ Open(u) = Open(t.out) \cup {t.next}
    <3>1. Phase(t.out) = "open"
      BY DEF Translating
    <3>2. QED
      BY <2>2, <3>1, Emitted
  <2> HIDE DEF u
  <2>4. t.next \in Nat /\ t.next \notin Open(t.out)
    <3>1. Open(t.out) \subseteq 0 .. Opened(t.out) - 1 /\ t.next = Opened(t.out) /\ t.next \in Nat
      BY <2>2, OpenBelow DEF Translating
    <3>2. QED
      BY <3>1
  <2>5. Open(u) = {t.tools[i] : i \in DOMAIN t.tools} \cup {t.next}
        /\ \A i \in DOMAIN t.tools : t.tools[i] # t.next
    BY <1>2, <2>3, <2>4 DEF Translating
  <2> DEFINE x == EnsureText(t)
  <2>6. /\ Fields(x) /\ x.started = t.started /\ x.next = t.next + 1 /\ x.openText
        /\ x.textIdx = t.next /\ x.tools = t.tools /\ x.out = u
    <3>1. PICK m \in Nat : m = t.next + 1
      BY <2>4
    <3>2. x = [t EXCEPT !.openText = TRUE, !.textIdx = t.next, !.next = m, !.out = u]
      BY <2>1, <3>1
    <3> HIDE DEF x
    <3>3. QED
      BY <2>4, <3>1, <3>2, Zenon DEF Translating, Fields
  <2> HIDE DEF x
  <2>7. Translating(x) /\ Growing(t.out, x.out)
    BY <2>3, <2>4, <2>5, <2>6 DEF Translating
  <2>8. QED
    BY <2>6, <2>7 DEF Translates, x
<1>3. QED
  BY <1>1, <1>2

LEMMA ToolOpens ==
  ASSUME NEW t, Translating(t), t.started, NEW i \in Calls, i \notin DOMAIN t.tools, NEW name
  PROVE  Translates(t, OpenTool(t, i, name)) /\ i \in DOMAIN OpenTool(t, i, name).tools
<1> DEFINE w == CloseText(t)
           e == ToolStart(w.next, name)
           u == Append(w.out, e)
           tools == With(w.tools, i, w.next)
<1>1. Translating(w) /\ w.started /\ ~w.openText /\ w.tools = t.tools /\ Growing(t.out, w.out)
  BY Closes DEF Translates
<1>2. OpenTool(t, i, name) = [w EXCEPT !.tools = tools, !.next = w.next + 1, !.out = u]
  <2> HIDE DEF w
  <2>1. OpenTool(t, i, name)
          = Emit([w EXCEPT !.tools = With(@, i, w.next), !.next = @ + 1], ToolStart(w.next, name))
    BY DEF OpenTool, w
  <2>2. QED
    BY <1>1, <2>1 DEF Emit, Translating, Fields
<1> HIDE DEF w
<1>3. Good(w.out) /\ Legal(w.out, e) /\ e.ev = "block_start" /\ e.idx = w.next
  BY <1>1 DEF Translating, Legal, ToolStart
<1> HIDE DEF e
<1>4. Good(u) /\ Growing(w.out, u) /\ Phase(u) = "open" /\ Opened(u) = Opened(w.out) + 1
      /\ Open(u) = Open(w.out) \cup {w.next}
  <2>1. Phase(w.out) = "open"
    BY <1>1 DEF Translating
  <2>2. QED
    BY <1>3, <2>1, Emitted
<1>5. w.next \in Nat /\ w.next \notin Open(w.out)
  <2>1. Open(w.out) \subseteq 0 .. Opened(w.out) - 1 /\ w.next = Opened(w.out) /\ w.next \in Nat
    BY <1>1, <1>3, OpenBelow DEF Translating
  <2>2. QED
    BY <2>1
<1>6. /\ DOMAIN tools = DOMAIN t.tools \cup {i} /\ tools[i] = w.next
      /\ \A j \in DOMAIN t.tools : tools[j] = t.tools[j]
  BY <1>1 DEF With
<1>7. Growing(t.out, u)
  BY <1>1, <1>3, <1>4, Grown DEF Translating, Good
<1> HIDE DEF u, tools
<1>8. Open(w.out) = {t.tools[j] : j \in DOMAIN t.tools}
  BY <1>1 DEF Translating
<1>9. Open(u) = {tools[j] : j \in DOMAIN tools}
  BY <1>4, <1>6, <1>8
<1>10. \A j, k \in DOMAIN tools : tools[j] = tools[k] => j = k
  <2>1. \A j, k \in DOMAIN t.tools : t.tools[j] = t.tools[k] => j = k
    BY DEF Translating
  <2>2. \A j \in DOMAIN t.tools : t.tools[j] # w.next
    BY <1>5, <1>8
  <2>3. QED
    BY <1>6, <2>1, <2>2
<1>11. DOMAIN tools \subseteq Calls
  BY <1>6 DEF Translating
<1> DEFINE x == OpenTool(t, i, name)
<1>12. /\ Fields(x) /\ x.started = t.started /\ x.next = w.next + 1 /\ ~x.openText
       /\ x.tools = tools /\ x.out = u
  <2>1. PICK m \in Nat : m = w.next + 1
    BY <1>5
  <2>2. x = [w EXCEPT !.tools = tools, !.next = m, !.out = u]
    BY <1>2, <2>1
  <2> HIDE DEF x
  <2>3. QED
    BY <1>1, <2>1, <2>2, Zenon DEF Translating, Fields
<1> HIDE DEF x
<1>13. Translating(x)
  BY <1>1, <1>4, <1>9, <1>10, <1>11, <1>12 DEF Translating
<1>14. QED
  BY <1>6, <1>7, <1>12, <1>13 DEF Translates, x

\* A chunk an upstream may send.
Chunks(c) == c.kind \in {"text", "tool", "finish", "usage"} /\ (c.kind = "tool" => c.i \in Calls)

-----------------------------------------------------------------------------
(***************************************************************************)
(* What the pieces say of the end: a translation has heard as much when    *)
(* its stop reason and usage are those of the pieces so far.               *)
(***************************************************************************)

LEMMA NothingHeard == FinishOf(<<>>) = Empty /\ UsageOf(<<>>) = "estimated"
<1>1. \A kind : PlacesOf(<<>>, kind) = {}
  BY DEF PlacesOf
<1>2. QED
  BY <1>1 DEF FinishOf, UsageOf

LEMMA Heard ==
  ASSUME NEW ps, Sequence(ps), NEW c
  PROVE  /\ FinishOf(Append(ps, c)) = IF c.kind = "finish" THEN c.why ELSE FinishOf(ps)
         /\ UsageOf(Append(ps, c)) = IF c.kind = "usage" THEN "reported" ELSE UsageOf(ps)
<1> DEFINE u == Append(ps, c)
           N == Len(ps) + 1
<1>1. /\ Len(ps) \in Nat /\ DOMAIN ps = 1 .. Len(ps) /\ DOMAIN u = 1 .. N
      /\ u[N] = c /\ \A n \in 1 .. Len(ps) : u[n] = ps[n]
  BY Elements, Longer
<1> HIDE DEF u
<1>2. \A n : n \in 1 .. N <=> n \in 1 .. Len(ps) \/ n = N
  BY <1>1
<1>3. ASSUME NEW kind
      PROVE  /\ PlacesOf(ps, kind) \subseteq 1 .. Len(ps)
             /\ PlacesOf(u, kind) = PlacesOf(ps, kind) \cup (IF c.kind = kind THEN {N} ELSE {})
  BY <1>1, <1>2 DEF PlacesOf
<1> DEFINE at == PlacesOf(ps, "finish")
<1>4. FinishOf(u) = IF c.kind = "finish" THEN c.why ELSE FinishOf(ps)
  <2>1. CASE c.kind = "finish"
    <3>1. PlacesOf(u, "finish") = at \cup {N} /\ N \in Nat /\ at \cup {N} \in SUBSET (1 .. N)
      BY <1>1, <1>3, <2>1
    <3>2. Max(at \cup {N}) = N
      BY <3>1, MaxOf
    <3>3. QED
      BY <1>1, <2>1, <3>1, <3>2, Zenon DEF FinishOf
  <2>2. CASE c.kind # "finish"
    <3>1. PlacesOf(u, "finish") = at
      BY <1>3, <2>2, Zenon
    <3>2. ASSUME at # {} PROVE u[Max(at)] = ps[Max(at)]
      <4>1. at \in SUBSET (1 .. Len(ps))
        BY <1>3
      <4>2. Max(at) \in at
        BY <1>1, <3>2, <4>1, MaxIn, Zenon
      <4>3. QED
        BY <1>1, <4>1, <4>2
    <3>3. QED
      BY <2>2, <3>1, <3>2 DEF FinishOf
  <2>3. QED
    BY <2>1, <2>2
<1>5. UsageOf(u) = IF c.kind = "usage" THEN "reported" ELSE UsageOf(ps)
  BY <1>3 DEF UsageOf
<1>6. QED
  BY <1>4, <1>5 DEF u

Told(t, ps) == OrEndTurn(t.stop) = StopFromFinish(FinishOf(ps)) /\ t.usage = UsageOf(ps)

LEMMA Stops ==
  ASSUME NEW why
  PROVE  /\ StopFromFinish(why) \in {"max_tokens", "tool_use", "end_turn"}
         /\ OrEndTurn(StopFromFinish(why)) = StopFromFinish(why)
         /\ OrEndTurn(Empty) = StopFromFinish(Empty)
BY DEF StopFromFinish, OrEndTurn, Empty

\* A translation hears of a piece what the pieces say: x, of c after ps.
LEMMA Hears ==
  ASSUME NEW t, NEW x, NEW ps, Sequence(ps), NEW c, Told(t, ps),
         x.stop = IF c.kind = "finish" THEN StopFromFinish(c.why) ELSE t.stop,
         x.usage = IF c.kind = "usage" THEN "reported" ELSE t.usage
  PROVE  Told(x, Append(ps, c))
<1>1. x.usage = UsageOf(Append(ps, c))
  BY Heard DEF Told
<1>2. OrEndTurn(x.stop) = StopFromFinish(FinishOf(Append(ps, c)))
  <2>1. CASE c.kind = "finish"
    BY <2>1, Heard, Stops
  <2>2. CASE c.kind # "finish"
    BY <2>2, Heard DEF Told
  <2>3. QED
    BY <2>1, <2>2
<1>3. QED
  BY <1>1, <1>2 DEF Told

\* A delta to an open block.
LEMMA Deltas ==
  ASSUME NEW t, Translating(t), t.started, NEW e,
         e.ev \in {"text_delta", "json_delta"}, e.idx \in Open(t.out)
  PROVE  Translates(t, Emit(t, e))
<1> DEFINE u == Append(t.out, e)
           x == Emit(t, e)
<1>1. x = [t EXCEPT !.out = u]
  BY DEF Emit, Translating, Fields
<1>2. Good(t.out) /\ Legal(t.out, e) /\ Phase(t.out) = "open"
  BY DEF Translating, Legal
<1>3. Opened(t.out) \in Nat
  BY <1>2, OpenBelow
<1>4. Good(u) /\ Growing(t.out, u) /\ Phase(u) = "open" /\ Opened(u) = Opened(t.out)
      /\ Open(u) = Open(t.out)
  BY <1>2, <1>3, Emitted
<1> HIDE DEF u
<1>5. /\ Fields(x) /\ x.started = t.started /\ x.next = t.next /\ x.openText = t.openText
      /\ x.textIdx = t.textIdx /\ x.tools = t.tools /\ x.out = u
  BY <1>1, Zenon DEF Translating, Fields
<1> HIDE DEF x
<1>6. Translating(x)
  BY <1>4, <1>5 DEF Translating
<1>7. QED
  BY <1>4, <1>5, <1>6 DEF Translates, x

LEMMA Translated ==
  ASSUME NEW t, NEW u, NEW w, Translating(t), Translates(t, u), Translates(u, w)
  PROVE  Translates(t, w)
BY Grown DEF Translates, Translating, Good

LEMMA ChunkTranslates ==
  ASSUME NEW t, Translating(t), t.started, NEW c, Chunks(c)
  PROVE  Translates(t, Chunk(t, c))
<1>0. Translates(t, t)
  BY GrowsItself DEF Translates, Translating, Good
<1>1. CASE c.kind = "text"
  <2> DEFINE u == EnsureText(t)
             e == TextDelta(u.textIdx, <<c.n>>)
  <2>1. Translates(t, u) /\ u.openText
    BY TextOpens
  <2>2. e.ev = "text_delta" /\ e.idx = u.textIdx
    BY DEF TextDelta
  <2>3. Chunk(t, c) = Emit(u, e)
    BY <1>1 DEF Chunk, TextChunk
  <2> HIDE DEF u, e
  <2>4. e.idx \in Open(u.out)
    BY <2>1, <2>2 DEF Translates, Translating
  <2>5. Translating(u) /\ u.started
    BY <2>1 DEF Translates
  <2>6. Translates(u, Emit(u, e))
    BY <2>2, <2>4, <2>5, Deltas
  <2>7. QED
    BY <2>1, <2>3, <2>6, Translated
<1>2. CASE c.kind = "tool"
  <2> DEFINE name == IF c.head THEN c.i ELSE NoName
             u == IF c.i \in DOMAIN t.tools THEN t ELSE OpenTool(t, c.i, name)
             e == JsonDelta(u.tools[c.i], <<c.arg>>)
  <2>1. c.i \in Calls
    BY <1>2 DEF Chunks
  <2>2. Translates(t, u) /\ c.i \in DOMAIN u.tools
    <3>1. CASE c.i \in DOMAIN t.tools
      BY <1>0, <3>1
    <3>2. CASE c.i \notin DOMAIN t.tools
      <4> HIDE DEF name
      <4>1. Translates(t, OpenTool(t, c.i, name)) /\ c.i \in DOMAIN OpenTool(t, c.i, name).tools
        BY <2>1, <3>2, ToolOpens
      <4>2. QED
        BY <3>2, <4>1
    <3>3. QED
      BY <3>1, <3>2
  <2>3. e.ev = "json_delta" /\ e.idx = u.tools[c.i]
    BY DEF JsonDelta
  <2>4. Chunk(t, c) = IF c.arg = Empty THEN u ELSE Emit(u, e)
    BY <1>2, Zenon DEF Chunk, ToolChunk
  <2> HIDE DEF u, e
  <2>5. e.idx \in Open(u.out)
    BY <2>2, <2>3 DEF Translates, Translating
  <2>6. Translates(u, Emit(u, e))
    <3>1. Translating(u) /\ u.started
      BY <2>2 DEF Translates
    <3>2. QED
      BY <2>3, <2>5, <3>1, Deltas
  <2>7. CASE c.arg = Empty
    BY <2>2, <2>4, <2>7
  <2>8. CASE c.arg # Empty
    BY <2>2, <2>4, <2>6, <2>8, Translated
  <2>9. QED
    BY <2>7, <2>8
<1>3. CASE c.kind = "finish"
  <2> DEFINE x == [t EXCEPT !.stop = StopFromFinish(c.why)]
  <2>1. Chunk(t, c) = x
    BY <1>3 DEF Chunk
  <2>2. /\ Fields(x) /\ x.started = t.started /\ x.next = t.next /\ x.openText = t.openText
        /\ x.textIdx = t.textIdx /\ x.tools = t.tools /\ x.out = t.out
    BY Zenon DEF Translating, Fields
  <2> HIDE DEF x
  <2>3. Translates(t, x)
    BY <1>0, <2>2 DEF Translates, Translating
  <2>4. QED
    BY <2>1, <2>3
<1>4. CASE c.kind = "usage"
  <2> DEFINE x == [t EXCEPT !.usage = "reported"]
  <2>1. Chunk(t, c) = x
    BY <1>4 DEF Chunk
  <2>2. /\ Fields(x) /\ x.started = t.started /\ x.next = t.next /\ x.openText = t.openText
        /\ x.textIdx = t.textIdx /\ x.tools = t.tools /\ x.out = t.out
    BY Zenon DEF Translating, Fields
  <2> HIDE DEF x
  <2>3. Translates(t, x)
    BY <1>0, <2>2 DEF Translates, Translating
  <2>4. QED
    BY <2>1, <2>3
<1>5. QED
  BY <1>1, <1>2, <1>3, <1>4 DEF Chunks

\* What the translator emits is not what it hears.
LEMMA EmitsSame ==
  ASSUME NEW t, Fields(t), NEW e
  PROVE  Emit(t, e).stop = t.stop /\ Emit(t, e).usage = t.usage
BY DEF Emit, Fields

LEMMA OpensSame ==
  ASSUME NEW t, Translating(t), NEW i, NEW name
  PROVE  /\ EnsureText(t).stop = t.stop /\ EnsureText(t).usage = t.usage
         /\ OpenTool(t, i, name).stop = t.stop /\ OpenTool(t, i, name).usage = t.usage
<1>1. EnsureText(t).stop = t.stop /\ EnsureText(t).usage = t.usage
  BY DEF EnsureText, Emit, Translating, Fields
<1> DEFINE w == CloseText(t)
<1>2. Fields(w) /\ w.stop = t.stop /\ w.usage = t.usage
  BY Closes DEF Translates, Translating
<1> DEFINE tools == With(w.tools, i, w.next)
           next == w.next + 1
           v == [w EXCEPT !.tools = tools, !.next = next]
           e == ToolStart(w.next, name)
<1>3. OpenTool(t, i, name) = Emit(v, e)
  BY DEF OpenTool
<1> HIDE DEF w, e, tools, next
<1>4. /\ DOMAIN v = DOMAIN w /\ v.stop = w.stop /\ v.usage = w.usage
      /\ {"stop", "usage", "out"} \subseteq DOMAIN v
  BY <1>2 DEF Fields
<1> HIDE DEF v
<1>5. Emit(v, e).stop = v.stop /\ Emit(v, e).usage = v.usage
  BY <1>4 DEF Emit
<1>6. QED
  BY <1>1, <1>2, <1>3, <1>4, <1>5

LEMMA StartTold ==
  ASSUME NEW t, Translating(t), NEW ps, Told(t, ps)
  PROVE  Told(Start(t), ps)
BY DEF Told, Start, Emit, Translating, Fields

LEMMA ChunkTold ==
  ASSUME NEW t, Translating(t), t.started, NEW c, Chunks(c), NEW ps, Sequence(ps), Told(t, ps)
  PROVE  Told(Chunk(t, c), Append(ps, c))
<1>1. CASE c.kind = "text"
  <2> DEFINE u == EnsureText(t)
             e == TextDelta(u.textIdx, <<c.n>>)
  <2>1. Chunk(t, c) = Emit(u, e)
    BY <1>1 DEF Chunk, TextChunk
  <2>2. Fields(u) /\ u.stop = t.stop /\ u.usage = t.usage
    BY TextOpens, OpensSame DEF Translates, Translating
  <2> HIDE DEF u, e
  <2>3. QED
    BY <1>1, <2>1, <2>2, EmitsSame, Hears
<1>2. CASE c.kind = "tool"
  <2> DEFINE name == IF c.head THEN c.i ELSE NoName
             u == IF c.i \in DOMAIN t.tools THEN t ELSE OpenTool(t, c.i, name)
             e == JsonDelta(u.tools[c.i], <<c.arg>>)
  <2>1. Chunk(t, c) = IF c.arg = Empty THEN u ELSE Emit(u, e)
    BY <1>2, Zenon DEF Chunk, ToolChunk
  <2>2. Fields(u) /\ u.stop = t.stop /\ u.usage = t.usage
    <3> HIDE DEF name
    <3>1. CASE c.i \in DOMAIN t.tools
      BY <3>1 DEF Translating
    <3>2. CASE c.i \notin DOMAIN t.tools
      <4>1. Translating(OpenTool(t, c.i, name))
        BY <1>2, <3>2, ToolOpens DEF Translates, Chunks
      <4>2. u = OpenTool(t, c.i, name)
        BY <3>2
      <4> HIDE DEF u
      <4>3. QED
        BY <4>1, <4>2, OpensSame DEF Translating
    <3>3. QED
      BY <3>1, <3>2
  <2> HIDE DEF u, e
  <2> DEFINE x == Chunk(t, c)
  <2>3. x.stop = t.stop /\ x.usage = t.usage
    BY <2>1, <2>2, EmitsSame
  <2> HIDE DEF x
  <2>4. Told(x, Append(ps, c))
    BY <1>2, <2>3, Hears
  <2>5. QED
    BY <2>4 DEF x
<1>3. CASE c.kind \in {"finish", "usage"}
  <2> DEFINE x == Chunk(t, c)
  <2>1. /\ x.stop = IF c.kind = "finish" THEN StopFromFinish(c.why) ELSE t.stop
        /\ x.usage = IF c.kind = "usage" THEN "reported" ELSE t.usage
    BY <1>3 DEF Chunk, Translating, Fields
  <2> HIDE DEF x
  <2>2. Told(x, Append(ps, c))
    BY <2>1, Hears
  <2>3. QED
    BY <2>2 DEF x
<1>4. QED
  BY <1>1, <1>2, <1>3 DEF Chunks

-----------------------------------------------------------------------------
(***************************************************************************)
(* The end of a translation.                                               *)
(***************************************************************************)

\* Joining sequences, element by element.
LEMMA JoinedOne ==
  ASSUME NEW s, NEW b, Sequence(s), Sequence(b), NEW k \in 1 .. Len(b)
  PROVE  /\ s \o SubSeq(b, 1, k) = Append(s \o SubSeq(b, 1, k - 1), b[k])
         /\ s \o SubSeq(b, 1, 0) = s /\ SubSeq(b, 1, Len(b)) = b
<1>0. /\ Len(s) \in Nat /\ Len(b) \in Nat /\ k \in 0 .. Len(b) /\ k - 1 \in 0 .. Len(b)
      /\ 0 \in 0 .. Len(b) /\ k \in Nat
  BY Elements
<1> DEFINE p == SubSeq(b, 1, k)
           q == SubSeq(b, 1, k - 1)
           l == s \o p
           m == s \o q
           r == Append(m, b[k])
<1>1. Sequence(p) /\ Len(p) = k /\ \A n \in 1 .. k : p[n] = b[n]
  BY <1>0, Shorter
<1>2. Sequence(q) /\ Len(q) = k - 1 /\ \A n \in 1 .. k - 1 : q[n] = b[n]
  BY <1>0, Shorter
<1> HIDE DEF p, q
<1>3. Sequence(l) /\ Len(l) = Len(s) + k /\ (\A n \in 1 .. Len(s) : l[n] = s[n])
      /\ \A n \in 1 .. k : l[Len(s) + n] = p[n]
  BY <1>1, Joined
<1>4. Sequence(m) /\ Len(m) = Len(s) + (k - 1) /\ (\A n \in 1 .. Len(s) : m[n] = s[n])
      /\ \A n \in 1 .. k - 1 : m[Len(s) + n] = q[n]
  BY <1>2, Joined
<1> HIDE DEF l, m
<1>5. Sequence(r) /\ Len(r) = Len(m) + 1 /\ r[Len(m) + 1] = b[k]
      /\ \A n \in 1 .. Len(m) : r[n] = m[n]
  BY <1>4, Longer
<1> HIDE DEF r
<1>6. Len(l) = Len(r) /\ Len(m) + 1 = Len(s) + k
  BY <1>0, <1>3, <1>4, <1>5
<1>7. ASSUME NEW n \in 1 .. Len(l) PROVE l[n] = r[n]
  <2>1. CASE n \in 1 .. Len(s)
    <3>1. n \in 1 .. Len(m)
      BY <1>0, <1>4, <2>1
    <3>2. QED
      BY <1>3, <1>4, <1>5, <2>1, <3>1
  <2>2. CASE n = Len(s) + k
    <3>1. l[n] = p[k] /\ p[k] = b[k]
      BY <1>0, <1>1, <1>3, <2>2
    <3>2. r[n] = b[k]
      BY <1>5, <1>6, <2>2
    <3>3. QED
      BY <3>1, <3>2
  <2>3. CASE n \notin 1 .. Len(s) /\ n # Len(s) + k
    <3>1. PICK i \in 1 .. k - 1 : n = Len(s) + i
      <4>1. n \in 1 .. Len(s) + k
        BY <1>3
      <4>2. n \in Nat /\ n > Len(s) /\ n < Len(s) + k
        BY <1>0, <2>3, <4>1
      <4>3. n - Len(s) \in 1 .. k - 1 /\ n = Len(s) + (n - Len(s))
        BY <1>0, <4>2
      <4>4. QED
        BY <4>3
    <3>2. i \in 1 .. k /\ n \in 1 .. Len(m)
      BY <1>0, <1>4, <3>1
    <3>3. l[n] = b[i]
      BY <1>1, <1>3, <3>1, <3>2
    <3>4. r[n] = b[i]
      BY <1>2, <1>4, <1>5, <3>1, <3>2
    <3>5. QED
      BY <3>3, <3>4
  <2>4. QED
    BY <2>1, <2>2, <2>3
<1>8. l = r
  BY <1>3, <1>5, <1>6, <1>7, SameSequence, Zenon
<1>9. s \o SubSeq(b, 1, 0) = s
  <2>1. Sequence(SubSeq(b, 1, 0)) /\ Len(SubSeq(b, 1, 0)) = 0
    BY <1>0, Shorter
  <2>2. Sequence(s \o SubSeq(b, 1, 0)) /\ Len(s \o SubSeq(b, 1, 0)) = Len(s) + 0
        /\ \A n \in 1 .. Len(s) : (s \o SubSeq(b, 1, 0))[n] = s[n]
    BY <2>1, Joined
  <2>3. Len(s \o SubSeq(b, 1, 0)) = Len(s)
    BY <1>0, <2>2
  <2>4. QED
    BY <2>2, <2>3, SameSequence, Zenon
<1>10. QED
  BY <1>8, <1>9, Whole, Zenon DEF l, m, p, q, r

LEMMA ToolsStop ==
  ASSUME NEW t, Translating(t), ~t.openText
  PROVE  LET u == StopTools(t).out IN
         /\ Good(u) /\ Growing(t.out, u) /\ Open(u) = {} /\ Phase(u) = Phase(t.out)
         /\ StopTools(t) = [t EXCEPT !.out = u]
<1> DEFINE D == DOMAIN t.tools
           N == Cardinality(D)
           order == SortInts(D)
           b == [n \in DOMAIN order |-> BlockStop(t.tools[order[n]])]
           S(k) == t.out \o SubSeq(b, 1, k)
           Left(k) == {t.tools[i] : i \in D} \ {t.tools[order[n]] : n \in 1 .. k}
           T == {k \in 0 .. N : /\ Good(S(k)) /\ Growing(t.out, S(k))
                                /\ Phase(S(k)) = Phase(t.out) /\ Open(S(k)) = Left(k)}
<1>0. /\ Good(t.out) /\ Sequence(t.out) /\ D \subseteq Calls
      /\ \A i, j \in D : t.tools[i] = t.tools[j] => i = j
      /\ Open(t.out) = {t.tools[i] : i \in D}
      /\ Phase(t.out) = IF t.started THEN "open" ELSE "before"
      /\ ~t.started => t.out = <<>>
  BY DEF Translating, Good
<1>1. D \in SUBSET Nat /\ IsFiniteSet(D)
  <2>1. D \in SUBSET Nat /\ \A i \in D : i <= 1
    BY <1>0 DEF Calls
  <2>2. QED
    BY <2>1, FS_BoundedSetOfNaturals, Zenon
<1>2. /\ N \in Nat /\ order \in [1 .. N -> D]
      /\ \A i, j \in 1 .. N : i < j => order[i] < order[j]
      /\ \A x \in D : \E i \in 1 .. N : order[i] = x
  BY <1>1, Sorts
<1> HIDE DEF order, N
<1>3. /\ Sequence(b) /\ Len(b) = N
      /\ \A n \in 1 .. N : b[n].ev = "block_stop" /\ b[n].idx = t.tools[order[n]]
  <2>1. b = [n \in 1 .. N |-> BlockStop(t.tools[order[n]])]
    BY <1>2
  <2>2. Sequence(b) /\ Len(b) = N /\ DOMAIN b = 1 .. N
    <3> HIDE DEF b
    <3>1. DOMAIN b = 1 .. N /\ b = [n \in 1 .. N |-> b[n]]
      BY <2>1
    <3>2. QED
      BY <1>2, <3>1, Listed
  <2>3. \A n \in 1 .. N : b[n] = BlockStop(t.tools[order[n]])
    BY <2>1
  <2> HIDE DEF b
  <2>4. QED
    BY <2>2, <2>3 DEF BlockStop
<1> HIDE DEF b
<1>4. 0 \in T
  <2>1. S(0) = t.out
    <3>1. Sequence(SubSeq(b, 1, 0)) /\ Len(SubSeq(b, 1, 0)) = 0
      BY <1>2, <1>3, Shorter
    <3>2. Sequence(t.out \o SubSeq(b, 1, 0)) /\ Len(t.out \o SubSeq(b, 1, 0)) = Len(t.out) + 0
          /\ \A n \in 1 .. Len(t.out) : (t.out \o SubSeq(b, 1, 0))[n] = t.out[n]
      BY <1>0, <3>1, Joined
    <3>3. Len(t.out) \in Nat
      BY <1>0, Elements
    <3>4. Len(t.out \o SubSeq(b, 1, 0)) = Len(t.out)
      BY <3>2, <3>3
    <3>5. QED
      BY <1>0, <3>2, <3>4, SameSequence, Zenon
  <2>2. Left(0) = {t.tools[i] : i \in D}
    OBVIOUS
  <2>3. /\ Good(S(0)) /\ Growing(t.out, S(0)) /\ Phase(S(0)) = Phase(t.out)
        /\ Open(S(0)) = Left(0)
    <3> HIDE DEF S, Left
    <3>1. QED
      BY <1>0, <2>1, <2>2, GrowsItself, Zenon
  <2>4. 0 \in 0 .. N
    BY <1>2
  <2> HIDE DEF S, Left
  <2>5. QED
    BY <2>3, <2>4
<1>5. ASSUME NEW k \in 1 .. N, k - 1 \in T PROVE k \in T
  <2>0. t.out \o SubSeq(b, 1, k) = Append(t.out \o SubSeq(b, 1, k - 1), b[k])
    <3>1. Sequence(t.out) /\ Sequence(b) /\ k \in 1 .. Len(b)
      BY <1>0, <1>3
    <3>2. QED
      BY <3>1, JoinedOne, Zenon
  <2> DEFINE s == S(k - 1)
             e == b[k]
  <2>1. S(k) = Append(s, e)
    BY <2>0, Zenon
  <2>2. /\ Good(s) /\ Growing(t.out, s) /\ Phase(s) = Phase(t.out) /\ Open(s) = Left(k - 1)
    BY <1>5
  <2>3. e.ev = "block_stop" /\ e.idx = t.tools[order[k]]
    BY <1>3
  <2> HIDE DEF s, e
  <2>4. order[k] \in D /\ \A n \in 1 .. k - 1 : order[n] # order[k] /\ order[n] \in D
    <3>1. k \in Nat /\ \A n \in 1 .. k - 1 : n \in 1 .. N /\ n < k
      BY <1>2
    <3>2. \A n \in 1 .. N : order[n] \in Nat
      BY <1>1, <1>2
    <3>3. \A n \in 1 .. k - 1 : order[n] < order[k]
      BY <1>2, <3>1
    <3>4. \A n \in 1 .. k - 1 : order[n] # order[k]
      BY <1>2, <3>1, <3>2, <3>3
    <3>5. k \in 1 .. N
      BY <1>2
    <3>6. QED
      BY <1>2, <3>1, <3>4, <3>5, Zenon
  <2>5. e.idx \in Left(k - 1)
    BY <1>0, <2>3, <2>4
  <2>6. Left(k) = Left(k - 1) \ {e.idx}
    <3>1. 1 .. k = (1 .. k - 1) \cup {k}
      BY <1>2
    <3>2. QED
      BY <2>3, <3>1
  <2>7. Phase(t.out) = "open"
    <3>1. order[k] \in D
      BY <1>2
    <3>2. Open(t.out) # {}
      BY <1>0, <3>1, Zenon
    <3>3. QED
      BY <1>0, <3>2, Nothing, Zenon
  <2> HIDE DEF Left
  <2>8. Legal(s, e)
    BY <2>2, <2>3, <2>5, <2>7 DEF Legal
  <2>9. /\ Good(Append(s, e)) /\ Growing(s, Append(s, e)) /\ Phase(Append(s, e)) = Phase(s)
        /\ Open(Append(s, e)) = Open(s) \ {e.idx}
    BY <2>2, <2>3, <2>8, Emitted
  <2>10. Growing(t.out, Append(s, e))
    BY <1>0, <2>2, <2>9, Grown DEF Good
  <2>11. /\ Good(S(k)) /\ Growing(t.out, S(k)) /\ Phase(S(k)) = Phase(t.out) /\ Open(S(k)) = Left(k)
    BY <2>1, <2>2, <2>6, <2>9, <2>10, Zenon
  <2> HIDE DEF S
  <2>12. QED
    BY <1>2, <2>11
<1> HIDE DEF T
<1>6. \A k \in 0 .. N : k \in T
  BY <1>2, <1>4, <1>5, Upwards, Zenon
<1>7. /\ Good(S(N)) /\ Growing(t.out, S(N)) /\ Phase(S(N)) = Phase(t.out) /\ Open(S(N)) = Left(N)
  BY <1>2, <1>6 DEF T
<1>8. Left(N) = {}
  BY <1>2
<1>9. S(N) = t.out \o b
  BY <1>3, Whole, Zenon
<1>10. StopTools(t) = [t EXCEPT !.out = t.out \o b]
  BY Zenon DEF StopTools, b, order
<1>11. StopTools(t).out = t.out \o b
  BY <1>10 DEF Translating, Fields
<1>12. QED
  BY <1>7, <1>8, <1>9, <1>10, <1>11, Zenon

\* Two events end a message; none before them says how.
Ended(s, stop, u, w) ==
  /\ Sequence(s) /\ At(s, "message_delta") = {}
  /\ w = Append(Append(s, MessageDelta(stop, u)), MessageStop)

LEMMA Finishes ==
  ASSUME NEW t, Translating(t)
  PROVE  /\ Good(Finalize(t).out) /\ Growing(t.out, Finalize(t).out)
         /\ \E s : Ended(s, OrEndTurn(t.stop), t.usage, Finalize(t).out)
<1> DEFINE w == CloseText(t)
           v == StopTools(w)
           d == MessageDelta(OrEndTurn(t.stop), t.usage)
           x == Emit(v, d)
           y == Emit(x, MessageStop)
<1>0. Finalize(t) = y
  BY Zenon DEF Finalize
<1>1. Translating(w) /\ ~w.openText /\ Growing(t.out, w.out)
  BY Closes DEF Translates
<1> HIDE DEF w
<1>2. /\ Good(v.out) /\ Growing(w.out, v.out) /\ Open(v.out) = {} /\ Phase(v.out) = Phase(w.out)
      /\ v = [w EXCEPT !.out = v.out]
  BY <1>1, ToolsStop
<1>3. Phase(w.out) \in {"open", "before"} /\ w \in [started : BOOLEAN, next : Nat,
        openText : BOOLEAN, textIdx : Nat, tools : {w.tools}, stop : {w.stop},
        usage : {"estimated", "reported"}, out : {w.out}]
  BY <1>1 DEF Translating, Fields
<1> HIDE DEF v
<1>4. d.ev = "message_delta" /\ MessageStop.ev = "message_stop"
  BY DEF MessageDelta, MessageStop
<1>5. x = [w EXCEPT !.out = Append(v.out, d)] /\ x.out = Append(v.out, d)
  <2>1. x = [v EXCEPT !.out = Append(v.out, d)]
    BY <1>2, <1>3 DEF Emit
  <2> HIDE DEF d
  <2>2. QED
    BY <1>2, <1>3, <2>1, Zenon
<1>6. y.out = Append(x.out, MessageStop)
  <2> HIDE DEF d, x
  <2>1. y = [x EXCEPT !.out = Append(x.out, MessageStop)]
    BY <1>3, <1>5 DEF Emit
  <2>2. QED
    BY <1>3, <1>5, <2>1, Zenon
<1> HIDE DEF d, x, y
<1>7. Legal(v.out, d)
  BY <1>2, <1>3, <1>4 DEF Legal
<1>8. Good(x.out) /\ Growing(v.out, x.out) /\ Phase(x.out) = "closing"
  BY <1>2, <1>4, <1>5, <1>7, Emitted
<1>9. Legal(x.out, MessageStop)
  BY <1>4, <1>8 DEF Legal
<1>10. Good(y.out) /\ Growing(x.out, y.out)
  BY <1>6, <1>8, <1>9, Emitted
<1>11. Growing(t.out, v.out)
  BY <1>1, <1>2, Grown DEF Translating, Good
<1>12. Growing(t.out, x.out)
  BY <1>2, <1>8, <1>11, Grown DEF Translating, Good
<1>13. At(v.out, "message_delta") = {} /\ Sequence(v.out)
  BY <1>2, <1>3 DEF Phase, Good
<1>14. y.out = Append(Append(v.out, MessageDelta(OrEndTurn(t.stop), t.usage)), MessageStop)
  BY <1>5, <1>6 DEF d
<1>15. \E s : Ended(s, OrEndTurn(t.stop), t.usage, y.out)
  BY <1>13, <1>14 DEF Ended
<1>16. QED
  BY <1>0, <1>8, <1>10, <1>12, <1>15, Grown DEF Translating, Good

\* What is left of a longer sequence.
LEMMA Rest ==
  ASSUME NEW s, NEW u, Sequence(s), Sequence(u), Growing(s, u)
  PROVE  LET r == SubSeq(u, Len(s) + 1, Len(u)) IN Sequence(r) /\ s \o r = u
<1> DEFINE r == SubSeq(u, Len(s) + 1, Len(u))
<1>1. Len(s) \in Nat /\ Len(u) \in Nat /\ Len(s) <= Len(u) /\ \A n \in 1 .. Len(s) : u[n] = s[n]
  BY Elements DEF Growing
<1>2. u \in Seq(Range(u))
  BY DEF Sequence
<1>3. /\ r \in Seq(Range(u)) /\ Len(r) = Len(u) - Len(s)
      /\ \A n \in 1 .. Len(u) - Len(s) : r[n] = u[Len(s) + n]
  BY <1>1, <1>2
<1>4. Sequence(r)
  BY <1>3, IsSequence, Zenon
<1> HIDE DEF r
<1>5. Sequence(s \o r) /\ Len(s \o r) = Len(s) + Len(r)
      /\ (\A n \in 1 .. Len(s) : (s \o r)[n] = s[n])
      /\ \A n \in 1 .. Len(r) : (s \o r)[Len(s) + n] = r[n]
  BY <1>4, Joined
<1>6. Len(s \o r) = Len(u)
  BY <1>1, <1>3, <1>5
<1>7. ASSUME NEW n \in 1 .. Len(u) PROVE (s \o r)[n] = u[n]
  <2>1. CASE n \in 1 .. Len(s)
    BY <1>1, <1>5, <2>1
  <2>2. CASE n \notin 1 .. Len(s)
    <3>1. n - Len(s) \in 1 .. Len(u) - Len(s) /\ n = Len(s) + (n - Len(s))
      BY <1>1, <2>2
    <3>2. PICK i \in 1 .. Len(r) : n = Len(s) + i /\ i \in 1 .. Len(u) - Len(s)
      BY <1>3, <3>1, Zenon
    <3>3. QED
      BY <1>3, <1>5, <3>2
  <2>3. QED
    BY <2>1, <2>2, Zenon
<1>8. QED
  BY <1>4, <1>5, <1>6, <1>7, SameSequence, Zenon DEF r

-----------------------------------------------------------------------------
(***************************************************************************)
(* A message written as a stream.                                          *)
(***************************************************************************)

LEMMA Listing ==
  ASSUME NEW a, NEW b, NEW c
  PROVE  /\ Sequence(<<a>>) /\ Sequence(<<a, b>>) /\ Sequence(<<a, b, c>>)
         /\ Len(<<a>>) = 1 /\ Len(<<a, b>>) = 2 /\ Len(<<a, b, c>>) = 3
<1>1. <<a>> \in Seq({a}) /\ <<a, b>> \in Seq({a, b}) /\ <<a, b, c>> \in Seq({a, b, c})
  OBVIOUS
<1>2. QED
  BY <1>1, IsSequence, Zenon

\* Joining the events of a short sequence one by one.
LEMMA JoinedFew ==
  ASSUME NEW s, Sequence(s), NEW a, NEW b, NEW c
  PROVE  /\ s \o <<>> = s
         /\ s \o <<a>> = Append(s, a)
         /\ s \o <<a, b>> = Append(Append(s, a), b)
         /\ s \o <<a, b, c>> = Append(Append(Append(s, a), b), c)
<1> DEFINE E == Range(s) \cup {a, b, c}
<1>1. s \in Seq(E)
  <2>1. s \in Seq(Range(s)) /\ Range(s) \subseteq E
    BY DEF Sequence
  <2> HIDE DEF E
  <2>2. QED
    BY <2>1
<1>2. a \in E /\ b \in E /\ c \in E
  OBVIOUS
<1> HIDE DEF E
<1>3. s \o <<>> = s
  BY <1>1
<1>4. s \o <<a>> = Append(s, a)
  BY <1>1, <1>2
<1>5. s \o <<a, b>> = Append(Append(s, a), b)
  BY <1>1, <1>2
<1>6. s \o <<a, b, c>> = Append(Append(Append(s, a), b), c)
  BY <1>1, <1>2
<1>7. QED
  BY <1>3, <1>4, <1>5, <1>6, Zenon

LEMMA NothingJoined ==
  ASSUME NEW s, Sequence(s)
  PROVE  <<>> \o s = s
<1>1. s \in Seq(Range(s))
  BY DEF Sequence
<1>2. QED
  BY <1>1

LEMMA Lists ==
  ASSUME NEW a, NEW b, NEW c
  PROVE  <<a>> \o <<>> = <<a>> /\ <<a>> \o <<b>> = <<a, b>> /\ <<a, b>> \o <<c>> = <<a, b, c>>
<1>1. \A s : Sequence(s) => <<>> \o s = s
  BY NothingJoined
<1>2. /\ <<>> \o <<a>> = Append(<<>>, a)
      /\ <<>> \o <<a, b>> = Append(Append(<<>>, a), b)
      /\ <<>> \o <<a, b, c>> = Append(Append(Append(<<>>, a), b), c)
  BY Nothing, JoinedFew
<1>3. /\ <<>> \o <<a>> = <<a>> /\ <<>> \o <<a, b>> = <<a, b>>
      /\ <<>> \o <<a, b, c>> = <<a, b, c>>
  BY <1>1, Listing
<1>4. Append(<<a>>, b) = <<a, b>> /\ Append(<<a, b>>, c) = <<a, b, c>>
  BY <1>2, <1>3, Zenon
<1>5. <<a>> \o <<>> = <<a>> /\ <<a>> \o <<b>> = Append(<<a>>, b)
  BY Listing, JoinedFew, Zenon
<1>6. <<a, b>> \o <<c>> = Append(<<a, b>>, c)
  BY Listing, JoinedFew, Zenon
<1>7. QED
  BY <1>4, <1>5, <1>6, Zenon

LEMMA JoinedAgain ==
  ASSUME NEW s, NEW t, NEW u, Sequence(s), Sequence(t), Sequence(u)
  PROVE  s \o (t \o u) = (s \o t) \o u
<1> DEFINE E == Range(s) \cup Range(t) \cup Range(u)
<1>1. s \in Seq(E) /\ t \in Seq(E) /\ u \in Seq(E)
  <2>1. /\ s \in Seq(Range(s)) /\ t \in Seq(Range(t)) /\ u \in Seq(Range(u))
        /\ Range(s) \subseteq E /\ Range(t) \subseteq E /\ Range(u) \subseteq E
    BY DEF Sequence
  <2> HIDE DEF E
  <2>2. QED
    BY <2>1
<1> HIDE DEF E
<1>2. QED
  BY <1>1

\* FlattenSeq, step by step.
LEMMA Flattened ==
  ASSUME NEW n \in Nat, n # 0, NEW seqs, Len(seqs) = n
  PROVE  \E f : /\ f[1] = seqs[1] /\ \A i \in 2 .. n : f[i] = f[i - 1] \o seqs[i]
                /\ FlattenSeq(seqs) = f[n]
<1> DEFINE Body(f, i) == IF i = 1 THEN seqs[i] ELSE f[i - 1] \o seqs[i]
           T == {k \in 0 .. n : \E f : f = [i \in 1 .. k |-> Body(f, i)]}
           flatten == CHOOSE f : f = [i \in 1 .. n |-> Body(f, i)]
<1>1. FlattenSeq(seqs) = flatten[n]
  <2>1. Len(seqs) # 0
    OBVIOUS
  <2>2. FlattenSeq(seqs)
          = (CHOOSE f : f = [i \in 1 .. Len(seqs) |->
                               IF i = 1 THEN seqs[i] ELSE f[i - 1] \o seqs[i]])[Len(seqs)]
    BY <2>1, Zenon DEF FlattenSeq
  <2>3. QED
    BY <2>2, Zenon
<1>2. 0 \in T
  <2> DEFINE f == [i \in 1 .. 0 |-> 0]
  <2>1. 1 .. 0 = {} /\ 0 \in 0 .. n
    OBVIOUS
  <2>2. f = [i \in 1 .. 0 |-> Body(f, i)]
    BY <2>1
  <2> HIDE DEF f, Body
  <2>3. QED
    BY <2>1, <2>2, Zenon
<1>3. ASSUME NEW k \in 1 .. n, k - 1 \in T PROVE k \in T
  <2>1. PICK f : f = [i \in 1 .. k - 1 |-> Body(f, i)]
    BY <1>3, Zenon
  <2> DEFINE g == [i \in 1 .. k |-> IF i = k THEN Body(f, k) ELSE f[i]]
  <2>2. ASSUME NEW i \in 1 .. k PROVE g[i] = Body(g, i)
    <3>1. i # 1 => i - 1 \in 1 .. k /\ i - 1 # k
      OBVIOUS
    <3>2. i # 1 => g[i - 1] = f[i - 1]
      BY <3>1
    <3>3. Body(g, i) = Body(f, i)
      BY <3>2
    <3>4. CASE i = k
      BY <3>3, <3>4
    <3>5. CASE i # k
      <4>1. i \in 1 .. k - 1
        BY <3>5
      <4>2. f[i] = Body(f, i)
        BY <2>1, <4>1, Zenon
      <4>3. g[i] = f[i]
        BY <3>5
      <4>4. QED
        BY <3>3, <4>2, <4>3
    <3>6. QED
      BY <3>4, <3>5
  <2>3. DOMAIN g = 1 .. k /\ g = [i \in 1 .. k |-> g[i]]
    OBVIOUS
  <2> HIDE DEF g, Body
  <2>4. g = [i \in 1 .. k |-> Body(g, i)]
    BY <2>2, <2>3
  <2>5. QED
    BY <2>4
<1>4. \E f : f = [i \in 1 .. n |-> Body(f, i)]
  <2> HIDE DEF Body
  <2>1. n \in T
    <3> HIDE DEF T
    <3>1. QED
      BY <1>2, <1>3, Upwards
  <2>2. QED
    BY <2>1
<1>5. flatten = [i \in 1 .. n |-> Body(flatten, i)]
  BY <1>4, Zenon
<1>6. \A i \in 1 .. n : flatten[i] = Body(flatten, i)
  <2> HIDE DEF flatten, Body
  <2>1. QED
    BY <1>5
<1> HIDE DEF flatten
<1>7. flatten[1] = seqs[1] /\ \A i \in 2 .. n : flatten[i] = flatten[i - 1] \o seqs[i]
  <2>1. 1 \in 1 .. n /\ \A i \in 2 .. n : i \in 1 .. n /\ i # 1
    OBVIOUS
  <2>2. QED
    BY <1>6, <2>1, Zenon
<1>8. QED
  BY <1>1, <1>7, Zenon

\* FlattenSeq of one sequence more.
LEMMA FlatNothing == FlattenSeq(<<>>) = <<>>
<1>1. Len(<<>>) = 0
  OBVIOUS
<1>2. QED
  BY <1>1, Zenon DEF FlattenSeq

LEMMA FlatMore ==
  ASSUME NEW s, Sequence(s), NEW x, Sequence(x)
  PROVE  FlattenSeq(Append(s, x)) = FlattenSeq(s) \o x
<1> DEFINE n == Len(s)
           u == Append(s, x)
<1>1. /\ n \in Nat /\ Len(u) = n + 1 /\ u[n + 1] = x /\ \A i \in 1 .. n : u[i] = s[i]
  BY Longer, Elements
<1>2. PICK g : /\ g[1] = u[1] /\ \A i \in 2 .. n + 1 : g[i] = g[i - 1] \o u[i]
               /\ FlattenSeq(u) = g[n + 1]
  <2> HIDE DEF u, n
  <2>1. n + 1 \in Nat /\ n + 1 # 0
    BY <1>1
  <2>2. QED
    BY <1>1, <2>1, Flattened, Zenon
<1>3. CASE n = 0
  <2>1. Sequence(<<>>) /\ Len(<<>>) = 0
    BY Nothing
  <2>2. s = <<>>
    BY <1>3, <2>1, SameSequence
  <2>3. FlattenSeq(u) = x
    BY <1>1, <1>2, <1>3
  <2>4. QED
    BY <2>2, <2>3, FlatNothing, NothingJoined, Zenon
<1>4. CASE n # 0
  <2>1. PICK f : /\ f[1] = s[1] /\ \A i \in 2 .. n : f[i] = f[i - 1] \o s[i]
                 /\ FlattenSeq(s) = f[n]
    BY <1>1, <1>4, Flattened, Zenon
  <2> DEFINE T == {k \in 0 .. n : k # 0 => g[k] = f[k]}
  <2> HIDE DEF u, n
  <2>2. 0 \in T
    BY <1>1
  <2>3. ASSUME NEW k \in 1 .. n, k - 1 \in T PROVE k \in T
    <3>1. k \in 0 .. n
      BY <1>1
    <3>2. CASE k = 1
      BY <1>1, <1>2, <2>1, <3>1, <3>2
    <3>3. CASE k # 1
      <4>1. k \in 2 .. n /\ k \in 2 .. n + 1 /\ k - 1 # 0
        BY <1>1, <3>3
      <4>2. g[k - 1] = f[k - 1] /\ u[k] = s[k]
        BY <1>1, <2>3, <4>1
      <4>3. g[k] = f[k]
        BY <1>2, <2>1, <4>1, <4>2, Zenon
      <4>4. QED
        BY <3>1, <4>3
    <3>4. QED
      BY <3>2, <3>3
  <2>4. n \in T
    <3> HIDE DEF T
    <3>1. n \in Nat /\ n \in 0 .. n
      BY <1>1
    <3>2. \A k \in 0 .. n : k \in T
      BY <2>2, <2>3, <3>1, Upwards
    <3>3. QED
      BY <3>1, <3>2
  <2>5. g[n] = f[n]
    BY <1>4, <2>4
  <2>6. n + 1 \in 2 .. n + 1 /\ (n + 1) - 1 = n
    BY <1>1, <1>4
  <2>7. g[n + 1] = g[n] \o u[n + 1]
    BY <1>2, <2>6, Zenon
  <2>8. QED
    BY <1>1, <1>2, <2>1, <2>5, <2>7 DEF u
<1>5. QED
  BY <1>3, <1>4

\* A list that has one element more.
LEMMA ListedMore ==
  ASSUME NEW n \in Nat, NEW f, NEW g,
         DOMAIN f = 1 .. n, f = [i \in 1 .. n |-> f[i]],
         DOMAIN g = 1 .. n + 1, g = [i \in 1 .. n + 1 |-> g[i]],
         \A i \in 1 .. n : g[i] = f[i]
  PROVE  Sequence(f) /\ Sequence(g) /\ g = Append(f, g[n + 1])
<1>1. Sequence(f) /\ Len(f) = n
  BY Listed
<1>2. Sequence(g) /\ Len(g) = n + 1
  <2>1. n + 1 \in Nat
    OBVIOUS
  <2>2. QED
    BY <2>1, Listed
<1> DEFINE u == Append(f, g[n + 1])
<1>3. /\ Sequence(u) /\ Len(u) = n + 1 /\ u[n + 1] = g[n + 1] /\ \A i \in 1 .. n : u[i] = f[i]
  BY <1>1, Longer
<1> HIDE DEF u
<1>4. \A i \in 1 .. n + 1 : g[i] = u[i]
  <2>1. \A i \in 1 .. n + 1 : i = n + 1 \/ i \in 1 .. n
    OBVIOUS
  <2>2. QED
    BY <1>3, <2>1, Zenon
<1>5. g = u
  BY <1>2, <1>3, <1>4, SameSequence
<1>6. QED
  BY <1>1, <1>2, <1>5, Zenon DEF u

LEMMA RangeJoined ==
  ASSUME NEW s, NEW t, Sequence(s), Sequence(t)
  PROVE  Range(s \o t) = Range(s) \cup Range(t)
<1> DEFINE u == s \o t
           n == Len(s)
           m == Len(t)
<1>1. /\ Sequence(u) /\ Len(u) = n + m
      /\ \A i \in 1 .. n : u[i] = s[i]
      /\ \A i \in 1 .. m : u[n + i] = t[i]
  BY Joined
<1>2. /\ n \in Nat /\ m \in Nat /\ DOMAIN s = 1 .. n /\ DOMAIN t = 1 .. m /\ DOMAIN u = 1 .. n + m
  BY <1>1, Elements
<1> HIDE DEF u, n, m
<1>3. ASSUME NEW i \in DOMAIN u PROVE u[i] \in Range(s) \cup Range(t)
  <2>1. i \in 1 .. n \/ (i - n \in 1 .. m /\ n + (i - n) = i)
    BY <1>2
  <2>2. CASE i \in 1 .. n
    BY <1>1, <1>2, <2>2 DEF Range
  <2>3. CASE i - n \in 1 .. m /\ n + (i - n) = i
    <3>1. u[n + (i - n)] = t[i - n]
      BY <1>1, <2>3
    <3>2. QED
      BY <1>2, <2>3, <3>1 DEF Range
  <2>4. QED
    BY <2>1, <2>2, <2>3
<1>4. ASSUME NEW i \in DOMAIN s PROVE s[i] \in Range(u)
  <2>1. i \in DOMAIN u /\ u[i] = s[i]
    BY <1>1, <1>2
  <2>2. QED
    BY <2>1 DEF Range
<1>5. ASSUME NEW i \in DOMAIN t PROVE t[i] \in Range(u)
  <2>1. n + i \in DOMAIN u /\ u[n + i] = t[i]
    BY <1>1, <1>2
  <2>2. QED
    BY <2>1 DEF Range
<1>6. QED
  BY <1>3, <1>4, <1>5 DEF Range, u

LEMMA RangeOne ==
  ASSUME NEW x
  PROVE  Sequence(<<x>>) /\ Range(<<x>>) = {x}
<1>1. Sequence(<<x>>)
  BY Listing, Zenon
<1>2. DOMAIN <<x>> = {1} /\ <<x>>[1] = x
  OBVIOUS
<1>3. QED
  BY <1>1, <1>2 DEF Range

\* What is flattened has the elements of all sequences.
LEMMA FlatRange ==
  ASSUME NEW s, Sequence(s), \A n \in 1 .. Len(s) : Sequence(s[n])
  PROVE  /\ Sequence(FlattenSeq(s))
         /\ \A x : x \in Range(FlattenSeq(s)) <=> \E n \in 1 .. Len(s) : x \in Range(s[n])
<1> DEFINE n == Len(s)
           Flat(k) == FlattenSeq(SubSeq(s, 1, k))
           T == {k \in 0 .. n : /\ Sequence(Flat(k))
                                /\ \A x : x \in Range(Flat(k)) <=> \E i \in 1 .. k : x \in Range(s[i])}
<1>1. n \in Nat /\ SubSeq(s, 1, n) = s
  BY Whole
<1>2. 0 \in T
  <2>1. Sequence(SubSeq(s, 1, 0)) /\ Len(SubSeq(s, 1, 0)) = 0
    BY <1>1, Shorter
  <2>2. SubSeq(s, 1, 0) = <<>>
    BY <2>1, Nothing, SameSequence
  <2>3. Flat(0) = <<>>
    BY <2>2, FlatNothing, Zenon
  <2> HIDE DEF Flat, n
  <2>4. Range(Flat(0)) = {}
    BY <2>3 DEF Range
  <2>5. QED
    BY <1>1, <2>3, <2>4, Nothing
<1>3. ASSUME NEW k \in 1 .. n, k - 1 \in T PROVE k \in T
  <2>1. k - 1 \in 0 .. n /\ k \in 0 .. n
    BY <1>1
  <2>2. SubSeq(s, 1, k) = Append(SubSeq(s, 1, k - 1), s[k])
    BY OneMore
  <2>3. Sequence(SubSeq(s, 1, k - 1)) /\ Sequence(s[k])
    BY <2>1, Shorter, Zenon
  <2>4. Flat(k) = Flat(k - 1) \o s[k]
    BY <2>2, <2>3, FlatMore, Zenon
  <2>5. Sequence(Flat(k - 1))
    BY <1>3
  <2>6. \A x : x \in Range(Flat(k - 1)) <=> \E i \in 1 .. k - 1 : x \in Range(s[i])
    BY <1>3
  <2> HIDE DEF Flat
  <2>7. Sequence(Flat(k)) /\ Range(Flat(k)) = Range(Flat(k - 1)) \cup Range(s[k])
    BY <2>3, <2>4, <2>5, Joined, RangeJoined
  <2>8. \A i : i \in 1 .. k <=> i \in 1 .. k - 1 \/ i = k
    BY <1>1
  <2> HIDE DEF n
  <2>9. \A x : x \in Range(Flat(k)) <=> \E i \in 1 .. k : x \in Range(s[i])
    BY <2>6, <2>7, <2>8
  <2>10. QED
    BY <2>1, <2>7, <2>9
<1>4. n \in T
  <2> HIDE DEF T, n
  <2>1. QED
    BY <1>1, <1>2, <1>3, Upwards
<1>5. QED
  BY <1>1, <1>4, Zenon

\* The events s end a block, the next to come being idx.
Between(s, idx) == Good(s) /\ Phase(s) = "open" /\ Opened(s) = idx /\ Open(s) = {}

LEMMA BlockWritten ==
  ASSUME NEW idx \in Nat, NEW s, Between(s, idx), NEW b
  PROVE  /\ Sequence(SyntheticBlock(idx, b))
         /\ Between(s \o SyntheticBlock(idx, b), idx + 1)
<1>0. Sequence(s) /\ Good(s) /\ Phase(s) = "open" /\ Opened(s) = idx /\ Open(s) = {}
  BY DEF Between, Good
<1>1. ASSUME NEW a, a.ev = "block_start", a.idx = idx
      PROVE  /\ Good(Append(s, a)) /\ Phase(Append(s, a)) = "open"
             /\ Opened(Append(s, a)) = idx + 1 /\ Open(Append(s, a)) = {idx}
  <2>1. Legal(s, a)
    BY <1>0, <1>1 DEF Legal
  <2>2. QED
    BY <1>0, <1>1, <2>1, Emitted
<1>2. ASSUME NEW u, Good(u), Phase(u) = "open", Opened(u) = idx + 1, Open(u) = {idx},
             NEW d, d.ev \in {"text_delta", "json_delta"}, d.idx = idx
      PROVE  /\ Good(Append(u, d)) /\ Phase(Append(u, d)) = "open"
             /\ Opened(Append(u, d)) = idx + 1 /\ Open(Append(u, d)) = {idx}
  <2>1. Legal(u, d)
    BY <1>2 DEF Legal
  <2>2. QED
    BY <1>2, <2>1, Emitted
<1>3. ASSUME NEW u, Good(u), Phase(u) = "open", Opened(u) = idx + 1, Open(u) = {idx},
             NEW z, z.ev = "block_stop", z.idx = idx
      PROVE  Between(Append(u, z), idx + 1)
  <2>1. Legal(u, z)
    BY <1>3 DEF Legal
  <2>2. QED
    BY <1>3, <2>1, Emitted DEF Between
<1> DEFINE z == BlockStop(idx)
<1>4. z.ev = "block_stop" /\ z.idx = idx
  BY DEF BlockStop
<1> HIDE DEF z
<1>5. CASE b.type = "text"
  <2> DEFINE a == TextStart(idx)
             d == TextDelta(idx, b.text)
  <2>1. a.ev = "block_start" /\ a.idx = idx /\ d.ev = "text_delta" /\ d.idx = idx
    BY DEF TextStart, TextDelta
  <2>2. SyntheticBlock(idx, b) = (<<a>> \o (IF b.text = <<>> THEN <<>> ELSE <<d>>)) \o <<z>>
    BY <1>5, Zenon DEF SyntheticBlock, z
  <2> HIDE DEF a, d
  <2>3. CASE b.text = <<>>
    <3>1. <<a>> \o <<>> = <<a>> /\ <<a>> \o <<z>> = <<a, z>>
      BY Lists, Zenon
    <3>2. SyntheticBlock(idx, b) = <<a, z>>
      BY <2>2, <2>3, <3>1
    <3>3. s \o <<a, z>> = Append(Append(s, a), z)
      BY <1>0, JoinedFew
    <3>4. Between(Append(Append(s, a), z), idx + 1)
      BY <1>1, <1>3, <1>4, <2>1
    <3>5. QED
      BY <3>2, <3>3, <3>4, Listing, Zenon
  <2>4. CASE b.text # <<>>
    <3>1. <<a>> \o <<d>> = <<a, d>> /\ <<a, d>> \o <<z>> = <<a, d, z>>
      BY Lists, Zenon
    <3>2. SyntheticBlock(idx, b) = <<a, d, z>>
      BY <2>2, <2>4, <3>1, Zenon
    <3>3. s \o <<a, d, z>> = Append(Append(Append(s, a), d), z)
      BY <1>0, JoinedFew
    <3>4. Between(Append(Append(Append(s, a), d), z), idx + 1)
      BY <1>1, <1>2, <1>3, <1>4, <2>1
    <3>5. QED
      BY <3>2, <3>3, <3>4, Listing, Zenon
  <2>5. QED
    BY <2>3, <2>4
<1>6. CASE b.type # "text"
  <2> DEFINE a == ToolStart(idx, b.name)
             d == JsonDelta(idx, b.args)
  <2>1. a.ev = "block_start" /\ a.idx = idx /\ d.ev = "json_delta" /\ d.idx = idx
    BY DEF ToolStart, JsonDelta
  <2>2. SyntheticBlock(idx, b) = <<a, d, z>>
    BY <1>6, Zenon DEF SyntheticBlock, z
  <2> HIDE DEF a, d
  <2>3. s \o <<a, d, z>> = Append(Append(Append(s, a), d), z)
    BY <1>0, JoinedFew
  <2>4. Between(Append(Append(Append(s, a), d), z), idx + 1)
    BY <1>1, <1>2, <1>3, <1>4, <2>1
  <2>5. QED
    BY <2>2, <2>3, <2>4, Listing, Zenon
<1>7. QED
  BY <1>5, <1>6

\* A message with whatever blocks makes a good stream.
LEMMA SyntheticGood ==
  ASSUME NEW m, Sequence(m.content)
  PROVE  Good(Synthetic(m)) /\ \E s : Ended(s, m.stop, m.usage, Synthetic(m))
<1> DEFINE c == m.content
           n == Len(c)
           seqs == [k \in DOMAIN c |-> SyntheticBlock(k - 1, c[k])]
           d == MessageDelta(m.stop, m.usage)
           start == <<MessageStart>>
<1>1. n \in Nat /\ DOMAIN c = 1 .. n
  BY Elements
<1>2. Sequence(start) /\ Between(start, 0)
  <2>1. Good(<<>>) /\ Phase(<<>>) = "before" /\ Opened(<<>>) = 0 /\ Open(<<>>) = {}
    BY GoodNothing, Nothing
  <2>2. Append(<<>>, MessageStart) = start
    OBVIOUS
  <2>3. Legal(<<>>, MessageStart) /\ MessageStart.ev = "message_start"
    BY <2>1 DEF Legal, MessageStart
  <2>4. Good(Append(<<>>, MessageStart)) /\ Phase(Append(<<>>, MessageStart)) = "open"
        /\ Opened(Append(<<>>, MessageStart)) = 0 + 0 /\ Open(Append(<<>>, MessageStart)) = {}
    BY <2>1, <2>3, Emitted, Zenon
  <2>5. QED
    BY <2>2, <2>4 DEF Between, Good
<1>3. \A k \in 1 .. n : seqs[k] = SyntheticBlock(k - 1, c[k])
  BY <1>1
<1>4. DOMAIN seqs = 1 .. n /\ seqs = [i \in 1 .. n |-> seqs[i]]
  BY <1>1
<1>5. Synthetic(m) = (start \o FlattenSeq(seqs)) \o <<d, MessageStop>>
  BY Zenon DEF Synthetic
<1> HIDE DEF start, c, d, seqs
<1>6. Sequence(seqs) /\ Len(seqs) = n
  BY <1>1, <1>4, Listed
<1>7. Between(start \o FlattenSeq(seqs), n)
  <2>1. CASE n = 0
    <3>1. FlattenSeq(seqs) = seqs
      <4>1. Len(seqs) = 0
        BY <1>6, <2>1
      <4>2. QED
        BY <4>1, Zenon DEF FlattenSeq
    <3>2. Sequence(<<>>) /\ Len(<<>>) = 0
      BY Nothing
    <3>3. seqs = <<>>
      BY <1>6, <2>1, <3>2, SameSequence
    <3>4. start \o <<>> = start
      BY <1>2, JoinedFew
    <3>5. QED
      BY <1>2, <2>1, <3>1, <3>3, <3>4
  <2>2. CASE n # 0
    <3>1. PICK f : /\ f[1] = seqs[1] /\ \A i \in 2 .. n : f[i] = f[i - 1] \o seqs[i]
                   /\ FlattenSeq(seqs) = f[n]
      BY <1>1, <1>6, <2>2, Flattened, Zenon
    <3> DEFINE T == {k \in 0 .. n : k # 0 => Sequence(f[k]) /\ Between(start \o f[k], k)}
    <3>2. 0 \in T
      BY <1>1
    <3>3. ASSUME NEW k \in 1 .. n, k - 1 \in T PROVE k \in T
      <4>1. k \in Nat /\ k - 1 \in Nat /\ (k - 1) + 1 = k
        OBVIOUS
      <4>2. seqs[k] = SyntheticBlock(k - 1, c[k])
        BY <1>3
      <4>3. CASE k = 1
        <5>1. Between(start, k - 1)
          BY <1>2, <4>3
        <5>2. Sequence(seqs[k]) /\ Between(start \o seqs[k], (k - 1) + 1)
          BY <4>1, <4>2, <5>1, BlockWritten
        <5>3. f[k] = seqs[k]
          BY <3>1, <4>3
        <5>4. QED
          BY <4>1, <5>2, <5>3
      <4>4. CASE k # 1
        <5>1. Sequence(f[k - 1]) /\ Between(start \o f[k - 1], k - 1)
          BY <3>3, <4>4
        <5>2. Sequence(seqs[k]) /\ Between((start \o f[k - 1]) \o seqs[k], (k - 1) + 1)
          BY <4>1, <4>2, <5>1, BlockWritten
        <5>3. f[k] = f[k - 1] \o seqs[k]
          <6>1. k \in 2 .. n
            BY <4>1, <4>4
          <6>2. QED
            BY <3>1, <6>1, Zenon
        <5>4. Sequence(f[k])
          BY <5>1, <5>2, <5>3, Joined
        <5>5. start \o (f[k - 1] \o seqs[k]) = (start \o f[k - 1]) \o seqs[k]
          <6> DEFINE t == f[k - 1]
                     u == seqs[k]
          <6>1. Sequence(start) /\ Sequence(t) /\ Sequence(u)
            BY <1>2, <5>1, <5>2
          <6> HIDE DEF t, u
          <6>2. start \o (t \o u) = (start \o t) \o u
            BY <6>1, JoinedAgain, SMTT(60)
          <6>3. QED
            BY <6>2 DEF t, u
        <5>6. Between(start \o f[k], k)
          BY <4>1, <5>2, <5>3, <5>5
        <5>7. QED
          BY <5>4, <5>6
      <4>5. QED
        BY <4>3, <4>4
    <3> HIDE DEF T
    <3>4. n \in T
      <4> HIDE DEF n
      <4>1. \A k \in 1 .. n : k - 1 \in T => k \in T
        BY <3>3
      <4>2. \A k \in 0 .. n : k \in T
        BY <1>1, <3>2, <4>1, Upwards, Zenon
      <4>3. QED
        BY <1>1, <4>2
    <3>5. QED
      BY <2>2, <3>1, <3>4 DEF T
  <2>3. QED
    BY <2>1, <2>2
<1> DEFINE x == start \o FlattenSeq(seqs)
<1>8. Good(x) /\ Phase(x) = "open" /\ Open(x) = {} /\ Sequence(x)
  BY <1>7 DEF Between, Good
<1> HIDE DEF x
<1>9. d.ev = "message_delta" /\ MessageStop.ev = "message_stop"
  BY DEF d, MessageDelta, MessageStop
<1>10. Legal(x, d)
  BY <1>8, <1>9 DEF Legal
<1>11. Good(Append(x, d)) /\ Phase(Append(x, d)) = "closing"
  BY <1>8, <1>9, <1>10, Emitted
<1>12. Legal(Append(x, d), MessageStop)
  BY <1>9, <1>11 DEF Legal
<1>13. Good(Append(Append(x, d), MessageStop))
  BY <1>11, <1>12, Emitted
<1>14. x \o <<d, MessageStop>> = Append(Append(x, d), MessageStop)
  BY <1>8, JoinedFew
<1>15. At(x, "message_delta") = {}
  BY <1>8 DEF Phase
<1>16. Ended(x, m.stop, m.usage, Append(Append(x, d), MessageStop))
  BY <1>8, <1>15 DEF Ended, d
<1>17. Synthetic(m) = Append(Append(x, d), MessageStop)
  BY <1>5, <1>14 DEF x
<1>18. QED
  BY <1>13, <1>16, <1>17

\* What a client and the usage log find at the end.
LEMMA EndsSaid ==
  ASSUME NEW s, NEW stop, NEW u \in {"reported", "estimated"}, NEW w, Ended(s, stop, u, w)
  PROVE  StopIn(w) = stop /\ UsageSeen(w) = u
<1> DEFINE d == MessageDelta(stop, u)
           x == Append(s, d)
           N == Len(s) + 1
<1>0. d.ev = "message_delta" /\ d.stop = stop /\ d.usage = u /\ MessageStop.ev = "message_stop"
  BY DEF MessageDelta, MessageStop
<1> HIDE DEF d
<1>1. Sequence(s) /\ At(s, "message_delta") = {} /\ w = Append(x, MessageStop)
  BY DEF Ended, d
<1>2. Sequence(x) /\ Len(x) = N /\ x[N] = d /\ N \in Nat /\ N > 0
  BY <1>1, Longer, Elements
<1>3. At(x, "message_delta") = {N}
  BY <1>0, <1>1, AtLonger
<1> HIDE DEF x
<1>4. At(w, "message_delta") = {N} /\ w[N] = d
  <2>1. At(w, "message_delta") = At(x, "message_delta")
    <3>1. At(Append(x, MessageStop), "message_delta")
            = At(x, "message_delta") \cup (IF MessageStop.ev = "message_delta"
                                           THEN {Len(x) + 1} ELSE {})
      BY <1>2, AtLonger
    <3>2. QED
      BY <1>0, <1>1, <3>1
  <2>2. \A n \in 1 .. N : w[n] = x[n]
    BY <1>1, <1>2, Longer
  <2>3. QED
    BY <1>2, <1>3, <2>1, <2>2
<1>5. Min({N}) = N
  BY <1>2 DEF Min
<1>6. StopIn(w) = stop
  BY <1>0, <1>4, <1>5, Zenon DEF StopIn
<1>7. (\E e \in Range(w) : e.ev = "message_delta" /\ e.usage = "reported") <=> u = "reported"
  <2>1. \A e \in Range(w) : e.ev = "message_delta" => e = d
    <3>1. ASSUME NEW n \in DOMAIN w, w[n].ev = "message_delta" PROVE w[n] = d
      <4>1. n \in At(w, "message_delta")
        BY <3>1 DEF At
      <4>2. QED
        BY <1>4, <4>1
    <3>2. QED
      BY <3>1 DEF Range
  <2>2. d \in Range(w)
    <3>1. N \in DOMAIN w
      BY <1>4 DEF At
    <3>2. QED
      BY <1>4, <3>1 DEF Range
  <2>3. QED
    BY <1>0, <2>1, <2>2
<1>8. UsageSeen(w) = u
  BY <1>7 DEF UsageSeen
<1>9. QED
  BY <1>6, <1>8

-----------------------------------------------------------------------------
(***************************************************************************)
(* The messages made of a body: their content is a sequence, and of their  *)
(* usage it is said whether it was reported.                               *)
(***************************************************************************)

Readable(m) == Sequence(m.content) /\ m.usage \in {"reported", "estimated"}

LEMMA SortedList ==
  ASSUME NEW S \in SUBSET Nat, IsFiniteSet(S), NEW b, NEW order, order = SortInts(S),
         DOMAIN b = DOMAIN order, b = [n \in DOMAIN order |-> b[n]]
  PROVE  Sequence(b)
<1>1. Cardinality(S) \in Nat /\ DOMAIN order = 1 .. Cardinality(S)
  BY Sorts
<1> DEFINE N == Cardinality(S)
<1> HIDE DEF N
<1>2. N \in Nat /\ DOMAIN b = 1 .. N /\ b = [n \in 1 .. N |-> b[n]]
  BY <1>1 DEF N
<1>3. QED
  BY <1>2, Listed

LEMMA NotEmpty ==
  ASSUME NEW c, Sequence(c)
  PROVE  Sequence(OrEmptyText(c))
BY Listing, Zenon DEF OrEmptyText

\* Blocks that json.Marshal takes.
Fine(b) == b.type = "tool_use" /\ b.args # <<>> => ValidArgs(b.args)
AllFine(s) == \A n \in DOMAIN s : Fine(s[n])

LEMMA FineBlocks ==
  ASSUME NEW text, NEW name, NEW args
  PROVE  /\ Fine(TextBlock(text)) /\ Fine(ToolBlock(name, OrEmpty(args)))
         /\ ValidArgs(args) => Fine(ToolBlock(name, args))
BY DEF Fine, TextBlock, ToolBlock, OrEmpty

LEMMA FineText ==
  ASSUME NEW text
  PROVE  LET s == IF text = <<>> THEN <<>> ELSE <<TextBlock(text)>>
         IN  Sequence(s) /\ AllFine(s)
<1>1. Sequence(<<>>) /\ Sequence(<<TextBlock(text)>>)
  BY Nothing, Listing, Zenon
<1>2. AllFine(<<>>) /\ AllFine(<<TextBlock(text)>>)
  BY FineBlocks DEF AllFine
<1>3. QED
  BY <1>1, <1>2

LEMMA FineJoined ==
  ASSUME NEW s, NEW t, Sequence(s), Sequence(t), AllFine(s), AllFine(t)
  PROVE  AllFine(s \o t)
<1>1. /\ Len(s) \in Nat /\ DOMAIN s = 1 .. Len(s) /\ Len(t) \in Nat /\ DOMAIN t = 1 .. Len(t)
  BY Elements
<1> DEFINE u == s \o t
<1>2. /\ Sequence(u) /\ Len(u) = Len(s) + Len(t) /\ (\A n \in 1 .. Len(s) : u[n] = s[n])
      /\ \A n \in 1 .. Len(t) : u[Len(s) + n] = t[n]
  BY Joined
<1> HIDE DEF u
<1>3. DOMAIN u = 1 .. Len(s) + Len(t)
  BY <1>2, Elements
<1>4. ASSUME NEW n \in DOMAIN u PROVE Fine(u[n])
  <2>1. CASE n \in 1 .. Len(s)
    BY <1>1, <1>2, <2>1 DEF AllFine
  <2>2. CASE n \notin 1 .. Len(s)
    <3>1. n - Len(s) \in 1 .. Len(t) /\ n = Len(s) + (n - Len(s))
      BY <1>1, <1>3, <2>2
    <3>2. PICK i \in 1 .. Len(t) : n = Len(s) + i
      BY <3>1
    <3>3. QED
      BY <1>1, <1>2, <3>2 DEF AllFine
  <2>3. QED
    BY <2>1, <2>2
<1>5. QED
  BY <1>4 DEF AllFine, u

LEMMA FineNotEmpty ==
  ASSUME NEW c, AllFine(c)
  PROVE  AllFine(OrEmptyText(c))
BY FineBlocks DEF OrEmptyText, AllFine

LEMMA EmptyReadable == Readable(EmptyMessage) /\ Marshals(EmptyMessage)
<1> DEFINE c == <<TextBlock(<<>>)>>
<1>1. AllFine(c)
  BY FineBlocks DEF AllFine
<1>2. Sequence(c)
  BY Listing, Zenon
<1> HIDE DEF c
<1>3. EmptyMessage.content = c /\ EmptyMessage.usage = "estimated"
  BY DEF EmptyMessage, Message, c
<1>4. QED
  BY <1>1, <1>2, <1>3 DEF Readable, Marshals, AllFine, Fine

LEMMA UpstreamReadable ==
  Sequence(pieces) => Readable(UpstreamMessage) /\ Marshals(UpstreamMessage)
<1> SUFFICES ASSUME Sequence(pieces)
             PROVE  Readable(UpstreamMessage) /\ Marshals(UpstreamMessage)
  OBVIOUS
<1> DEFINE each == [n \in DOMAIN pieces |-> UpstreamBlock(n)]
           b == FlattenSeq(each)
<1>1. UpstreamMessage = Message(b, StopFromFinish(FinishOf(pieces)), UsageOf(pieces))
  BY Zenon DEF UpstreamMessage
<1>2. ASSUME NEW n \in DOMAIN pieces
      PROVE  Sequence(UpstreamBlock(n)) /\ \A x \in Range(UpstreamBlock(n)) : Fine(x)
  <2>1. Sequence(<<>>) /\ Range(<<>>) = {}
    BY Nothing DEF Range
  <2>2. \A x : Sequence(<<x>>) /\ Range(<<x>>) = {x}
    BY RangeOne, Zenon
  <2>3. UpstreamBlock(n) = <<>> \/ \E x : UpstreamBlock(n) = <<x>> /\ Fine(x)
    <3>1. \/ UpstreamBlock(n) = <<>>
          \/ UpstreamBlock(n) = <<TextBlock(<<pieces[n].n>>)>>
          \/ UpstreamBlock(n) = <<ToolBlock(NameOf(pieces, pieces[n].i),
                                            OrEmpty(ArgsOf(pieces, pieces[n].i)))>>
      BY Zenon DEF UpstreamBlock
    <3>2. QED
      BY <3>1, FineBlocks
  <2>4. QED
    BY <2>1, <2>2, <2>3
<1>3. Sequence(each) /\ Len(each) = Len(pieces) /\ DOMAIN pieces = 1 .. Len(pieces)
      /\ \A n \in 1 .. Len(pieces) : each[n] = UpstreamBlock(n)
  <2>1. Len(pieces) \in Nat /\ DOMAIN pieces = 1 .. Len(pieces)
    BY Elements
  <2>2. /\ DOMAIN each = 1 .. Len(pieces) /\ each = [n \in 1 .. Len(pieces) |-> each[n]]
        /\ \A n \in 1 .. Len(pieces) : each[n] = UpstreamBlock(n)
    BY <2>1
  <2> HIDE DEF each
  <2>3. QED
    BY <2>1, <2>2, Listed
<1> HIDE DEF each
<1>4. Sequence(b) /\ AllFine(b)
  <2>1. \A n \in 1 .. Len(each) : Sequence(each[n])
    BY <1>2, <1>3
  <2>2. Sequence(b) /\ \A x : x \in Range(b) <=> \E n \in 1 .. Len(each) : x \in Range(each[n])
    BY <1>3, <2>1, FlatRange
  <2> HIDE DEF b
  <2>3. \A x \in Range(b) : Fine(x)
    BY <1>2, <1>3, <2>2
  <2>4. QED
    BY <2>2, <2>3 DEF AllFine, Range
<1> HIDE DEF b
<1>5. UpstreamMessage.content = b /\ UpstreamMessage.usage = UsageOf(pieces)
  BY <1>1 DEF Message
<1>6. UsageOf(pieces) \in {"reported", "estimated"}
  BY DEF UsageOf
<1>7. QED
  BY <1>4, <1>5, <1>6 DEF Readable, Marshals, AllFine, Fine

LEMMA ResponseReadable ==
  ASSUME NEW ps, Sequence(ps), \A n \in 1 .. Len(ps) : Chunks(ps[n])
  PROVE  /\ Readable(TranslateResponse(ps))
         /\ ~Marshals(TranslateResponse(ps))
              => \E i \in CallsOf(ps) : ~ValidArgs(ArgsOf(ps, i))
<1> DEFINE S == CallsOf(ps)
           calls == SortInts(S)
           text == TextOf(ps)
           b == [n \in DOMAIN calls |-> ToolBlock(NameOf(ps, calls[n]), ArgsOf(ps, calls[n]))]
           c == (IF text = <<>> THEN <<>> ELSE <<TextBlock(text)>>) \o b
           m == TranslateResponse(ps)
<1>1. m = Message(OrEmptyText(c), StopFromFinish(FinishOf(ps)), UsageOf(ps))
  BY Zenon DEF TranslateResponse
<1>2. S \in SUBSET Nat /\ IsFiniteSet(S)
  <2>1. S \subseteq {0, 1}
    <3>1. \A x \in Range(ps) : Chunks(x)
      BY Elements DEF Range
    <3>2. QED
      BY <3>1 DEF CallsOf, Chunks, Calls
  <2> HIDE DEF S
  <2>2. S \in SUBSET Nat /\ \A i \in S : i <= 1
    BY <2>1
  <2>3. QED
    BY <2>2, FS_BoundedSetOfNaturals, Zenon
<1>3. Sequence(b)
  <2>1. DOMAIN b = DOMAIN calls /\ b = [n \in DOMAIN calls |-> b[n]]
    BY Zenon
  <2> HIDE DEF S, b
  <2>2. QED
    BY <1>2, <2>1, SortedList
<1> DEFINE whole == \A i \in S : ValidArgs(ArgsOf(ps, i))
<1>4. whole => AllFine(b)
  <2>1. ASSUME whole, NEW k \in DOMAIN b PROVE Fine(b[k])
    <3>1. b[k] = ToolBlock(NameOf(ps, calls[k]), ArgsOf(ps, calls[k])) /\ k \in DOMAIN calls
      BY Zenon
    <3>2. calls[k] \in S
      <4> HIDE DEF S, b
      <4>1. calls \in [1 .. Cardinality(S) -> S]
        BY <1>2, Sorts
      <4>2. QED
        BY <3>1, <4>1
    <3>3. ValidArgs(ArgsOf(ps, calls[k]))
      BY <2>1, <3>2
    <3> HIDE DEF b, calls
    <3>4. QED
      BY <3>1, <3>3, FineBlocks
  <2> HIDE DEF b, whole
  <2>2. QED
    BY <2>1 DEF AllFine
<1> HIDE DEF b, text
<1> DEFINE said == IF text = <<>> THEN <<>> ELSE <<TextBlock(text)>>
<1>5. Sequence(said) /\ AllFine(said)
  BY FineText
<1> HIDE DEF said
<1>6. Sequence(said \o b) /\ (whole => AllFine(said \o b))
  <2> HIDE DEF whole
  <2>1. QED
    BY <1>3, <1>4, <1>5, Joined, FineJoined
<1>7. Sequence(c) /\ (whole => AllFine(c))
  BY <1>6 DEF said
<1> HIDE DEF c, m
<1>8. m.content = OrEmptyText(c) /\ m.usage = UsageOf(ps)
  BY <1>1 DEF Message
<1>9. UsageOf(ps) \in {"reported", "estimated"}
  BY DEF UsageOf
<1>10. Readable(m)
  BY <1>7, <1>8, <1>9, NotEmpty DEF Readable
<1>11. whole => Marshals(m)
  <2> HIDE DEF whole
  <2>1. QED
    BY <1>7, <1>8, FineNotEmpty DEF Marshals, AllFine, Fine
<1>12. QED
  BY <1>10, <1>11 DEF m

\* The folds: over chunks, events, a user's blocks, and what is told the system.
Collects(what, a, e) ==
  CASE what = "chunks" -> CollectPiece(a, e)
    [] what = "blocks" -> UserBlock(a, e)
    [] what = "system" -> AppendRawText(a, e.content)
    [] OTHER           -> CollectEvent(a, e)

Folding(g, what, base, s, n) ==
  g = [S \in SUBSET (1 .. n) |->
         IF S = {} THEN base ELSE Collects(what, g[S \ {Max(S)}], s[Max(S)])]

LEMMA FoldsOf ==
  ASSUME NEW what, NEW base, NEW s, NEW n \in Nat
  PROVE  \E g : Folding(g, what, base, s, n)
<1> DEFINE Step(k, x) == Collects(what, x, s[k])
           Body(g, S) == IF S = {} THEN base ELSE Step(Max(S), g[S \ {Max(S)}])
           T == {k \in 0 .. n : \E g : g = [S \in SUBSET (1 .. k) |-> Body(g, S)]}
<1>1. 0 \in T
  <2> DEFINE g == [S \in SUBSET (1 .. 0) |-> base]
  <2>1. SUBSET (1 .. 0) = {{}} /\ 0 \in 0 .. n
    OBVIOUS
  <2>2. \A S \in SUBSET (1 .. 0) : Body(g, S) = base
    BY <2>1
  <2>3. g = [S \in SUBSET (1 .. 0) |-> Body(g, S)]
    <3> HIDE DEF Body
    <3>1. QED
      BY <2>2
  <2> HIDE DEF g, Body
  <2>4. QED
    BY <2>1, <2>3
<1>2. ASSUME NEW k \in 1 .. n, k - 1 \in T PROVE k \in T
  <2>1. PICK g : g = [S \in SUBSET (1 .. k - 1) |-> Body(g, S)]
    BY <1>2, Zenon
  <2> DEFINE h == [S \in SUBSET (1 .. k) |-> IF k \in S THEN Step(k, g[S \ {k}]) ELSE g[S]]
  <2> HIDE DEF Step
  <2>2. \A S \in SUBSET (1 .. k) : /\ S \ {k} \in SUBSET (1 .. k - 1)
                                   /\ k \notin S => S \in SUBSET (1 .. k - 1)
    OBVIOUS
  <2>3. \A S \in SUBSET (1 .. k - 1) : S \in SUBSET (1 .. k) /\ k \notin S
    OBVIOUS
  <2>4. \A S \in SUBSET (1 .. k - 1) : h[S] = g[S]
    BY <2>3
  <2>5. ASSUME NEW S \in SUBSET (1 .. k) PROVE h[S] = Body(h, S)
    <3>1. CASE k \in S
      <4>1. Max(S) = k
        BY <3>1, MaxOf
      <4>2. h[S] = Step(k, g[S \ {k}])
        BY <3>1
      <4>3. h[S \ {k}] = g[S \ {k}]
        BY <2>2, <2>4
      <4> HIDE DEF h
      <4>4. QED
        BY <3>1, <4>1, <4>2, <4>3
    <3>2. CASE k \notin S
      <4>1. S \in SUBSET (1 .. k - 1) /\ h[S] = g[S]
        BY <2>2, <2>4, <3>2
      <4>2. S \ {Max(S)} \in SUBSET (1 .. k - 1)
        BY <4>1, Zenon
      <4>3. h[S \ {Max(S)}] = g[S \ {Max(S)}]
        BY <2>4, <4>2
      <4>4. g[S] = Body(g, S)
        <5> HIDE DEF Body
        <5>1. QED
          BY <2>1, <4>1
      <4> HIDE DEF h
      <4>5. QED
        BY <4>1, <4>3, <4>4
    <3>3. QED
      BY <3>1, <3>2
  <2>6. h = [S \in SUBSET (1 .. k) |-> h[S]]
    OBVIOUS
  <2> HIDE DEF h, Body
  <2>7. h = [S \in SUBSET (1 .. k) |-> Body(h, S)]
    BY <2>5, <2>6, Zenon
  <2>8. QED
    BY <2>7
<1> HIDE DEF Step
<1>3. n \in T
  <2> HIDE DEF T
  <2>1. QED
    BY <1>1, <1>2, Upwards
<1>4. \E g : g = [S \in SUBSET (1 .. n) |-> Body(g, S)]
  <2> HIDE DEF Body
  <2>1. QED
    BY <1>3
<1>5. QED
  BY <1>4, Zenon DEF Step, Folding

LEMMA FoldsUp ==
  ASSUME NEW n \in Nat, NEW k \in 1 .. n
  PROVE  /\ 1 .. k \in SUBSET (1 .. n) /\ 1 .. k # {} /\ Max(1 .. k) = k
         /\ (1 .. k) \ {k} = 1 .. k - 1
<1>1. /\ 1 .. k \in SUBSET (1 .. n) /\ k \in 1 .. k /\ 1 .. k # {}
      /\ (1 .. k) \ {k} = 1 .. k - 1 /\ k \in Nat
  OBVIOUS
<1>2. Max(1 .. k) = k
  BY <1>1, MaxOf
<1>3. QED
  BY <1>1, <1>2

Collected(what, base, s) ==
  CASE what = "chunks" -> FoldLeft(CollectPiece, base, s)
    [] what = "blocks" -> FoldLeft(UserBlock, base, s)
    [] what = "system" -> FoldLeft(LAMBDA raw, msg : AppendRawText(raw, msg.content), base, s)
    [] OTHER           -> FoldLeft(CollectEvent, base, s)

\* The folds one step at a time.
LEMMA CollectedSteps ==
  ASSUME NEW what, NEW base, NEW s, Sequence(s)
  PROVE  \E f : /\ f[0] = base
                /\ \A k \in 1 .. Len(s) : f[k] = Collects(what, f[k - 1], s[k])
                /\ Collected(what, base, s) = f[Len(s)]
<1> DEFINE n == Len(s)
           Body(g, S) == IF S = {} THEN base ELSE Collects(what, g[S \ {Max(S)}], s[Max(S)])
           iter == CHOOSE g : g = [S \in SUBSET (DOMAIN s) |-> Body(g, S)]
           f == [k \in 0 .. n |-> iter[1 .. k]]
<1>1. n \in Nat /\ DOMAIN s = 1 .. n
  BY Elements
<1>2. iter = [S \in SUBSET (DOMAIN s) |-> Body(iter, S)]
  <2>1. PICK g : Folding(g, what, base, s, n)
    <3> HIDE DEF n
    <3>1. QED
      BY <1>1, FoldsOf
  <2>2. g = [S \in SUBSET (DOMAIN s) |-> Body(g, S)]
    <3>1. DOMAIN s = 1 .. n
      BY <1>1
    <3> HIDE DEF n
    <3>2. QED
      BY <2>1, <3>1, Zenon DEF Folding
  <2> HIDE DEF Body
  <2>3. QED
    BY <2>2
<1>3. Collected(what, base, s) = iter[DOMAIN s]
  <2>1. CASE what = "chunks"
    <3>1. \A x, e : Collects(what, x, e) = CollectPiece(x, e)
      BY <2>1 DEF Collects
    <3> DEFINE Unfold(g, S) == IF S = {} THEN base ELSE CollectPiece(g[S \ {Max(S)}], s[Max(S)])
    <3>2. iter = CHOOSE g : g = [S \in SUBSET (DOMAIN s) |-> Unfold(g, S)]
      <4>1. \A g, S : Body(g, S) = Unfold(g, S)
        BY <3>1
      <4> HIDE DEF Body, Unfold
      <4>2. QED
        BY <4>1, Zenon
    <3>3. Collected(what, base, s)
            = (CHOOSE g : g = [S \in SUBSET (DOMAIN s) |->
                 IF S = {} THEN base ELSE CollectPiece(g[S \ {Max(S)}], s[Max(S)])])[DOMAIN s]
      BY <2>1, Zenon DEF FoldLeft, MapThenFoldSet, Collected
    <3> HIDE DEF iter
    <3>4. QED
      BY <3>2, <3>3
  <2>2. CASE what = "blocks"
    <3>1. \A x, e : Collects(what, x, e) = UserBlock(x, e)
      BY <2>2 DEF Collects
    <3> DEFINE Unfold(g, S) == IF S = {} THEN base ELSE UserBlock(g[S \ {Max(S)}], s[Max(S)])
    <3>2. iter = CHOOSE g : g = [S \in SUBSET (DOMAIN s) |-> Unfold(g, S)]
      <4>1. \A g, S : Body(g, S) = Unfold(g, S)
        BY <3>1
      <4> HIDE DEF Body, Unfold
      <4>2. QED
        BY <4>1, Zenon
    <3>3. Collected(what, base, s)
            = (CHOOSE g : g = [S \in SUBSET (DOMAIN s) |->
                 IF S = {} THEN base ELSE UserBlock(g[S \ {Max(S)}], s[Max(S)])])[DOMAIN s]
      BY <2>2, Zenon DEF FoldLeft, MapThenFoldSet, Collected
    <3> HIDE DEF iter
    <3>4. QED
      BY <3>2, <3>3
  <2>3. CASE what = "system"
    <3>1. \A x, e : Collects(what, x, e) = AppendRawText(x, e.content)
      BY <2>3 DEF Collects
    <3> DEFINE Unfold(g, S) == IF S = {} THEN base ELSE AppendRawText(g[S \ {Max(S)}], s[Max(S)].content)
    <3>2. iter = CHOOSE g : g = [S \in SUBSET (DOMAIN s) |-> Unfold(g, S)]
      <4>1. \A g, S : Body(g, S) = Unfold(g, S)
        BY <3>1
      <4> HIDE DEF Body, Unfold
      <4>2. QED
        BY <4>1, Zenon
    <3>3. Collected(what, base, s)
            = (CHOOSE g : g = [S \in SUBSET (DOMAIN s) |->
                 IF S = {} THEN base ELSE AppendRawText(g[S \ {Max(S)}], s[Max(S)].content)])[DOMAIN s]
      BY <2>3, Zenon DEF FoldLeft, MapThenFoldSet, Collected
    <3> HIDE DEF iter
    <3>4. QED
      BY <3>2, <3>3
  <2>4. CASE what \notin {"chunks", "blocks", "system"}
    <3>1. \A x, e : Collects(what, x, e) = CollectEvent(x, e)
      BY <2>4 DEF Collects
    <3> DEFINE Unfold(g, S) == IF S = {} THEN base ELSE CollectEvent(g[S \ {Max(S)}], s[Max(S)])
    <3>2. iter = CHOOSE g : g = [S \in SUBSET (DOMAIN s) |-> Unfold(g, S)]
      <4>1. \A g, S : Body(g, S) = Unfold(g, S)
        BY <3>1
      <4> HIDE DEF Body, Unfold
      <4>2. QED
        BY <4>1, Zenon
    <3>3. Collected(what, base, s)
            = (CHOOSE g : g = [S \in SUBSET (DOMAIN s) |->
                 IF S = {} THEN base ELSE CollectEvent(g[S \ {Max(S)}], s[Max(S)])])[DOMAIN s]
      BY <2>4, Zenon DEF FoldLeft, MapThenFoldSet, Collected
    <3> HIDE DEF iter
    <3>4. QED
      BY <3>2, <3>3
  <2>5. QED
    BY <2>1, <2>2, <2>3, <2>4
<1> HIDE DEF iter
<1>4. \A S \in SUBSET (1 .. n) : iter[S] = Body(iter, S)
  <2> HIDE DEF Body
  <2>1. QED
    BY <1>1, <1>2
<1>5. f[0] = base
  <2>1. 0 \in 0 .. n /\ 1 .. 0 = {} /\ {} \in SUBSET (1 .. n)
    BY <1>1
  <2>2. iter[{}] = base
    BY <1>4, <2>1, Zenon
  <2>3. f[0] = iter[1 .. 0]
    BY <2>1
  <2>4. QED
    BY <2>1, <2>2, <2>3
<1>6. ASSUME NEW k \in 1 .. n PROVE f[k] = Collects(what, f[k - 1], s[k])
  <2>1. /\ 1 .. k \in SUBSET (1 .. n) /\ 1 .. k # {} /\ Max(1 .. k) = k
        /\ (1 .. k) \ {k} = 1 .. k - 1
    BY <1>1, FoldsUp
  <2>2. iter[1 .. k] = Collects(what, iter[1 .. k - 1], s[k])
    BY <1>4, <2>1, Zenon
  <2>3. k \in 0 .. n /\ k - 1 \in 0 .. n
    BY <1>1
  <2>4. f[k] = iter[1 .. k] /\ f[k - 1] = iter[1 .. k - 1]
    BY <2>3
  <2>5. QED
    BY <2>2, <2>4
<1>7. n \in 0 .. n
  BY <1>1
<1>8. f[n] = iter[1 .. n]
  BY <1>7
<1> HIDE DEF f
<1>9. QED
  BY <1>1, <1>3, <1>5, <1>6, <1>8

LEMMA CollectedNone ==
  ASSUME NEW what, NEW base, NEW s, Sequence(s), Len(s) = 0
  PROVE  Collected(what, base, s) = base
<1>1. PICK f : /\ f[0] = base
               /\ \A k \in 1 .. Len(s) : f[k] = Collects(what, f[k - 1], s[k])
               /\ Collected(what, base, s) = f[Len(s)]
  BY CollectedSteps
<1>2. QED
  BY <1>1

LEMMA CollectedMore ==
  ASSUME NEW what, NEW base, NEW s, Sequence(s), NEW e
  PROVE  /\ Collected(what, base, <<>>) = base
         /\ Collected(what, base, Append(s, e)) = Collects(what, Collected(what, base, s), e)
<1>1. Collected(what, base, <<>>) = base
  BY Nothing, CollectedNone
<1> DEFINE n == Len(s)
           u == Append(s, e)
<1>2. /\ Sequence(u) /\ Len(u) = n + 1 /\ u[n + 1] = e /\ (\A k \in 1 .. n : u[k] = s[k]) /\ n \in Nat
  BY Longer, Elements
<1>3. PICK f : /\ f[0] = base
               /\ \A k \in 1 .. n : f[k] = Collects(what, f[k - 1], s[k])
               /\ Collected(what, base, s) = f[n]
  BY CollectedSteps
<1>4. PICK g : /\ g[0] = base
               /\ \A k \in 1 .. n + 1 : g[k] = Collects(what, g[k - 1], u[k])
               /\ Collected(what, base, u) = g[n + 1]
  <2> HIDE DEF u, n
  <2>1. \E g : /\ g[0] = base
               /\ \A k \in 1 .. Len(u) : g[k] = Collects(what, g[k - 1], u[k])
               /\ Collected(what, base, u) = g[Len(u)]
    BY <1>2, CollectedSteps
  <2>2. QED
    BY <1>2, <2>1
<1> HIDE DEF n, u
<1> DEFINE T == {k \in 0 .. n : g[k] = f[k]}
<1>5. n \in T
  <2>1. 0 \in T
    BY <1>2, <1>3, <1>4
  <2>2. ASSUME NEW k \in 1 .. n, k - 1 \in T PROVE k \in T
    <3>1. k \in 1 .. n + 1 /\ k \in 0 .. n
      BY <1>2
    <3>2. g[k - 1] = f[k - 1] /\ u[k] = s[k]
      BY <1>2, <2>2
    <3>3. g[k] = f[k]
      BY <1>3, <1>4, <3>1, <3>2
    <3>4. QED
      BY <3>1, <3>3
  <2> HIDE DEF T
  <2>3. n \in Nat /\ n \in 0 .. n
    BY <1>2
  <2>4. \A k \in 0 .. n : k \in T
    BY <2>1, <2>2, <2>3, Upwards
  <2>5. QED
    BY <2>3, <2>4
<1>6. n + 1 \in 1 .. n + 1 /\ (n + 1) - 1 = n
  BY <1>2
<1>7. g[n + 1] = Collects(what, g[n], u[n + 1])
  BY <1>4, <1>6
<1>8. g[n] = f[n]
  BY <1>5
<1>9. QED
  BY <1>1, <1>2, <1>3, <1>4, <1>7, <1>8 DEF u

PieceBase == [text |-> <<>>, tools |-> <<>>, stop |-> Empty, usage |-> "estimated"]
EventBase == [blocks |-> <<>>, usage |-> "estimated"]

LEMMA GatheredMore ==
  ASSUME NEW ps, Sequence(ps), NEW c
  PROVE  /\ Gathered(<<>>) = PieceBase
         /\ Gathered(Append(ps, c)) = CollectPiece(Gathered(ps), c)
<1>1. \A s : Gathered(s) = Collected("chunks", PieceBase, s)
  BY Zenon DEF Gathered, Collected, PieceBase
<1>2. \A x, e : Collects("chunks", x, e) = CollectPiece(x, e)
  BY DEF Collects
<1>3. QED
  BY <1>1, <1>2, CollectedMore

LEMMA AssembledMore ==
  ASSUME NEW s, Sequence(s), NEW e
  PROVE  /\ Assembled(<<>>) = EventBase
         /\ Assembled(Append(s, e)) = CollectEvent(Assembled(s), e)
<1>1. \A t : Assembled(t) = Collected("events", EventBase, t)
  <2>1. "events" # "chunks"
    OBVIOUS
  <2>2. QED
    BY <2>1, Zenon DEF Assembled, Collected, EventBase
<1>2. \A x, f : Collects("events", x, f) = CollectEvent(x, f)
  BY DEF Collects
<1>3. QED
  BY <1>1, <1>2, CollectedMore

LEMMA CollectedOpenAI ==
  ASSUME NEW ps, Sequence(ps), \A n \in 1 .. Len(ps) : Chunks(ps[n])
  PROVE  /\ Readable(CollectOpenAI(ps)) /\ Marshals(CollectOpenAI(ps))
         /\ CollectOpenAI(ps).stop = StopFromFinish(FinishOf(ps))
         /\ CollectOpenAI(ps).usage = UsageOf(ps)
<1> DEFINE a == Gathered(ps)
           n == Len(ps)
           Acc(x) == /\ DOMAIN x = {"text", "tools", "stop", "usage"}
                     /\ DOMAIN x.tools \subseteq Calls /\ x.usage \in {"reported", "estimated"}
<1>1. n \in Nat /\ SubSeq(ps, 1, n) = ps
  BY Whole
<1> DEFINE order == SortInts(DOMAIN a.tools)
           b == [k \in DOMAIN order |->
                   ToolBlock(a.tools[order[k]].name, OrEmpty(a.tools[order[k]].args))]
           c == (IF a.text = <<>> THEN <<>> ELSE <<TextBlock(a.text)>>) \o b
           m == CollectOpenAI(ps)
<1>4. m = Message(OrEmptyText(c), OrEndTurn(a.stop), a.usage)
  BY Zenon DEF CollectOpenAI
<1>6. Acc(PieceBase)
  BY DEF Calls, PieceBase
<1>7. ASSUME NEW x, Acc(x), NEW p, Chunks(p)
      PROVE  /\ Acc(CollectPiece(x, p))
             /\ CollectPiece(x, p).stop = IF p.kind = "finish" THEN StopFromFinish(p.why) ELSE x.stop
             /\ CollectPiece(x, p).usage = IF p.kind = "usage" THEN "reported" ELSE x.usage
  <2>1. CASE p.kind = "text"
    BY <1>7, <2>1 DEF CollectPiece
  <2>2. CASE p.kind = "finish"
    BY <1>7, <2>2 DEF CollectPiece
  <2>3. CASE p.kind = "usage"
    BY <1>7, <2>3 DEF CollectPiece
  <2>4. CASE p.kind = "tool"
    <3> DEFINE old == IF p.i \in DOMAIN x.tools THEN x.tools[p.i]
                      ELSE [name |-> NoName, args |-> <<>>]
               new == [name |-> IF p.head THEN p.i ELSE old.name,
                       args |-> IF p.arg = Empty THEN old.args ELSE Append(old.args, p.arg)]
               tools == With(x.tools, p.i, new)
    <3>1. CollectPiece(x, p) = [x EXCEPT !.tools = With(@, p.i, new)]
      BY <2>4, Zenon DEF CollectPiece
    <3> HIDE DEF new
    <3>2. DOMAIN tools = DOMAIN x.tools \cup {p.i} /\ p.i \in Calls
      BY <1>7, <2>4 DEF With, Chunks
    <3>3. CollectPiece(x, p) = [x EXCEPT !.tools = tools]
      BY <1>7, <3>1
    <3> HIDE DEF tools
    <3>4. QED
      BY <1>7, <2>4, <3>2, <3>3
  <2>5. QED
    BY <1>7, <2>1, <2>2, <2>3, <2>4 DEF Chunks
<1> DEFINE T == {k \in 0 .. n : /\ Acc(Gathered(SubSeq(ps, 1, k)))
                                /\ Told(Gathered(SubSeq(ps, 1, k)), SubSeq(ps, 1, k))}
<1>8. n \in T
  <2> HIDE DEF n, Acc
  <2>1. 0 \in T
    <3>1. 0 \in 0 .. n
      BY <1>1
    <3>2. SubSeq(ps, 1, 0) = <<>>
      BY NoneYet
    <3>3. Gathered(<<>>) = PieceBase
      BY GatheredMore
    <3>4. Told(PieceBase, <<>>)
      BY NothingHeard, Stops DEF Told, PieceBase
    <3>5. QED
      BY <1>6, <3>1, <3>2, <3>3, <3>4, Zenon
  <2>2. ASSUME NEW k \in 1 .. n, k - 1 \in T PROVE k \in T
    <3> DEFINE first == SubSeq(ps, 1, k - 1)
               w == Gathered(first)
               x == Gathered(SubSeq(ps, 1, k))
    <3>1. Acc(w) /\ Told(w, first)
      BY <2>2
    <3>2. Sequence(first) /\ SubSeq(ps, 1, k) = Append(first, ps[k])
      BY <1>1, Shorter, OneMore DEF n
    <3>3. Chunks(ps[k])
      BY DEF n
    <3> HIDE DEF first
    <3>4. x = CollectPiece(w, ps[k])
      BY <3>2, GatheredMore, Zenon
    <3> HIDE DEF w
    <3>5. /\ Acc(x)
          /\ x.stop = IF ps[k].kind = "finish" THEN StopFromFinish(ps[k].why) ELSE w.stop
          /\ x.usage = IF ps[k].kind = "usage" THEN "reported" ELSE w.usage
      BY <1>7, <3>1, <3>3, <3>4
    <3> HIDE DEF x
    <3>6. Told(x, SubSeq(ps, 1, k))
      BY <3>1, <3>2, <3>5, Hears, Zenon
    <3>7. QED
      BY <1>1, <3>5, <3>6 DEF x
  <2> HIDE DEF T
  <2>3. QED
    BY <1>1, <2>1, <2>2, Upwards
<1>9. Acc(a) /\ Told(a, ps)
  BY <1>1, <1>8, Zenon
<1> HIDE DEF a
<1>10. DOMAIN a.tools \in SUBSET Nat /\ IsFiniteSet(DOMAIN a.tools)
       /\ a.usage \in {"reported", "estimated"}
  <2>1. DOMAIN a.tools \in SUBSET Nat /\ \A i \in DOMAIN a.tools : i <= 1
    BY <1>9 DEF Calls
  <2>2. QED
    BY <1>9, <2>1, FS_BoundedSetOfNaturals, Zenon
<1>11. Sequence(b)
  <2>1. DOMAIN b = DOMAIN order /\ b = [k \in DOMAIN order |-> b[k]]
    BY Zenon
  <2> HIDE DEF b
  <2>2. QED
    BY <1>10, <2>1, SortedList
<1>12. AllFine(b)
  <2>1. ASSUME NEW k \in DOMAIN b PROVE Fine(b[k])
    <3>1. b[k] = ToolBlock(a.tools[order[k]].name, OrEmpty(a.tools[order[k]].args))
      BY Zenon
    <3> HIDE DEF b
    <3>2. QED
      BY <3>1, FineBlocks
  <2> HIDE DEF b
  <2>2. QED
    BY <2>1 DEF AllFine
<1> HIDE DEF b
<1> DEFINE said == IF a.text = <<>> THEN <<>> ELSE <<TextBlock(a.text)>>
<1>13. Sequence(said) /\ AllFine(said)
  BY FineText
<1> HIDE DEF said
<1>14. Sequence(said \o b) /\ AllFine(said \o b)
  BY <1>11, <1>12, <1>13, Joined, FineJoined
<1>15. Sequence(c) /\ AllFine(c)
  BY <1>14 DEF said
<1> HIDE DEF c, m
<1>16. m.content = OrEmptyText(c) /\ m.usage = a.usage /\ m.stop = OrEndTurn(a.stop)
  BY <1>4 DEF Message
<1>17. Readable(m) /\ Marshals(m)
  BY <1>10, <1>15, <1>16, NotEmpty, FineNotEmpty DEF Readable, Marshals, AllFine, Fine
<1>18. m.stop = StopFromFinish(FinishOf(ps)) /\ m.usage = UsageOf(ps)
  BY <1>9, <1>16 DEF Told
<1>19. QED
  BY <1>17, <1>18 DEF m

LEMMA CollectedAnthropic ==
  ASSUME NEW s, Good(s)
  PROVE  /\ Readable(CollectAnthropic(s)) /\ Marshals(CollectAnthropic(s))
         /\ CollectAnthropic(s).stop = "end_turn" /\ CollectAnthropic(s).usage = UsageSeen(s)
<1> DEFINE a == Assembled(s)
           n == Len(s)
           Says(i) == s[i].ev = "message_delta" /\ s[i].usage = "reported"
           Heeds(k) == \E i \in 1 .. k : Says(i)
           Acc(x) == /\ DOMAIN x = {"blocks", "usage"}
                     /\ DOMAIN x.blocks \in SUBSET Nat /\ IsFiniteSet(DOMAIN x.blocks)
                     /\ x.usage \in {"reported", "estimated"}
<1>1. n \in Nat /\ SubSeq(s, 1, n) = s /\ DOMAIN s = 1 .. n
  BY Whole, Elements DEF Good
<1> DEFINE order == SortInts(DOMAIN a.blocks)
           b == [k \in DOMAIN order |->
                   LET block == a.blocks[order[k]]
                   IN  IF block.type = "text" THEN TextBlock(block.text)
                       ELSE ToolBlock(block.name, OrEmpty(block.args))]
           m == CollectAnthropic(s)
<1>4. m = Message(OrEmptyText(b), "end_turn", a.usage)
  BY Zenon DEF CollectAnthropic
<1>6. Acc(EventBase)
  <2>1. DOMAIN EventBase.blocks = {}
    BY DEF EventBase
  <2>2. QED
    BY <2>1, FS_EmptySet DEF EventBase
<1>7. ASSUME NEW x, Acc(x), NEW e, e.ev = "block_start" => e.idx \in Nat
      PROVE  /\ Acc(CollectEvent(x, e))
             /\ CollectEvent(x, e).usage = IF e.ev = "message_delta" /\ e.usage = "reported"
                                           THEN "reported" ELSE x.usage
  <2>1. CASE e.ev = "block_start"
    <3> DEFINE new == [type |-> e.type, text |-> <<>>, args |-> <<>>,
                       name |-> IF e.type = "text" THEN NoName ELSE e.name]
               blocks == With(x.blocks, e.idx, new)
    <3>1. CollectEvent(x, e) = [x EXCEPT !.blocks = With(@, e.idx, new)]
      BY <2>1, Zenon DEF CollectEvent
    <3> HIDE DEF new
    <3>2. DOMAIN blocks = DOMAIN x.blocks \cup {e.idx}
      BY DEF With
    <3>3. CollectEvent(x, e) = [x EXCEPT !.blocks = blocks]
      BY <1>7, <3>1
    <3>4. IsFiniteSet(DOMAIN x.blocks \cup {e.idx})
      BY <1>7, FS_AddElement
    <3> HIDE DEF blocks
    <3>5. QED
      BY <1>7, <2>1, <3>2, <3>3, <3>4
  <2>2. CASE e.ev = "text_delta" /\ e.idx \in DOMAIN x.blocks
    BY <1>7, <2>2 DEF CollectEvent
  <2>3. CASE e.ev = "json_delta" /\ e.idx \in DOMAIN x.blocks
    BY <1>7, <2>3 DEF CollectEvent
  <2>4. CASE e.ev = "message_delta"
    BY <1>7, <2>4 DEF CollectEvent
  <2>5. CASE /\ e.ev \notin {"block_start", "message_delta"}
             /\ ~(e.ev \in {"text_delta", "json_delta"} /\ e.idx \in DOMAIN x.blocks)
    <3>1. CollectEvent(x, e) = x
      BY <2>5 DEF CollectEvent
    <3>2. QED
      BY <1>7, <2>5, <3>1
  <2>6. QED
    BY <2>1, <2>2, <2>3, <2>4, <2>5
<1> DEFINE Upto(k) == Assembled(SubSeq(s, 1, k))
           T == {k \in 0 .. n : /\ Acc(Upto(k))
                                /\ Upto(k).usage = IF Heeds(k) THEN "reported" ELSE "estimated"}
<1>8. n \in T
  <2> HIDE DEF n, Acc
  <2>1. 0 \in T
    <3>1. 0 \in 0 .. n /\ ~Heeds(0)
      BY <1>1
    <3>2. Upto(0) = EventBase
      BY NoneYet, AssembledMore, Nothing, Zenon DEF Good
    <3>3. EventBase.usage = "estimated"
      BY DEF EventBase
    <3>4. QED
      BY <1>6, <3>1, <3>2, <3>3
  <2>2. ASSUME NEW k \in 1 .. n, k - 1 \in T PROVE k \in T
    <3> DEFINE first == SubSeq(s, 1, k - 1)
    <3>1. k \in Nat /\ k - 1 \in 0 .. n - 1 /\ k - 1 \in 0 .. n /\ (k - 1) + 1 = k /\ k \in 0 .. n
      BY <1>1
    <3>2. Sequence(first) /\ SubSeq(s, 1, k) = Append(first, s[k])
      BY <3>1, Shorter, OneMore DEF Good, n
    <3>3. s[k].ev = "block_start" => s[k].idx \in Nat
      <4>1. Legal(first, s[(k - 1) + 1])
        BY <3>1 DEF Good, n
      <4>2. Opened(first) \in Nat
        BY <3>2, Counted
      <4>3. QED
        BY <3>1, <4>1, <4>2 DEF Legal
    <3>4. Upto(k) = CollectEvent(Upto(k - 1), s[k])
      <4> HIDE DEF first
      <4>1. Assembled(Append(first, s[k])) = CollectEvent(Assembled(first), s[k])
        BY <3>2, AssembledMore
      <4>2. QED
        BY <3>2, <4>1, Zenon DEF first
    <3>5. /\ Acc(Upto(k - 1))
          /\ Upto(k - 1).usage = IF Heeds(k - 1) THEN "reported" ELSE "estimated"
      BY <2>2
    <3> HIDE DEF Upto
    <3>6. Acc(Upto(k)) /\ Upto(k).usage = IF Says(k) THEN "reported" ELSE Upto(k - 1).usage
      BY <1>7, <3>3, <3>4, <3>5
    <3>7. Heeds(k) <=> Heeds(k - 1) \/ Says(k)
      <4>1. \A i : i \in 1 .. k <=> i \in 1 .. k - 1 \/ i = k
        BY <1>1
      <4> HIDE DEF Says
      <4>2. QED
        BY <4>1
    <3> HIDE DEF Heeds, Says
    <3>8. Upto(k).usage = IF Heeds(k) THEN "reported" ELSE "estimated"
      <4>1. CASE Says(k)
        BY <3>6, <3>7, <4>1
      <4>2. CASE ~Says(k)
        BY <3>5, <3>6, <3>7, <4>2
      <4>3. QED
        BY <4>1, <4>2
    <3>9. QED
      BY <3>1, <3>6, <3>8
  <2> HIDE DEF T
  <2>3. QED
    BY <1>1, <2>1, <2>2, Upwards
<1>9. Acc(a) /\ a.usage = UsageSeen(s)
  <2>1. Acc(a) /\ a.usage = IF Heeds(n) THEN "reported" ELSE "estimated"
    BY <1>1, <1>8, Zenon
  <2>2. Heeds(n) <=> \E e \in Range(s) : e.ev = "message_delta" /\ e.usage = "reported"
    BY <1>1 DEF Range
  <2> HIDE DEF a, Heeds
  <2>3. QED
    BY <2>1, <2>2 DEF UsageSeen
<1> HIDE DEF a
<1>10. Sequence(b)
  <2>1. DOMAIN b = DOMAIN order /\ b = [k \in DOMAIN order |-> b[k]]
    BY Zenon
  <2> HIDE DEF b
  <2>2. QED
    BY <1>9, <2>1, SortedList
<1>11. AllFine(b)
  <2>1. ASSUME NEW k \in DOMAIN b PROVE Fine(b[k])
    <3> DEFINE block == a.blocks[order[k]]
    <3>1. b[k] = IF block.type = "text" THEN TextBlock(block.text)
                 ELSE ToolBlock(block.name, OrEmpty(block.args))
      BY Zenon
    <3> HIDE DEF b, block
    <3>2. QED
      BY <3>1, FineBlocks
  <2> HIDE DEF b
  <2>2. QED
    BY <2>1 DEF AllFine
<1> HIDE DEF b, m
<1>12. m.content = OrEmptyText(b) /\ m.usage = a.usage /\ m.stop = "end_turn"
  BY <1>4 DEF Message
<1>13. Readable(m) /\ Marshals(m)
  BY <1>9, <1>10, <1>11, <1>12, NotEmpty, FineNotEmpty DEF Readable, Marshals, AllFine, Fine
<1>14. QED
  BY <1>9, <1>12, <1>13 DEF m

-----------------------------------------------------------------------------
(***************************************************************************)
(* The inductive invariant: what has been written and what is about to be  *)
(* are together events the protocol allows; while the translator reads,    *)
(* they are all it has emitted.                                            *)
(***************************************************************************)

EventsInv ==
  /\ TypeOK
  /\ Sequence(pieces) /\ \A n \in 1 .. Len(pieces) : Chunks(pieces[n])
  /\ Sequence(out) /\ Sequence(pend) /\ Good(out \o pend)
  /\ pc = "body" => IF Decoder = "translate" THEN Translating(tr) /\ out \o pend = tr.out
                    ELSE out = <<>> /\ pend = <<>>

LEMMA Decoders ==
  ASSUME EventsInv
  PROVE  Decoder \in {"translate", "collectOpenAI", "pass", "parse", "collectAnthropic",
                      "response", "closed"}
BY DEF EventsInv, TypeOK, Decoder

\* Whatever decoder reads it, k events in.
LEMMA DecodedReadable ==
  ASSUME EventsInv, Decoder \notin {"translate", "pass", "closed"},
         NEW k \in 0 .. Len(Synthetic(UpstreamMessage))
  PROVE  /\ Readable(Decoded(k))
         /\ ~Marshals(Decoded(k))
              => /\ Decoder = "response"
                 /\ \E i \in CallsOf(pieces) : ~ValidArgs(ArgsOf(pieces, i))
<1>0. Sequence(pieces) /\ \A n \in 1 .. Len(pieces) : Chunks(pieces[n])
  BY DEF EventsInv
<1>1. Readable(UpstreamMessage) /\ Marshals(UpstreamMessage)
  BY <1>0, UpstreamReadable
<1>2. Good(SubSeq(Synthetic(UpstreamMessage), 1, k))
  BY <1>1, SyntheticGood, GoodPrefix DEF Readable
<1>3. CASE Decoder = "collectOpenAI"
  <2>1. Decoded(k) = IF FindsNothing THEN EmptyMessage ELSE CollectOpenAI(pieces)
    BY <1>3 DEF Decoded
  <2>2. QED
    BY <1>0, <2>1, EmptyReadable, CollectedOpenAI
<1>4. CASE Decoder = "collectAnthropic"
  <2>1. Decoded(k) = CollectAnthropic(SubSeq(Synthetic(UpstreamMessage), 1, k))
    BY <1>4 DEF Decoded
  <2>2. QED
    BY <1>2, <2>1, CollectedAnthropic
<1>5. CASE Decoder = "response"
  <2>1. Decoded(k) = TranslateResponse(pieces)
    BY <1>5 DEF Decoded
  <2>2. QED
    BY <1>0, <1>5, <2>1, ResponseReadable
<1>6. CASE Decoder = "parse"
  <2>1. Decoded(k) = UpstreamMessage
    BY <1>6 DEF Decoded
  <2>2. QED
    BY <1>1, <2>1
<1>7. QED
  BY <1>3, <1>4, <1>5, <1>6, Decoders

\* Writing takes the next event; the two parts together stay the same.
LEMMA NextEvent ==
  ASSUME NEW s, NEW t, Sequence(s), Sequence(t), t # <<>>, Good(s \o t)
  PROVE  /\ Sequence(Append(s, Head(t))) /\ Sequence(Tail(t))
         /\ Append(s, Head(t)) \o Tail(t) = s \o t
         /\ Numbered(s) /\ Legal(s, Head(t))
<1> DEFINE E == Range(s) \cup Range(t)
           u == s \o t
<1>1. s \in Seq(E) /\ t \in Seq(E)
  <2>1. /\ s \in Seq(Range(s)) /\ t \in Seq(Range(t))
        /\ Range(s) \subseteq E /\ Range(t) \subseteq E
    BY DEF Sequence
  <2> HIDE DEF E
  <2>2. QED
    BY <2>1
<1> HIDE DEF E
<1>2. /\ Head(t) \in E /\ Tail(t) \in Seq(E) /\ Head(t) = t[1] /\ Len(t) \in Nat /\ Len(t) # 0
  BY <1>1
<1>3. Sequence(Append(s, Head(t))) /\ Sequence(Tail(t))
  <2>1. Append(s, Head(t)) \in Seq(E)
    BY <1>1, <1>2
  <2>2. QED
    BY <1>2, <2>1, IsSequence, Zenon
<1>4. Append(s, Head(t)) \o Tail(t) = u
  BY <1>1, <1>2
<1>5. /\ Sequence(u) /\ Len(s) \in Nat /\ Len(u) = Len(s) + Len(t) /\ u[Len(s) + 1] = t[1]
      /\ \A n \in 1 .. Len(s) : u[n] = s[n]
  <2>1. Sequence(u) /\ Len(u) = Len(s) + Len(t) /\ (\A n \in 1 .. Len(s) : u[n] = s[n])
        /\ \A n \in 1 .. Len(t) : u[Len(s) + n] = t[n]
    BY Joined
  <2>2. 1 \in 1 .. Len(t) /\ Len(s) \in Nat
    BY <1>2, Elements
  <2>3. QED
    BY <2>1, <2>2
<1>6. /\ Len(s) \in 0 .. Len(u) - 1 /\ Len(s) \in 0 .. Len(u) /\ Len(s) \in 0 .. Len(s)
  BY <1>2, <1>5
<1>7. SubSeq(u, 1, Len(s)) = s
  <2> HIDE DEF u
  <2>1. SubSeq(s, 1, Len(s)) = SubSeq(u, 1, Len(s))
    BY <1>5, <1>6, SamePrefix
  <2>2. QED
    BY <2>1, Whole
<1>8. Numbered(SubSeq(u, 1, Len(s))) /\ Legal(SubSeq(u, 1, Len(s)), u[Len(s) + 1])
  BY <1>6 DEF Good
<1>9. QED
  BY <1>2, <1>3, <1>4, <1>5, <1>7, <1>8, Zenon

LEMMA EventsInit == Init => EventsInv
<1> SUFFICES ASSUME Init PROVE EventsInv
  OBVIOUS
<1>1. TypeOK
  <2>1. Len(pieces) = 0
    BY Nothing DEF Init
  <2>2. up \in Upstreams
    BY DEF Init, Upstreams
  <2>3. cache \in BOOLEAN
    BY Zenon DEF Init
  <2>4. QED
    BY <2>1, <2>2, <2>3, DeliveryAssumption DEF Init, TypeOK, Kinds, Reply
<1>2. Sequence(pieces) /\ Sequence(out) /\ Sequence(pend) /\ Len(pieces) = 0
  BY Nothing DEF Init
<1>3. Good(out \o pend)
  <2>1. out \o pend = <<>>
    BY Nothing, JoinedFew DEF Init
  <2>2. QED
    BY <2>1, GoodNothing
<1>4. pc # "body"
  BY DEF Init
<1>5. QED
  BY <1>1, <1>2, <1>3, <1>4 DEF EventsInv

LEMMA CallEvents ==
  ASSUME EventsInv, Call
  PROVE  EventsInv' /\ Protocol!StartOver
<1>1. /\ pc = "call" /\ left > 0 /\ up' \in Upstreams /\ left' = left - 1 /\ cache' = cache
      /\ pieces' = <<>> /\ tr' = NewTranslator /\ out' = <<>> /\ pc' = "body"
      /\ req' = req /\ count' = count /\ pend' = pend /\ reply' = reply /\ usage' = usage
  BY DEF Call
<1>2. pend' = <<>>
  BY <1>1 DEF EventsInv, TypeOK
<1>3. Len(pieces') = 0 /\ Sequence(<<>>)
  BY <1>1, Nothing
<1>4. TypeOK'
  BY <1>1, <1>3, DeliveryAssumption DEF EventsInv, TypeOK
<1>5. out' \o pend' = <<>>
  BY <1>1, <1>2, Nothing, JoinedFew
<1>6. Translating(tr') /\ tr'.out = <<>>
  BY <1>1, NewTranslates
<1>7. EventsInv'
  BY <1>1, <1>2, <1>3, <1>4, <1>5, <1>6, GoodNothing DEF EventsInv
<1>8. Phase(out)' = "before" /\ Opened(out)' = 0 /\ Open(out)' = {} /\ Touched(out)' = -1
  <2>1. Phase(out)' = Phase(<<>>) /\ Opened(out)' = Opened(<<>>) /\ Open(out)' = Open(<<>>)
        /\ Touched(out)' = Touched(<<>>)
    BY <1>1 DEF Phase, Opened, Open, Touched, At, Indices
  <2>2. QED
    BY <2>1, Nothing
<1>9. QED
  BY <1>7, <1>8 DEF Protocol!StartOver

LEMMA WriteEvents ==
  ASSUME EventsInv, Write
  PROVE  EventsInv' /\ Protocol!Next
<1>1. /\ pend # <<>> /\ out' = Append(out, Head(pend)) /\ pend' = Tail(pend)
      /\ req' = req /\ up' = up /\ pieces' = pieces /\ count' = count /\ tr' = tr /\ pc' = pc
      /\ left' = left /\ reply' = reply /\ usage' = usage /\ cache' = cache
  BY DEF Write
<1>2. /\ Sequence(out') /\ Sequence(pend') /\ out' \o pend' = out \o pend
      /\ Numbered(out) /\ Legal(out, Head(pend))
  BY <1>1, NextEvent, Zenon DEF EventsInv
<1>3. TypeOK'
  BY <1>1 DEF EventsInv, TypeOK
<1>4. Decoder' = Decoder
  BY <1>1 DEF Decoder
<1>5. EventsInv'
  BY <1>1, <1>2, <1>3, <1>4, Zenon DEF EventsInv
<1>6. Protocol!Next
  BY <1>1, <1>2, Written DEF EventsInv
<1>7. QED
  BY <1>5, <1>6


\* The translator reads a chunk; what it emits is about to be written.
LEMMA ReceiveEvents ==
  ASSUME EventsInv, Receive
  PROVE  EventsInv' /\ out' = out
<1>1. PICK c \in Offers :
        /\ pc = "body" /\ pend = <<>> /\ count < MaxPieces
        /\ pieces' = Append(pieces, c) /\ count' = count + 1
        /\ IF Decoder = "translate"
           THEN /\ tr' = Chunk(Start(tr), c)
                /\ pend' = SubSeq(Chunk(Start(tr), c).out, Len(tr.out) + 1,
                                  Len(Chunk(Start(tr), c).out))
           ELSE tr' = tr /\ pend' = pend
        /\ req' = req /\ up' = up /\ out' = out /\ pc' = pc /\ left' = left
        /\ reply' = reply /\ usage' = usage /\ cache' = cache
  BY Zenon DEF Receive
<1>2. Chunks(c)
  BY DEF Offers, Chunks, Text, Finish, Usage, Tool
<1>3. Sequence(pieces') /\ \A n \in 1 .. Len(pieces') : Chunks(pieces'[n])
  <2>1. Sequence(pieces) /\ Len(pieces) \in Nat
    BY Elements DEF EventsInv
  <2>2. /\ Sequence(pieces') /\ Len(pieces') = Len(pieces) + 1 /\ pieces'[Len(pieces) + 1] = c
        /\ \A n \in 1 .. Len(pieces) : pieces'[n] = pieces[n]
    BY <1>1, <2>1, Longer
  <2>3. \A n \in 1 .. Len(pieces') : n \in 1 .. Len(pieces) \/ n = Len(pieces) + 1
    BY <2>1, <2>2
  <2>4. QED
    BY <1>2, <2>2, <2>3 DEF EventsInv
<1>4. TypeOK'
  <2>1. Len(pieces) \in Nat /\ Len(pieces') = Len(pieces) + 1
    BY <1>1, Elements, Longer DEF EventsInv
  <2>2. count' \in 0 .. MaxPieces /\ Len(pieces') <= count'
    BY <1>1, <2>1, DeliveryAssumption DEF EventsInv, TypeOK
  <2>3. QED
    BY <1>1, <2>2 DEF EventsInv, TypeOK
<1>5. Decoder' = Decoder
  BY <1>1 DEF Decoder
<1>6. CASE Decoder = "translate"
  <2> DEFINE t == Chunk(Start(tr), c)
  <2>1. Translating(tr) /\ out \o pend = tr.out /\ pend = <<>> /\ Sequence(out)
    BY <1>1, <1>6 DEF EventsInv
  <2>2. tr.out = out
    BY <2>1, JoinedFew
  <2>3. Translating(t) /\ Growing(tr.out, t.out)
    <3>1. Translating(Start(tr)) /\ Growing(tr.out, Start(tr).out) /\ Start(tr).started
      BY <2>1, Starts
    <3>2. Translates(Start(tr), t)
      BY <1>2, <3>1, ChunkTranslates
    <3>3. QED
      BY <2>1, <3>1, <3>2, Grown DEF Translates, Translating, Good
  <2>4. tr' = t /\ pend' = SubSeq(t.out, Len(out) + 1, Len(t.out))
    BY <1>1, <1>6, <2>2
  <2> HIDE DEF t
  <2>5. Sequence(pend') /\ out \o pend' = t.out
    BY <2>1, <2>2, <2>3, <2>4, Rest DEF Translating, Good
  <2>6. Good(out' \o pend') /\ out' \o pend' = tr'.out /\ Translating(tr')
    BY <1>1, <2>3, <2>4, <2>5, Zenon DEF Translating
  <2>7. QED
    BY <1>1, <1>3, <1>4, <1>5, <1>6, <2>1, <2>5, <2>6, Zenon DEF EventsInv
<1>7. CASE Decoder # "translate"
  BY <1>1, <1>3, <1>4, <1>5, <1>7 DEF EventsInv
<1>8. QED
  BY <1>1, <1>6, <1>7

LEMMA EndEvents ==
  ASSUME EventsInv, NEW failed \in BOOLEAN, EndTranslation(failed)
  PROVE  EventsInv' /\ out' = out
<1> DEFINE s == IF failed THEN tr ELSE Start(tr)
           t == Finalize(s)
<1>1. /\ pc = "body" /\ pend = <<>> /\ Decoder = "translate"
      /\ pend' = SubSeq(t.out, Len(tr.out) + 1, Len(t.out))
      /\ pc' \in {"failed", "last"} /\ usage' \in {usage, tr.usage} /\ cache' = FALSE
      /\ req' = req /\ up' = up /\ pieces' = pieces /\ count' = count /\ out' = out
      /\ left' = left /\ reply' = reply
  <2>1. pc' \in {"failed", "last"} /\ usage' \in {usage, tr.usage} /\ cache' = FALSE
    BY DEF EndTranslation
  <2>2. QED
    BY <2>1, Zenon DEF EndTranslation
<1>2. Translating(tr) /\ out \o pend = tr.out /\ Sequence(out)
  BY <1>1 DEF EventsInv
<1>3. tr.out = out
  BY <1>1, <1>2, JoinedFew
<1>4. Translating(s) /\ Growing(tr.out, s.out)
  <2>1. Translating(Start(tr)) /\ Growing(tr.out, Start(tr).out)
    BY <1>2, Starts
  <2>2. Growing(tr.out, tr.out)
    BY <1>2, <1>3, GrowsItself
  <2>3. CASE failed
    BY <1>2, <2>2, <2>3
  <2>4. CASE ~failed
    BY <2>1, <2>4
  <2>5. QED
    BY <2>3, <2>4
<1> HIDE DEF s
<1>5. Good(t.out) /\ Growing(tr.out, t.out)
  <2>1. Good(t.out) /\ Growing(s.out, t.out)
    BY <1>4, Finishes
  <2>2. QED
    BY <1>2, <1>4, <2>1, Grown DEF Translating, Good
<1> HIDE DEF t
<1>6. Sequence(pend') /\ out \o pend' = t.out
  BY <1>1, <1>2, <1>3, <1>5, Rest DEF Good
<1>7. usage' \in {"reported", "estimated"}
  BY <1>1, <1>2 DEF EventsInv, TypeOK, Translating, Fields
<1>8. TypeOK'
  BY <1>1, <1>7, Zenon DEF EventsInv, TypeOK
<1>9. QED
  BY <1>1, <1>5, <1>6, <1>8, Zenon DEF EventsInv

LEMMA PassEvents ==
  ASSUME EventsInv, NEW failed \in BOOLEAN, Pass(failed)
  PROVE  EventsInv' /\ out' = out
<1> DEFINE events == Synthetic(UpstreamMessage)
<1>1. PICK k \in 0 .. Len(events) :
        /\ pc = "body" /\ Decoder = "pass"
        /\ pend' = SubSeq(events, 1, k)
        /\ pc' \in {"failed", "last"} /\ usage' \in {"reported", "estimated"}
        /\ cache' \in BOOLEAN
        /\ req' = req /\ up' = up /\ pieces' = pieces /\ count' = count /\ out' = out
        /\ left' = left /\ reply' = reply
  <2>1. PICK k \in 0 .. Len(events) :
          /\ pend' = SubSeq(events, 1, k)
          /\ usage' = IF failed THEN usage ELSE UsageSeen(pend')
          /\ cache' = (~failed /\ k > 0 /\ up.cached)
    BY Zenon DEF Pass
  <2>2. usage' \in {"reported", "estimated"}
    BY <2>1 DEF EventsInv, TypeOK, UsageSeen
  <2>3. /\ pc = "body" /\ Decoder = "pass" /\ pc' \in {"failed", "last"}
        /\ req' = req /\ up' = up /\ pieces' = pieces /\ count' = count /\ out' = out
        /\ left' = left /\ reply' = reply
    BY DEF Pass
  <2>4. cache' \in BOOLEAN
    BY <2>1, Zenon
  <2>5. QED
    BY <2>1, <2>2, <2>3, <2>4
<1>2. out = <<>>
  BY <1>1 DEF EventsInv
<1>3. Good(events)
  BY UpstreamReadable, SyntheticGood DEF EventsInv, Readable
<1> HIDE DEF events
<1>4. Good(pend') /\ Sequence(pend')
  BY <1>1, <1>3, GoodPrefix DEF Good
<1>5. out' \o pend' = pend'
  BY <1>1, <1>2, <1>4, NothingJoined
<1>6. TypeOK'
  BY <1>1 DEF EventsInv, TypeOK
<1>7. QED
  BY <1>1, <1>4, <1>5, <1>6 DEF EventsInv

LEMMA CollectEvents ==
  ASSUME EventsInv, Collect
  PROVE  EventsInv' /\ out' = out
<1>1. PICK k \in 0 .. Len(Synthetic(UpstreamMessage)) :
        /\ pc = "body" /\ pend = <<>> /\ Decoder \notin {"translate", "pass", "closed"}
        /\ usage' = Decoded(k).usage /\ cache' = CacheSeen(k)
        /\ \/ pend' = Synthetic(Decoded(k)) /\ pc' = "last" /\ reply' = reply
           \/ /\ pend' = pend /\ pc' = "done"
              /\ reply'.kind \in {"message", "unmarshalled", "chat", "chatStream", "blocked"}
        /\ req' = req /\ up' = up /\ pieces' = pieces /\ count' = count /\ out' = out
        /\ left' = left
  BY DEF Collect, Done, Reply
<1>2. Readable(Decoded(k))
  BY <1>1, DecodedReadable
<1>3. out = <<>>
  BY <1>1 DEF EventsInv
<1>4. reply'.kind \in Kinds
  BY <1>1 DEF EventsInv, TypeOK, Kinds
<1>5. TypeOK'
  <2>1. cache' \in BOOLEAN
    BY <1>1, Zenon DEF CacheSeen
  <2>2. QED
    BY <1>1, <1>2, <1>4, <2>1 DEF EventsInv, TypeOK, Readable
<1>6. Good(pend') /\ Sequence(pend')
  <2>1. Good(Synthetic(Decoded(k)))
    BY <1>2, SyntheticGood DEF Readable
  <2>2. QED
    BY <1>1, <2>1, GoodNothing, Zenon DEF Good
<1>7. out' \o pend' = pend'
  BY <1>1, <1>3, <1>6, NothingJoined
<1>8. QED
  BY <1>1, <1>5, <1>6, <1>7 DEF EventsInv

\* The other actions write nothing and have nothing to write.
LEMMA OtherEvents ==
  ASSUME EventsInv, GiveUp \/ Fail \/ Retry \/ Return \/ UNCHANGED vars
  PROVE  EventsInv' /\ out' = out
<1>1. /\ req' = req /\ up' = up /\ pieces' = pieces /\ count' = count /\ tr' = tr
      /\ pend' = pend /\ out' = out /\ left' = left /\ usage' = usage /\ cache' = cache
      /\ \/ pc' = pc /\ reply' = reply
         \/ pend = <<>> /\ pc' \in {"failed", "call"} /\ reply' = reply
         \/ pend = <<>> /\ pc' = "done" /\ reply'.kind \in {"exhausted", "broken", "stream"}
  <2>1. CASE GiveUp
    BY <2>1 DEF EventsInv, TypeOK, GiveUp, Done, Reply
  <2>2. CASE Fail
    BY <2>2 DEF Fail, Done, Reply
  <2>3. CASE Retry
    BY <2>3 DEF Retry
  <2>4. CASE Return
    BY <2>4 DEF Return, Done, Reply
  <2>5. CASE UNCHANGED vars
    BY <2>5 DEF vars
  <2>6. QED
    BY <2>1, <2>2, <2>3, <2>4, <2>5
<1>2. reply'.kind \in Kinds
  BY <1>1 DEF EventsInv, TypeOK, Kinds
<1>3. TypeOK'
  BY <1>1, <1>2 DEF EventsInv, TypeOK
<1>4. Decoder' = Decoder
  BY <1>1 DEF Decoder
<1>5. QED
  BY <1>1, <1>3, <1>4 DEF EventsInv

LEMMA EventsNext == EventsInv /\ [Next]_vars => EventsInv' /\ [Protocol!Next]_(Protocol!vars)
<1> SUFFICES ASSUME EventsInv, [Next]_vars
             PROVE  EventsInv' /\ [Protocol!Next]_(Protocol!vars)
  OBVIOUS
<1>0. out' = out => UNCHANGED Protocol!vars
  BY DEF Protocol!vars, Phase, Opened, Open, Touched, At, Indices
<1>1. CASE Call
  BY <1>1, CallEvents DEF Protocol!Next
<1>2. CASE Write
  BY <1>2, WriteEvents
<1>3. CASE Receive
  BY <1>0, <1>3, ReceiveEvents
<1>4. ASSUME NEW failed \in BOOLEAN, EndTranslation(failed)
      PROVE  EventsInv' /\ [Protocol!Next]_(Protocol!vars)
  BY <1>0, <1>4, EndEvents
<1>5. ASSUME NEW failed \in BOOLEAN, Pass(failed)
      PROVE  EventsInv' /\ [Protocol!Next]_(Protocol!vars)
  BY <1>0, <1>5, PassEvents
<1>6. CASE Collect
  BY <1>0, <1>6, CollectEvents
<1>7. CASE GiveUp \/ Fail \/ Retry \/ Return \/ UNCHANGED vars
  BY <1>0, <1>7, OtherEvents
<1>8. QED
  BY <1>1, <1>2, <1>3, <1>4, <1>5, <1>6, <1>7 DEF Next

LEMMA EventsAlways == Spec => []EventsInv
<1>1. EventsInv /\ [Next]_vars => EventsInv'
  BY EventsNext
<1>2. QED
  BY EventsInit, <1>1, PTL DEF Spec

-----------------------------------------------------------------------------
(***************************************************************************)
(* The types hold, and nothing is left to write when the handler returns.  *)
(***************************************************************************)
THEOREM DeliveryTypes == Spec => []TypeOK
<1>1. EventsInv => TypeOK
  BY DEF EventsInv
<1>2. QED
  BY EventsAlways, <1>1, PTL

(***************************************************************************)
(* Whatever decoder reads the bodies, whatever chunks come in what order   *)
(* and wherever an attempt fails, each event written into the response is  *)
(* a step that EventProtocol allows: Delivery implements it.               *)
(***************************************************************************)
THEOREM ProtocolKept == Spec => FollowsProtocol
<1>1. Init => Protocol!Init
  BY Nothing DEF Init, Protocol!Init
<1>2. EventsInv /\ [Next]_vars => [Protocol!Next]_(Protocol!vars)
  BY EventsNext
<1>3. Spec => Protocol!Spec
  BY EventsAlways, <1>1, <1>2, PTL DEF Spec, Protocol!Spec
<1>4. QED
  BY <1>3 DEF FollowsProtocol


-----------------------------------------------------------------------------
(***************************************************************************)
(* What gets lost.  Events of an attempt that is not the last are written  *)
(* only where they are written as they are read.                           *)
(***************************************************************************)

\* The client asked for a stream and nothing scans it first.
Unscanned == req.stream /\ ~req.chat /\ ~req.scan

LossesInv ==
  /\ reply.kind = "unmarshalled" =>
       /\ pc = "done" /\ Decoder = "response" /\ ~req.chat
       /\ \E i \in CallsOf(pieces) : ~ValidArgs(ArgsOf(pieces, i))
  /\ before # <<>> => Unscanned
  /\ pc \in {"call", "body", "failed"} /\ (out # <<>> \/ pend # <<>>) => Unscanned

LEMMA WrittenAsRead == EventsInv /\ Decoder \in {"translate", "pass"} => Unscanned
BY DEF EventsInv, TypeOK, Decoder, Unscanned

LEMMA LossesInit == Init => LossesInv
BY DEF Init, LossesInv, Reply

LEMMA LossesNext == EventsInv /\ LossesInv /\ [Next]_vars => LossesInv'
<1> SUFFICES ASSUME EventsInv, LossesInv, [Next]_vars
             PROVE  LossesInv'
  OBVIOUS
<1>0. pc \in {"call", "done"} => pend = <<>>
  BY DEF EventsInv, TypeOK
<1>1. CASE Call
  <2>1. /\ pc = "call" /\ req' = req /\ out' = <<>> /\ pend' = pend /\ reply' = reply
        /\ before' = before \o out
    BY <1>1 DEF Call
  <2>2. reply'.kind # "unmarshalled"
    BY <2>1 DEF LossesInv
  <2>3. before' # <<>> => Unscanned
    <3>1. before = <<>> /\ out = <<>> => before' = <<>>
      BY <2>1, Nothing, JoinedFew
    <3>2. QED
      BY <2>1, <3>1, Zenon DEF LossesInv
  <2>4. Unscanned' = Unscanned
    BY <2>1 DEF Unscanned
  <2>5. out' = <<>> /\ pend' = <<>>
    BY <1>0, <2>1
  <2>6. QED
    BY <2>2, <2>3, <2>4, <2>5 DEF LossesInv
<1>2. ASSUME req' = req, up' = up, before' = before, pieces' = pieces, reply' = reply, pc' = pc,
             out' # <<>> \/ pend' # <<>> => out # <<>> \/ pend # <<>>
      PROVE  LossesInv'
  <2>1. Decoder' = Decoder /\ Unscanned' = Unscanned
    BY <1>2 DEF Decoder, Unscanned
  <2>2. (\E i \in CallsOf(pieces) : ~ValidArgs(ArgsOf(pieces, i)))'
          = (\E i \in CallsOf(pieces) : ~ValidArgs(ArgsOf(pieces, i)))
    BY <1>2
  <2>3. QED
    BY <1>2, <2>1, <2>2 DEF LossesInv
<1>3. CASE Write \/ UNCHANGED vars
  <2>1. /\ req' = req /\ up' = up /\ before' = before /\ pieces' = pieces /\ reply' = reply
        /\ pc' = pc /\ (out' # <<>> \/ pend' # <<>> => out # <<>> \/ pend # <<>>)
    BY <1>3 DEF Write, vars
  <2>2. QED
    BY <1>2, <2>1
\* The body is read: nothing has been decided, or a scanned reply waits to be sent.
<1>4. ASSUME req' = req, before' = before, reply' = reply, pc # "done",
             out' # <<>> \/ pend' # <<>> => Unscanned \/ pc' = "last"
      PROVE  LossesInv'
  <2>1. Unscanned' = Unscanned
    BY <1>4 DEF Unscanned
  <2>2. reply'.kind # "unmarshalled"
    BY <1>4 DEF LossesInv
  <2>3. QED
    BY <1>4, <2>1, <2>2 DEF LossesInv
<1>5. CASE Receive
  <2>1. /\ pc = "body" /\ pend = <<>> /\ req' = req /\ before' = before /\ reply' = reply
        /\ out' = out /\ (Decoder # "translate" => pend' = pend)
    BY <1>5, Zenon DEF Receive
  <2>2. out' # <<>> \/ pend' # <<>> => Unscanned
    BY <2>1, WrittenAsRead DEF LossesInv
  <2>3. QED
    BY <1>4, <2>1, <2>2
<1>6. ASSUME NEW failed \in BOOLEAN, EndTranslation(failed) \/ Pass(failed)
      PROVE  LossesInv'
  <2>1. /\ pc = "body" /\ Decoder \in {"translate", "pass"}
        /\ req' = req /\ before' = before /\ reply' = reply
    BY <1>6, Zenon DEF EndTranslation, Pass
  <2>2. QED
    BY <1>4, <2>1, WrittenAsRead
<1>7. CASE Collect
  <2>1. PICK k \in 0 .. Len(Synthetic(UpstreamMessage)) :
          /\ pc = "body" /\ Decoder \notin {"translate", "pass", "closed"}
          /\ req' = req /\ up' = up /\ before' = before /\ pieces' = pieces
          /\ \/ pc' = "last" /\ reply' = reply
             \/ pc' = "done" /\ reply'.kind # "unmarshalled"
             \/ /\ pc' = "done" /\ reply'.kind = "unmarshalled"
                /\ ~req.chat /\ ~Marshals(Decoded(k))
    BY <1>7 DEF Collect, Done, Reply
  <2>2. Decoder' = Decoder /\ Unscanned' = Unscanned
    BY <2>1 DEF Decoder, Unscanned
  <2>3. CASE pc' = "last" /\ reply' = reply
    BY <1>4, <2>1, <2>3
  <2>4. CASE pc' = "done" /\ reply'.kind # "unmarshalled"
    BY <2>1, <2>2, <2>4 DEF LossesInv
  <2>5. CASE /\ pc' = "done" /\ reply'.kind = "unmarshalled"
             /\ ~req.chat /\ ~Marshals(Decoded(k))
    <3>1. Decoder = "response" /\ \E i \in CallsOf(pieces) : ~ValidArgs(ArgsOf(pieces, i))
      BY <2>1, <2>5, DecodedReadable
    <3>2. (\E i \in CallsOf(pieces) : ~ValidArgs(ArgsOf(pieces, i)))'
      BY <2>1, <3>1
    <3>3. QED
      BY <2>1, <2>2, <2>5, <3>1, <3>2 DEF LossesInv
  <2>6. QED
    BY <2>1, <2>3, <2>4, <2>5
<1>8. CASE GiveUp \/ Fail \/ Retry \/ Return
  <2>1. /\ pc # "done" /\ req' = req /\ before' = before /\ out' = out /\ pend' = pend
        /\ \/ /\ pc' \in {"failed", "call"} /\ pc \in {"body", "failed"} /\ reply' = reply
           \/ pc' = "done" /\ reply'.kind \in {"exhausted", "broken", "stream"}
    BY <1>8 DEF GiveUp, Fail, Retry, Return, Done, Reply
  <2>2. Unscanned' = Unscanned
    BY <2>1 DEF Unscanned
  <2>3. CASE pc' \in {"failed", "call"} /\ pc \in {"body", "failed"} /\ reply' = reply
    <3>1. out' # <<>> \/ pend' # <<>> => Unscanned
      BY <2>1, <2>3 DEF LossesInv
    <3>2. QED
      BY <1>4, <2>1, <2>3, <3>1
  <2>4. CASE pc' = "done" /\ reply'.kind \in {"exhausted", "broken", "stream"}
    BY <2>1, <2>2, <2>4 DEF LossesInv
  <2>5. QED
    BY <2>1, <2>3, <2>4
<1>9. QED
  BY <1>1, <1>3, <1>5, <1>6, <1>7, <1>8 DEF Next

\* An answer that has been received whole and was not passed on.
Closed == req.chat /\ ~req.stream /\ up.sse

ReceivedInv ==
  /\ pc \in {"failed", "call"} /\ left < Attempts /\ ~cut => Closed
  /\ pc = "done" /\ left < Attempts /\ ~cut =>
       Delivered \/ reply.kind \in {"blocked", "unmarshalled"} \/ Closed

LEMMA ReceivedInit == Init => ReceivedInv
BY DeliveryAssumption DEF Init, ReceivedInv

LEMMA ReceivedNext == EventsInv /\ ReceivedInv /\ [Next]_vars => ReceivedInv'
<1> SUFFICES ASSUME EventsInv, ReceivedInv, [Next]_vars
             PROVE  ReceivedInv'
  OBVIOUS
<1>1. CASE Call
  <2>1. pc' = "body"
    BY <1>1 DEF Call
  <2>2. QED
    BY <2>1 DEF ReceivedInv
<1>2. CASE GiveUp \/ Retry
  <2>1. /\ req' = req /\ up' = up /\ left' = left /\ cut' = cut /\ pc \in {"failed", "call"}
        /\ pc' \in {"call", "done"}
    BY <1>2 DEF GiveUp, Retry, Done
  <2>2. Closed' = Closed
    BY <2>1 DEF Closed
  <2>3. QED
    BY <2>1, <2>2 DEF ReceivedInv
<1>3. CASE Receive \/ Write \/ UNCHANGED vars
  <2>1. /\ req' = req /\ up' = up /\ left' = left /\ cut' = cut /\ pc' = pc /\ reply' = reply
    <3>1. CASE Receive
      BY <3>1, Zenon DEF Receive
    <3>2. CASE Write \/ UNCHANGED vars
      BY <3>2 DEF Write, vars
    <3>3. QED
      BY <1>3, <3>1, <3>2
  <2>2. Closed' = Closed /\ Delivered' = Delivered
    BY <2>1 DEF Closed, Delivered
  <2>3. QED
    BY <2>1, <2>2 DEF ReceivedInv
\* A body that breaks off was not received whole.
<1>4. ASSUME NEW failed \in BOOLEAN, EndTranslation(failed) \/ Pass(failed)
      PROVE  ReceivedInv'
  <2>1. (failed => cut') /\ (~failed => pc' = "last") /\ pc' \in {"failed", "last"}
    <3>1. CASE EndTranslation(failed)
      BY <3>1 DEF EndTranslation
    <3>2. CASE Pass(failed)
      <4>1. pc' = IF failed THEN "failed" ELSE "last"
        BY <3>2 DEF Pass
      <4>2. failed => cut'
        BY <3>2, Zenon DEF Pass
      <4>3. QED
        BY <4>1, <4>2
    <3>3. QED
      BY <1>4, <3>1, <3>2
  <2>2. QED
    BY <2>1 DEF ReceivedInv
<1>5. CASE Collect
  <2>1. \/ pc' = "last"
        \/ /\ pc' = "done"
           /\ reply'.kind \in {"message", "unmarshalled", "chat", "chatStream", "blocked"}
    BY <1>5 DEF Collect, Done, Reply
  <2>2. QED
    BY <2>1 DEF ReceivedInv, Delivered
<1>6. CASE Fail
  <2>1. /\ req' = req /\ up' = up /\ (Decoder # "closed" => cut')
        /\ ((req.chat /\ req.stream) \/ (pc' = "failed" /\ reply' = reply))
    BY <1>6 DEF Fail
  <2>2. Decoder = "closed" => Closed
    BY DEF Decoder, Closed, EventsInv, TypeOK
  <2>3. Closed' = Closed
    BY <2>1 DEF Closed
  <2>4. QED
    BY <2>1, <2>2, <2>3 DEF ReceivedInv
<1>7. CASE Return
  <2>1. reply'.kind = "stream" /\ pc' = "done"
    BY <1>7 DEF Return, Done, Reply
  <2>2. QED
    BY <2>1 DEF ReceivedInv, Delivered
<1>8. QED
  BY <1>1, <1>2, <1>3, <1>4, <1>5, <1>6, <1>7 DEF Next

(***************************************************************************)
(* An answer that was received whole is delivered or blocked, but for an   *)
(* event stream that answers a chat request not streamed, and a completion *)
(* whose arguments are no JSON: every other decoder makes a message that   *)
(* can be marshalled.  And a response that holds events of a failed        *)
(* attempt is a stream that nothing scans.                                 *)
(***************************************************************************)
THEOREM LossesNamed == Spec => []LossesKnown
<1>1. LossesInv /\ ReceivedInv => LossesKnown
  <2>1. ASSUME LossesInv, ReceivedInv,
               pc \in {"failed", "call", "done"}, left < Attempts, ~cut
        PROVE  \/ Delivered \/ reply.kind \in {"blocked", "unmarshalled"}
               \/ req.chat /\ ~req.stream /\ up.sse
    BY <2>1, Zenon DEF ReceivedInv, Closed
  <2>2. QED
    BY <2>1 DEF LossesInv, LossesKnown, Unscanned
<1>2. Spec => []LossesInv
  BY EventsAlways, LossesInit, LossesNext, PTL DEF Spec
<1>3. Spec => []ReceivedInv
  BY EventsAlways, ReceivedInit, ReceivedNext, PTL DEF Spec
<1>4. QED
  BY <1>1, <1>2, <1>3, PTL

-----------------------------------------------------------------------------
(***************************************************************************)
(* How the answer ended, and what it cost: the translator and the          *)
(* collectors have heard it, the events about to be written say it.        *)
(***************************************************************************)

Stopped == IF FindsNothing \/ Decoder = "collectAnthropic" THEN "end_turn"
           ELSE StopFromFinish(FinishOf(pieces))
Charged == IF FindsNothing THEN "estimated" ELSE UsageOf(pieces)
CacheTold == up.cached /\ ~FindsNothing /\ ~(req.chat /\ req.stream)

Settled == usage = Charged /\ cache = CacheTold

EndsInv ==
  /\ pc # "done" => reply.kind = "none"
  /\ pc = "body" /\ Decoder = "translate" => Told(tr, pieces)
  /\ pc = "last" /\ ~cut => StopIn(out \o pend) = Stopped /\ Settled
  /\ StopAndUsageKept

LEMMA UpstreamEnds ==
  /\ UpstreamMessage.stop = StopFromFinish(FinishOf(pieces))
  /\ UpstreamMessage.usage = UsageOf(pieces)
<1>1. \E b : UpstreamMessage = Message(b, StopFromFinish(FinishOf(pieces)), UsageOf(pieces))
  BY Zenon DEF UpstreamMessage
<1>2. QED
  BY <1>1 DEF Message

LEMMA ResponseEnds ==
  /\ TranslateResponse(pieces).stop = StopFromFinish(FinishOf(pieces))
  /\ TranslateResponse(pieces).usage = UsageOf(pieces)
<1>1. \E b : TranslateResponse(pieces) = Message(b, StopFromFinish(FinishOf(pieces)), UsageOf(pieces))
  BY Zenon DEF TranslateResponse
<1>2. QED
  BY <1>1 DEF Message

\* A message that is made of a whole body says so.
LEMMA DecodedEnds ==
  ASSUME EventsInv, Decoder \notin {"translate", "pass", "closed"},
         NEW k, k = Len(Synthetic(UpstreamMessage))
  PROVE  Decoded(k).stop = Stopped /\ Decoded(k).usage = Charged
<1>0. Sequence(pieces) /\ \A n \in 1 .. Len(pieces) : Chunks(pieces[n])
  BY DEF EventsInv
<1>1. CASE Decoder = "collectOpenAI" /\ FindsNothing
  <2>1. Decoded(k) = EmptyMessage
    BY <1>1 DEF Decoded
  <2>2. QED
    BY <1>1, <2>1 DEF EmptyMessage, Message, Stopped, Charged
<1>2. CASE Decoder = "collectOpenAI" /\ ~FindsNothing
  <2>1. Decoded(k) = CollectOpenAI(pieces)
    BY <1>2 DEF Decoded
  <2>2. QED
    BY <1>0, <1>2, <2>1, CollectedOpenAI DEF Stopped, Charged
<1>3. Decoder # "collectOpenAI" => ~FindsNothing
  BY DEF FindsNothing
<1>4. CASE Decoder = "collectAnthropic"
  <2> DEFINE events == Synthetic(UpstreamMessage)
  <2>1. Good(events) /\ \E s : Ended(s, UpstreamMessage.stop, UpstreamMessage.usage, events)
    BY <1>0, UpstreamReadable, SyntheticGood DEF Readable
  <2>2. UsageSeen(events) = UsageOf(pieces)
    <3>1. UsageOf(pieces) \in {"reported", "estimated"}
      BY DEF UsageOf
    <3> HIDE DEF events
    <3>2. PICK s : Ended(s, UpstreamMessage.stop, UsageOf(pieces), events)
      BY <2>1, UpstreamEnds
    <3>3. QED
      BY <3>1, <3>2, EndsSaid
  <2>3. SubSeq(events, 1, k) = events
    BY <2>1, Whole DEF Good
  <2>4. Decoded(k) = CollectAnthropic(events)
    BY <1>4, <2>3, Zenon DEF Decoded
  <2> HIDE DEF events
  <2>5. QED
    BY <1>3, <1>4, <2>1, <2>2, <2>4, CollectedAnthropic DEF Stopped, Charged
<1>5. CASE Decoder = "response"
  <2>1. Decoded(k) = TranslateResponse(pieces)
    BY <1>5 DEF Decoded
  <2>2. QED
    BY <1>3, <1>5, <2>1, ResponseEnds DEF Stopped, Charged
<1>6. CASE Decoder = "parse"
  <2>1. Decoded(k) = UpstreamMessage
    BY <1>6 DEF Decoded
  <2>2. QED
    BY <1>3, <1>6, <2>1, UpstreamEnds DEF Stopped, Charged
<1>7. QED
  BY <1>1, <1>2, <1>4, <1>5, <1>6, Decoders

\* A message that has ended is not empty.
LEMMA EndsLong ==
  ASSUME NEW s, NEW stop, NEW u, NEW w, Ended(s, stop, u, w)
  PROVE  Len(w) > 0
<1> DEFINE x == Append(s, MessageDelta(stop, u))
<1>1. Sequence(s) /\ w = Append(x, MessageStop)
  BY DEF Ended
<1>2. Sequence(x) /\ Len(x) \in Nat
  BY <1>1, Longer, Elements
<1> HIDE DEF x
<1>3. QED
  BY <1>1, <1>2, Longer

\* The cache tokens of a whole body.
LEMMA CacheCounted ==
  ASSUME EventsInv, Decoder \notin {"translate", "pass", "closed"},
         NEW k, k = Len(Synthetic(UpstreamMessage))
  PROVE  CacheSeen(k) = CacheTold
<1>0. /\ req \in [chat : BOOLEAN, stream : BOOLEAN, scan : BOOLEAN]
      /\ up.openai \in BOOLEAN /\ up.sse \in BOOLEAN /\ up.cached \in BOOLEAN
      /\ up.cached => ~up.openai
  BY DEF EventsInv, TypeOK, Upstreams
<1>1. k > 0
  <2>1. Readable(UpstreamMessage)
    BY UpstreamReadable DEF EventsInv
  <2>2. \E s : Ended(s, UpstreamMessage.stop, UpstreamMessage.usage, Synthetic(UpstreamMessage))
    BY <2>1, SyntheticGood DEF Readable
  <2>3. QED
    BY <2>2, EndsLong, Zenon
<1>2. CASE Decoder = "collectOpenAI"
  <2>1. ~CacheSeen(k)
    BY <1>2 DEF CacheSeen
  <2>2. ~CacheTold
    BY <1>0, <1>2 DEF CacheTold, FindsNothing
  <2>3. QED
    BY <2>1, <2>2 DEF CacheSeen, CacheTold
<1>3. CASE Decoder = "response"
  <2>1. ~CacheSeen(k)
    BY <1>3 DEF CacheSeen
  <2>2. up.openai
    BY <1>0, <1>3 DEF Decoder
  <2>3. ~CacheTold
    BY <1>0, <2>2 DEF CacheTold
  <2>4. QED
    BY <2>1, <2>3 DEF CacheSeen, CacheTold
<1>4. CASE Decoder \in {"collectAnthropic", "parse"}
  BY <1>1, <1>4, Zenon DEF CacheSeen, CacheTold, FindsNothing
<1>5. QED
  BY <1>2, <1>3, <1>4, Decoders

LEMMA StoppedSome ==
  Stopped \in {"max_tokens", "tool_use", "end_turn"} /\ Charged \in {"reported", "estimated"}
BY Stops DEF Stopped, Charged, UsageOf

\* A chat client finds the stop reason again.
LEMMA ChatEnds ==
  ASSUME NEW m, Sequence(m.content), m.stop \in {"max_tokens", "tool_use", "end_turn"}
  PROVE  /\ StopFromFinish(ToOpenAI(m).finish) = m.stop
         /\ StopFromFinish(Last(ToOpenAIChunks(m)).why) = m.stop
<1>1. StopFromFinish(FinishFromStop(m.stop)) = m.stop
  BY DEF StopFromFinish, FinishFromStop
<1>2. ToOpenAI(m).finish = FinishFromStop(m.stop)
  BY DEF ToOpenAI
<1>3. Last(ToOpenAIChunks(m)).why = FinishFromStop(m.stop)
  <2> DEFINE n == Len(m.content)
             s == [k \in DOMAIN m.content |->
                     LET b == m.content[k]
                     IN  IF b.type = "text" THEN ChatText(b.text) ELSE ChatCall(0, b.name, b.args)]
             f == Finish(FinishFromStop(m.stop))
             u == Append(s, f)
  <2>1. n \in Nat /\ DOMAIN m.content = 1 .. n
    BY Elements
  <2>2. DOMAIN s = 1 .. n /\ s = [i \in 1 .. n |-> s[i]]
    BY <2>1
  <2>3. ToOpenAIChunks(m) = s \o <<f>>
    BY Zenon DEF ToOpenAIChunks
  <2>4. f.why = FinishFromStop(m.stop)
    BY DEF Finish
  <2> HIDE DEF s, f, n
  <2>5. Sequence(s) /\ Len(s) = n
    BY <2>1, <2>2, Listed
  <2>6. s \o <<f>> = u
    BY <2>5, JoinedFew
  <2>7. Sequence(u) /\ Len(u) = n + 1 /\ u[n + 1] = f
    BY <2>5, Longer
  <2>8. Last(ToOpenAIChunks(m)) = f
    BY <2>3, <2>6, <2>7 DEF Last
  <2>9. QED
    BY <2>4, <2>8
<1>4. QED
  BY <1>1, <1>2, <1>3

\* StopAndUsageKept, with the two names.
LEMMA Keeps ==
  StopAndUsageKept <=> (Delivered /\ ~cut => (before = <<>> => StopSeen = Stopped) /\ Settled)
BY Zenon DEF StopAndUsageKept, Stopped, Charged, CacheTold, Settled

\* Only what an Anthropic provider's answer says of its cache is charged.
LEMMA Uncached == TypeOK /\ up.openai => CacheTold = FALSE
BY DEF TypeOK, Upstreams, CacheTold

\* What is settled depends on what was asked for, on the pieces and on the charge.
LEMMA SameEnds ==
  ASSUME req' = req, up' = up, pieces' = pieces
  PROVE  /\ Decoder' = Decoder /\ Stopped' = Stopped /\ Charged' = Charged
         /\ CacheTold' = CacheTold
BY DEF Stopped, Charged, CacheTold, FindsNothing, Decoder

LEMMA NotYet == reply.kind = "none" => StopAndUsageKept
BY DEF StopAndUsageKept, Delivered

LEMMA EndsInit == Init => EndsInv
<1> SUFFICES ASSUME Init PROVE EndsInv
  OBVIOUS
<1>1. reply.kind = "none" /\ pc = "call"
  BY DEF Init, Reply
<1>2. QED
  BY <1>1, NotYet DEF EndsInv

\* While nothing has been decided only the first three parts are at stake.
LEMMA StillNone ==
  ASSUME EndsInv, pc # "done", reply' = reply
  PROVE  reply'.kind = "none" /\ StopAndUsageKept'
<1>1. reply'.kind = "none"
  BY DEF EndsInv
<1>2. QED
  BY <1>1 DEF StopAndUsageKept, Delivered

LEMMA EndEnds ==
  ASSUME EventsInv, EndsInv, NEW failed \in BOOLEAN, EndTranslation(failed)
  PROVE  EndsInv'
<1> DEFINE s == Start(tr)
           t == Finalize(s)
<1>1. /\ pc = "body" /\ pend = <<>> /\ Decoder = "translate" /\ out' = out
      /\ ~failed => pend' = SubSeq(t.out, Len(tr.out) + 1, Len(t.out)) /\ usage' = tr.usage
      /\ cache' = FALSE
      /\ pc' = IF failed THEN "failed" ELSE "last"
      /\ req' = req /\ up' = up /\ pieces' = pieces /\ reply' = reply
  BY Zenon DEF EndTranslation
<1>2. reply'.kind = "none" /\ StopAndUsageKept'
  BY <1>1, StillNone
<1>3. CASE failed
  BY <1>1, <1>2, <1>3 DEF EndsInv
<1>4. CASE ~failed
  <2>1. Translating(tr) /\ out \o pend = tr.out /\ Sequence(out) /\ Told(tr, pieces)
    BY <1>1 DEF EventsInv, EndsInv
  <2>2. tr.out = out
    BY <1>1, <2>1, JoinedFew
  <2>3. Translating(s) /\ Growing(tr.out, s.out) /\ Told(s, pieces)
    BY <2>1, Starts, StartTold
  <2> HIDE DEF s
  <2>4. /\ Good(t.out) /\ Growing(s.out, t.out)
        /\ \E x : Ended(x, OrEndTurn(s.stop), s.usage, t.out)
    BY <2>3, Finishes
  <2> HIDE DEF t
  <2>5. Growing(tr.out, t.out)
    BY <2>1, <2>3, <2>4, Grown DEF Translating, Good
  <2>6. out \o pend' = t.out
    BY <1>1, <1>4, <2>1, <2>2, <2>4, <2>5, Rest, Zenon DEF Good
  <2>7. PICK x : Ended(x, StopFromFinish(FinishOf(pieces)), UsageOf(pieces), t.out)
    BY <2>3, <2>4 DEF Told
  <2>8. UsageOf(pieces) \in {"reported", "estimated"}
    BY DEF UsageOf
  <2>9. StopIn(t.out) = StopFromFinish(FinishOf(pieces))
    BY <2>7, <2>8, EndsSaid
  <2>10. usage' = UsageOf(pieces)
    BY <1>1, <1>4, <2>1 DEF Told
  <2>11. Stopped = StopFromFinish(FinishOf(pieces)) /\ Charged = UsageOf(pieces)
    BY <1>1 DEF Stopped, Charged, FindsNothing
  <2>12. Stopped' = Stopped /\ Charged' = Charged /\ CacheTold' = CacheTold
    BY <1>1, SameEnds
  <2>13. StopIn(out \o pend)' = StopIn(t.out)
    BY <1>1, <2>6 DEF StopIn, At
  <2>14. CacheTold = FALSE
    <3>1. up.openai
      BY <1>1 DEF Decoder, EventsInv, TypeOK
    <3>2. QED
      BY <3>1, Uncached DEF EventsInv
  <2>15. Settled'
    BY <1>1, <2>10, <2>11, <2>12, <2>14 DEF Settled
  <2>16. QED
    BY <1>1, <1>2, <1>4, <2>9, <2>11, <2>12, <2>13, <2>15 DEF EndsInv
<1>5. QED
  BY <1>3, <1>4

LEMMA PassEnds ==
  ASSUME EventsInv, EndsInv, NEW failed \in BOOLEAN, Pass(failed)
  PROVE  EndsInv'
<1> DEFINE events == Synthetic(UpstreamMessage)
<1>1. PICK k \in 0 .. Len(events) :
        /\ pc = "body" /\ Decoder = "pass" /\ out' = out
        /\ pend' = SubSeq(events, 1, k) /\ cut' = (failed \/ k < Len(events))
        /\ usage' = IF failed THEN usage ELSE UsageSeen(pend')
        /\ cache' = (~failed /\ k > 0 /\ up.cached)
        /\ pc' = IF failed THEN "failed" ELSE "last"
        /\ req' = req /\ up' = up /\ pieces' = pieces /\ reply' = reply
  BY Zenon DEF Pass
<1>2. reply'.kind = "none" /\ StopAndUsageKept'
  BY <1>1, StillNone
<1>3. CASE failed \/ cut'
  BY <1>1, <1>2, <1>3 DEF EndsInv
<1>4. CASE ~failed /\ ~cut'
  <2>1. Good(events) /\ \E s : Ended(s, UpstreamMessage.stop, UpstreamMessage.usage, events)
    BY UpstreamReadable, SyntheticGood DEF EventsInv, Readable
  <2> HIDE DEF events
  <2>2. out = <<>> /\ Sequence(events) /\ Len(events) \in Nat
    BY <1>1, <2>1, Elements DEF EventsInv, Good
  <2>3. k = Len(events)
    <3>1. ~(k < Len(events))
      BY <1>1, <1>4, Zenon
    <3>2. k \in 0 .. Len(events)
      BY <1>1
    <3>3. QED
      BY <2>2, <3>1, <3>2
  <2>4. pend' = events
    BY <1>1, <2>2, <2>3, Whole
  <2>5. out \o pend' = events
    BY <2>2, <2>4, NothingJoined
  <2>6. PICK s : Ended(s, StopFromFinish(FinishOf(pieces)), UsageOf(pieces), events)
    BY <2>1, UpstreamEnds
  <2>7. UsageOf(pieces) \in {"reported", "estimated"}
    BY DEF UsageOf
  <2>8. StopIn(events) = StopFromFinish(FinishOf(pieces)) /\ UsageSeen(events) = UsageOf(pieces)
    BY <2>6, <2>7, EndsSaid
  <2>9. usage' = UsageOf(pieces)
    BY <1>1, <1>4, <2>4, <2>8, Zenon
  <2>10. Stopped = StopFromFinish(FinishOf(pieces)) /\ Charged = UsageOf(pieces)
    BY <1>1 DEF Stopped, Charged, FindsNothing
  <2>11. Stopped' = Stopped /\ Charged' = Charged /\ CacheTold' = CacheTold
    BY <1>1, SameEnds
  <2>12. StopIn(out \o pend)' = StopIn(events)
    BY <1>1, <2>5, Zenon DEF StopIn, At
  <2>13. cache' = CacheTold
    <3>1. Len(events) > 0
      BY <2>6, EndsLong
    <3>2. cache' = (~failed /\ k > 0 /\ up.cached)
      BY <1>1, Zenon
    <3>3. ~FindsNothing /\ ~(req.chat /\ req.stream)
      BY <1>1 DEF FindsNothing, Decoder, EventsInv, TypeOK
    <3>4. QED
      BY <1>4, <2>3, <3>1, <3>2, <3>3 DEF CacheTold, EventsInv, TypeOK, Upstreams
  <2>14. Settled'
    BY <2>9, <2>10, <2>11, <2>13 DEF Settled
  <2>15. QED
    BY <1>1, <1>2, <1>4, <2>8, <2>10, <2>11, <2>12, <2>14 DEF EndsInv
<1>5. QED
  BY <1>3, <1>4

LEMMA CollectEnds ==
  ASSUME EventsInv, EndsInv, Collect
  PROVE  EndsInv'
<1> DEFINE whole == Len(Synthetic(UpstreamMessage))
<1>1. PICK k \in 0 .. whole :
        /\ pc = "body" /\ Decoder \notin {"translate", "pass", "closed"} /\ out' = out
        /\ cut' = (k # whole) /\ usage' = Decoded(k).usage /\ cache' = CacheSeen(k)
        /\ \/ pend' = Synthetic(Decoded(k)) /\ pc' = "last" /\ reply' = reply
           \/ /\ pc' = "done"
              /\ reply' \in {Reply("message", Decoded(k)), Reply("chat", ToOpenAI(Decoded(k))),
                             Reply("chatStream", ToOpenAIChunks(Decoded(k))),
                             Reply("unmarshalled", <<>>), Reply("blocked", <<>>)}
        /\ req' = req /\ up' = up /\ pieces' = pieces
  BY Zenon DEF Collect, Done
<1> DEFINE m == Decoded(k)
<1>2. out = <<>>
  BY <1>1 DEF EventsInv
<1>3. Readable(m)
  BY <1>1, DecodedReadable
<1>4. ~cut' => m.stop = Stopped /\ m.usage = Charged
  BY <1>1, DecodedEnds, Zenon
<1>5. Stopped' = Stopped /\ Charged' = Charged /\ CacheTold' = CacheTold
  BY <1>1, SameEnds
<1>9. ~cut' => cache' = CacheTold
  <2>1. ASSUME ~cut' PROVE CacheSeen(k) = CacheTold
    BY <1>1, <2>1, CacheCounted, Zenon
  <2>2. QED
    BY <1>1, <2>1, Zenon
<1> HIDE DEF m
<1>6. CASE pend' = Synthetic(m) /\ pc' = "last" /\ reply' = reply
  <2>1. reply'.kind = "none" /\ StopAndUsageKept'
    BY <1>1, <1>6, StillNone
  <2>2. ASSUME ~cut' PROVE StopIn(out \o pend)' = Stopped' /\ Settled'
    <3>1. Good(Synthetic(m)) /\ \E s : Ended(s, m.stop, m.usage, Synthetic(m))
      BY <1>3, SyntheticGood DEF Readable
    <3>2. StopIn(Synthetic(m)) = m.stop
      BY <1>3, <3>1, EndsSaid DEF Readable
    <3>3. out' \o pend' = Synthetic(m)
      BY <1>1, <1>2, <1>6, <3>1, NothingJoined DEF Good
    <3>4. StopIn(out \o pend)' = StopIn(Synthetic(m))
      BY <3>3 DEF StopIn, At
    <3>5. QED
      BY <1>1, <1>4, <1>5, <1>9, <2>2, <3>2, <3>4 DEF m, Settled
  <2>3. QED
    BY <1>6, <2>1, <2>2 DEF EndsInv
<1>7. CASE /\ pc' = "done"
           /\ reply' \in {Reply("message", m), Reply("chat", ToOpenAI(m)),
                          Reply("chatStream", ToOpenAIChunks(m)),
                          Reply("unmarshalled", <<>>), Reply("blocked", <<>>)}
  <2>1. ASSUME Delivered', ~cut' PROVE StopSeen' = Stopped' /\ Settled'
    <3>1. m.stop \in {"max_tokens", "tool_use", "end_turn"} /\ m.stop = Stopped /\ m.usage = Charged
      BY <1>4, <2>1, StoppedSome
    <3>2. StopFromFinish(ToOpenAI(m).finish) = m.stop
          /\ StopFromFinish(Last(ToOpenAIChunks(m)).why) = m.stop
      BY <1>3, <3>1, ChatEnds DEF Readable
    <3>3. StopSeen' = m.stop
      <4>1. CASE reply' = Reply("message", m)
        BY <4>1 DEF StopSeen, Reply
      <4>2. CASE reply' = Reply("chat", ToOpenAI(m))
        BY <3>2, <4>2 DEF StopSeen, Reply
      <4>3. CASE reply' = Reply("chatStream", ToOpenAIChunks(m))
        BY <3>2, <4>3 DEF StopSeen, Reply
      <4>4. CASE reply' \in {Reply("unmarshalled", <<>>), Reply("blocked", <<>>)}
        BY <2>1, <4>4 DEF Delivered, Reply
      <4>5. QED
        BY <1>7, <4>1, <4>2, <4>3, <4>4
    <3>4. usage' = m.usage
      BY <1>1 DEF m
    <3>5. QED
      BY <1>5, <1>9, <2>1, <3>1, <3>3, <3>4 DEF Settled
  <2>2. StopAndUsageKept'
    BY <2>1, Zenon DEF StopAndUsageKept, Stopped, Charged, CacheTold, Settled
  <2>3. QED
    BY <1>7, <2>2 DEF EndsInv
<1>8. QED
  BY <1>1, <1>6, <1>7 DEF m

LEMMA EndsNext == EventsInv /\ EndsInv /\ [Next]_vars => EndsInv'
<1> SUFFICES ASSUME EventsInv, EndsInv, [Next]_vars PROVE EndsInv'
  OBVIOUS
<1>1. CASE Call
  <2>1. pc = "call" /\ pieces' = <<>> /\ tr' = NewTranslator /\ pc' = "body" /\ reply' = reply
    BY <1>1 DEF Call
  <2>2. Told(NewTranslator, <<>>)
    BY NothingHeard, Stops DEF Told, NewTranslator
  <2>3. Told(tr', pieces')
    BY <2>1, <2>2
  <2>4. QED
    BY <2>1, <2>3, StillNone DEF EndsInv
<1>2. CASE Receive
  <2>1. PICK c \in Offers :
          /\ pc = "body" /\ pieces' = Append(pieces, c) /\ pc' = pc
          /\ Decoder = "translate" => tr' = Chunk(Start(tr), c)
          /\ req' = req /\ up' = up /\ reply' = reply
    BY <1>2, Zenon DEF Receive
  <2>2. Decoder' = Decoder
    BY <2>1 DEF Decoder
  <2>3. ASSUME Decoder = "translate" PROVE Told(tr', pieces')
    <3>1. Translating(tr) /\ Sequence(pieces) /\ Told(tr, pieces)
      BY <2>1, <2>3 DEF EventsInv, EndsInv
    <3>2. Translating(Start(tr)) /\ Start(tr).started /\ Told(Start(tr), pieces)
      BY <3>1, Starts, StartTold
    <3>3. Chunks(c)
      BY DEF Offers, Chunks, Text, Finish, Usage, Tool
    <3>4. Told(Chunk(Start(tr), c), Append(pieces, c))
      BY <3>1, <3>2, <3>3, ChunkTold
    <3>5. QED
      BY <2>1, <2>3, <3>4
  <2>4. QED
    BY <2>1, <2>2, <2>3, StillNone DEF EndsInv
<1>3. CASE Write
  <2>1. /\ pend # <<>> /\ out' = Append(out, Head(pend)) /\ pend' = Tail(pend)
        /\ req' = req /\ up' = up /\ pieces' = pieces /\ tr' = tr /\ pc' = pc /\ cut' = cut
        /\ reply' = reply /\ usage' = usage /\ cache' = cache
    BY <1>3 DEF Write
  <2>2. out' \o pend' = out \o pend
    BY <2>1, NextEvent DEF EventsInv
  <2>3. Decoder' = Decoder /\ Stopped' = Stopped /\ Settled' = Settled
    BY <2>1, SameEnds DEF Settled
  <2>4. StopIn(out \o pend)' = StopIn(out \o pend)
    BY <2>2 DEF StopIn, At
  <2>5. pc # "done"
    BY <2>1 DEF EventsInv, TypeOK
  <2>6. QED
    BY <2>1, <2>3, <2>4, <2>5, StillNone DEF EndsInv
<1>4. CASE GiveUp
  <2>1. pc' = "done" /\ reply'.kind = "exhausted"
    BY <1>4 DEF GiveUp, Done, Reply
  <2>2. QED
    BY <2>1 DEF EndsInv, StopAndUsageKept, Delivered
<1>5. CASE Fail
  <2>1. \/ pc' = "done" /\ reply'.kind = "broken"
        \/ pc = "body" /\ pc' = "failed" /\ reply' = reply
    BY <1>5 DEF Fail, Done, Reply
  <2>2. CASE pc' = "done" /\ reply'.kind = "broken"
    BY <2>2 DEF EndsInv, StopAndUsageKept, Delivered
  <2>3. CASE pc = "body" /\ pc' = "failed" /\ reply' = reply
    BY <2>3, StillNone DEF EndsInv
  <2>4. QED
    BY <2>1, <2>2, <2>3
<1>6. CASE Retry
  <2>1. pc = "failed" /\ pc' = "call" /\ reply' = reply
    BY <1>6 DEF Retry
  <2>2. QED
    BY <2>1, StillNone DEF EndsInv
<1>7. CASE Return
  <2>1. /\ pc = "last" /\ pend = <<>> /\ pc' = "done" /\ reply' = Reply("stream", before \o out)
        /\ req' = req /\ up' = up /\ pieces' = pieces /\ cut' = cut /\ usage' = usage
        /\ cache' = cache /\ before' = before
    BY <1>7 DEF Return, Done
  <2>2. out \o pend = out /\ <<>> \o out = out
    BY <2>1, JoinedFew, NothingJoined DEF EventsInv
  <2>3. Stopped' = Stopped /\ Settled' = Settled
    BY <2>1, SameEnds DEF Settled
  <2>4. before = <<>> => StopSeen' = StopIn(out)
    BY <2>1, <2>2 DEF StopSeen, Reply
  <2>5. ~cut' => (before' = <<>> => StopSeen' = Stopped') /\ Settled'
    BY <2>1, <2>2, <2>3, <2>4 DEF EndsInv
  <2>6. StopAndUsageKept'
    BY <2>5, Zenon DEF StopAndUsageKept, Stopped, Charged, CacheTold, Settled
  <2>7. QED
    BY <2>1, <2>6 DEF EndsInv
<1>8. CASE UNCHANGED vars
  <2>1. /\ req' = req /\ up' = up /\ pieces' = pieces /\ tr' = tr /\ pc' = pc /\ cut' = cut
        /\ reply' = reply /\ usage' = usage /\ out' = out /\ pend' = pend
        /\ cache' = cache /\ before' = before
    BY <1>8 DEF vars
  <2>2. Decoder' = Decoder /\ Stopped' = Stopped /\ Settled' = Settled
    BY <2>1, SameEnds DEF Settled
  <2>3. StopIn(out \o pend)' = StopIn(out \o pend)
    BY <2>1 DEF StopIn, At
  <2>4. StopSeen' = StopSeen /\ Delivered' = Delivered
    BY <2>1 DEF StopSeen, Delivered, StopIn, At
  <2>5. StopAndUsageKept'
    <3>1. Delivered /\ ~cut => (before = <<>> => StopSeen = Stopped) /\ Settled
      BY Keeps, Zenon DEF EndsInv
    <3>2. Delivered' /\ ~cut' => (before' = <<>> => StopSeen' = Stopped') /\ Settled'
      BY <2>1, <2>2, <2>4, <3>1, Zenon
    <3>3. QED
      BY <3>2, Zenon DEF StopAndUsageKept, Stopped, Charged, CacheTold, Settled
  <2>6. QED
    BY <2>1, <2>2, <2>3, <2>5 DEF EndsInv
<1>9. QED
  BY <1>1, <1>2, <1>3, <1>4, <1>5, <1>6, <1>7, <1>8, EndEnds, PassEnds, CollectEnds DEF Next

(***************************************************************************)
(* Whatever decoder reads a complete body and in whatever order its pieces *)
(* come, the client of a response no failed attempt has written to is told *)
(* the upstream's stop reason, and what is charged is the usage that the   *)
(* upstream reported, cache tokens included; the exceptions are those of   *)
(* StopAndUsageKept.                                                       *)
(***************************************************************************)
THEOREM EndsKept == Spec => []StopAndUsageKept
<1>1. EndsInv => StopAndUsageKept
  BY DEF EndsInv
<1>2. Spec => []EndsInv
  BY EventsAlways, EndsInit, EndsNext, PTL DEF Spec
<1>3. QED
  BY <1>1, <1>2, PTL

-----------------------------------------------------------------------------
(***************************************************************************)
(* What one piece more says.                                               *)
(***************************************************************************)

\* Flattening a list that has one more.
LEMMA FlatListed ==
  ASSUME NEW n \in Nat, NEW f, NEW g,
         DOMAIN f = 1 .. n, f = [i \in 1 .. n |-> f[i]],
         DOMAIN g = 1 .. n + 1, g = [i \in 1 .. n + 1 |-> g[i]],
         \A i \in 1 .. n : g[i] = f[i], Sequence(g[n + 1])
  PROVE  FlattenSeq(g) = FlattenSeq(f) \o g[n + 1]
<1>1. Sequence(f) /\ g = Append(f, g[n + 1])
  BY ListedMore, Zenon
<1>2. QED
  BY <1>1, FlatMore, Zenon

LEMMA TextMore ==
  ASSUME NEW ps, Sequence(ps), NEW c
  PROVE  /\ TextOf(<<>>) = <<>> /\ Sequence(TextOf(ps))
         /\ TextOf(Append(ps, c)) = TextOf(ps) \o SaidIn(c)
<1> DEFINE n == Len(ps)
           u == Append(ps, c)
           f == [k \in DOMAIN ps |-> SaidIn(ps[k])]
           g == [k \in DOMAIN u |-> SaidIn(u[k])]
<1>1. /\ Sequence(u) /\ Len(u) = n + 1 /\ u[n + 1] = c /\ \A k \in 1 .. n : u[k] = ps[k]
  BY Longer
<1>2. n \in Nat /\ DOMAIN ps = 1 .. n /\ DOMAIN u = 1 .. n + 1
  BY <1>1, Elements
<1>3. \A x : Sequence(SaidIn(x))
  <2>1. \A x : SaidIn(x) = <<>> \/ SaidIn(x) = <<x.n>>
    BY DEF SaidIn
  <2>2. QED
    BY <2>1, Nothing, Listing, Zenon
<1>4. /\ DOMAIN f = 1 .. n /\ f = [k \in 1 .. n |-> f[k]] /\ \A k \in 1 .. n : f[k] = SaidIn(ps[k])
      /\ DOMAIN g = 1 .. n + 1 /\ g = [k \in 1 .. n + 1 |-> g[k]]
      /\ \A k \in 1 .. n + 1 : g[k] = SaidIn(u[k])
  <2> HIDE DEF u, n
  <2>1. QED
    BY <1>2
<1>5. TextOf(ps) = FlattenSeq(f) /\ TextOf(u) = FlattenSeq(g)
  BY DEF TextOf
<1> HIDE DEF u, n, f, g
<1>6. n + 1 \in 1 .. n + 1 /\ \A k \in 1 .. n : k \in 1 .. n + 1
  BY <1>2
<1>7. g[n + 1] = SaidIn(c) /\ Sequence(g[n + 1]) /\ \A k \in 1 .. n : g[k] = f[k]
  BY <1>1, <1>3, <1>4, <1>6
<1>8. FlattenSeq(g) = FlattenSeq(f) \o g[n + 1]
  BY <1>2, <1>4, <1>7, FlatListed, Zenon
<1>9. Sequence(FlattenSeq(f))
  <2>1. Sequence(f) /\ Len(f) = n
    BY <1>2, <1>4, Listed
  <2>2. \A k \in 1 .. Len(f) : Sequence(f[k])
    BY <1>3, <1>4, <2>1, Zenon
  <2>3. QED
    BY <2>1, <2>2, FlatRange
<1>10. TextOf(<<>>) = <<>>
  <2>1. [k \in DOMAIN <<>> |-> SaidIn(<<>>[k])] = <<>>
    OBVIOUS
  <2>2. QED
    BY <2>1, FlatNothing DEF TextOf
<1>11. QED
  BY <1>5, <1>7, <1>8, <1>9, <1>10 DEF u

LEMMA ArgsMore ==
  ASSUME NEW ps, Sequence(ps), NEW c, NEW i
  PROVE  /\ ArgsOf(<<>>, i) = <<>> /\ Sequence(ArgsOf(ps, i))
         /\ ArgsOf(Append(ps, c), i) = ArgsOf(ps, i) \o ArgIn(c, i)
<1> DEFINE n == Len(ps)
           u == Append(ps, c)
           f == [k \in DOMAIN ps |-> ArgIn(ps[k], i)]
           g == [k \in DOMAIN u |-> ArgIn(u[k], i)]
<1>1. /\ Sequence(u) /\ Len(u) = n + 1 /\ u[n + 1] = c /\ \A k \in 1 .. n : u[k] = ps[k]
  BY Longer
<1>2. n \in Nat /\ DOMAIN ps = 1 .. n /\ DOMAIN u = 1 .. n + 1
  BY <1>1, Elements
<1>3. \A x : Sequence(ArgIn(x, i))
  <2>1. \A x : ArgIn(x, i) = <<>> \/ ArgIn(x, i) = <<x.arg>>
    BY DEF ArgIn
  <2>2. QED
    BY <2>1, Nothing, Listing, Zenon
<1>4. /\ DOMAIN f = 1 .. n /\ f = [k \in 1 .. n |-> f[k]] /\ \A k \in 1 .. n : f[k] = ArgIn(ps[k], i)
      /\ DOMAIN g = 1 .. n + 1 /\ g = [k \in 1 .. n + 1 |-> g[k]]
      /\ \A k \in 1 .. n + 1 : g[k] = ArgIn(u[k], i)
  <2> HIDE DEF u, n
  <2>1. QED
    BY <1>2
<1>5. ArgsOf(ps, i) = FlattenSeq(f) /\ ArgsOf(u, i) = FlattenSeq(g)
  BY DEF ArgsOf
<1> HIDE DEF u, n, f, g
<1>6. n + 1 \in 1 .. n + 1 /\ \A k \in 1 .. n : k \in 1 .. n + 1
  BY <1>2
<1>7. g[n + 1] = ArgIn(c, i) /\ Sequence(g[n + 1]) /\ \A k \in 1 .. n : g[k] = f[k]
  BY <1>1, <1>3, <1>4, <1>6
<1>8. FlattenSeq(g) = FlattenSeq(f) \o g[n + 1]
  BY <1>2, <1>4, <1>7, FlatListed, Zenon
<1>9. Sequence(FlattenSeq(f))
  <2>1. Sequence(f) /\ Len(f) = n
    BY <1>2, <1>4, Listed
  <2>2. \A k \in 1 .. Len(f) : Sequence(f[k])
    BY <1>3, <1>4, <2>1, Zenon
  <2>3. QED
    BY <2>1, <2>2, FlatRange
<1>10. ArgsOf(<<>>, i) = <<>>
  <2>1. [k \in DOMAIN <<>> |-> ArgIn(<<>>[k], i)] = <<>>
    OBVIOUS
  <2>2. QED
    BY <2>1, FlatNothing DEF ArgsOf
<1>11. QED
  BY <1>5, <1>7, <1>8, <1>9, <1>10 DEF u

LEMMA CallsMore ==
  ASSUME NEW ps, Sequence(ps), NEW c, NEW i
  PROVE  /\ CallsOf(<<>>) = {}
         /\ CallsOf(Append(ps, c)) = CallsOf(ps) \cup (IF c.kind = "tool" THEN {c.i} ELSE {})
         /\ NameOf(Append(ps, c), i) = IF c.kind = "tool" /\ c.i = i /\ c.head THEN i
                                       ELSE NameOf(ps, i)
<1> DEFINE n == Len(ps)
           u == Append(ps, c)
<1>1. /\ Sequence(u) /\ Len(u) = n + 1 /\ u[n + 1] = c /\ \A k \in 1 .. n : u[k] = ps[k]
  BY Longer
<1>2. n \in Nat /\ DOMAIN ps = 1 .. n /\ DOMAIN u = 1 .. n + 1
  BY <1>1, Elements
<1> HIDE DEF u, n
<1>3. \A k : k \in DOMAIN u <=> k \in DOMAIN ps \/ k = n + 1
  BY <1>2
<1>4. Range(u) = Range(ps) \cup {c}
  <2>1. \A x : x \in Range(u) <=> x \in Range(ps) \/ x = c
    BY <1>1, <1>2, <1>3 DEF Range
  <2>2. QED
    BY <2>1
<1>5. CallsOf(u) = CallsOf(ps) \cup (IF c.kind = "tool" THEN {c.i} ELSE {})
  BY <1>4 DEF CallsOf
<1>6. CallsOf(<<>>) = {}
  <2>1. Range(<<>>) = {}
    BY DEF Range
  <2>2. QED
    BY <2>1 DEF CallsOf
<1>7. (\E k \in PlacesOf(u, "tool") : u[k].i = i /\ u[k].head)
        <=> \/ \E k \in PlacesOf(ps, "tool") : ps[k].i = i /\ ps[k].head
            \/ c.kind = "tool" /\ c.i = i /\ c.head
  BY <1>1, <1>2, <1>3 DEF PlacesOf
<1>8. NameOf(u, i) = IF c.kind = "tool" /\ c.i = i /\ c.head THEN i ELSE NameOf(ps, i)
  BY <1>7, Zenon DEF NameOf
<1>9. QED
  BY <1>5, <1>6, <1>8 DEF u


LEMMA Hollow ==
  ASSUME NEW s, Sequence(s), \A x : x \notin Range(s)
  PROVE  s = <<>>
<1>1. Len(s) \in Nat /\ \A n \in 1 .. Len(s) : s[n] \in Range(s)
  BY Elements
<1>2. Len(s) = 0
  <2>1. ASSUME Len(s) # 0 PROVE FALSE
    <3>1. 1 \in 1 .. Len(s)
      BY <1>1, <2>1
    <3>2. QED
      BY <1>1, <3>1
  <2>2. QED
    BY <2>1
<1>3. QED
  BY <1>2, Nothing, SameSequence

\* Nothing is said of a call that is not made.
LEMMA Unmentioned ==
  ASSUME NEW ps, Sequence(ps), NEW i, i \notin CallsOf(ps)
  PROVE  NameOf(ps, i) = NoName /\ ArgsOf(ps, i) = <<>>
<1>1. \A n \in DOMAIN ps : ~(ps[n].kind = "tool" /\ ps[n].i = i)
  BY DEF CallsOf, Range
<1>2. NameOf(ps, i) = NoName
  BY <1>1 DEF NameOf, PlacesOf
<1> DEFINE f == [n \in DOMAIN ps |-> ArgIn(ps[n], i)]
<1>3. DOMAIN ps = 1 .. Len(ps) /\ Len(ps) \in Nat
  BY Elements
<1>4. /\ DOMAIN f = 1 .. Len(ps) /\ f = [n \in 1 .. Len(ps) |-> f[n]]
      /\ \A n \in 1 .. Len(ps) : f[n] = <<>>
  BY <1>1, <1>3 DEF ArgIn
<1>5. ArgsOf(ps, i) = FlattenSeq(f)
  BY DEF ArgsOf
<1> HIDE DEF f
<1>6. Sequence(f) /\ Len(f) = Len(ps)
  BY <1>3, <1>4, Listed
<1>7. Sequence(<<>>) /\ Range(<<>>) = {} /\ Len(<<>>) = 0
  BY Nothing DEF Range
<1>8. \A n \in 1 .. Len(f) : Sequence(f[n]) /\ Range(f[n]) = {}
  BY <1>4, <1>6, <1>7
<1>9. Sequence(FlattenSeq(f)) /\ \A x : x \notin Range(FlattenSeq(f))
  BY <1>6, <1>8, FlatRange, Zenon
<1>10. FlattenSeq(f) = <<>>
  BY <1>9, Hollow
<1>11. QED
  BY <1>2, <1>5, <1>10

\* What holds of nothing, and of one element more, holds of a sequence.
Firsts(s) == {SubSeq(s, 1, k) : k \in 0 .. Len(s)}

LEMMA FirstsOf ==
  ASSUME NEW s, Sequence(s)
  PROVE  /\ <<>> \in Firsts(s) /\ \A x \in Firsts(s) : Sequence(x)
         /\ \A k \in 1 .. Len(s) : Append(SubSeq(s, 1, k - 1), s[k]) \in Firsts(s)
<1>1. Len(s) \in Nat
  BY Elements
<1>2. 0 \in 0 .. Len(s) /\ \A k \in 1 .. Len(s) : k \in 0 .. Len(s)
  BY <1>1
<1>3. <<>> \in Firsts(s)
  BY <1>2, NoneYet DEF Firsts
<1>4. \A x \in Firsts(s) : Sequence(x)
  BY Shorter, Zenon DEF Firsts
<1>5. ASSUME NEW k \in 1 .. Len(s) PROVE Append(SubSeq(s, 1, k - 1), s[k]) \in Firsts(s)
  <2>1. SubSeq(s, 1, k) = Append(SubSeq(s, 1, k - 1), s[k])
    BY OneMore
  <2>2. SubSeq(s, 1, k) \in Firsts(s)
    BY <1>2 DEF Firsts
  <2>3. QED
    BY <2>1, <2>2, Zenon
<1>6. QED
  BY <1>3, <1>4, <1>5

LEMMA BySteps ==
  ASSUME NEW s, Sequence(s), NEW T, <<>> \in T,
         \A k \in 1 .. Len(s) : SubSeq(s, 1, k - 1) \in T => Append(SubSeq(s, 1, k - 1), s[k]) \in T
  PROVE  s \in T
<1> DEFINE n == Len(s)
           N == {k \in 0 .. n : SubSeq(s, 1, k) \in T}
<1>1. n \in Nat /\ SubSeq(s, 1, n) = s
  BY Whole
<1>2. 0 \in N
  <2>1. 0 \in 0 .. n
    BY <1>1
  <2>2. SubSeq(s, 1, 0) = <<>>
    BY NoneYet
  <2>3. QED
    BY <2>1, <2>2, Zenon
<1>3. ASSUME NEW k \in 1 .. n, k - 1 \in N PROVE k \in N
  <2>1. SubSeq(s, 1, k) = Append(SubSeq(s, 1, k - 1), s[k])
    BY OneMore
  <2>2. k \in 0 .. n
    BY <1>1
  <2>3. QED
    BY <1>3, <2>1, <2>2, Zenon
<1> HIDE DEF n, N
<1>4. n \in Nat /\ n \in 0 .. n
  BY <1>1
<1>5. \A k \in 0 .. n : k \in N
  BY <1>2, <1>3, <1>4, Upwards, Zenon
<1>6. QED
  BY <1>1, <1>4, <1>5, Zenon DEF N

\* The state of the OpenAI collector is what the pieces say.
GathersAll(ps) ==
  LET a == Gathered(ps) IN
  /\ DOMAIN a = {"text", "tools", "stop", "usage"}
  /\ a.text = TextOf(ps)
  /\ DOMAIN a.tools = CallsOf(ps)
  /\ \A i \in CallsOf(ps) : a.tools[i] = [name |-> NameOf(ps, i), args |-> ArgsOf(ps, i)]

LEMMA GatheredAll ==
  ASSUME NEW ps, Sequence(ps), \A n \in 1 .. Len(ps) : Chunks(ps[n])
  PROVE  GathersAll(ps)
<1>1. GathersAll(<<>>)
  <2>1. Gathered(<<>>) = PieceBase /\ TextOf(<<>>) = <<>> /\ CallsOf(<<>>) = {}
    BY GatheredMore, TextMore, CallsMore
  <2>2. DOMAIN PieceBase.tools = {} /\ PieceBase.text = <<>>
        /\ DOMAIN PieceBase = {"text", "tools", "stop", "usage"}
    BY DEF PieceBase
  <2>3. QED
    BY <2>1, <2>2, Zenon DEF GathersAll
<1>2. ASSUME NEW x, Sequence(x), GathersAll(x), NEW c, Chunks(c)
      PROVE  GathersAll(Append(x, c))
  <2> DEFINE u == Append(x, c)
             a == Gathered(x)
             b == Gathered(u)
  <2>1. b = CollectPiece(a, c)
    BY <1>2, GatheredMore
  <2>2. Sequence(TextOf(x)) /\ TextOf(u) = TextOf(x) \o SaidIn(c)
    BY <1>2, TextMore
  <2>3. \A i : /\ ArgsOf(<<>>, i) = <<>> /\ Sequence(ArgsOf(x, i))
               /\ ArgsOf(u, i) = ArgsOf(x, i) \o ArgIn(c, i)
    BY <1>2, ArgsMore
  <2>4. /\ CallsOf(u) = CallsOf(x) \cup (IF c.kind = "tool" THEN {c.i} ELSE {})
        /\ \A i : NameOf(u, i) = IF c.kind = "tool" /\ c.i = i /\ c.head THEN i ELSE NameOf(x, i)
    BY <1>2, CallsMore, Zenon
  <2>5. /\ DOMAIN a = {"text", "tools", "stop", "usage"}
        /\ a.text = TextOf(x)
        /\ DOMAIN a.tools = CallsOf(x)
        /\ \A i \in CallsOf(x) : a.tools[i] = [name |-> NameOf(x, i), args |-> ArgsOf(x, i)]
    BY <1>2 DEF GathersAll
  <2> SUFFICES /\ DOMAIN b = {"text", "tools", "stop", "usage"}
               /\ b.text = TextOf(u)
               /\ DOMAIN b.tools = CallsOf(u)
               /\ \A i \in CallsOf(u) : b.tools[i] = [name |-> NameOf(u, i), args |-> ArgsOf(u, i)]
    BY DEF GathersAll
  <2> HIDE DEF a, b, u
  <2>6. CASE c.kind = "tool"
    <3> DEFINE old == IF c.i \in DOMAIN a.tools THEN a.tools[c.i]
                      ELSE [name |-> NoName, args |-> <<>>]
               new == [name |-> IF c.head THEN c.i ELSE old.name,
                       args |-> IF c.arg = Empty THEN old.args ELSE Append(old.args, c.arg)]
               tools == With(a.tools, c.i, new)
    <3>1. b = [a EXCEPT !.tools = With(@, c.i, new)]
      BY <2>1, <2>6, Zenon DEF CollectPiece
    <3>2. old = [name |-> NameOf(x, c.i), args |-> ArgsOf(x, c.i)]
      <4>1. CASE c.i \in CallsOf(x)
        BY <2>5, <4>1
      <4>2. CASE c.i \notin CallsOf(x)
        BY <1>2, <2>5, <4>2, Unmentioned
      <4>3. QED
        BY <4>1, <4>2
    <3> HIDE DEF old
    <3>3. new.name = NameOf(u, c.i) /\ new.args = ArgsOf(u, c.i)
      <4>1. new.name = NameOf(u, c.i)
        BY <2>4, <2>6, <3>2
      <4>2. CASE c.arg = Empty
        <5>1. ArgIn(c, c.i) = <<>>
          BY <4>2 DEF ArgIn
        <5>2. ArgsOf(u, c.i) = ArgsOf(x, c.i)
          BY <2>3, <5>1, JoinedFew, Zenon
        <5>3. QED
          BY <3>2, <4>1, <4>2, <5>2
      <4>3. CASE c.arg # Empty
        <5>1. ArgIn(c, c.i) = <<c.arg>>
          BY <2>6, <4>3 DEF ArgIn
        <5>2. ArgsOf(u, c.i) = Append(ArgsOf(x, c.i), c.arg)
          BY <2>3, <5>1, JoinedFew
        <5>3. QED
          BY <3>2, <4>1, <4>3, <5>2
      <4>4. QED
        BY <4>2, <4>3
    <3>4. new = [name |-> NameOf(u, c.i), args |-> ArgsOf(u, c.i)]
      BY <3>3, Zenon
    <3> HIDE DEF new
    <3>5. DOMAIN tools = CallsOf(u) /\ \A i \in CallsOf(u) : tools[i] = IF i = c.i THEN new ELSE a.tools[i]
      BY <2>4, <2>5, <2>6 DEF With
    <3>6. b = [a EXCEPT !.tools = tools]
      BY <2>5, <3>1
    <3> HIDE DEF tools
    <3>7. ASSUME NEW i \in CallsOf(u)
          PROVE  tools[i] = [name |-> NameOf(u, i), args |-> ArgsOf(u, i)]
      <4>1. CASE i = c.i
        BY <3>4, <3>5, <4>1
      <4>2. CASE i # c.i
        <5>1. i \in CallsOf(x) /\ NameOf(u, i) = NameOf(x, i)
          BY <2>4, <4>2
        <5>2. ArgIn(c, i) = <<>>
          BY <4>2 DEF ArgIn
        <5>3. ArgsOf(u, i) = ArgsOf(x, i)
          BY <2>3, <5>2, JoinedFew, Zenon
        <5>4. QED
          BY <2>5, <3>5, <4>2, <5>1, <5>3, Zenon
      <4>3. QED
        BY <4>1, <4>2
    <3>8. SaidIn(c) = <<>>
      BY <2>6 DEF SaidIn
    <3>9. TextOf(u) = TextOf(x)
      BY <2>2, <3>8, JoinedFew
    <3>10. QED
      BY <2>5, <3>5, <3>6, <3>7, <3>9
  <2>7. CASE c.kind # "tool"
    <3>1. \A i : ArgIn(c, i) = <<>>
      BY <2>7 DEF ArgIn
    <3>2. \A i : ArgsOf(u, i) = ArgsOf(x, i) /\ NameOf(u, i) = NameOf(x, i)
      <4>1. \A i : ArgsOf(x, i) \o <<>> = ArgsOf(x, i)
        BY <2>3, JoinedFew
      <4>2. \A i : ArgsOf(u, i) = ArgsOf(x, i)
        BY <2>3, <3>1, <4>1, Zenon
      <4>3. QED
        BY <2>4, <2>7, <4>2
    <3>3. CallsOf(u) = CallsOf(x)
      BY <2>4, <2>7
    <3>4. CASE c.kind = "text"
      <4>1. b = [a EXCEPT !.text = Append(@, c.n)]
        BY <2>1, <3>4 DEF CollectPiece
      <4>2. SaidIn(c) = <<c.n>>
        BY <3>4 DEF SaidIn
      <4>3. TextOf(u) = Append(TextOf(x), c.n)
        BY <2>2, <4>2, JoinedFew
      <4>4. QED
        BY <2>5, <3>2, <3>3, <4>1, <4>3
    <3>5. CASE c.kind \in {"finish", "usage"}
      <4>1. DOMAIN b = DOMAIN a /\ b.text = a.text /\ b.tools = a.tools
        BY <2>1, <2>5, <3>5 DEF CollectPiece
      <4>2. SaidIn(c) = <<>>
        BY <3>5 DEF SaidIn
      <4>3. TextOf(u) = TextOf(x)
        BY <2>2, <4>2, JoinedFew
      <4>4. QED
        BY <2>5, <3>2, <3>3, <4>1, <4>3
    <3>6. QED
      BY <1>2, <2>7, <3>4, <3>5 DEF Chunks
  <2>8. QED
    BY <2>6, <2>7
<1> DEFINE T == {x \in Firsts(ps) : GathersAll(x)}
<1>3. <<>> \in T
  BY <1>1, FirstsOf
<1>4. ASSUME NEW k \in 1 .. Len(ps), SubSeq(ps, 1, k - 1) \in T
      PROVE  Append(SubSeq(ps, 1, k - 1), ps[k]) \in T
  <2>1. SubSeq(ps, 1, k - 1) \in Firsts(ps) /\ GathersAll(SubSeq(ps, 1, k - 1))
    BY <1>4
  <2>2. Sequence(SubSeq(ps, 1, k - 1)) /\ Append(SubSeq(ps, 1, k - 1), ps[k]) \in Firsts(ps)
    BY <2>1, FirstsOf
  <2>3. GathersAll(Append(SubSeq(ps, 1, k - 1), ps[k]))
    BY <1>2, <2>1, <2>2
  <2>4. QED
    BY <2>2, <2>3
<1>5. ps \in T
  <2> HIDE DEF T
  <2>1. QED
    BY <1>3, <1>4, BySteps
<1>6. QED
  BY <1>5

-----------------------------------------------------------------------------
(***************************************************************************)
(* What a client makes of the content of a message.                        *)
(***************************************************************************)

Worded(s) == \A b \in Range(s) : Sequence(TextIn(b))
Typed(s) == \A b \in Range(s) : b.type \in {"text", "tool_use"}
Argued(s) == \A b \in Range(s) : b.type = "tool_use" => Sequence(b.args)
CallsMade(s) == CallsIn({b \in Range(s) : b.type = "tool_use"})
Upstream(ps) ==
  [text  |-> TextOf(ps),
   calls |-> {<<NameOf(ps, i), OrEmpty(ArgsOf(ps, i))>> : i \in CallsOf(ps)}]

LEMMA ArgsSequence == \A args : Sequence(args) => Sequence(OrEmpty(args))
BY Nothing DEF OrEmpty

LEMMA AppendJoined ==
  ASSUME NEW s, NEW t, Sequence(s), Sequence(t), NEW e
  PROVE  s \o Append(t, e) = Append(s \o t, e) /\ Range(Append(t, e)) = Range(t) \cup {e}
<1>1. Sequence(<<e>>) /\ Range(<<e>>) = {e}
  BY RangeOne
<1>2. t \o <<e>> = Append(t, e) /\ Sequence(s \o t)
  BY JoinedFew, Joined
<1>3. (s \o t) \o <<e>> = Append(s \o t, e)
  BY <1>2, JoinedFew
<1>4. s \o (t \o <<e>>) = (s \o t) \o <<e>>
  BY <1>1, JoinedAgain
<1>5. Range(t \o <<e>>) = Range(t) \cup {e}
  BY <1>1, RangeJoined
<1>6. QED
  BY <1>2, <1>3, <1>4, <1>5, Zenon

LEMMA TextsMore ==
  ASSUME NEW bs, Sequence(bs), Worded(bs), NEW b, Sequence(TextIn(b))
  PROVE  /\ Texts(<<>>) = <<>> /\ Sequence(Texts(bs))
         /\ Texts(Append(bs, b)) = Texts(bs) \o TextIn(b)
<1> DEFINE n == Len(bs)
           u == Append(bs, b)
           f == [k \in DOMAIN bs |-> TextIn(bs[k])]
           g == [k \in DOMAIN u |-> TextIn(u[k])]
<1>1. /\ Sequence(u) /\ Len(u) = n + 1 /\ u[n + 1] = b /\ \A k \in 1 .. n : u[k] = bs[k]
  BY Longer
<1>2. n \in Nat /\ DOMAIN bs = 1 .. n /\ DOMAIN u = 1 .. n + 1
  BY <1>1, Elements
<1>3. \A k \in 1 .. n : Sequence(TextIn(bs[k]))
  BY <1>2 DEF Worded, Range
<1>4. /\ DOMAIN f = 1 .. n /\ f = [k \in 1 .. n |-> f[k]] /\ \A k \in 1 .. n : f[k] = TextIn(bs[k])
      /\ DOMAIN g = 1 .. n + 1 /\ g = [k \in 1 .. n + 1 |-> g[k]]
      /\ \A k \in 1 .. n + 1 : g[k] = TextIn(u[k])
  <2> HIDE DEF u, n
  <2>1. QED
    BY <1>2
<1>5. Texts(bs) = FlattenSeq(f) /\ Texts(u) = FlattenSeq(g)
  BY DEF Texts
<1> HIDE DEF u, n, f, g
<1>6. n + 1 \in 1 .. n + 1 /\ \A k \in 1 .. n : k \in 1 .. n + 1
  BY <1>2
<1>7. g[n + 1] = TextIn(b) /\ Sequence(g[n + 1]) /\ \A k \in 1 .. n : g[k] = f[k]
  BY <1>1, <1>4, <1>6
<1>8. FlattenSeq(g) = FlattenSeq(f) \o g[n + 1]
  BY <1>2, <1>4, <1>7, FlatListed, Zenon
<1>9. Sequence(FlattenSeq(f))
  <2>1. Sequence(f) /\ Len(f) = n
    BY <1>2, <1>4, Listed
  <2>2. \A k \in 1 .. Len(f) : Sequence(f[k])
    BY <1>3, <1>4, <2>1, Zenon
  <2>3. QED
    BY <2>1, <2>2, FlatRange
<1>10. Texts(<<>>) = <<>>
  <2>1. [k \in DOMAIN <<>> |-> TextIn(<<>>[k])] = <<>>
    OBVIOUS
  <2>2. QED
    BY <2>1, FlatNothing DEF Texts
<1>11. QED
  BY <1>5, <1>7, <1>8, <1>9, <1>10 DEF u

\* Blocks of text and calls.
LEMMA BlocksWorded ==
  /\ \A text : TextIn(TextBlock(text)) = text /\ TextBlock(text).type = "text"
  /\ \A name, args : /\ TextIn(ToolBlock(name, args)) = <<>>
                     /\ ToolBlock(name, args).type = "tool_use"
                     /\ ToolBlock(name, args).name = name /\ ToolBlock(name, args).args = args
  /\ \A b : b.type # "text" => TextIn(b) = <<>>
  /\ Worded(<<>>) /\ Texts(<<>>) = <<>> /\ CallsMade(<<>>) = {}
<1>1. Range(<<>>) = {}
  BY DEF Range
<1>2. Worded(<<>>) /\ CallsMade(<<>>) = {}
  BY <1>1 DEF Worded, CallsMade, CallsIn
<1>3. Texts(<<>>) = <<>>
  <2>1. TextIn(TextBlock(<<>>)) = <<>>
    BY DEF TextIn, TextBlock
  <2>2. QED
    BY <1>2, <2>1, Nothing, TextsMore
<1>4. QED
  BY <1>2, <1>3 DEF TextIn, TextBlock, ToolBlock

LEMMA OneText ==
  ASSUME NEW text, Sequence(text)
  PROVE  LET s == <<TextBlock(text)>>
         IN  Sequence(s) /\ Worded(s) /\ Texts(s) = text /\ CallsMade(s) = {}
<1> DEFINE b == TextBlock(text)
<1>1. TextIn(b) = text /\ b.type = "text"
  BY BlocksWorded
<1> HIDE DEF b
<1>2. Sequence(<<b>>) /\ Range(<<b>>) = {b}
  BY RangeOne
<1>3. Worded(<<b>>) /\ CallsMade(<<b>>) = {}
  BY <1>1, <1>2 DEF Worded, CallsMade, CallsIn
<1>4. <<b>> = Append(<<>>, b)
  BY Nothing, Listing, NothingJoined, JoinedFew
<1>5. Texts(<<b>>) = <<>> \o text
  <2>1. Sequence(<<>>) /\ Worded(<<>>) /\ Texts(<<>>) = <<>> /\ Sequence(TextIn(b))
    BY <1>1, Nothing, BlocksWorded
  <2>2. Texts(Append(<<>>, b)) = Texts(<<>>) \o TextIn(b)
    BY <2>1, TextsMore, Zenon
  <2>3. QED
    BY <1>1, <1>4, <2>1, <2>2, Zenon
<1>6. Texts(<<b>>) = text
  BY <1>5, NothingJoined
<1>7. QED
  BY <1>2, <1>3, <1>6 DEF b

\* Calls after a text say no more.
LEMMA SaidThenCalled ==
  ASSUME NEW s, Sequence(s), Worded(s), NEW t, Sequence(t), \A b \in Range(t) : b.type = "tool_use"
  PROVE  /\ Sequence(s \o t) /\ Worded(s \o t) /\ Texts(s \o t) = Texts(s)
         /\ CallsMade(s \o t) = CallsMade(s) \cup CallsIn(Range(t))
<1>1. Sequence(s \o t) /\ Range(s \o t) = Range(s) \cup Range(t)
  BY Joined, RangeJoined
<1>2. \A b \in Range(t) : TextIn(b) = <<>>
  BY BlocksWorded
<1>3. CallsMade(s \o t) = CallsMade(s) \cup CallsIn(Range(t))
  BY <1>1 DEF CallsMade, CallsIn
<1> DEFINE T == {x \in Firsts(t) : /\ Range(x) \subseteq Range(t)
                                   /\ Worded(s \o x) /\ Texts(s \o x) = Texts(s)}
<1>4. <<>> \in T
  <2>1. s \o <<>> = s /\ Range(<<>>) = {}
    BY JoinedFew DEF Range
  <2>2. QED
    BY <2>1, FirstsOf
<1>5. ASSUME NEW k \in 1 .. Len(t), SubSeq(t, 1, k - 1) \in T
      PROVE  Append(SubSeq(t, 1, k - 1), t[k]) \in T
  <2> DEFINE x == SubSeq(t, 1, k - 1)
             b == t[k]
  <2>1. Sequence(x) /\ Append(x, b) \in Firsts(t)
    BY <1>5, FirstsOf
  <2>2. b \in Range(t)
    BY Elements
  <2>3. Range(x) \subseteq Range(t) /\ Worded(s \o x) /\ Texts(s \o x) = Texts(s)
    BY <1>5
  <2> HIDE DEF x, b
  <2>4. TextIn(b) = <<>> /\ Sequence(<<>>)
    BY <1>2, <2>2, Nothing
  <2>5. s \o Append(x, b) = Append(s \o x, b) /\ Range(Append(x, b)) = Range(x) \cup {b}
    BY <2>1, AppendJoined
  <2>6. Sequence(s \o x)
    BY <2>1, Joined
  <2>7. Texts(Append(s \o x, b)) = Texts(s \o x) \o TextIn(b) /\ Sequence(Texts(s \o x))
    BY <2>3, <2>4, <2>6, TextsMore, Zenon
  <2>8. Texts(s \o Append(x, b)) = Texts(s)
    BY <2>3, <2>4, <2>5, <2>7, JoinedFew
  <2>9. Worded(s \o Append(x, b))
    <3>1. Range(Append(s \o x, b)) = Range(s \o x) \cup {b}
      BY <2>6, AppendJoined
    <3>2. QED
      BY <2>3, <2>4, <2>5, <3>1 DEF Worded
  <2>10. QED
    BY <2>1, <2>2, <2>3, <2>5, <2>8, <2>9 DEF x, b
<1>6. t \in T
  <2> HIDE DEF T
  <2>1. QED
    BY <1>4, <1>5, BySteps
<1>7. QED
  BY <1>1, <1>3, <1>6

LEMMA SaidAtAll ==
  ASSUME NEW c, Sequence(c), Worded(c)
  PROVE  /\ Texts(OrEmptyText(c)) = Texts(c) /\ CallsMade(OrEmptyText(c)) = CallsMade(c)
         /\ Worded(OrEmptyText(c))
<1>1. CASE c = <<>>
  <2>1. OrEmptyText(c) = <<TextBlock(<<>>)>>
    BY <1>1 DEF OrEmptyText
  <2>2. QED
    BY <1>1, <2>1, OneText, BlocksWorded, Nothing, Zenon
<1>2. CASE c # <<>>
  BY <1>2 DEF OrEmptyText
<1>3. QED
  BY <1>1, <1>2

\* A text and calls, as TranslateResponse and the OpenAI collector put them.
LEMMA MessageView ==
  ASSUME NEW text, Sequence(text), NEW tools, Sequence(tools),
         \A b \in Range(tools) : b.type = "tool_use",
         NEW m, m.content = OrEmptyText((IF text = <<>> THEN <<>> ELSE <<TextBlock(text)>>) \o tools)
  PROVE  /\ ViewOf(m) = [text |-> text, calls |-> CallsIn(Range(tools))] /\ Worded(m.content)
         /\ Typed(m.content)
         /\ (\A b \in Range(tools) : Sequence(b.args)) => Argued(m.content)
<1> DEFINE said == IF text = <<>> THEN <<>> ELSE <<TextBlock(text)>>
<1>1. Sequence(said) /\ Worded(said) /\ Texts(said) = text /\ CallsMade(said) = {}
  BY Nothing, OneText, BlocksWorded
<1> HIDE DEF said
<1>2. m.content = OrEmptyText(said \o tools)
  BY DEF said
<1>3. /\ Sequence(said \o tools) /\ Worded(said \o tools) /\ Texts(said \o tools) = text
      /\ CallsMade(said \o tools) = CallsIn(Range(tools))
  <2>1. /\ Sequence(said \o tools) /\ Worded(said \o tools) /\ Texts(said \o tools) = Texts(said)
        /\ CallsMade(said \o tools) = CallsMade(said) \cup CallsIn(Range(tools))
    BY <1>1, SaidThenCalled, Zenon
  <2>2. QED
    BY <1>1, <2>1
<1>4. /\ Texts(m.content) = text /\ CallsMade(m.content) = CallsIn(Range(tools))
      /\ Worded(m.content)
  BY <1>2, <1>3, SaidAtAll
<1>5. Typed(m.content)
  <2>1. Typed(said)
    BY Nothing, RangeOne, BlocksWorded DEF said, Typed, Range
  <2>2. Typed(said \o tools)
    BY <1>1, <2>1, RangeJoined DEF Typed
  <2>3. Typed(<<TextBlock(<<>>)>>)
    BY RangeOne, BlocksWorded DEF Typed
  <2>4. QED
    BY <1>2, <2>2, <2>3 DEF OrEmptyText
<1>6. ASSUME \A b \in Range(tools) : Sequence(b.args) PROVE Argued(m.content)
  <2>1. Argued(said)
    BY Nothing, RangeOne, BlocksWorded DEF said, Argued, Range
  <2>2. Argued(said \o tools)
    BY <1>1, <1>6, <2>1, RangeJoined DEF Argued
  <2>3. Argued(<<TextBlock(<<>>)>>)
    BY RangeOne, BlocksWorded DEF Argued
  <2>4. QED
    BY <1>2, <2>2, <2>3 DEF OrEmptyText
<1>7. QED
  BY <1>4, <1>5, <1>6 DEF ViewOf, CallsMade

\* Every call once, in whatever order.
LEMMA CallsListed ==
  ASSUME NEW ps, CallsOf(ps) \in SUBSET Nat, IsFiniteSet(CallsOf(ps)), NEW b,
         DOMAIN b = DOMAIN SortInts(CallsOf(ps)),
         \A n \in DOMAIN b :
           /\ b[n].name = NameOf(ps, SortInts(CallsOf(ps))[n])
           /\ OrEmpty(b[n].args) = OrEmpty(ArgsOf(ps, SortInts(CallsOf(ps))[n]))
  PROVE  CallsIn(Range(b)) = Upstream(ps).calls
<1> DEFINE order == SortInts(CallsOf(ps))
           n == Cardinality(CallsOf(ps))
<1>1. DOMAIN order = 1 .. n /\ (\A k \in 1 .. n : order[k] \in CallsOf(ps))
      /\ \A i \in CallsOf(ps) : \E k \in 1 .. n : order[k] = i
  BY Sorts, Zenon
<1> HIDE DEF order, n
<1>2. \A k \in DOMAIN b : <<b[k].name, OrEmpty(b[k].args)>>
                            = <<NameOf(ps, order[k]), OrEmpty(ArgsOf(ps, order[k]))>>
  BY DEF order
<1>3. DOMAIN b = 1 .. n
  BY <1>1 DEF order
<1>4. \A x : x \in CallsIn(Range(b)) <=> \E k \in 1 .. n : x = <<b[k].name, OrEmpty(b[k].args)>>
  BY <1>3, Zenon DEF CallsIn, Range
<1>5. \A x : x \in Upstream(ps).calls
               <=> \E i \in CallsOf(ps) : x = <<NameOf(ps, i), OrEmpty(ArgsOf(ps, i))>>
  BY DEF Upstream
<1>6. \A x : x \in CallsIn(Range(b)) <=> x \in Upstream(ps).calls
  BY <1>1, <1>2, <1>3, <1>4, <1>5
<1>7. QED
  BY <1>6 DEF CallsIn, Upstream

LEMMA CallsFew ==
  ASSUME NEW ps, Sequence(ps), \A n \in 1 .. Len(ps) : Chunks(ps[n])
  PROVE  /\ CallsOf(ps) \subseteq Calls /\ CallsOf(ps) \in SUBSET Nat /\ IsFiniteSet(CallsOf(ps))
<1>1. \A x \in Range(ps) : Chunks(x)
  BY Elements DEF Range
<1>2. CallsOf(ps) \subseteq Calls
  BY <1>1 DEF CallsOf, Chunks
<1>3. CallsOf(ps) \in SUBSET Nat /\ \A i \in CallsOf(ps) : i <= 1
  BY <1>2 DEF Calls
<1>4. QED
  BY <1>2, <1>3, FS_BoundedSetOfNaturals

\* An argument string that is no JSON is taken for {} once.
LEMMA EmptyOnce ==
  ASSUME NEW args
  PROVE  OrEmpty(OrEmpty(args)) = OrEmpty(args)
<1>1. ~ValidArgs(<<>>)
  BY DEF ValidArgs
<1>2. QED
  BY <1>1 DEF OrEmpty

LEMMA ResponseView ==
  ASSUME NEW ps, Sequence(ps), \A n \in 1 .. Len(ps) : Chunks(ps[n])
  PROVE  ViewOf(TranslateResponse(ps)) = Upstream(ps) /\ Worded(TranslateResponse(ps).content)
         /\ Typed(TranslateResponse(ps).content)
<1> DEFINE calls == SortInts(CallsOf(ps))
           text == TextOf(ps)
           tools == [n \in DOMAIN calls |->
                       ToolBlock(NameOf(ps, calls[n]), ArgsOf(ps, calls[n]))]
           m == TranslateResponse(ps)
<1>1. m = Message(OrEmptyText((IF text = <<>> THEN <<>> ELSE <<TextBlock(text)>>) \o tools),
                  StopFromFinish(FinishOf(ps)), UsageOf(ps))
  BY Zenon DEF TranslateResponse
<1>2. CallsOf(ps) \in SUBSET Nat /\ IsFiniteSet(CallsOf(ps))
  BY CallsFew
<1>3. DOMAIN tools = DOMAIN calls /\ tools = [n \in DOMAIN calls |-> tools[n]]
      /\ \A n \in DOMAIN tools : tools[n] = ToolBlock(NameOf(ps, calls[n]), ArgsOf(ps, calls[n]))
  BY Zenon
<1> HIDE DEF tools
<1>4. Sequence(tools)
  BY <1>2, <1>3, SortedList
<1>5. \A n \in DOMAIN tools : /\ tools[n].type = "tool_use"
                              /\ tools[n].name = NameOf(ps, calls[n])
                              /\ OrEmpty(tools[n].args) = OrEmpty(ArgsOf(ps, calls[n]))
  BY <1>3, BlocksWorded
<1>6. \A b \in Range(tools) : b.type = "tool_use"
  BY <1>5 DEF Range
<1>7. CallsIn(Range(tools)) = Upstream(ps).calls
  BY <1>2, <1>3, <1>5, CallsListed
<1>8. Sequence(text)
  BY TextMore
<1>9. m.content = OrEmptyText((IF text = <<>> THEN <<>> ELSE <<TextBlock(text)>>) \o tools)
  BY <1>1 DEF Message
<1> HIDE DEF m, text
<1>10. ViewOf(m) = [text |-> text, calls |-> CallsIn(Range(tools))] /\ Worded(m.content)
       /\ Typed(m.content)
  BY <1>4, <1>6, <1>8, <1>9, MessageView
<1>11. QED
  BY <1>7, <1>10 DEF Upstream, m, text

LEMMA CollectedView ==
  ASSUME NEW ps, Sequence(ps), \A n \in 1 .. Len(ps) : Chunks(ps[n])
  PROVE  /\ ViewOf(CollectOpenAI(ps)) = Upstream(ps) /\ Worded(CollectOpenAI(ps).content)
         /\ Typed(CollectOpenAI(ps).content) /\ Argued(CollectOpenAI(ps).content)
<1> DEFINE a == Gathered(ps)
           calls == SortInts(DOMAIN a.tools)
           tools == [n \in DOMAIN calls |->
                       ToolBlock(a.tools[calls[n]].name, OrEmpty(a.tools[calls[n]].args))]
           text == a.text
           m == CollectOpenAI(ps)
<1>1. m = Message(OrEmptyText((IF text = <<>> THEN <<>> ELSE <<TextBlock(text)>>) \o tools),
                  OrEndTurn(a.stop), a.usage)
  BY Zenon DEF CollectOpenAI
<1>2. CallsOf(ps) \in SUBSET Nat /\ IsFiniteSet(CallsOf(ps))
  BY CallsFew
<1>3. DOMAIN tools = DOMAIN calls /\ tools = [n \in DOMAIN calls |-> tools[n]]
      /\ \A n \in DOMAIN tools :
           tools[n] = ToolBlock(a.tools[calls[n]].name, OrEmpty(a.tools[calls[n]].args))
  BY Zenon
<1> HIDE DEF tools
<1>4. /\ DOMAIN a.tools = CallsOf(ps) /\ text = TextOf(ps)
      /\ \A i \in CallsOf(ps) : a.tools[i] = [name |-> NameOf(ps, i), args |-> ArgsOf(ps, i)]
  BY GatheredAll, Zenon DEF GathersAll
<1> HIDE DEF a
<1>5. calls = SortInts(CallsOf(ps)) /\ \A n \in DOMAIN calls : calls[n] \in CallsOf(ps)
  BY <1>2, <1>4, Sorts
<1> HIDE DEF calls
<1>6. Sequence(tools)
  BY <1>2, <1>3, <1>5, SortedList
<1>7. \A n \in DOMAIN tools : /\ tools[n].type = "tool_use"
                              /\ tools[n].name = NameOf(ps, calls[n])
                              /\ OrEmpty(tools[n].args) = OrEmpty(ArgsOf(ps, calls[n]))
                              /\ Sequence(tools[n].args)
  <2>1. ASSUME NEW n \in DOMAIN tools
        PROVE  tools[n] = ToolBlock(NameOf(ps, calls[n]), OrEmpty(ArgsOf(ps, calls[n])))
    <3>1. calls[n] \in CallsOf(ps)
      BY <1>3, <1>5
    <3>2. /\ a.tools[calls[n]].name = NameOf(ps, calls[n])
          /\ a.tools[calls[n]].args = ArgsOf(ps, calls[n])
      <4> DEFINE i == calls[n]
      <4>1. i \in CallsOf(ps)
        BY <3>1
      <4> HIDE DEF i
      <4>2. a.tools[i] = [name |-> NameOf(ps, i), args |-> ArgsOf(ps, i)]
        BY <1>4, <4>1
      <4>3. a.tools[i].name = NameOf(ps, i) /\ a.tools[i].args = ArgsOf(ps, i)
        BY <4>2
      <4>4. QED
        BY <4>3 DEF i
    <3>3. QED
      BY <1>3, <3>2
  <2>2. \A i : Sequence(OrEmpty(ArgsOf(ps, i)))
    BY ArgsMore, ArgsSequence, Zenon
  <2>3. QED
    BY <2>1, <2>2, BlocksWorded, EmptyOnce
<1>8. \A b \in Range(tools) : b.type = "tool_use" /\ Sequence(b.args)
  BY <1>7 DEF Range
<1>9. CallsIn(Range(tools)) = Upstream(ps).calls
  BY <1>2, <1>3, <1>5, <1>7, CallsListed
<1>10. Sequence(text)
  BY <1>4, TextMore
<1>11. m.content = OrEmptyText((IF text = <<>> THEN <<>> ELSE <<TextBlock(text)>>) \o tools)
  BY <1>1 DEF Message
<1> HIDE DEF m, text
<1>12. ViewOf(m) = [text |-> text, calls |-> CallsIn(Range(tools))] /\ Worded(m.content)
       /\ Typed(m.content) /\ Argued(m.content)
  BY <1>6, <1>8, <1>10, <1>11, MessageView
<1>13. QED
  BY <1>4, <1>9, <1>12 DEF Upstream, m

LEMMA EmptyView ==
  /\ ViewOf(EmptyMessage) = [text |-> <<>>, calls |-> {}] /\ Worded(EmptyMessage.content)
  /\ Typed(EmptyMessage.content) /\ Argued(EmptyMessage.content)
<1>1. EmptyMessage.content = <<TextBlock(<<>>)>>
  BY DEF EmptyMessage, Message
<1>2. Typed(<<TextBlock(<<>>)>>) /\ Argued(<<TextBlock(<<>>)>>)
  BY RangeOne, BlocksWorded DEF Typed, Argued
<1>3. QED
  BY <1>1, <1>2, OneText, Nothing, Zenon DEF ViewOf, CallsMade

\* What an Anthropic provider's message has of a piece.
LEMMA UpstreamBlocks ==
  ASSUME Sequence(pieces), \A n \in 1 .. Len(pieces) : Chunks(pieces[n]), NEW n \in 1 .. Len(pieces)
  PROVE  LET c == pieces[n]
             call == ToolBlock(NameOf(pieces, c.i), OrEmpty(ArgsOf(pieces, c.i)))
         IN  \/ UpstreamBlock(n) = <<TextBlock(<<c.n>>)>> /\ SaidIn(c) = <<c.n>>
             \/ /\ UpstreamBlock(n) = <<call>> /\ SaidIn(c) = <<>>
                /\ c.kind = "tool"
                /\ \A k \in 1 .. n - 1 : pieces[k].kind = "tool" => pieces[k].i # c.i
             \/ /\ UpstreamBlock(n) = <<>> /\ SaidIn(c) = <<>>
                /\ ~(/\ c.kind = "tool"
                     /\ \A k \in 1 .. n - 1 : pieces[k].kind = "tool" => pieces[k].i # c.i)
<1> DEFINE c == pieces[n]
           First == \A k \in 1 .. n - 1 : pieces[k].kind = "tool" => pieces[k].i # c.i
<1>1. CASE c.kind = "text"
  <2>1. UpstreamBlock(n) = <<TextBlock(<<c.n>>)>>
    BY <1>1, Zenon DEF UpstreamBlock
  <2>2. QED
    BY <1>1, <2>1 DEF SaidIn
<1>2. CASE c.kind # "text"
  <2>1. SaidIn(c) = <<>>
    BY <1>2 DEF SaidIn
  <2>2. CASE c.kind = "tool" /\ First
    <3>1. UpstreamBlock(n) = <<ToolBlock(NameOf(pieces, c.i), OrEmpty(ArgsOf(pieces, c.i)))>>
      <4> HIDE DEF c
      <4>1. "tool" # "text"
        OBVIOUS
      <4>2. QED
        BY <1>2, <2>2, <4>1, Zenon DEF UpstreamBlock, c
    <3>2. QED
      BY <2>1, <2>2, <3>1
  <2>3. CASE ~(c.kind = "tool" /\ First)
    <3>1. UpstreamBlock(n) = <<>>
      BY <1>2, <2>3, Zenon DEF UpstreamBlock
    <3>2. QED
      BY <2>1, <2>3, <3>1
  <2>4. QED
    BY <2>2, <2>3
<1>3. QED
  BY <1>1, <1>2

LEMMA UpstreamsView ==
  ASSUME Sequence(pieces), \A n \in 1 .. Len(pieces) : Chunks(pieces[n])
  PROVE  /\ ViewOf(UpstreamMessage) = Upstream(pieces) /\ Worded(UpstreamMessage.content)
         /\ Typed(UpstreamMessage.content) /\ Argued(UpstreamMessage.content)
         /\ Sequence(UpstreamMessage.content)
<1> DEFINE each == [n \in DOMAIN pieces |-> UpstreamBlock(n)]
           n == Len(pieces)
           content == FlattenSeq(each)
           Flat(k) == FlattenSeq(SubSeq(each, 1, k))
           Called(i) == ToolBlock(NameOf(pieces, i), OrEmpty(ArgsOf(pieces, i)))
           First(k) == /\ pieces[k].kind = "tool"
                       /\ \A j \in 1 .. k - 1 : pieces[j].kind = "tool" => pieces[j].i # pieces[k].i
<1>1. UpstreamMessage.content = content
  <2>1. UpstreamMessage = Message(content, StopFromFinish(FinishOf(pieces)), UsageOf(pieces))
    BY Zenon DEF UpstreamMessage
  <2> HIDE DEF content
  <2>2. QED
    BY <2>1 DEF Message
<1>2. n \in Nat /\ DOMAIN pieces = 1 .. n
  BY Elements
<1>3. Sequence(each) /\ Len(each) = n /\ \A k \in 1 .. n : each[k] = UpstreamBlock(k)
  <2>1. /\ DOMAIN each = 1 .. n /\ each = [k \in 1 .. n |-> each[k]]
        /\ \A k \in 1 .. n : each[k] = UpstreamBlock(k)
    BY <1>2
  <2> HIDE DEF each, n
  <2>2. QED
    BY <1>2, <2>1, Listed
<1>4. ASSUME NEW k \in 1 .. n
      PROVE  \/ UpstreamBlock(k) = <<TextBlock(<<pieces[k].n>>)>> /\ SaidIn(pieces[k]) = <<pieces[k].n>>
             \/ UpstreamBlock(k) = <<Called(pieces[k].i)>> /\ SaidIn(pieces[k]) = <<>> /\ First(k)
             \/ UpstreamBlock(k) = <<>> /\ SaidIn(pieces[k]) = <<>> /\ ~First(k)
  BY UpstreamBlocks
<1> HIDE DEF each
<1>5. ASSUME NEW k \in 1 .. n
      PROVE  \/ UpstreamBlock(k) = <<>> /\ SaidIn(pieces[k]) = <<>>
             \/ \E b : /\ UpstreamBlock(k) = <<b>> /\ TextIn(b) = SaidIn(pieces[k])
                       /\ Sequence(TextIn(b)) /\ b.type \in {"text", "tool_use"}
  <2>1. \A x : Sequence(<<x>>)
    BY Listing, Zenon
  <2> HIDE DEF Called, First
  <2>2. CASE UpstreamBlock(k) = <<TextBlock(<<pieces[k].n>>)>> /\ SaidIn(pieces[k]) = <<pieces[k].n>>
    BY <2>1, <2>2, BlocksWorded
  <2>3. CASE UpstreamBlock(k) = <<Called(pieces[k].i)>> /\ SaidIn(pieces[k]) = <<>>
    BY <2>3, BlocksWorded, Nothing DEF Called
  <2>4. QED
    BY <1>4, <2>2, <2>3
<1> HIDE DEF Called, First
<1> DEFINE T == {k \in 0 .. n : /\ Sequence(Flat(k)) /\ Worded(Flat(k)) /\ Typed(Flat(k))
                                /\ Texts(Flat(k)) = TextOf(SubSeq(pieces, 1, k))}
<1>6. 0 \in T
  <2>1. 0 \in 0 .. n
    BY <1>2
  <2>2. SubSeq(each, 1, 0) = <<>> /\ SubSeq(pieces, 1, 0) = <<>>
    BY <1>3, NoneYet
  <2>3. Flat(0) = <<>> /\ TextOf(SubSeq(pieces, 1, 0)) = <<>>
    BY <2>2, FlatNothing, TextMore, Zenon
  <2> HIDE DEF Flat
  <2>4. Typed(<<>>)
    BY DEF Typed, Range
  <2>5. QED
    BY <2>1, <2>3, <2>4, BlocksWorded, Nothing
<1>7. ASSUME NEW k \in 1 .. n, k - 1 \in T PROVE k \in T
  <2> DEFINE first == SubSeq(pieces, 1, k - 1)
             earlier == SubSeq(each, 1, k - 1)
  <2>1. k \in 0 .. n /\ k - 1 \in 0 .. n
    BY <1>2
  <2>2. Sequence(first) /\ SubSeq(pieces, 1, k) = Append(first, pieces[k])
    BY <2>1, Shorter, OneMore
  <2>3. Sequence(earlier) /\ SubSeq(each, 1, k) = Append(earlier, UpstreamBlock(k))
    BY <1>3, <2>1, Shorter, OneMore
  <2>4. TextOf(SubSeq(pieces, 1, k)) = TextOf(first) \o SaidIn(pieces[k]) /\ Sequence(TextOf(first))
    BY <2>2, TextMore, Zenon
  <2>5. /\ Sequence(Flat(k - 1)) /\ Worded(Flat(k - 1)) /\ Typed(Flat(k - 1))
        /\ Texts(Flat(k - 1)) = TextOf(first)
    BY <1>7
  <2>6. Sequence(UpstreamBlock(k))
    BY <1>5, Nothing, Listing, Zenon
  <2>7. Flat(k) = Flat(k - 1) \o UpstreamBlock(k)
    BY <2>3, <2>6, FlatMore, Zenon
  <2> HIDE DEF Flat, first, earlier
  <2>8. CASE UpstreamBlock(k) = <<>> /\ SaidIn(pieces[k]) = <<>>
    <3>1. Flat(k) = Flat(k - 1)
      BY <2>5, <2>7, <2>8, JoinedFew
    <3>2. TextOf(SubSeq(pieces, 1, k)) = TextOf(first)
      BY <2>4, <2>8, JoinedFew
    <3>3. QED
      BY <2>1, <2>5, <3>1, <3>2
  <2>9. ASSUME NEW b, UpstreamBlock(k) = <<b>>, TextIn(b) = SaidIn(pieces[k]), Sequence(TextIn(b)),
               b.type \in {"text", "tool_use"}
        PROVE  k \in T
    <3>1. Flat(k) = Append(Flat(k - 1), b)
      BY <2>5, <2>7, <2>9, JoinedFew
    <3>2. Sequence(Flat(k)) /\ Range(Flat(k)) = Range(Flat(k - 1)) \cup {b}
      BY <2>5, <3>1, Longer, AppendJoined
    <3>3. Texts(Flat(k)) = Texts(Flat(k - 1)) \o TextIn(b)
      BY <2>5, <2>9, <3>1, TextsMore, Zenon
    <3>4. Worded(Flat(k)) /\ Typed(Flat(k))
      BY <2>5, <2>9, <3>2 DEF Worded, Typed
    <3>5. QED
      BY <2>1, <2>4, <2>5, <2>9, <3>2, <3>3, <3>4, Zenon
  <2>10. QED
    BY <1>5, <2>8, <2>9
<1>8. n \in Nat /\ n \in 0 .. n
  BY <1>2
<1>9. n \in T
  <2> HIDE DEF T, n
  <2>1. \A k \in 0 .. n : k \in T
    BY <1>6, <1>7, <1>8, Upwards, Zenon
  <2>2. QED
    BY <1>8, <2>1
<1>10. /\ Sequence(content) /\ Worded(content) /\ Typed(content)
       /\ Texts(content) = TextOf(pieces)
  <2>1. SubSeq(each, 1, n) = each /\ SubSeq(pieces, 1, n) = pieces
    BY <1>3, Whole
  <2>2. /\ Sequence(Flat(n)) /\ Worded(Flat(n)) /\ Typed(Flat(n))
        /\ Texts(Flat(n)) = TextOf(SubSeq(pieces, 1, n))
    BY <1>9
  <2> HIDE DEF n
  <2>3. QED
    BY <2>1, <2>2, Zenon
<1>11. \A b : b \in Range(content) <=> \E k \in 1 .. n : b \in Range(UpstreamBlock(k))
  <2>1. \A k \in 1 .. Len(each) : Sequence(each[k])
    <3>1. \A k \in 1 .. n : Sequence(UpstreamBlock(k))
      BY <1>5, Nothing, Listing, Zenon
    <3>2. QED
      BY <1>3, <3>1
  <2>2. \A b : b \in Range(content) <=> \E k \in 1 .. Len(each) : b \in Range(each[k])
    BY <1>3, <2>1, FlatRange
  <2>3. QED
    BY <1>3, <2>2
<1> HIDE DEF content, Flat, T
<1>12. ASSUME NEW b \in Range(content), b.type = "tool_use"
       PROVE  \E i \in CallsOf(pieces) : b = Called(i)
  <2>1. PICK k \in 1 .. n : b \in Range(UpstreamBlock(k))
    BY <1>11
  <2>2. UpstreamBlock(k) # <<>> /\ UpstreamBlock(k) # <<TextBlock(<<pieces[k].n>>)>>
    <3>1. Range(<<>>) = {}
      BY DEF Range
    <3>2. \A x : x \in Range(<<TextBlock(<<pieces[k].n>>)>>) => x.type = "text"
      BY RangeOne, BlocksWorded
    <3>3. QED
      BY <1>12, <2>1, <3>1, <3>2
  <2>3. UpstreamBlock(k) = <<Called(pieces[k].i)>> /\ First(k)
    BY <1>4, <2>2
  <2>4. b = Called(pieces[k].i)
    BY <2>1, <2>3, RangeOne
  <2>5. pieces[k].i \in CallsOf(pieces)
    BY <1>2, <2>3 DEF CallsOf, Range, First
  <2>6. QED
    BY <2>4, <2>5
<1>13. ASSUME NEW i \in CallsOf(pieces)
       PROVE  Called(i) \in Range(content)
  <2> DEFINE S == {k \in 1 .. n : pieces[k].kind = "tool" /\ pieces[k].i = i}
  <2>1. S \in SUBSET Nat /\ S # {}
    BY <1>2 DEF CallsOf, Range
  <2>2. PICK k \in S : \A j \in S : k <= j
    <3> HIDE DEF S
    <3>1. QED
      BY <2>1, Least
  <2>3. k \in 1 .. n /\ pieces[k].kind = "tool" /\ pieces[k].i = i
    OBVIOUS
  <2>4. First(k)
    <3>1. \A j \in 1 .. k - 1 : j \in 1 .. n /\ ~(k <= j)
      BY <1>2
    <3>2. \A j \in 1 .. k - 1 : j \notin S
      BY <2>2, <3>1
    <3>3. QED
      BY <2>3, <3>1, <3>2 DEF First
  <2>5. UpstreamBlock(k) = <<Called(i)>>
    <3>1. SaidIn(pieces[k]) = <<>>
      BY <2>3 DEF SaidIn
    <3>2. \A x : <<x>> # <<>>
      OBVIOUS
    <3>3. QED
      BY <1>4, <2>3, <2>4, <3>1, <3>2, Zenon
  <2>6. QED
    BY <1>11, <2>3, <2>5, RangeOne
<1>14. CallsMade(content) = Upstream(pieces).calls
  <2> DEFINE Tools == {b \in Range(content) : b.type = "tool_use"}
  <2>1. \A i : /\ Called(i).name = NameOf(pieces, i) /\ Called(i).args = OrEmpty(ArgsOf(pieces, i))
               /\ Called(i).type = "tool_use" /\ OrEmpty(Called(i).args) = OrEmpty(ArgsOf(pieces, i))
    BY BlocksWorded, EmptyOnce DEF Called
  <2>2. \A b : b \in Tools <=> \E i \in CallsOf(pieces) : b = Called(i)
    BY <1>12, <1>13, <2>1
  <2> HIDE DEF Tools
  <2>3. \A x : x \in CallsIn(Tools) <=> \E b \in Tools : x = <<b.name, OrEmpty(b.args)>>
    BY DEF CallsIn
  <2>4. \A x : x \in Upstream(pieces).calls
                 <=> \E i \in CallsOf(pieces) : x = <<NameOf(pieces, i), OrEmpty(ArgsOf(pieces, i))>>
    BY DEF Upstream
  <2>5. \A x : x \in CallsIn(Tools) <=> x \in Upstream(pieces).calls
    BY <2>1, <2>2, <2>3, <2>4
  <2>6. QED
    BY <2>5 DEF CallsMade, Tools, CallsIn, Upstream
<1>15. Argued(content)
  <2>1. ASSUME NEW i PROVE Sequence(Called(i).args)
    <3>1. Sequence(ArgsOf(pieces, i))
      BY ArgsMore, Zenon
    <3>2. QED
      BY <3>1, ArgsSequence, BlocksWorded DEF Called
  <2>2. QED
    BY <1>12, <2>1 DEF Argued
<1>16. QED
  BY <1>1, <1>10, <1>14, <1>15, Zenon DEF ViewOf, CallsMade, Upstream

\* A chat client sees the same.
LEMMA ChatViews ==
  ASSUME NEW m, Sequence(m.content), Worded(m.content), Typed(m.content)
  PROVE  /\ ToOpenAI(m).text = Texts(m.content)
         /\ CallsIn(Range(ToOpenAI(m).calls)) = CallsMade(m.content)
         /\ LET w == ToOpenAIChunks(m)
            IN  /\ FlattenSeq([n \in DOMAIN w |-> ChatTextIn(w[n])]) = Texts(m.content)
                /\ CallsIn({c \in Range(w) : c.kind = "call"}) = CallsMade(m.content)
<1> DEFINE bs == m.content
           n == Len(bs)
<1>1. n \in Nat /\ DOMAIN bs = 1 .. n /\ \A k \in 1 .. n : bs[k].type \in {"text", "tool_use"}
  <2>1. n \in Nat /\ DOMAIN bs = 1 .. n /\ \A k \in 1 .. n : bs[k] \in Range(bs)
    BY Elements
  <2>2. QED
    BY <2>1 DEF Typed
<1>2. ToOpenAI(m).text = Texts(bs) /\ ToOpenAI(m).calls = ToolBlocks(m)
  BY DEF ToOpenAI
<1>3. CallsIn(Range(ToolBlocks(m))) = CallsMade(bs)
  <2> DEFINE f == [k \in DOMAIN bs |-> CallIn(bs[k])]
  <2>1. ToolBlocks(m) = FlattenSeq(f)
    BY DEF ToolBlocks
  <2>2. DOMAIN f = 1 .. n /\ f = [k \in 1 .. n |-> f[k]] /\ \A k \in 1 .. n : f[k] = CallIn(bs[k])
    <3> HIDE DEF bs, n
    <3>1. QED
      BY <1>1
  <2>3. \A b : /\ Sequence(CallIn(b))
               /\ \A x : x \in Range(CallIn(b)) <=> x = b /\ b.type = "tool_use"
    <3>1. Sequence(<<>>) /\ Range(<<>>) = {}
      BY Nothing DEF Range
    <3>2. QED
      BY <3>1, RangeOne, Zenon DEF CallIn
  <2> HIDE DEF f
  <2>4. Sequence(f) /\ Len(f) = n
    BY <1>1, <2>2, Listed
  <2>5. \A x : x \in Range(FlattenSeq(f)) <=> \E k \in 1 .. Len(f) : x \in Range(f[k])
    <3>1. \A k \in 1 .. n : Sequence(f[k])
      <4>1. \A b : Sequence(CallIn(b))
        BY <2>3
      <4> HIDE DEF n, bs
      <4>2. QED
        BY <2>2, <4>1
    <3> HIDE DEF n
    <3>2. \A k \in 1 .. Len(f) : Sequence(f[k])
      BY <2>4, <3>1
    <3>3. QED
      BY <2>4, <3>2, FlatRange
  <2>6. \A x : x \in Range(FlattenSeq(f)) <=> \E k \in 1 .. n : x = bs[k] /\ x.type = "tool_use"
    <3>1. \A k \in 1 .. n : \A x : x \in Range(f[k]) <=> x = bs[k] /\ x.type = "tool_use"
      BY <2>2, <2>3
    <3> HIDE DEF n
    <3>2. QED
      BY <2>4, <2>5, <3>1
  <2>7. \A x : x \in {b \in Range(bs) : b.type = "tool_use"}
                 <=> \E k \in 1 .. n : x = bs[k] /\ x.type = "tool_use"
    BY <1>1 DEF Range
  <2>8. Range(FlattenSeq(f)) = {b \in Range(bs) : b.type = "tool_use"}
    BY <2>6, <2>7
  <2>9. QED
    BY <2>1, <2>8 DEF CallsMade
<1> DEFINE One(b) == IF b.type = "text" THEN ChatText(b.text) ELSE ChatCall(0, b.name, b.args)
           chunks == [k \in DOMAIN bs |-> One(bs[k])]
           last == Finish(FinishFromStop(m.stop))
           w == chunks \o <<last>>
<1>4. ToOpenAIChunks(m) = w
  BY Zenon DEF ToOpenAIChunks
<1>5. /\ Sequence(chunks) /\ Len(chunks) = n /\ \A k \in 1 .. n : chunks[k] = One(bs[k])
  <2>1. DOMAIN chunks = 1 .. n /\ chunks = [k \in 1 .. n |-> chunks[k]]
        /\ \A k \in 1 .. n : chunks[k] = One(bs[k])
    <3> HIDE DEF bs, n, One
    <3>1. QED
      BY <1>1
  <2> HIDE DEF chunks
  <2>2. QED
    BY <1>1, <2>1, Listed, Zenon
<1> HIDE DEF chunks
<1>6. w = Append(chunks, last)
  BY <1>5, JoinedFew
<1>7. /\ Sequence(w) /\ Len(w) = n + 1 /\ w[n + 1] = last /\ \A k \in 1 .. n : w[k] = One(bs[k])
  <2> DEFINE u == Append(chunks, last)
  <2>1. /\ Sequence(u) /\ Len(u) = Len(chunks) + 1 /\ u[Len(chunks) + 1] = last
        /\ \A k \in 1 .. Len(chunks) : u[k] = chunks[k]
    BY <1>5, Longer
  <2> HIDE DEF u, last, One, n
  <2>2. w = u
    BY <1>6 DEF u
  <2> HIDE DEF w
  <2>3. QED
    BY <1>5, <2>1, <2>2
<1> HIDE DEF w
<1>8. DOMAIN w = 1 .. n + 1
  BY <1>7, Elements
<1>9. \A b : b.type \in {"text", "tool_use"} =>
        /\ ChatTextIn(One(b)) = TextIn(b)
        /\ (One(b).kind = "call") <=> b.type = "tool_use"
        /\ b.type = "tool_use" => One(b).name = b.name /\ One(b).args = b.args
  BY DEF ChatTextIn, ChatText, ChatCall, TextIn
<1>10. ChatTextIn(last) = <<>> /\ last.kind # "call"
  BY DEF ChatTextIn, Finish
<1> HIDE DEF last, One
<1>11. FlattenSeq([k \in DOMAIN w |-> ChatTextIn(w[k])]) = Texts(bs)
  <2> DEFINE f == [k \in DOMAIN bs |-> TextIn(bs[k])]
             g == [k \in DOMAIN w |-> ChatTextIn(w[k])]
  <2>1. /\ DOMAIN f = 1 .. n /\ f = [k \in 1 .. n |-> f[k]] /\ \A k \in 1 .. n : f[k] = TextIn(bs[k])
        /\ DOMAIN g = 1 .. n + 1 /\ g = [k \in 1 .. n + 1 |-> g[k]]
        /\ \A k \in 1 .. n + 1 : g[k] = ChatTextIn(w[k])
    <3> HIDE DEF bs, n
    <3>1. QED
      BY <1>1, <1>8
  <2>2. Texts(bs) = FlattenSeq(f)
    BY DEF Texts
  <2> HIDE DEF f, g, bs, n
  <2>3. n + 1 \in 1 .. n + 1 /\ \A k \in 1 .. n : k \in 1 .. n + 1
    BY <1>1
  <2>4. g[n + 1] = <<>> /\ Sequence(g[n + 1]) /\ \A k \in 1 .. n : g[k] = f[k]
    <3>1. g[n + 1] = <<>> /\ Sequence(g[n + 1])
      BY <1>7, <1>10, <2>1, <2>3, Nothing
    <3>2. \A k \in 1 .. n : g[k] = f[k]
      BY <1>1, <1>7, <1>9, <2>1, <2>3
    <3>3. QED
      BY <3>1, <3>2
  <2>5. FlattenSeq(g) = FlattenSeq(f) \o g[n + 1]
    BY <1>1, <2>1, <2>4, FlatListed, Zenon
  <2>6. Sequence(Texts(bs))
    <3>1. Sequence(TextIn(TextBlock(<<>>)))
      BY BlocksWorded, Nothing
    <3>2. QED
      BY <3>1, TextsMore DEF bs
  <2>7. FlattenSeq(g) = Texts(bs)
    BY <2>2, <2>4, <2>5, <2>6, JoinedFew
  <2>8. QED
    BY <2>7 DEF g
<1>12. CallsIn({c \in Range(w) : c.kind = "call"}) = CallsMade(bs)
  <2> DEFINE S == {c \in Range(w) : c.kind = "call"}
             R == {b \in Range(bs) : b.type = "tool_use"}
  <2> HIDE DEF bs, n
  <2>1. \A c : c \in S <=> \E k \in 1 .. n : c = One(bs[k]) /\ bs[k].type = "tool_use"
    <3>1. \A c : c \in Range(w) <=> \E k \in 1 .. n + 1 : c = w[k]
      BY <1>8 DEF Range
    <3>2. \A k : k \in 1 .. n + 1 <=> k \in 1 .. n \/ k = n + 1
      BY <1>1
    <3>3. QED
      BY <1>1, <1>7, <1>9, <1>10, <3>1, <3>2
  <2>2. \A b : b \in R <=> \E k \in 1 .. n : b = bs[k] /\ bs[k].type = "tool_use"
    BY <1>1 DEF Range
  <2> HIDE DEF S, R
  <2>3. /\ \A x : x \in CallsIn(S) <=> \E c \in S : x = <<c.name, OrEmpty(c.args)>>
        /\ \A x : x \in CallsIn(R) <=> \E b \in R : x = <<b.name, OrEmpty(b.args)>>
    BY DEF CallsIn
  <2>4. \A k \in 1 .. n : bs[k].type = "tool_use"
          => One(bs[k]).name = bs[k].name /\ One(bs[k]).args = bs[k].args
    BY <1>9
  <2>5. \A x : x \in CallsIn(S) <=> x \in CallsIn(R)
    BY <2>1, <2>2, <2>3, <2>4
  <2>6. QED
    BY <2>5 DEF CallsMade, S, R, CallsIn
<1>13. QED
  BY <1>2, <1>3, <1>4, <1>11, <1>12

-----------------------------------------------------------------------------
(***************************************************************************)
(* The Anthropic collector: the blocks it has, L, and what an event does   *)
(* to them.                                                                *)
(***************************************************************************)

Raw(type, text, args, name) == [type |-> type, text |-> text, args |-> args, name |-> name]
IsRaw(b) == b = Raw(b.type, b.text, b.args, b.name)

Laid(s, L) ==
  /\ Sequence(s) /\ Sequence(L) /\ DOMAIN Assembled(s) = {"blocks", "usage"}
  /\ DOMAIN Assembled(s).blocks = 0 .. Len(L) - 1
  /\ \A k \in 1 .. Len(L) : Assembled(s).blocks[k - 1] = L[k]
  /\ \A k \in 1 .. Len(L) : IsRaw(L[k])

LEMMA CountUp ==
  ASSUME NEW n \in Nat
  PROVE  /\ DOMAIN SortInts(0 .. n - 1) = 1 .. n
         /\ \A k \in 1 .. n : SortInts(0 .. n - 1)[k] = k - 1
<1> DEFINE order == SortInts(0 .. n - 1)
<1>1. 0 .. n - 1 \in SUBSET Nat /\ IsFiniteSet(0 .. n - 1) /\ Cardinality(0 .. n - 1) = n
  <2>1. 0 .. n - 1 \in SUBSET Nat /\ 0 \in Int /\ n - 1 \in Int
    OBVIOUS
  <2>2. IsFiniteSet(0 .. n - 1) /\ Cardinality(0 .. n - 1) = IF 0 > n - 1 THEN 0 ELSE (n - 1) - 0 + 1
    BY <2>1, FS_Interval, Zenon
  <2>3. QED
    BY <2>1, <2>2
<1>2. /\ order \in [1 .. n -> 0 .. n - 1]
      /\ \A i, j \in 1 .. n : i < j => order[i] < order[j]
  <2>1. /\ order \in [1 .. Cardinality(0 .. n - 1) -> 0 .. n - 1]
        /\ \A i, j \in 1 .. Cardinality(0 .. n - 1) : i < j => order[i] < order[j]
    BY <1>1, Sorts
  <2> HIDE DEF order
  <2>2. QED
    BY <1>1, <2>1
<1> HIDE DEF order
<1> DEFINE Low == {k \in 0 .. n : k # 0 => order[k] >= k - 1}
           High == {k \in 0 .. n : k # n => order[n - k] <= (n - 1) - k}
<1>3. 0 \in Low /\ 0 \in High
  BY <1>2
<1>4. ASSUME NEW k \in 1 .. n, k - 1 \in Low PROVE k \in Low
  <2>1. CASE k = 1
    BY <1>2, <2>1
  <2>2. CASE k # 1
    <3>1. k - 1 \in 1 .. n /\ k - 1 < k
      BY <2>2
    <3>2. order[k - 1] < order[k] /\ order[k - 1] >= (k - 1) - 1
      BY <1>2, <1>4, <3>1
    <3>3. QED
      BY <1>2, <3>1, <3>2
  <2>3. QED
    BY <2>1, <2>2
<1>5. ASSUME NEW k \in 1 .. n, k - 1 \in High PROVE k \in High
  <2>1. CASE k = n
    BY <2>1
  <2>2. CASE k # n
    <3>1. n - k \in 1 .. n /\ n - (k - 1) \in 1 .. n /\ n - k < n - (k - 1) /\ k - 1 # n
      BY <2>2
    <3>2. order[n - k] < order[n - (k - 1)] /\ order[n - (k - 1)] <= (n - 1) - (k - 1)
      BY <1>2, <1>5, <3>1
    <3>3. QED
      BY <1>2, <3>1, <3>2
  <2>3. QED
    BY <2>1, <2>2
<1>6. \A k \in 0 .. n : k \in Low /\ k \in High
  <2> HIDE DEF Low, High
  <2>1. \A k \in 0 .. n : k \in Low
    BY <1>3, <1>4, Upwards
  <2>2. \A k \in 0 .. n : k \in High
    BY <1>3, <1>5, Upwards
  <2>3. QED
    BY <2>1, <2>2
<1>7. ASSUME NEW k \in 1 .. n PROVE order[k] = k - 1
  <2>1. k \in 0 .. n /\ n - k \in 0 .. n /\ n - k # n /\ k # 0 /\ n - (n - k) = k
    OBVIOUS
  <2>2. order[k] >= k - 1
    BY <1>6, <2>1
  <2>3. order[n - (n - k)] <= (n - 1) - (n - k)
    BY <1>6, <2>1
  <2>4. order[k] \in Int
    BY <1>2
  <2>5. QED
    BY <2>1, <2>2, <2>3, <2>4
<1>8. QED
  BY <1>2, <1>7 DEF order

Changed(L, k, b) == [n \in DOMAIN L |-> IF n = k THEN b ELSE L[n]]

LEMMA ChangedList ==
  ASSUME NEW L, Sequence(L), NEW k, NEW b
  PROVE  /\ Sequence(Changed(L, k, b)) /\ Len(Changed(L, k, b)) = Len(L)
         /\ \A n \in 1 .. Len(L) : Changed(L, k, b)[n] = IF n = k THEN b ELSE L[n]
<1> DEFINE M == Changed(L, k, b)
           n == Len(L)
<1>1. n \in Nat /\ DOMAIN L = 1 .. n
  BY Elements
<1>2. /\ DOMAIN M = 1 .. n /\ M = [i \in 1 .. n |-> M[i]]
      /\ \A i \in 1 .. n : M[i] = IF i = k THEN b ELSE L[i]
  BY <1>1 DEF Changed
<1> HIDE DEF M, n
<1>3. Sequence(M) /\ Len(M) = n
  BY <1>1, <1>2, Listed
<1>4. QED
  BY <1>2, <1>3 DEF M, n

LEMMA LaidNothing == Laid(<<>>, <<>>)
<1>1. Assembled(<<>>) = EventBase
  BY Nothing, AssembledMore
<1>2. DOMAIN EventBase = {"blocks", "usage"} /\ DOMAIN EventBase.blocks = {}
  BY DEF EventBase
<1>3. Len(<<>>) = 0 /\ 0 .. 0 - 1 = {} /\ 1 .. 0 = {}
  OBVIOUS
<1>4. QED
  BY <1>1, <1>2, <1>3, Nothing DEF Laid

LEMMA RawFields ==
  ASSUME NEW type, NEW text, NEW args, NEW name
  PROVE  LET b == Raw(type, text, args, name)
         IN  b.type = type /\ b.text = text /\ b.args = args /\ b.name = name /\ IsRaw(b)
BY DEF Raw, IsRaw

LEMMA RawChanged ==
  ASSUME NEW r, IsRaw(r), NEW x
  PROVE  /\ [r EXCEPT !.text = x] = Raw(r.type, x, r.args, r.name)
         /\ [r EXCEPT !.args = x] = Raw(r.type, r.text, x, r.name)
<1>1. ASSUME NEW t, NEW w, NEW g, NEW m, r = Raw(t, w, g, m)
      PROVE  [r EXCEPT !.text = x] = Raw(t, x, g, m) /\ [r EXCEPT !.args = x] = Raw(t, w, x, m)
  BY <1>1 DEF Raw
<1>2. QED
  BY <1>1 DEF IsRaw

LEMMA LaidStart ==
  ASSUME NEW s, NEW L, Laid(s, L), NEW e, e.ev = "block_start", e.idx = Len(L), NEW b,
         b = Raw(e.type, <<>>, <<>>, IF e.type = "text" THEN NoName ELSE e.name)
  PROVE  Laid(Append(s, e), Append(L, b))
<1> DEFINE a == Assembled(s)
           n == Len(L)
           blocks == With(a.blocks, e.idx, b)
           M == Append(L, b)
<1>1. Sequence(Append(s, e)) /\ Assembled(Append(s, e)) = CollectEvent(a, e)
  BY Longer, AssembledMore DEF Laid
<1>2. CollectEvent(a, e)
        = [a EXCEPT !.blocks = With(@, e.idx, [type |-> e.type, text |-> <<>>, args |-> <<>>,
                    name |-> IF e.type = "text" THEN NoName ELSE e.name])]
  BY Zenon DEF CollectEvent
<1>3. b = [type |-> e.type, text |-> <<>>, args |-> <<>>,
           name |-> IF e.type = "text" THEN NoName ELSE e.name]
  BY DEF Raw
<1>4. IsRaw(b)
  BY RawFields
<1>5. CollectEvent(a, e) = [a EXCEPT !.blocks = With(@, e.idx, b)]
  BY <1>2, <1>3
<1>6. /\ DOMAIN a = {"blocks", "usage"} /\ DOMAIN a.blocks = 0 .. n - 1 /\ Sequence(L)
      /\ \A k \in 1 .. n : a.blocks[k - 1] = L[k] /\ IsRaw(L[k])
  BY DEF Laid
<1>7. n \in Nat /\ Sequence(M) /\ Len(M) = n + 1 /\ M[n + 1] = b /\ \A k \in 1 .. n : M[k] = L[k]
  BY <1>6, Elements, Longer
<1> HIDE DEF a, n, M
<1>8. /\ DOMAIN blocks = 0 .. n
      /\ \A k \in 0 .. n : blocks[k] = IF k = n THEN b ELSE a.blocks[k]
  <2>1. (0 .. n - 1) \cup {n} = 0 .. n
    BY <1>7
  <2>2. e.idx = n
    BY DEF n
  <2>3. QED
    BY <1>6, <2>1, <2>2 DEF With
<1>9. CollectEvent(a, e) = [a EXCEPT !.blocks = blocks]
  BY <1>5, <1>6
<1> HIDE DEF blocks
<1>10. /\ DOMAIN CollectEvent(a, e) = {"blocks", "usage"} /\ CollectEvent(a, e).blocks = blocks
  BY <1>6, <1>9
<1>11. ASSUME NEW k \in 1 .. n + 1
       PROVE  blocks[k - 1] = M[k] /\ IsRaw(M[k])
  <2>1. CASE k = n + 1
    <3>1. k - 1 = n /\ n \in 0 .. n
      BY <1>7, <2>1
    <3>2. QED
      BY <1>4, <1>7, <1>8, <2>1, <3>1
  <2>2. CASE k # n + 1
    <3>1. k \in 1 .. n /\ k - 1 \in 0 .. n /\ k - 1 # n
      BY <1>7, <2>2
    <3>2. QED
      BY <1>6, <1>7, <1>8, <3>1, Zenon
  <2>3. QED
    BY <2>1, <2>2
<1>12. DOMAIN blocks = 0 .. Len(M) - 1
  BY <1>7, <1>8
<1>13. Laid(Append(s, e), M)
  BY <1>1, <1>7, <1>10, <1>11, <1>12 DEF Laid
<1>14. QED
  BY <1>13 DEF M

LEMMA LaidDelta ==
  ASSUME NEW s, NEW L, Laid(s, L), NEW k \in 1 .. Len(L), NEW e, e.idx = k - 1, NEW b,
         \/ /\ e.ev = "text_delta"
            /\ b = Raw(L[k].type, L[k].text \o e.text, L[k].args, L[k].name)
         \/ /\ e.ev = "json_delta"
            /\ b = Raw(L[k].type, L[k].text, L[k].args \o e.args, L[k].name)
  PROVE  Laid(Append(s, e), Changed(L, k, b))
<1> DEFINE a == Assembled(s)
           n == Len(L)
           c == CollectEvent(a, e)
           M == Changed(L, k, b)
<1>1. Sequence(Append(s, e)) /\ Assembled(Append(s, e)) = c
  BY Longer, AssembledMore DEF Laid
<1>2. /\ DOMAIN a = {"blocks", "usage"} /\ DOMAIN a.blocks = 0 .. n - 1 /\ Sequence(L)
      /\ \A j \in 1 .. n : a.blocks[j - 1] = L[j] /\ IsRaw(L[j])
  BY DEF Laid
<1>3. n \in Nat /\ Sequence(M) /\ Len(M) = n /\ \A j \in 1 .. n : M[j] = IF j = k THEN b ELSE L[j]
  BY <1>2, Elements, ChangedList
<1>4. IsRaw(b)
  BY RawFields
<1> HIDE DEF M
<1>5. /\ DOMAIN c = {"blocks", "usage"} /\ DOMAIN c.blocks = 0 .. n - 1
      /\ c.blocks[e.idx] = b
      /\ \A j \in 0 .. n - 1 : j # e.idx => c.blocks[j] = a.blocks[j]
  <2>1. e.idx \in 0 .. n - 1 /\ e.idx \in DOMAIN a.blocks
    BY <1>2, <1>3
  <2> DEFINE r == a.blocks[e.idx]
             x == r.text \o e.text
             y == r.args \o e.args
  <2>2. r = L[k] /\ IsRaw(r)
    BY <1>2
  <2>3. CASE e.ev = "text_delta" /\ b = Raw(L[k].type, L[k].text \o e.text, L[k].args, L[k].name)
    <3>1. c = [a EXCEPT !.blocks[e.idx].text = x]
      BY <2>1, <2>3 DEF CollectEvent
    <3>2. b = Raw(r.type, x, r.args, r.name)
      BY <2>2, <2>3
    <3> HIDE DEF a, n, c, x
    <3>3. c = [a EXCEPT !.blocks = [a.blocks EXCEPT ![e.idx] = b]]
      BY <1>2, <2>1, <2>2, <3>1, <3>2, RawChanged, Zenon
    <3>4. QED
      BY <1>2, <2>1, <3>3, Zenon
  <2>4. CASE e.ev = "json_delta" /\ b = Raw(L[k].type, L[k].text, L[k].args \o e.args, L[k].name)
    <3>1. c = [a EXCEPT !.blocks[e.idx].args = y]
      BY <2>1, <2>4 DEF CollectEvent
    <3>2. b = Raw(r.type, r.text, y, r.name)
      BY <2>2, <2>4
    <3> HIDE DEF a, n, c, y
    <3>3. c = [a EXCEPT !.blocks = [a.blocks EXCEPT ![e.idx] = b]]
      BY <1>2, <2>1, <2>2, <3>1, <3>2, RawChanged, Zenon
    <3>4. QED
      BY <1>2, <2>1, <3>3, Zenon
  <2>5. QED
    BY <2>3, <2>4
<1> HIDE DEF a, c, n
<1>6. ASSUME NEW j \in 1 .. n
      PROVE  c.blocks[j - 1] = M[j] /\ IsRaw(M[j])
  <2>1. j - 1 \in 0 .. n - 1 /\ k \in Int /\ (j = k <=> j - 1 = e.idx)
    BY <1>3 DEF n
  <2>2. QED
    BY <1>2, <1>3, <1>4, <1>5, <2>1, Zenon
<1>7. QED
  BY <1>1, <1>3, <1>5, <1>6 DEF Laid, M

LEMMA LaidOther ==
  ASSUME NEW s, NEW L, Laid(s, L), NEW e, e.ev \notin {"block_start", "text_delta", "json_delta"}
  PROVE  Laid(Append(s, e), L)
<1> DEFINE a == Assembled(s)
           c == CollectEvent(a, e)
<1>1. Sequence(Append(s, e)) /\ Assembled(Append(s, e)) = c
  BY Longer, AssembledMore DEF Laid
<1>2. DOMAIN a = {"blocks", "usage"}
  BY DEF Laid
<1>3. DOMAIN c = DOMAIN a /\ c.blocks = a.blocks
  <2> HIDE DEF a
  <2>1. c = a \/ c = [a EXCEPT !.usage = e.usage]
    BY DEF CollectEvent
  <2> HIDE DEF c
  <2>2. QED
    BY <1>2, <2>1
<1>4. QED
  BY <1>1, <1>3 DEF Laid

\* Lists of blocks that differ in nothing a client looks at.
LEMMA Alike ==
  ASSUME NEW bs, NEW L, Sequence(bs), Sequence(L), Len(bs) = Len(L),
         \A k \in 1 .. Len(L) :
           /\ TextIn(bs[k]) = TextIn(L[k]) /\ bs[k].type = L[k].type
           /\ L[k].type = "tool_use" => /\ bs[k].name = L[k].name
                                        /\ OrEmpty(bs[k].args) = OrEmpty(L[k].args)
  PROVE  /\ Texts(bs) = Texts(L) /\ CallsMade(bs) = CallsMade(L)
         /\ Typed(bs) <=> Typed(L)
         /\ Worded(bs) <=> Worded(L)
<1> DEFINE n == Len(L)
           S == {b \in Range(bs) : b.type = "tool_use"}
           R == {b \in Range(L) : b.type = "tool_use"}
<1>1. n \in Nat /\ DOMAIN L = 1 .. n /\ DOMAIN bs = 1 .. n
  BY Elements
<1> HIDE DEF n
<1>2. \A k \in 1 .. n :
        /\ TextIn(bs[k]) = TextIn(L[k]) /\ bs[k].type = L[k].type
        /\ L[k].type = "tool_use" => /\ bs[k].name = L[k].name
                                     /\ OrEmpty(bs[k].args) = OrEmpty(L[k].args)
  BY DEF n
<1>3. Texts(bs) = Texts(L)
  <2>1. [k \in DOMAIN bs |-> TextIn(bs[k])] = [k \in DOMAIN L |-> TextIn(L[k])]
    BY <1>1, <1>2
  <2>2. QED
    BY <2>1 DEF Texts
<1>4. (Typed(bs) <=> Typed(L)) /\ (Worded(bs) <=> Worded(L))
  <2>1. (\A b \in Range(L) : b.type \in {"text", "tool_use"})
          <=> \A k \in 1 .. n : L[k].type \in {"text", "tool_use"}
    BY <1>1 DEF Range
  <2>2. (\A b \in Range(bs) : b.type \in {"text", "tool_use"})
          <=> \A k \in 1 .. n : bs[k].type \in {"text", "tool_use"}
    BY <1>1 DEF Range
  <2>3. (\A b \in Range(L) : Sequence(TextIn(b))) <=> \A k \in 1 .. n : Sequence(TextIn(L[k]))
    BY <1>1 DEF Range
  <2>4. (\A b \in Range(bs) : Sequence(TextIn(b))) <=> \A k \in 1 .. n : Sequence(TextIn(bs[k]))
    BY <1>1 DEF Range
  <2>5. QED
    BY <1>2, <2>1, <2>2, <2>3, <2>4, Zenon DEF Typed, Worded
<1>5. \A b : b \in S <=> \E k \in 1 .. n : b = bs[k] /\ L[k].type = "tool_use"
  BY <1>1, <1>2 DEF Range
<1>6. \A b : b \in R <=> \E k \in 1 .. n : b = L[k] /\ L[k].type = "tool_use"
  BY <1>1 DEF Range
<1> HIDE DEF S, R
<1>7. /\ \A x : x \in CallsIn(S) <=> \E b \in S : x = <<b.name, OrEmpty(b.args)>>
      /\ \A x : x \in CallsIn(R) <=> \E b \in R : x = <<b.name, OrEmpty(b.args)>>
  BY DEF CallsIn
<1>8. \A x : x \in CallsIn(S) <=> x \in CallsIn(R)
  <2>1. \A k \in 1 .. n : L[k].type = "tool_use" =>
          <<bs[k].name, OrEmpty(bs[k].args)>> = <<L[k].name, OrEmpty(L[k].args)>>
    BY <1>2
  <2>2. \A x : x \in CallsIn(S) <=> \E k \in 1 .. n : /\ L[k].type = "tool_use"
                                                     /\ x = <<bs[k].name, OrEmpty(bs[k].args)>>
    <3>1. \A x : x \in CallsIn(S) <=> \E b \in S : x = <<b.name, OrEmpty(b.args)>>
      BY <1>7
    <3>2. QED
      BY ONLY <1>5, <3>1, SMT
  <2>3. \A x : x \in CallsIn(R) <=> \E k \in 1 .. n : /\ L[k].type = "tool_use"
                                                     /\ x = <<L[k].name, OrEmpty(L[k].args)>>
    <3>1. \A x : x \in CallsIn(R) <=> \E b \in R : x = <<b.name, OrEmpty(b.args)>>
      BY <1>7
    <3>2. QED
      BY ONLY <1>6, <3>1, SMT
  <2>4. QED
    BY <2>1, <2>2, <2>3, ZenonT(60)
<1>9. CallsMade(bs) = CallsMade(L)
  BY <1>8 DEF CallsMade, S, R, CallsIn
<1>10. QED
  BY <1>3, <1>4, <1>9

LEMMA LaidView ==
  ASSUME NEW s, NEW L, Laid(s, L), Typed(L), Worded(L)
  PROVE  LET m == CollectAnthropic(s)
         IN  /\ ViewOf(m) = [text |-> Texts(L), calls |-> CallsMade(L)]
             /\ Worded(m.content) /\ Typed(m.content) /\ Sequence(m.content)
             /\ Argued(L) => Argued(m.content)
<1> DEFINE a == Assembled(s)
           n == Len(L)
           order == SortInts(DOMAIN a.blocks)
           Said1(b) == IF b.type = "text" THEN TextBlock(b.text) ELSE ToolBlock(b.name, OrEmpty(b.args))
           bs == [k \in DOMAIN order |-> Said1(a.blocks[order[k]])]
           m == CollectAnthropic(s)
<1>1. m = Message(OrEmptyText(bs), "end_turn", a.usage)
  BY Zenon DEF CollectAnthropic
<1>2. m.content = OrEmptyText(bs)
  BY <1>1 DEF Message
<1>3. /\ n \in Nat /\ DOMAIN L = 1 .. n /\ DOMAIN a.blocks = 0 .. n - 1 /\ Sequence(L)
      /\ \A k \in 1 .. n : a.blocks[k - 1] = L[k]
  BY Elements DEF Laid
<1>4. DOMAIN order = 1 .. n /\ \A k \in 1 .. n : order[k] = k - 1
  BY <1>3, CountUp
<1>5. /\ DOMAIN bs = 1 .. n /\ bs = [k \in 1 .. n |-> bs[k]]
      /\ \A k \in 1 .. n : bs[k] = Said1(L[k])
  <2> HIDE DEF a, n, order, Said1
  <2>1. QED
    BY <1>3, <1>4
<1> HIDE DEF bs, m, a, order
<1>6. Sequence(bs) /\ Len(bs) = n
  BY <1>3, <1>5, Listed
<1>7. \A k \in 1 .. n : L[k] \in Range(L) /\ L[k].type \in {"text", "tool_use"} /\ Sequence(TextIn(L[k]))
  BY <1>3 DEF Typed, Worded, Range
<1>8. \A b : b.type \in {"text", "tool_use"} =>
        /\ TextIn(Said1(b)) = TextIn(b) /\ Said1(b).type = b.type
        /\ b.type = "tool_use" => Said1(b).name = b.name /\ OrEmpty(Said1(b).args) = OrEmpty(b.args)
  <2>1. \A b : b.type = "text" => TextIn(b) = b.text
    BY DEF TextIn
  <2>2. QED
    BY <2>1, BlocksWorded, EmptyOnce
<1> HIDE DEF Said1
<1>9. \A k \in 1 .. n : /\ TextIn(bs[k]) = TextIn(L[k]) /\ bs[k].type = L[k].type
                        /\ L[k].type = "tool_use" => /\ bs[k].name = L[k].name
                                                     /\ OrEmpty(bs[k].args) = OrEmpty(L[k].args)
  BY <1>5, <1>7, <1>8
<1>10. \A k \in 1 .. n : L[k].type = "tool_use" => bs[k].args = OrEmpty(L[k].args)
  <2>1. \A b : b.type = "tool_use" => Said1(b).args = OrEmpty(b.args)
    BY BlocksWorded DEF Said1
  <2>2. QED
    BY <1>5, <2>1
<1>11. Texts(bs) = Texts(L) /\ CallsMade(bs) = CallsMade(L) /\ Typed(bs) /\ Worded(bs)
  BY <1>3, <1>6, <1>9, Alike, Zenon
<1>12. Argued(L) => Argued(bs)
  <2>1. Argued(L) => \A k \in 1 .. n : L[k].type = "tool_use" => Sequence(bs[k].args)
    BY <1>7, <1>10, ArgsSequence DEF Argued
  <2>2. QED
    BY <1>5, <1>9, <2>1 DEF Argued, Range
<1>13. /\ Texts(m.content) = Texts(L) /\ CallsMade(m.content) = CallsMade(L)
       /\ Worded(m.content)
  BY <1>2, <1>6, <1>11, SaidAtAll
<1>14. Typed(m.content) /\ Sequence(m.content) /\ (Argued(L) => Argued(m.content))
  <2> DEFINE empty == <<TextBlock(<<>>)>>
  <2>1. Typed(empty) /\ Sequence(empty) /\ Argued(empty)
    BY RangeOne, BlocksWorded DEF Typed, Argued
  <2> HIDE DEF empty
  <2>2. m.content = IF bs = <<>> THEN empty ELSE bs
    BY <1>2 DEF OrEmptyText, empty
  <2>3. QED
    BY <1>6, <1>11, <1>12, <2>1, <2>2
<1>15. QED
  BY <1>13, <1>14 DEF ViewOf, CallsMade, m

-----------------------------------------------------------------------------
(***************************************************************************)
(* What the translator has emitted so far, collected: a text, and a call   *)
(* for each argument string of A.                                          *)
(***************************************************************************)

LEMMA TextsSame ==
  ASSUME NEW L, Sequence(L), Worded(L), NEW k \in 1 .. Len(L), NEW b, TextIn(b) = TextIn(L[k])
  PROVE  Texts(Changed(L, k, b)) = Texts(L)
<1> DEFINE M == Changed(L, k, b)
           n == Len(L)
<1>1. Sequence(M) /\ Len(M) = n /\ \A j \in 1 .. n : M[j] = IF j = k THEN b ELSE L[j]
  BY ChangedList
<1>2. DOMAIN M = 1 .. n /\ DOMAIN L = 1 .. n
  BY <1>1, Elements
<1> HIDE DEF M, n
<1>3. [j \in DOMAIN M |-> TextIn(M[j])] = [j \in DOMAIN L |-> TextIn(L[j])]
  BY <1>1, <1>2
<1>4. QED
  BY <1>3 DEF Texts, M

LEMMA KeepsWorded ==
  ASSUME NEW L, Sequence(L), Worded(L), Typed(L), NEW b, Sequence(TextIn(b)),
         b.type \in {"text", "tool_use"}
  PROVE  /\ Worded(Append(L, b)) /\ Typed(Append(L, b))
         /\ \A k \in 1 .. Len(L) : Worded(Changed(L, k, b)) /\ Typed(Changed(L, k, b))
<1>1. Worded(Append(L, b)) /\ Typed(Append(L, b))
  <2>1. Range(Append(L, b)) = Range(L) \cup {b}
    BY AppendJoined
  <2>2. QED
    BY <2>1 DEF Worded, Typed
<1>2. ASSUME NEW k \in 1 .. Len(L) PROVE Worded(Changed(L, k, b)) /\ Typed(Changed(L, k, b))
  <2>1. \A x \in Range(Changed(L, k, b)) : x = b \/ x \in Range(L)
    BY Elements DEF Changed, Range
  <2>2. QED
    BY <2>1 DEF Worded, Typed
<1>3. QED
  BY <1>1, <1>2

\* More text in the last block.
LEMMA TextsLast ==
  ASSUME NEW L, Sequence(L), Worded(L), NEW n, n = Len(L), n # 0, NEW x, Sequence(x),
         NEW b, TextIn(b) = TextIn(L[n]) \o x
  PROVE  Texts(Changed(L, n, b)) = Texts(L) \o x /\ Sequence(TextIn(b))
<1> DEFINE P == SubSeq(L, 1, n - 1)
           M == Changed(L, n, b)
           U == Append(P, b)
<1>1. n \in Nat /\ n - 1 \in 0 .. n /\ n \in 1 .. n
  BY Elements
<1>2. Sequence(P) /\ Len(P) = n - 1 /\ L = Append(P, L[n]) /\ \A j \in 1 .. n - 1 : P[j] = L[j]
  BY <1>1, Shorter, OneMore, Whole, Zenon
<1>3. Sequence(M) /\ Len(M) = n /\ \A j \in 1 .. n : M[j] = IF j = n THEN b ELSE L[j]
  BY ChangedList
<1> HIDE DEF M, P
<1>4. Sequence(U) /\ Len(U) = n /\ U[n] = b /\ \A j \in 1 .. n - 1 : U[j] = P[j]
  <2>1. /\ Sequence(U) /\ Len(U) = Len(P) + 1 /\ U[Len(P) + 1] = b
        /\ \A j \in 1 .. Len(P) : U[j] = P[j]
    BY <1>2, Longer
  <2>2. Len(P) + 1 = n
    BY <1>1, <1>2
  <2>3. QED
    BY <1>2, <2>1, <2>2
<1> HIDE DEF U
<1>5. \A j \in 1 .. n : M[j] = U[j]
  <2>1. \A j \in 1 .. n : j = n \/ j \in 1 .. n - 1
    BY <1>1
  <2>2. QED
    BY <1>1, <1>2, <1>3, <1>4, <2>1
<1>6. M = U
  BY <1>3, <1>4, <1>5, SameSequence
<1>7. Worded(P) /\ Sequence(TextIn(L[n]))
  <2> DEFINE z == L[n]
  <2> HIDE DEF z
  <2>1. Range(Append(P, z)) = Range(P) \cup {z}
    BY <1>2, AppendJoined
  <2>2. Range(L) = Range(P) \cup {L[n]}
    BY <1>2, <2>1, Zenon DEF z
  <2>3. QED
    BY <2>2 DEF Worded
<1>8. Sequence(TextIn(b))
  BY <1>7, Joined
<1>9. Texts(L) = Texts(P) \o TextIn(L[n]) /\ Sequence(Texts(P))
  BY <1>2, <1>7, TextsMore, Zenon
<1>10. Texts(U) = Texts(P) \o (TextIn(L[n]) \o x)
  BY <1>2, <1>7, <1>8, TextsMore, Zenon DEF U
<1>11. Texts(P) \o (TextIn(L[n]) \o x) = (Texts(P) \o TextIn(L[n])) \o x
  BY <1>7, <1>9, JoinedAgain, SMTT(60)
<1>12. QED
  BY <1>6, <1>8, <1>9, <1>10, <1>11 DEF M

Shown(t, L, x, A) ==
  /\ Laid(t.out, L) /\ Worded(L) /\ Typed(L) /\ Len(L) = t.next /\ Texts(L) = x
  /\ DOMAIN t.tools = DOMAIN A
  /\ \A i \in DOMAIN A : t.tools[i] \in 0 .. Len(L) - 1
                         /\ L[t.tools[i] + 1] = Raw("tool_use", <<>>, A[i], i)
  /\ \A k \in 1 .. Len(L) : L[k].type = "tool_use" => \E i \in DOMAIN A : k = t.tools[i] + 1
  /\ t.openText => t.textIdx + 1 = Len(L) /\ L[Len(L)].type = "text"
Shows(t, x, A) == \E L : Shown(t, L, x, A)

LEMMA NewShown == Shown(NewTranslator, <<>>, <<>>, <<>>)
<1>1. DOMAIN <<>> = {} /\ Range(<<>>) = {} /\ Len(<<>>) = 0 /\ 1 .. 0 = {}
  BY DEF Range
<1>2. Typed(<<>>) /\ Worded(<<>>) /\ Texts(<<>>) = <<>>
  BY <1>1, BlocksWorded DEF Typed
<1>3. QED
  BY <1>1, <1>2, LaidNothing DEF Shown, NewTranslator

\* An event of the stream's own.
LEMMA OtherShown ==
  ASSUME NEW t, NEW L, NEW x, NEW A, Shown(t, L, x, A),
         NEW e, e.ev \notin {"block_start", "text_delta", "json_delta"},
         NEW u, u.out = Append(t.out, e), u.next = t.next, u.tools = t.tools,
         u.textIdx = t.textIdx, u.openText => t.openText
  PROVE  Shown(u, L, x, A)
<1>1. Laid(u.out, L)
  BY LaidOther DEF Shown
<1>2. QED
  BY <1>1 DEF Shown

LEMMA StartShown ==
  ASSUME NEW t, Translating(t), NEW L, NEW x, NEW A, Shown(t, L, x, A)
  PROVE  Shown(Start(t), L, x, A)
<1>1. CASE t.started
  BY <1>1 DEF Start
<1>2. CASE ~t.started
  <2> DEFINE u == Start(t)
             e == MessageStart
  <2>1. u.out = Append(t.out, e) /\ u.next = t.next /\ u.tools = t.tools
        /\ u.textIdx = t.textIdx /\ u.openText = t.openText
    BY <1>2 DEF Start, Emit, Translating, Fields
  <2>2. e.ev = "message_start"
    BY DEF MessageStart
  <2> HIDE DEF u, e
  <2>3. Shown(u, L, x, A)
    BY <2>1, <2>2, OtherShown
  <2>4. QED
    BY <2>3 DEF u
<1>3. QED
  BY <1>1, <1>2

LEMMA CloseShown ==
  ASSUME NEW t, Translating(t), NEW L, NEW x, NEW A, Shown(t, L, x, A)
  PROVE  Shown(CloseText(t), L, x, A)
<1>1. CASE ~t.openText
  BY <1>1 DEF CloseText
<1>2. CASE t.openText
  <2> DEFINE u == CloseText(t)
             e == BlockStop(t.textIdx)
  <2>1. u.out = Append(t.out, e) /\ u.next = t.next /\ u.tools = t.tools
        /\ u.textIdx = t.textIdx /\ ~u.openText
    BY <1>2 DEF CloseText, Emit, Translating, Fields
  <2>2. e.ev = "block_stop"
    BY DEF BlockStop
  <2> HIDE DEF u, e
  <2>3. Shown(u, L, x, A)
    BY <2>1, <2>2, OtherShown
  <2>4. QED
    BY <2>3 DEF u
<1>3. QED
  BY <1>1, <1>2

\* A block more, for a text or for the call i.
LEMMA OpenedShown ==
  ASSUME NEW t, NEW L, NEW x, NEW A, Shown(t, L, x, A), NEW e, e.ev = "block_start", e.idx = t.next,
         NEW u, u.out = Append(t.out, e), u.next = t.next + 1,
         \/ /\ e.type = "text" /\ u.tools = t.tools
            /\ u.openText /\ u.textIdx = t.next
         \/ /\ e.type = "tool_use" /\ u.tools = With(t.tools, e.name, t.next) /\ ~u.openText
            /\ e.name \notin DOMAIN A
  PROVE  Shows(u, x, IF e.type = "text" THEN A ELSE With(A, e.name, <<>>))
<1> DEFINE b == Raw(e.type, <<>>, <<>>, IF e.type = "text" THEN NoName ELSE e.name)
           M == Append(L, b)
           B == IF e.type = "text" THEN A ELSE With(A, e.name, <<>>)
           n == t.next
<1>1. n = Len(L) /\ n \in Nat /\ Sequence(L) /\ Worded(L) /\ Typed(L)
  BY Elements DEF Shown, Laid
<1>2. Laid(u.out, M)
  BY LaidStart DEF Shown
<1>3. /\ b.type = e.type /\ TextIn(b) = <<>>
      /\ e.type # "text" => b = Raw(e.type, <<>>, <<>>, e.name)
  BY RawFields DEF TextIn
<1> HIDE DEF b
<1>4. Worded(M) /\ Typed(M)
  BY <1>1, <1>3, Nothing, KeepsWorded
<1>5. Texts(M) = x
  <2>1. Texts(M) = Texts(L) \o <<>> /\ Sequence(Texts(L))
    BY <1>1, <1>3, Nothing, TextsMore, Zenon
  <2>2. QED
    BY <2>1, JoinedFew DEF Shown
<1>6. Len(M) = n + 1 /\ M[n + 1] = b /\ \A k \in 1 .. n : M[k] = L[k]
  BY <1>1, Longer
<1> HIDE DEF M
<1>7. /\ DOMAIN t.tools = DOMAIN A
      /\ \A i \in DOMAIN A : t.tools[i] \in 0 .. n - 1
                             /\ L[t.tools[i] + 1] = Raw("tool_use", <<>>, A[i], i)
      /\ \A k \in 1 .. n : L[k].type = "tool_use" => \E i \in DOMAIN A : k = t.tools[i] + 1
  BY <1>1 DEF Shown
<1> HIDE DEF n
<1>8. \A i \in DOMAIN A : t.tools[i] \in 0 .. n /\ t.tools[i] + 1 \in 1 .. n
                          /\ M[t.tools[i] + 1] = Raw("tool_use", <<>>, A[i], i)
  BY <1>1, <1>6, <1>7
<1>9. \A k \in 1 .. n + 1 : k \in 1 .. n \/ k = n + 1
  BY <1>1
<1>10. n \in 0 .. n
  BY <1>1
<1>11. CASE e.type = "text" /\ u.tools = t.tools /\ u.openText /\ u.textIdx = t.next
  <2>1. B = A /\ M[n + 1].type = "text"
    BY <1>3, <1>6, <1>11
  <2>2. \A k \in 1 .. n + 1 : M[k].type = "tool_use" => \E i \in DOMAIN A : k = t.tools[i] + 1
    BY <1>6, <1>7, <1>9, <2>1
  <2>3. (n + 1) - 1 = n /\ Len(M) = u.next /\ u.textIdx + 1 = n + 1
    BY <1>1, <1>6, <1>11 DEF n
  <2>4. Shown(u, M, x, A)
    BY <1>2, <1>4, <1>5, <1>6, <1>7, <1>8, <1>11, <2>1, <2>2, <2>3 DEF Shown
  <2>5. QED
    BY <2>1, <2>4 DEF Shows
<1>12. CASE /\ e.type = "tool_use" /\ u.tools = With(t.tools, e.name, t.next) /\ ~u.openText
            /\ e.name \notin DOMAIN A
  <2>1. /\ DOMAIN u.tools = DOMAIN A \cup {e.name} /\ u.tools[e.name] = n
        /\ \A i \in DOMAIN A : u.tools[i] = t.tools[i]
    BY <1>7, <1>12 DEF With, n
  <2>2. /\ B = With(A, e.name, <<>>) /\ DOMAIN B = DOMAIN A \cup {e.name} /\ B[e.name] = <<>>
        /\ \A i \in DOMAIN A : B[i] = A[i]
    BY <1>12 DEF With
  <2> HIDE DEF B
  <2>3. M[n + 1] = Raw("tool_use", <<>>, <<>>, e.name)
    BY <1>3, <1>6, <1>12
  <2>4. \A i \in DOMAIN B : u.tools[i] \in 0 .. n /\ M[u.tools[i] + 1] = Raw("tool_use", <<>>, B[i], i)
    BY <1>8, <1>10, <2>1, <2>2, <2>3
  <2>5. \A k \in 1 .. n + 1 : M[k].type = "tool_use" => \E i \in DOMAIN B : k = u.tools[i] + 1
    BY <1>6, <1>7, <1>9, <2>1, <2>2
  <2>6. (n + 1) - 1 = n /\ Len(M) = u.next
    BY <1>1, <1>6 DEF n
  <2>7. Shown(u, M, x, B)
    BY <1>2, <1>4, <1>5, <1>6, <1>12, <2>1, <2>2, <2>4, <2>5, <2>6 DEF Shown
  <2>8. QED
    BY <2>7 DEF Shows, B
<1>13. QED
  BY <1>11, <1>12

\* More of a text.
LEMMA SaidShown ==
  ASSUME NEW t, Translating(t), NEW L, NEW x, NEW A, Shown(t, L, x, A), t.openText,
         NEW y, Sequence(y), NEW e, e = TextDelta(t.textIdx, y),
         NEW u, u.out = Append(t.out, e), u.next = t.next, u.tools = t.tools,
         u.textIdx = t.textIdx, u.openText = t.openText
  PROVE  Shows(u, x \o y, A)
<1> DEFINE n == Len(L)
           r == L[n]
           b == Raw(r.type, r.text \o y, r.args, r.name)
           M == Changed(L, n, b)
<1>1. /\ n = t.next /\ n \in Nat /\ Sequence(L) /\ Worded(L) /\ Typed(L) /\ Laid(t.out, L)
      /\ t.textIdx + 1 = n /\ r.type = "text" /\ Texts(L) = x
  BY Elements DEF Shown, Laid
<1>2. t.textIdx = n - 1 /\ n \in 1 .. n /\ n # 0
  BY <1>1 DEF Translating, Fields
<1>3. e.ev = "text_delta" /\ e.idx = n - 1 /\ e.text = y
  BY <1>2 DEF TextDelta
<1>4. b.type = "text" /\ b.text = r.text \o y
  <2> DEFINE w == r.text \o y
  <2>1. Raw(r.type, w, r.args, r.name).type = r.type /\ Raw(r.type, w, r.args, r.name).text = w
    <3> HIDE DEF r, w
    <3>1. QED
      BY RawFields, SMTT(60)
  <2>2. QED
    BY <1>1, <2>1, Zenon
<1>5. TextIn(b) = TextIn(r) \o y
  BY <1>1, <1>4 DEF TextIn
<1>6. b = Raw(L[n].type, L[n].text \o e.text, L[n].args, L[n].name)
  BY <1>3
<1> HIDE DEF n, b
<1>7. Laid(u.out, M)
  BY <1>1, <1>2, <1>3, <1>6, LaidDelta DEF n
<1>8. Texts(M) = x \o y /\ Sequence(TextIn(b))
  <2>1. n = Len(L) /\ TextIn(b) = TextIn(L[n]) \o y
    BY <1>5 DEF n
  <2>2. Texts(Changed(L, n, b)) = Texts(L) \o y /\ Sequence(TextIn(b))
    <3>1. n # 0
      BY <1>2
    <3>2. Sequence(L)
      BY <1>1
    <3>3. Worded(L)
      BY <1>1
    <3>4. n = Len(L)
      BY DEF n
    <3>5. Sequence(y)
      OBVIOUS
    <3>6. TextIn(b) = TextIn(L[n]) \o y
      BY <2>1
    <3> HIDE DEF n, b
    <3>7. QED
      BY ONLY <3>1, <3>2, <3>3, <3>4, <3>5, <3>6, TextsLast, Zenon
  <2>3. QED
    BY <1>1, <2>2
<1>9. Worded(M) /\ Typed(M)
  BY <1>1, <1>2, <1>4, <1>8, KeepsWorded DEF n
<1>10. Len(M) = n /\ \A j \in 1 .. n : M[j] = IF j = n THEN b ELSE L[j]
  BY <1>1, ChangedList DEF n
<1> HIDE DEF M, r
<1>11. /\ DOMAIN t.tools = DOMAIN A
       /\ \A i \in DOMAIN A : t.tools[i] \in 0 .. n - 1
                              /\ L[t.tools[i] + 1] = Raw("tool_use", <<>>, A[i], i)
       /\ \A k \in 1 .. n : L[k].type = "tool_use" => \E i \in DOMAIN A : k = t.tools[i] + 1
  BY DEF Shown, n
<1>12. \A i \in DOMAIN A : M[t.tools[i] + 1] = Raw("tool_use", <<>>, A[i], i)
  <2>1. ASSUME NEW i \in DOMAIN A PROVE t.tools[i] + 1 # n
    <3>1. L[t.tools[i] + 1].type = "tool_use"
      BY <1>11, RawFields
    <3>2. L[n].type = "text"
      BY <1>1 DEF r
    <3>3. QED
      BY <3>1, <3>2
  <2>2. \A i \in DOMAIN A : t.tools[i] + 1 \in 1 .. n
    BY <1>1, <1>11
  <2>3. QED
    BY <1>10, <1>11, <2>1, <2>2
<1>13. \A k \in 1 .. n : M[k].type = "tool_use" => \E i \in DOMAIN A : k = t.tools[i] + 1
  BY <1>4, <1>10, <1>11
<1>14. M[n].type = "text"
  BY <1>2, <1>4, <1>10
<1>15. Shown(u, M, x \o y, A)
  BY <1>1, <1>7, <1>8, <1>9, <1>10, <1>11, <1>12, <1>13, <1>14 DEF Shown
<1>16. QED
  BY <1>15 DEF Shows

\* More of the arguments of a call.
LEMMA ArguedShown ==
  ASSUME NEW t, Translating(t), NEW L, NEW x, NEW A, Shown(t, L, x, A), NEW i \in DOMAIN A,
         NEW y, NEW e, e = JsonDelta(t.tools[i], y),
         NEW u, u.out = Append(t.out, e), u.next = t.next, u.tools = t.tools,
         u.textIdx = t.textIdx, u.openText = t.openText
  PROVE  Shows(u, x, [A EXCEPT ![i] = @ \o y])
<1> DEFINE n == Len(L)
           k == t.tools[i] + 1
           r == L[k]
           b == Raw("tool_use", <<>>, A[i] \o y, i)
           M == Changed(L, k, b)
           B == [A EXCEPT ![i] = @ \o y]
<1>1. /\ n = t.next /\ n \in Nat /\ Sequence(L) /\ Worded(L) /\ Typed(L) /\ Laid(t.out, L)
      /\ Texts(L) = x
  BY Elements DEF Shown, Laid
<1>2. /\ DOMAIN t.tools = DOMAIN A
      /\ \A j \in DOMAIN A : t.tools[j] \in 0 .. n - 1
                             /\ L[t.tools[j] + 1] = Raw("tool_use", <<>>, A[j], j)
      /\ \A l \in 1 .. n : L[l].type = "tool_use" => \E j \in DOMAIN A : l = t.tools[j] + 1
  BY Zenon DEF Shown
<1>3. k \in 1 .. n /\ t.tools[i] = k - 1 /\ r = Raw("tool_use", <<>>, A[i], i)
  BY <1>1, <1>2
<1>4. e.ev = "json_delta" /\ e.idx = k - 1 /\ e.args = y
  BY <1>3 DEF JsonDelta
<1>5. r.type = "tool_use" /\ r.text = <<>> /\ r.args = A[i] /\ r.name = i
      /\ b.type = "tool_use" /\ TextIn(b) = <<>> /\ TextIn(r) = <<>>
  <2> HIDE DEF r
  <2>1. QED
    BY <1>3, RawFields DEF TextIn
<1>6. b = Raw(L[k].type, L[k].text, L[k].args \o e.args, L[k].name)
  BY <1>4, <1>5
<1> HIDE DEF n, b, k, r
<1>7. Laid(u.out, M)
  BY <1>1, <1>3, <1>4, <1>6, LaidDelta DEF n
<1>8. Texts(M) = x
  BY <1>1, <1>3, <1>5, TextsSame DEF n, r
<1>9. Worded(M) /\ Typed(M)
  BY <1>1, <1>3, <1>5, Nothing, KeepsWorded DEF n
<1>10. Len(M) = n /\ \A j \in 1 .. n : M[j] = IF j = k THEN b ELSE L[j]
  BY <1>1, ChangedList DEF n
<1> HIDE DEF M
<1>11. DOMAIN B = DOMAIN A /\ B[i] = A[i] \o y /\ \A j \in DOMAIN A : j # i => B[j] = A[j]
  OBVIOUS
<1> HIDE DEF B
<1>12. ASSUME NEW j \in DOMAIN A PROVE M[t.tools[j] + 1] = Raw("tool_use", <<>>, B[j], j)
  <2>1. t.tools[j] + 1 \in 1 .. n
    BY <1>1, <1>2
  <2>2. CASE j = i
    BY <1>3, <1>10, <1>11, <2>2, Zenon DEF b, k
  <2>3. CASE j # i
    <3>1. t.tools[j] # t.tools[i]
      BY <1>2, <2>3 DEF Translating
    <3>2. t.tools[j] + 1 # k
      BY <1>2, <3>1 DEF k
    <3>3. QED
      BY <1>2, <1>10, <1>11, <2>1, <2>3, <3>2, Zenon
  <2>4. QED
    BY <2>2, <2>3
<1>13. \A l \in 1 .. n : M[l].type = "tool_use" => \E j \in DOMAIN B : l = t.tools[j] + 1
  BY <1>2, <1>10, <1>11 DEF k
<1>14. u.openText => u.textIdx + 1 = n /\ M[n].type = "text"
  <2>1. t.openText => t.textIdx + 1 = n /\ L[n].type = "text"
    BY DEF Shown, n
  <2>2. L[k].type = "tool_use"
    BY <1>5 DEF r
  <2>3. t.openText => n \in 1 .. n
    BY <1>1, <2>1 DEF Translating, Fields
  <2>4. QED
    BY <1>10, <2>1, <2>2, <2>3
<1>15. Shown(u, M, x, B)
  BY <1>1, <1>2, <1>7, <1>8, <1>9, <1>10, <1>11, <1>12, <1>13, <1>14 DEF Shown
<1>16. QED
  BY <1>15 DEF Shows, B

LEMMA EmitFields ==
  ASSUME NEW t, Fields(t), NEW e
  PROVE  LET u == Emit(t, e)
         IN  /\ u.out = Append(t.out, e) /\ u.next = t.next /\ u.tools = t.tools
             /\ u.textIdx = t.textIdx /\ u.openText = t.openText
<1> DEFINE s == Append(t.out, e)
<1>1. Emit(t, e) = [t EXCEPT !.out = s]
  BY DEF Emit, Fields
<1> HIDE DEF s
<1>2. [t EXCEPT !.out = s].out = s /\ [t EXCEPT !.out = s].next = t.next
      /\ [t EXCEPT !.out = s].tools = t.tools /\ [t EXCEPT !.out = s].textIdx = t.textIdx
      /\ [t EXCEPT !.out = s].openText = t.openText
  BY DEF Fields
<1>3. QED
  BY <1>1, <1>2 DEF s

LEMMA EnsureShown ==
  ASSUME NEW t, Translating(t), NEW L, NEW x, NEW A, Shown(t, L, x, A)
  PROVE  Shows(EnsureText(t), x, A)
<1>1. CASE t.openText
  BY <1>1 DEF EnsureText, Shows
<1>2. CASE ~t.openText
  <2> DEFINE e == TextStart(t.next)
             u == EnsureText(t)
             s == Append(t.out, e)
             m == t.next + 1
  <2>1. u = [t EXCEPT !.openText = TRUE, !.textIdx = t.next, !.next = m, !.out = s]
    BY <1>2 DEF EnsureText, Emit, Translating, Fields
  <2>2. e.ev = "block_start" /\ e.idx = t.next /\ e.type = "text"
    BY DEF TextStart
  <2> HIDE DEF e, u, s, m
  <2>3. u.out = s /\ u.next = m /\ u.tools = t.tools /\ u.openText /\ u.textIdx = t.next
    BY <2>1 DEF Translating, Fields
  <2>4. Shows(u, x, IF e.type = "text" THEN A ELSE With(A, e.name, <<>>))
    BY <2>2, <2>3, OpenedShown DEF s, m
  <2>5. QED
    BY <2>2, <2>4 DEF u
<1>3. QED
  BY <1>1, <1>2

LEMMA ToolShown ==
  ASSUME NEW t, Translating(t), NEW L, NEW x, NEW A, Shown(t, L, x, A), NEW i, i \notin DOMAIN A
  PROVE  Shows(OpenTool(t, i, i), x, With(A, i, <<>>))
<1> DEFINE w == CloseText(t)
           e == ToolStart(w.next, i)
           s == Append(w.out, e)
           tools == With(w.tools, i, w.next)
           m == w.next + 1
           u == OpenTool(t, i, i)
<1>1. Translating(w) /\ ~w.openText /\ Shown(w, L, x, A)
  BY Closes, CloseShown DEF Translates
<1>2. u = [w EXCEPT !.tools = tools, !.next = m, !.out = s]
  <2> HIDE DEF w
  <2>1. u = Emit([w EXCEPT !.tools = With(@, i, w.next), !.next = @ + 1], ToolStart(w.next, i))
    BY DEF OpenTool, w
  <2>2. QED
    BY <1>1, <2>1 DEF Emit, Translating, Fields
<1>3. e.ev = "block_start" /\ e.idx = w.next /\ e.type = "tool_use" /\ e.name = i
  BY DEF ToolStart
<1> HIDE DEF w, e, s, tools, m, u
<1>4. u.out = s /\ u.next = m /\ u.tools = tools /\ ~u.openText
  BY <1>1, <1>2 DEF Translating, Fields
<1>5. Shows(u, x, IF e.type = "text" THEN A ELSE With(A, e.name, <<>>))
  BY <1>1, <1>3, <1>4, OpenedShown DEF s, m, tools
<1>6. QED
  BY <1>3, <1>5 DEF u

ArgsSaid(ps) == [i \in CallsOf(ps) |-> ArgsOf(ps, i)]
Rendered(t, ps) ==
  Shows(t, TextOf(ps), ArgsSaid(ps)) /\ \A i \in CallsOf(ps) : NameOf(ps, i) = i

LEMMA NewRendered == Rendered(NewTranslator, <<>>)
<1>1. CallsOf(<<>>) = {} /\ TextOf(<<>>) = <<>>
  BY Nothing, CallsMore, TextMore
<1>2. ArgsSaid(<<>>) = <<>>
  <2>1. [i \in {} |-> ArgsOf(<<>>, i)] = <<>>
    <3>1. DOMAIN [i \in {} |-> ArgsOf(<<>>, i)] = {}
      OBVIOUS
    <3>2. 1 .. 0 = {} /\ 0 \in Nat
      OBVIOUS
    <3>3. Sequence([i \in {} |-> ArgsOf(<<>>, i)]) /\ Len([i \in {} |-> ArgsOf(<<>>, i)]) = 0
      <4> DEFINE f == [i \in {} |-> ArgsOf(<<>>, i)]
      <4>1. DOMAIN f = 1 .. 0 /\ f = [i \in 1 .. 0 |-> f[i]]
        BY <3>2
      <4> HIDE DEF f
      <4>2. Sequence(f) /\ Len(f) = 0
        BY <3>2, <4>1, Listed, Zenon
      <4>3. QED
        BY <4>2 DEF f
    <3>4. QED
      BY <3>3, Nothing, SameSequence
  <2>2. QED
    BY <1>1, <2>1 DEF ArgsSaid
<1>3. QED
  BY <1>1, <1>2, NewShown DEF Rendered, Shows

\* What a piece more says of the arguments.
LEMMA ArgsSaidMore ==
  ASSUME NEW ps, Sequence(ps), NEW c, Chunks(c)
  PROVE  LET A == ArgsSaid(ps)
             B == ArgsSaid(Append(ps, c))
             C == IF c.i \in DOMAIN A THEN A ELSE With(A, c.i, <<>>)
         IN  /\ DOMAIN A = CallsOf(ps)
             /\ c.kind # "tool" => B = A /\ CallsOf(Append(ps, c)) = CallsOf(ps)
             /\ c.kind = "tool" => B = IF c.arg = Empty THEN C ELSE [C EXCEPT ![c.i] = @ \o <<c.arg>>]
<1> DEFINE A == ArgsSaid(ps)
           u == Append(ps, c)
           B == ArgsSaid(u)
           C == IF c.i \in DOMAIN A THEN A ELSE With(A, c.i, <<>>)
<1>1. CallsOf(u) = CallsOf(ps) \cup (IF c.kind = "tool" THEN {c.i} ELSE {})
  BY CallsMore, Zenon
<1>2. \A i : ArgsOf(u, i) = ArgsOf(ps, i) \o ArgIn(c, i) /\ Sequence(ArgsOf(ps, i))
  BY ArgsMore
<1>3. \A i : i \notin CallsOf(ps) => ArgsOf(ps, i) = <<>>
  BY Unmentioned
<1>4. \A i : ArgIn(c, i) = <<>> => ArgsOf(u, i) = ArgsOf(ps, i)
  BY <1>2, JoinedFew, ZenonT(60)
<1>5. \A i : ArgIn(c, i) = IF c.kind = "tool" /\ c.i = i /\ c.arg # Empty THEN <<c.arg>> ELSE <<>>
  BY DEF ArgIn
<1> HIDE DEF u
<1>6. /\ DOMAIN A = CallsOf(ps) /\ A = [i \in CallsOf(ps) |-> ArgsOf(ps, i)]
      /\ DOMAIN B = CallsOf(u) /\ B = [i \in CallsOf(u) |-> ArgsOf(u, i)]
      /\ (\A i \in CallsOf(ps) : A[i] = ArgsOf(ps, i))
      /\ \A i \in CallsOf(u) : B[i] = ArgsOf(u, i)
  BY DEF ArgsSaid
<1> HIDE DEF A, B
<1>7. ASSUME c.kind # "tool" PROVE B = A /\ CallsOf(u) = CallsOf(ps)
  <2>1. CallsOf(u) = CallsOf(ps) /\ \A i : ArgsOf(u, i) = ArgsOf(ps, i)
    BY <1>1, <1>4, <1>5, <1>7
  <2>2. QED
    BY <1>6, <2>1
<1>8. ASSUME c.kind = "tool"
      PROVE  B = IF c.arg = Empty THEN C ELSE [C EXCEPT ![c.i] = @ \o <<c.arg>>]
  <2>1. CallsOf(u) = CallsOf(ps) \cup {c.i} /\ c.i \in CallsOf(u)
    BY <1>1, <1>8
  <2>2. /\ DOMAIN C = CallsOf(u) /\ C = [i \in CallsOf(u) |-> C[i]]
        /\ \A i \in CallsOf(u) : C[i] = ArgsOf(ps, i)
    <3>1. CASE c.i \in CallsOf(ps)
      BY <1>6, <2>1, <3>1
    <3>2. CASE c.i \notin CallsOf(ps)
      BY <1>3, <1>6, <2>1, <3>2 DEF With
    <3>3. QED
      BY <3>1, <3>2
  <2> HIDE DEF C
  <2>3. CASE c.arg = Empty
    <3>1. \A i : ArgsOf(u, i) = ArgsOf(ps, i)
      BY <1>4, <1>5, <2>3
    <3>2. B = C
      BY <1>6, <2>2, <3>1
    <3>3. QED
      BY <2>3, <3>2
  <2>4. CASE c.arg # Empty
    <3> DEFINE z == ArgsOf(ps, c.i) \o <<c.arg>>
    <3>1. ArgsOf(u, c.i) = z /\ \A i : i # c.i => ArgsOf(u, i) = ArgsOf(ps, i)
      BY <1>2, <1>4, <1>5, <1>8, <2>4, Zenon
    <3>2. C[c.i] \o <<c.arg>> = z
      BY <2>1, <2>2, Zenon
    <3> HIDE DEF z
    <3>3. B = [C EXCEPT ![c.i] = z]
      BY <1>6, <2>1, <2>2, <3>1, Zenon
    <3>4. [C EXCEPT ![c.i] = @ \o <<c.arg>>] = [C EXCEPT ![c.i] = z]
      BY <3>2, Zenon
    <3>5. QED
      BY <2>4, <3>3, <3>4
  <2>5. QED
    BY <2>3, <2>4
<1>9. QED
  BY <1>6, <1>7, <1>8 DEF u, A, B

LEMMA ChunkRendered ==
  ASSUME NEW t, Translating(t), t.started, NEW c, Chunks(c), NEW ps, Sequence(ps), Rendered(t, ps),
         c.kind = "tool" => (c.head <=> c.i \notin CallsOf(ps))
  PROVE  Rendered(Chunk(t, c), Append(ps, c))
<1> DEFINE A == ArgsSaid(ps)
           B == ArgsSaid(Append(ps, c))
           x == TextOf(ps)
           y == TextOf(Append(ps, c))
<1>1. /\ CallsOf(Append(ps, c)) = CallsOf(ps) \cup (IF c.kind = "tool" THEN {c.i} ELSE {})
      /\ \A i : NameOf(Append(ps, c), i) = IF c.kind = "tool" /\ c.i = i /\ c.head THEN i
                                           ELSE NameOf(ps, i)
  BY CallsMore, Zenon
<1>2. \A i \in CallsOf(ps) : NameOf(ps, i) = i
  BY DEF Rendered
<1>3. \A i \in CallsOf(Append(ps, c)) : NameOf(Append(ps, c), i) = i
  BY <1>1, <1>2
<1>4. PICK L : Shown(t, L, x, A)
  BY DEF Rendered, Shows
<1>5. y = x \o SaidIn(c) /\ Sequence(x)
  BY TextMore
<1>6. /\ DOMAIN A = CallsOf(ps)
      /\ c.kind # "tool" => B = A
      /\ c.kind = "tool" =>
           LET C == IF c.i \in DOMAIN A THEN A ELSE With(A, c.i, <<>>)
           IN  B = IF c.arg = Empty THEN C ELSE [C EXCEPT ![c.i] = @ \o <<c.arg>>]
  BY ArgsSaidMore
<1>7. c.kind # "text" => y = x
  <2>1. c.kind # "text" => SaidIn(c) = <<>>
    BY DEF SaidIn
  <2>2. QED
    BY <1>5, <2>1, JoinedFew, Zenon
<1>8. SUFFICES Shows(Chunk(t, c), y, B)
  BY <1>3 DEF Rendered
<1> HIDE DEF A, B, x, y
<1>9. CASE c.kind = "text"
  <2> DEFINE u == EnsureText(t)
             w == <<c.n>>
             e == TextDelta(u.textIdx, w)
  <2>1. Chunk(t, c) = Emit(u, e)
    BY <1>9 DEF Chunk, TextChunk
  <2>2. Translating(u) /\ u.openText /\ Shows(u, x, A)
    BY <1>4, TextOpens, EnsureShown DEF Translates
  <2>3. SaidIn(c) = w /\ Sequence(w)
    BY <1>9, Listing, Zenon DEF SaidIn
  <2> HIDE DEF u, w
  <2>4. PICK M : Shown(u, M, x, A)
    BY <2>2 DEF Shows
  <2> DEFINE z == Emit(u, e)
  <2>5. z.out = Append(u.out, e) /\ z.next = u.next /\ z.tools = u.tools
        /\ z.textIdx = u.textIdx /\ z.openText = u.openText
    BY <2>2, EmitFields, Zenon DEF Translating
  <2> HIDE DEF z
  <2>6. Shows(z, x \o w, A)
    BY <2>2, <2>3, <2>4, <2>5, SaidShown, Zenon
  <2>7. QED
    BY <1>5, <1>6, <1>9, <2>1, <2>3, <2>6 DEF z
<1>10. CASE c.kind = "tool"
  <2> DEFINE u == IF c.i \in DOMAIN t.tools THEN t ELSE OpenTool(t, c.i, IF c.head THEN c.i ELSE NoName)
             w == <<c.arg>>
             e == JsonDelta(u.tools[c.i], w)
             C == IF c.i \in DOMAIN A THEN A ELSE With(A, c.i, <<>>)
  <2>1. Chunk(t, c) = IF c.arg = Empty THEN u ELSE Emit(u, e)
    BY <1>10, Zenon DEF Chunk, ToolChunk
  <2>2. DOMAIN t.tools = DOMAIN A
    BY <1>4 DEF Shown
  <2>3. Translating(u) /\ Shows(u, x, C) /\ c.i \in DOMAIN C
    <3>1. CASE c.i \in DOMAIN A
      BY <1>4, <2>2, <3>1 DEF Shows
    <3>2. CASE c.i \notin DOMAIN A
      <4>1. u = OpenTool(t, c.i, c.i)
        BY <1>6, <1>10, <2>2, <3>2
      <4> HIDE DEF u
      <4>2. Translating(OpenTool(t, c.i, c.i))
        BY <1>10, <2>2, <3>2, ToolOpens DEF Translates, Chunks
      <4>3. Shows(OpenTool(t, c.i, c.i), x, With(A, c.i, <<>>))
        BY <1>4, <3>2, ToolShown
      <4>4. c.i \in DOMAIN With(A, c.i, <<>>)
        BY DEF With
      <4>5. QED
        BY <3>2, <4>1, <4>2, <4>3, <4>4
    <3>3. QED
      BY <3>1, <3>2
  <2>4. B = IF c.arg = Empty THEN C ELSE [C EXCEPT ![c.i] = @ \o w]
    BY <1>6, <1>10
  <2> HIDE DEF u, w, C
  <2>5. CASE c.arg = Empty
    BY <1>7, <1>10, <2>1, <2>3, <2>4, <2>5
  <2>6. CASE c.arg # Empty
    <3>1. PICK M : Shown(u, M, x, C)
      BY <2>3 DEF Shows
    <3> DEFINE z == Emit(u, e)
    <3>2. z.out = Append(u.out, e) /\ z.next = u.next /\ z.tools = u.tools
          /\ z.textIdx = u.textIdx /\ z.openText = u.openText
      BY <2>3, EmitFields DEF Translating
    <3> HIDE DEF z
    <3>3. Shows(z, x, [C EXCEPT ![c.i] = @ \o w])
      BY <2>3, <3>1, <3>2, ArguedShown, Zenon
    <3>4. QED
      BY <1>7, <1>10, <2>1, <2>4, <2>6, <3>3 DEF z
  <2>7. QED
    BY <2>5, <2>6
<1>11. CASE c.kind \in {"finish", "usage"}
  <2> DEFINE u == Chunk(t, c)
  <2>1. u.out = t.out /\ u.next = t.next /\ u.tools = t.tools
        /\ u.textIdx = t.textIdx /\ u.openText = t.openText
    BY <1>11 DEF Chunk, Translating, Fields
  <2> HIDE DEF u
  <2>2. Shown(u, L, x, A)
    BY <1>4, <2>1 DEF Shown
  <2>3. QED
    BY <1>6, <1>7, <1>11, <2>2 DEF Shows, u
<1>12. QED
  BY <1>9, <1>10, <1>11 DEF Chunks

LEMMA LaidOthers ==
  ASSUME NEW s, NEW L, Laid(s, L), NEW b, Sequence(b),
         \A k \in 1 .. Len(b) : b[k].ev \notin {"block_start", "text_delta", "json_delta"}
  PROVE  Laid(s \o b, L)
<1> DEFINE T == {x \in Firsts(b) : Laid(s \o x, L)}
<1>1. Sequence(s)
  BY DEF Laid
<1>2. <<>> \in T
  <2>1. s \o <<>> = s
    BY <1>1, JoinedFew
  <2>2. QED
    BY <2>1, FirstsOf
<1>3. ASSUME NEW k \in 1 .. Len(b), SubSeq(b, 1, k - 1) \in T
      PROVE  Append(SubSeq(b, 1, k - 1), b[k]) \in T
  <2> DEFINE x == SubSeq(b, 1, k - 1)
             e == b[k]
  <2>1. Sequence(x) /\ Append(x, e) \in Firsts(b) /\ Laid(s \o x, L)
    BY <1>3, FirstsOf
  <2>2. e.ev \notin {"block_start", "text_delta", "json_delta"}
    OBVIOUS
  <2> HIDE DEF x, e
  <2>3. s \o Append(x, e) = Append(s \o x, e)
    BY <1>1, <2>1, AppendJoined
  <2>4. Laid(Append(s \o x, e), L)
    BY <2>1, <2>2, LaidOther
  <2>5. QED
    BY <2>1, <2>3, <2>4, Zenon DEF x, e
<1>4. b \in T
  <2> HIDE DEF T
  <2>1. QED
    BY <1>2, <1>3, BySteps
<1>5. QED
  BY <1>4

LEMMA ShownView ==
  ASSUME NEW t, NEW L, NEW ps, Shown(t, L, TextOf(ps), ArgsSaid(ps)),
         \A i \in CallsOf(ps) : NameOf(ps, i) = i
  PROVE  [text |-> Texts(L), calls |-> CallsMade(L)] = Upstream(ps)
<1> DEFINE A == ArgsSaid(ps)
           S == {b \in Range(L) : b.type = "tool_use"}
<1>1. DOMAIN A = CallsOf(ps) /\ \A i \in CallsOf(ps) : A[i] = ArgsOf(ps, i)
  BY DEF ArgsSaid
<1> HIDE DEF A
<1>2. /\ Texts(L) = TextOf(ps) /\ DOMAIN L = 1 .. Len(L) /\ Len(L) \in Nat
      /\ \A i \in DOMAIN A : t.tools[i] \in 0 .. Len(L) - 1
                             /\ L[t.tools[i] + 1] = Raw("tool_use", <<>>, A[i], i)
      /\ \A k \in 1 .. Len(L) : L[k].type = "tool_use" => \E i \in DOMAIN A : k = t.tools[i] + 1
  BY Elements DEF Shown, Laid, A
<1>3. \A b : b \in S <=> \E i \in CallsOf(ps) : b = Raw("tool_use", <<>>, A[i], i)
  <2>1. \A i \in DOMAIN A : t.tools[i] + 1 \in 1 .. Len(L)
    BY <1>2
  <2>2. \A b : b \in S <=> \E k \in 1 .. Len(L) : b = L[k] /\ L[k].type = "tool_use"
    BY <1>2, Zenon DEF Range
  <2>3. \A i : Raw("tool_use", <<>>, A[i], i).type = "tool_use"
    BY RawFields
  <2> HIDE DEF S
  <2>4. QED
    BY <1>1, <1>2, <2>1, <2>2, <2>3
<1>4. \A i \in CallsOf(ps) : LET b == Raw("tool_use", <<>>, A[i], i)
                             IN  b.name = NameOf(ps, i) /\ b.args = ArgsOf(ps, i)
  BY <1>1, RawFields
<1> HIDE DEF S
<1>5. \A x : x \in CallsIn(S) <=> \E b \in S : x = <<b.name, OrEmpty(b.args)>>
  BY DEF CallsIn
<1>6. \A x : x \in Upstream(ps).calls
               <=> \E i \in CallsOf(ps) : x = <<NameOf(ps, i), OrEmpty(ArgsOf(ps, i))>>
  BY DEF Upstream
<1>7. \A x : x \in CallsIn(S) <=> x \in Upstream(ps).calls
  BY <1>3, <1>4, <1>5, <1>6
<1>8. CallsMade(L) = Upstream(ps).calls
  BY <1>7 DEF CallsMade, S, CallsIn, Upstream
<1>9. QED
  BY <1>2, <1>8 DEF Upstream

\* What a client reads from a translation that has come to its end.
LEMMA FinalView ==
  ASSUME NEW t, Translating(t), NEW ps, Rendered(t, ps)
  PROVE  ViewOf(CollectAnthropic(Finalize(t).out)) = Upstream(ps)
<1> DEFINE w == CloseText(t)
           v == StopTools(w)
           order == SortInts(DOMAIN w.tools)
           b == [n \in DOMAIN order |-> BlockStop(w.tools[order[n]])]
           d == MessageDelta(OrEndTurn(t.stop), t.usage)
           A == ArgsSaid(ps)
<1>1. PICK L : Shown(t, L, TextOf(ps), A)
  BY DEF Rendered, Shows
<1>2. Translating(w) /\ ~w.openText /\ Shown(w, L, TextOf(ps), A)
  BY <1>1, Closes, CloseShown DEF Translates
<1>3. v = [w EXCEPT !.out = w.out \o b]
  BY Zenon DEF StopTools
<1>4. Finalize(t) = Emit(Emit(v, d), MessageStop)
  BY Zenon DEF Finalize
<1>5. DOMAIN w.tools \in SUBSET Nat /\ IsFiniteSet(DOMAIN w.tools)
  <2>1. DOMAIN w.tools \in SUBSET Nat /\ \A i \in DOMAIN w.tools : i <= 1
    BY <1>2 DEF Translating, Calls
  <2>2. QED
    BY <2>1, FS_BoundedSetOfNaturals, Zenon
<1> HIDE DEF w, v, order, A
<1>6. Sequence(b) /\ \A k \in 1 .. Len(b) : b[k].ev = "block_stop"
  <2>1. DOMAIN b = DOMAIN order /\ b = [n \in DOMAIN order |-> b[n]]
        /\ \A n \in DOMAIN b : b[n] = BlockStop(w.tools[order[n]])
    OBVIOUS
  <2> HIDE DEF b
  <2>2. Sequence(b)
    BY <1>5, <2>1, SortedList DEF order
  <2>3. DOMAIN b = 1 .. Len(b)
    BY <2>2, Elements
  <2>4. QED
    BY <2>1, <2>2, <2>3 DEF BlockStop
<1>7. d.ev = "message_delta" /\ MessageStop.ev = "message_stop"
  BY DEF MessageDelta, MessageStop
<1> HIDE DEF b, d
<1> DEFINE x == w.out \o b
           y == Append(x, d)
           z == Append(y, MessageStop)
<1>8. Laid(w.out, L) /\ Worded(L) /\ Typed(L)
  BY <1>2 DEF Shown
<1>9. Laid(x, L)
  BY <1>6, <1>8, LaidOthers
<1> HIDE DEF x
<1>10. Laid(y, L)
  BY <1>7, <1>9, LaidOther
<1> HIDE DEF y
<1>11. Laid(z, L)
  BY <1>7, <1>10, LaidOther
<1> HIDE DEF z
<1>12. Finalize(t).out = z
  <2>1. Fields(w) /\ v = [w EXCEPT !.out = x]
    BY <1>2, <1>3 DEF Translating, x
  <2>2. Fields(v) /\ v.out = x
    <3>1. v.out = x /\ v \in [started : BOOLEAN, next : Nat, openText : BOOLEAN, textIdx : Nat,
            tools : {w.tools}, stop : {w.stop}, usage : {"estimated", "reported"}, out : {x}]
      BY <2>1 DEF Fields
    <3>2. v.tools = w.tools /\ v.stop = w.stop
      BY <3>1
    <3>3. QED
      BY <3>1, <3>2 DEF Fields
  <2>3. Emit(v, d) = [v EXCEPT !.out = y]
    BY <2>2 DEF Emit, Fields, y
  <2>4. Emit(v, d).out = y /\ DOMAIN Emit(v, d) = DOMAIN v /\ "out" \in DOMAIN v
    BY <2>2, <2>3 DEF Fields
  <2> HIDE DEF y
  <2>5. Emit(Emit(v, d), MessageStop).out = z
    <3> DEFINE g == Emit(v, d)
    <3> HIDE DEF g
    <3>1. g.out = y /\ "out" \in DOMAIN g
      BY <2>4 DEF g
    <3>2. Emit(g, MessageStop).out = Append(g.out, MessageStop)
      BY <3>1 DEF Emit
    <3>3. QED
      BY <3>1, <3>2 DEF g, z
  <2>6. QED
    BY <1>4, <2>5
<1>13. ViewOf(CollectAnthropic(z)) = [text |-> Texts(L), calls |-> CallsMade(L)]
  BY <1>8, <1>11, LaidView
<1>14. [text |-> Texts(L), calls |-> CallsMade(L)] = Upstream(ps)
  BY <1>1, ShownView DEF Rendered, A
<1>15. QED
  BY <1>12, <1>13, <1>14

-----------------------------------------------------------------------------
(***************************************************************************)
(* A message written as a stream and collected again is the same message.  *)
(***************************************************************************)

RawOf(b) == IF b.type = "text" THEN Raw("text", b.text, <<>>, NoName)
            ELSE Raw("tool_use", <<>>, b.args, b.name)

LEMMA ChangedLast ==
  ASSUME NEW L, Sequence(L), NEW x, NEW y
  PROVE  Changed(Append(L, x), Len(L) + 1, y) = Append(L, y)
<1> DEFINE n == Len(L)
           u == Append(L, x)
           w == Append(L, y)
           M == Changed(u, n + 1, y)
<1>1. n \in Nat
  BY Elements
<1>2. Sequence(u) /\ Len(u) = n + 1 /\ \A k \in 1 .. n : u[k] = L[k]
  BY Longer
<1>3. Sequence(w) /\ Len(w) = n + 1 /\ w[n + 1] = y /\ \A k \in 1 .. n : w[k] = L[k]
  BY Longer
<1> HIDE DEF u, w, n
<1>4. Sequence(M) /\ Len(M) = n + 1 /\ \A k \in 1 .. n + 1 : M[k] = IF k = n + 1 THEN y ELSE u[k]
  BY <1>2, ChangedList
<1>5. \A k \in 1 .. n + 1 : k = n + 1 \/ k \in 1 .. n
  BY <1>1
<1> HIDE DEF M
<1>6. \A k \in 1 .. n + 1 : M[k] = w[k]
  BY <1>2, <1>3, <1>4, <1>5
<1>7. M = w
  BY <1>3, <1>4, <1>6, SameSequence
<1>8. QED
  BY <1>7 DEF M, u, w, n

LEMMA BlockLaid ==
  ASSUME NEW s, NEW L, Laid(s, L), NEW idx, idx = Len(L), NEW b, b.type \in {"text", "tool_use"},
         b.type = "text" => Sequence(b.text), b.type = "tool_use" => Sequence(b.args)
  PROVE  Laid(s \o SyntheticBlock(idx, b), Append(L, RawOf(b)))
<1>0. Sequence(s) /\ Sequence(L) /\ idx \in Nat
  BY Elements DEF Laid
<1> DEFINE z == BlockStop(idx)
<1>1. z.ev = "block_stop"
  BY DEF BlockStop
<1> HIDE DEF z
<1>2. CASE b.type = "text"
  <2> DEFINE a == TextStart(idx)
             d == TextDelta(idx, b.text)
             r == Raw("text", <<>>, <<>>, NoName)
  <2>1. /\ a.ev = "block_start" /\ a.idx = idx /\ a.type = "text"
        /\ d.ev = "text_delta" /\ d.idx = idx /\ d.text = b.text
    BY DEF TextStart, TextDelta
  <2>2. SyntheticBlock(idx, b) = (<<a>> \o (IF b.text = <<>> THEN <<>> ELSE <<d>>)) \o <<z>>
    BY <1>2, Zenon DEF SyntheticBlock, z
  <2>3. RawOf(b) = Raw("text", b.text, <<>>, NoName)
    BY <1>2 DEF RawOf
  <2>4. r.type = "text" /\ r.text = <<>> /\ r.args = <<>> /\ r.name = NoName
    BY RawFields
  <2> HIDE DEF a, d
  <2>5. Laid(Append(s, a), Append(L, r))
    <3>1. r = Raw(a.type, <<>>, <<>>, IF a.type = "text" THEN NoName ELSE a.name)
      BY <2>1
    <3> HIDE DEF r
    <3>2. QED
      BY <2>1, <3>1, LaidStart
  <2>6. CASE b.text = <<>>
    <3>1. <<a>> \o <<>> = <<a>> /\ <<a>> \o <<z>> = <<a, z>>
      BY Lists, Zenon
    <3>2. SyntheticBlock(idx, b) = <<a, z>>
      BY <2>2, <2>6, <3>1
    <3>3. s \o <<a, z>> = Append(Append(s, a), z)
      BY <1>0, JoinedFew
    <3>4. RawOf(b) = r
      BY <2>3, <2>6
    <3> HIDE DEF r
    <3>5. Laid(Append(Append(s, a), z), Append(L, r))
      BY <1>1, <2>5, LaidOther
    <3>6. QED
      BY <3>2, <3>3, <3>4, <3>5, Zenon
  <2>7. CASE b.text # <<>>
    <3>1. <<a>> \o <<d>> = <<a, d>> /\ <<a, d>> \o <<z>> = <<a, d, z>>
      BY Lists, Zenon
    <3>2. SyntheticBlock(idx, b) = <<a, d, z>>
      BY <2>2, <2>7, <3>1, Zenon
    <3>3. s \o <<a, d, z>> = Append(Append(Append(s, a), d), z)
      BY <1>0, JoinedFew
    <3> DEFINE M == Append(L, r)
               k == idx + 1
    <3>4. Len(M) = k /\ M[k] = r /\ k \in 1 .. Len(M) /\ d.idx = k - 1
      BY <1>0, <2>1, Longer
    <3>5. <<>> \o d.text = b.text
      BY <1>2, <2>1, NothingJoined
    <3>6. RawOf(b) = Raw(r.type, r.text \o d.text, r.args, r.name)
      BY <2>3, <2>4, <3>5, Zenon
    <3>7. Changed(M, k, RawOf(b)) = Append(L, RawOf(b))
      BY <1>0, ChangedLast
    <3> HIDE DEF r, M, k
    <3>8. Laid(Append(s, a), M)
      BY <2>5 DEF M
    <3>9. RawOf(b) = Raw(M[k].type, M[k].text \o d.text, M[k].args, M[k].name)
      BY <3>4, <3>6
    <3>10. Laid(Append(Append(s, a), d), Changed(M, k, RawOf(b)))
      BY <2>1, <3>4, <3>8, <3>9, LaidDelta
    <3>11. Laid(Append(Append(Append(s, a), d), z), Append(L, RawOf(b)))
      BY <1>1, <3>7, <3>10, LaidOther
    <3>12. QED
      BY <3>2, <3>3, <3>11, Zenon
  <2>8. QED
    BY <2>6, <2>7
<1>3. CASE b.type = "tool_use"
  <2> DEFINE a == ToolStart(idx, b.name)
             d == JsonDelta(idx, b.args)
             r == Raw("tool_use", <<>>, <<>>, b.name)
             M == Append(L, r)
             k == idx + 1
  <2>1. /\ a.ev = "block_start" /\ a.idx = idx /\ a.type = "tool_use" /\ a.name = b.name
        /\ d.ev = "json_delta" /\ d.idx = idx /\ d.args = b.args
    BY DEF ToolStart, JsonDelta
  <2>2. SyntheticBlock(idx, b) = <<a, d, z>>
    <3>1. b.type # "text"
      BY <1>3
    <3>2. QED
      BY <3>1, Zenon DEF SyntheticBlock, z
  <2>3. RawOf(b) = Raw("tool_use", <<>>, b.args, b.name)
    BY <1>3 DEF RawOf
  <2>4. r.type = "tool_use" /\ r.text = <<>> /\ r.args = <<>> /\ r.name = b.name
    BY RawFields
  <2> HIDE DEF a, d
  <2>5. Laid(Append(s, a), M)
    <3>1. r = Raw(a.type, <<>>, <<>>, IF a.type = "text" THEN NoName ELSE a.name)
      BY <2>1
    <3> HIDE DEF r
    <3>2. QED
      BY <2>1, <3>1, LaidStart
  <2>6. s \o <<a, d, z>> = Append(Append(Append(s, a), d), z)
    BY <1>0, JoinedFew
  <2>7. Len(M) = k /\ M[k] = r /\ k \in 1 .. Len(M) /\ d.idx = k - 1
    BY <1>0, <2>1, Longer
  <2>8. <<>> \o d.args = b.args
    BY <1>3, <2>1, NothingJoined
  <2>9. RawOf(b) = Raw(r.type, r.text, r.args \o d.args, r.name)
    BY <2>3, <2>4, <2>8, Zenon
  <2>10. Changed(M, k, RawOf(b)) = Append(L, RawOf(b))
    BY <1>0, ChangedLast
  <2> HIDE DEF r, M, k
  <2>11. RawOf(b) = Raw(M[k].type, M[k].text, M[k].args \o d.args, M[k].name)
    BY <2>7, <2>9
  <2>12. Laid(Append(Append(s, a), d), Changed(M, k, RawOf(b)))
    BY <2>1, <2>5, <2>7, <2>11, LaidDelta
  <2>13. Laid(Append(Append(Append(s, a), d), z), Append(L, RawOf(b)))
    BY <1>1, <2>10, <2>12, LaidOther
  <2>14. QED
    BY <2>2, <2>6, <2>13, Zenon
<1>4. QED
  BY <1>2, <1>3

LEMMA BlockEvents ==
  ASSUME NEW idx, NEW b
  PROVE  Sequence(SyntheticBlock(idx, b))
<1>1. CASE b.type = "text"
  <2> DEFINE a == TextStart(idx)
             d == TextDelta(idx, b.text)
             z == BlockStop(idx)
  <2>1. SyntheticBlock(idx, b) = (<<a>> \o (IF b.text = <<>> THEN <<>> ELSE <<d>>)) \o <<z>>
    BY <1>1, Zenon DEF SyntheticBlock
  <2> HIDE DEF a, d, z
  <2>2. Sequence(<<a>>) /\ Sequence(<<d>>) /\ Sequence(<<z>>) /\ Sequence(<<>>)
    BY Listing, Nothing, Zenon
  <2>3. QED
    BY <2>1, <2>2, Joined
<1>2. CASE b.type # "text"
  <2>1. SyntheticBlock(idx, b) = <<ToolStart(idx, b.name), JsonDelta(idx, b.args), BlockStop(idx)>>
    BY <1>2, Zenon DEF SyntheticBlock
  <2>2. QED
    BY <2>1, Listing, Zenon
<1>3. QED
  BY <1>1, <1>2

LEMMA SyntheticView ==
  ASSUME NEW m, Sequence(m.content), Worded(m.content), Typed(m.content), Argued(m.content)
  PROVE  LET v == CollectAnthropic(Synthetic(m))
         IN  /\ ViewOf(v) = ViewOf(m)
             /\ Sequence(v.content) /\ Worded(v.content) /\ Typed(v.content) /\ Argued(v.content)
<1> DEFINE c == m.content
           n == Len(c)
           seqs == [k \in DOMAIN c |-> SyntheticBlock(k - 1, c[k])]
           raws == [k \in DOMAIN c |-> RawOf(c[k])]
           d == MessageDelta(m.stop, m.usage)
           start == <<MessageStart>>
           S(k) == start \o FlattenSeq(SubSeq(seqs, 1, k))
           T == {k \in 0 .. n : Laid(S(k), SubSeq(raws, 1, k))}
<1>1. n \in Nat /\ DOMAIN c = 1 .. n
  BY Elements
<1>2. Sequence(start) /\ Laid(start, <<>>)
  <2>1. Append(<<>>, MessageStart) = start
    BY Listing, NothingJoined, Nothing, JoinedFew
  <2>2. MessageStart.ev = "message_start"
    BY DEF MessageStart
  <2>3. Laid(Append(<<>>, MessageStart), <<>>)
    BY <2>2, LaidNothing, LaidOther, Zenon
  <2>4. QED
    BY <2>1, <2>3 DEF Laid
<1>3. /\ DOMAIN seqs = 1 .. n /\ seqs = [i \in 1 .. n |-> seqs[i]]
      /\ \A k \in 1 .. n : seqs[k] = SyntheticBlock(k - 1, c[k])
      /\ DOMAIN raws = 1 .. n /\ raws = [i \in 1 .. n |-> raws[i]]
      /\ \A k \in 1 .. n : raws[k] = RawOf(c[k])
  BY <1>1
<1>4. Synthetic(m) = (start \o FlattenSeq(seqs)) \o <<d, MessageStop>>
  BY Zenon DEF Synthetic
<1>5. \A k \in 1 .. n : /\ c[k].type \in {"text", "tool_use"}
                        /\ c[k].type = "text" => Sequence(c[k].text)
                        /\ c[k].type = "tool_use" => Sequence(c[k].args)
  <2>1. \A k \in 1 .. n : c[k] \in Range(c)
    BY Elements
  <2>2. QED
    BY <2>1 DEF Typed, Worded, Argued, TextIn
<1> HIDE DEF start, c, n, d, seqs, raws
<1>6. Sequence(seqs) /\ Len(seqs) = n /\ Sequence(raws) /\ Len(raws) = n
  BY <1>1, <1>3, Listed
<1>7. 0 \in T
  <2>1. 0 \in 0 .. n
    BY <1>1
  <2>2. SubSeq(seqs, 1, 0) = <<>> /\ SubSeq(raws, 1, 0) = <<>>
    BY <1>6, NoneYet
  <2>3. start \o <<>> = start
    BY <1>2, JoinedFew
  <2>4. Laid(S(0), SubSeq(raws, 1, 0))
    BY <1>2, <2>2, <2>3, FlatNothing, Zenon
  <2>5. QED
    BY <2>1, <2>4
<1>8. ASSUME NEW k \in 1 .. n, k - 1 \in T PROVE k \in T
  <2> DEFINE b == c[k]
             e == SyntheticBlock(k - 1, b)
             earlier == SubSeq(seqs, 1, k - 1)
             L == SubSeq(raws, 1, k - 1)
  <2>1. k \in 0 .. n /\ k - 1 \in 0 .. n /\ k \in Nat
    BY <1>1
  <2>2. Sequence(earlier) /\ SubSeq(seqs, 1, k) = Append(earlier, e)
    <3>1. k \in 1 .. Len(seqs) /\ k - 1 \in 0 .. Len(seqs)
      BY <1>6, <2>1
    <3>2. SubSeq(seqs, 1, k) = Append(SubSeq(seqs, 1, k - 1), seqs[k])
      BY <1>6, <3>1, OneMore
    <3>3. Sequence(SubSeq(seqs, 1, k - 1))
      BY <1>6, <3>1, Shorter
    <3>4. seqs[k] = SyntheticBlock(k - 1, c[k])
      BY <1>3
    <3>5. QED
      BY <3>2, <3>3, <3>4
  <2>3. Sequence(L) /\ Len(L) = k - 1 /\ SubSeq(raws, 1, k) = Append(L, RawOf(b))
    <3>1. k \in 1 .. Len(raws) /\ k - 1 \in 0 .. Len(raws)
      BY <1>6, <2>1
    <3>2. SubSeq(raws, 1, k) = Append(SubSeq(raws, 1, k - 1), raws[k])
      BY <1>6, <3>1, OneMore
    <3>3. Sequence(SubSeq(raws, 1, k - 1)) /\ Len(SubSeq(raws, 1, k - 1)) = k - 1
      BY <1>6, <3>1, Shorter
    <3>4. raws[k] = RawOf(c[k])
      BY <1>3
    <3>5. QED
      BY <3>2, <3>3, <3>4
  <2>4. Laid(S(k - 1), L)
    BY <1>8
  <2>5. Sequence(e)
    BY BlockEvents
  <2>6. FlattenSeq(SubSeq(seqs, 1, k)) = FlattenSeq(earlier) \o e
    BY <2>2, <2>5, FlatMore, Zenon
  <2>7. Sequence(FlattenSeq(earlier))
    <3>1. \A j \in 1 .. Len(earlier) : Sequence(earlier[j])
      <4>1. Len(earlier) = k - 1 /\ \A j \in 1 .. k - 1 : earlier[j] = seqs[j]
        BY <1>6, <2>1, Shorter
      <4>2. \A j \in 1 .. k - 1 : j \in 1 .. n /\ j - 1 \in Nat
        BY <1>1, k \in 1 .. n
      <4>3. \A j \in 1 .. k - 1 : earlier[j] = SyntheticBlock(j - 1, c[j])
        BY <1>3, <4>1, <4>2
      <4>4. QED
        BY <4>1, <4>2, <4>3, BlockEvents
    <3>2. QED
      BY <2>2, <3>1, FlatRange, Zenon
  <2>8. start \o (FlattenSeq(earlier) \o e) = S(k - 1) \o e
    BY <1>2, <2>5, <2>7, JoinedAgain
  <2>9. Laid(S(k - 1) \o e, Append(L, RawOf(b)))
    <3> HIDE DEF S, L
    <3>1. k - 1 = Len(L)
      BY <2>3
    <3>2. QED
      BY <1>5, <2>4, <3>1, BlockLaid
  <2>10. Laid(S(k), SubSeq(raws, 1, k))
    BY <2>3, <2>6, <2>8, <2>9, Zenon
  <2>11. QED
    BY <2>1, <2>10
<1>9. n \in T
  <2> HIDE DEF T
  <2>1. n \in Nat /\ n \in 0 .. n
    BY <1>1
  <2>2. \A k \in 0 .. n : k \in T
    BY <1>7, <1>8, <2>1, Upwards
  <2>3. QED
    BY <2>1, <2>2
<1> DEFINE x == start \o FlattenSeq(seqs)
<1>10. Laid(x, raws) /\ Sequence(x)
  <2>1. SubSeq(seqs, 1, n) = seqs /\ SubSeq(raws, 1, n) = raws
    BY <1>6, Whole
  <2>2. Laid(S(n), SubSeq(raws, 1, n))
    BY <1>9
  <2>3. QED
    BY <2>1, <2>2, Zenon DEF Laid
<1> HIDE DEF x
<1>11. Synthetic(m) = Append(Append(x, d), MessageStop)
  BY <1>4, <1>10, JoinedFew DEF x
<1>12. d.ev = "message_delta" /\ MessageStop.ev = "message_stop"
  BY DEF d, MessageDelta, MessageStop
<1>13. Laid(Append(x, d), raws)
  BY <1>10, <1>12, LaidOther
<1>14. Laid(Synthetic(m), raws)
  BY <1>11, <1>12, <1>13, LaidOther
<1>15. \A k \in 1 .. n :
         /\ TextIn(raws[k]) = TextIn(c[k]) /\ raws[k].type = c[k].type
         /\ c[k].type = "tool_use" => raws[k].name = c[k].name /\ raws[k].args = c[k].args
  <2>1. ASSUME NEW b, b.type \in {"text", "tool_use"}
        PROVE  /\ TextIn(RawOf(b)) = TextIn(b) /\ RawOf(b).type = b.type
               /\ b.type = "tool_use" => RawOf(b).name = b.name /\ RawOf(b).args = b.args
    BY <2>1, RawFields DEF RawOf, TextIn
  <2>2. QED
    BY <1>3, <1>5, <2>1
<1>16. Sequence(c) /\ Len(c) = n
  BY DEF c, n
<1>17. Texts(raws) = Texts(c) /\ CallsMade(raws) = CallsMade(c) /\ Typed(raws) /\ Worded(raws)
  BY <1>6, <1>15, <1>16, Alike, Zenon DEF c
<1>18. Argued(raws)
  BY <1>3, <1>5, <1>15 DEF Argued, Range
<1>19. QED
  BY <1>14, <1>17, <1>18, LaidView DEF ViewOf, CallsMade, c

-----------------------------------------------------------------------------
(***************************************************************************)
(* What the client has to see; the events about to be written show it.     *)
(***************************************************************************)

Wanted == IF FindsNothing THEN [text |-> <<>>, calls |-> {}] ELSE Upstream(pieces)

ContentInv ==
  /\ pc # "done" => reply.kind = "none"
  /\ pc = "body" /\ Decoder = "translate" => Rendered(tr, pieces)
  /\ pc = "last" /\ ~cut => ViewOf(CollectAnthropic(out \o pend)) = Wanted
  /\ Delivered /\ ~cut /\ before = <<>> => View = Wanted

LEMMA ContentSaid == ContentInv => ContentKept
BY DEF ContentInv, ContentKept, Wanted, Upstream, UpstreamView

\* A message that is made of a whole body.
LEMMA DecodedView ==
  ASSUME EventsInv, Decoder \notin {"translate", "pass", "closed"},
         NEW k, k = Len(Synthetic(UpstreamMessage))
  PROVE  LET m == Decoded(k)
         IN  /\ ViewOf(m) = Wanted /\ Worded(m.content) /\ Typed(m.content)
             /\ Decoder # "response" => Argued(m.content)
<1>0. Sequence(pieces) /\ \A n \in 1 .. Len(pieces) : Chunks(pieces[n])
  BY DEF EventsInv
<1>1. CASE Decoder = "collectOpenAI" /\ FindsNothing
  <2>1. Decoded(k) = EmptyMessage
    BY <1>1 DEF Decoded
  <2>2. QED
    BY <1>1, <2>1, EmptyView DEF Wanted
<1>2. CASE Decoder = "collectOpenAI" /\ ~FindsNothing
  <2>1. Decoded(k) = CollectOpenAI(pieces)
    BY <1>2 DEF Decoded
  <2>2. QED
    BY <1>0, <1>2, <2>1, CollectedView DEF Wanted
<1>3. Decoder # "collectOpenAI" => Wanted = Upstream(pieces)
  BY DEF FindsNothing, Wanted
<1>4. CASE Decoder = "collectAnthropic"
  <2> DEFINE events == Synthetic(UpstreamMessage)
  <2>1. Good(events)
    BY <1>0, UpstreamReadable, SyntheticGood DEF Readable
  <2>2. SubSeq(events, 1, k) = events
    BY <2>1, Whole DEF Good
  <2>3. Decoded(k) = CollectAnthropic(events)
    BY <1>4, <2>2, Zenon DEF Decoded
  <2> DEFINE m == UpstreamMessage
             v == CollectAnthropic(Synthetic(m))
  <2>4. /\ Sequence(m.content) /\ Worded(m.content) /\ Typed(m.content) /\ Argued(m.content)
        /\ ViewOf(m) = Upstream(pieces)
    BY <1>0, UpstreamsView
  <2> HIDE DEF m
  <2>5. ViewOf(v) = ViewOf(m) /\ Worded(v.content) /\ Typed(v.content) /\ Argued(v.content)
    BY <2>4, SyntheticView
  <2>6. Decoded(k) = v
    BY <2>3 DEF m
  <2> HIDE DEF v
  <2>7. QED
    BY <1>3, <1>4, <2>4, <2>5, <2>6
<1>5. CASE Decoder = "response"
  <2>1. Decoded(k) = TranslateResponse(pieces)
    BY <1>5 DEF Decoded
  <2>2. QED
    BY <1>0, <1>3, <1>5, <2>1, ResponseView
<1>6. CASE Decoder = "parse"
  <2>1. Decoded(k) = UpstreamMessage
    BY <1>6 DEF Decoded
  <2>2. QED
    BY <1>0, <1>3, <1>6, <2>1, UpstreamsView
<1>7. QED
  BY <1>1, <1>2, <1>4, <1>5, <1>6, Decoders

LEMMA ContentInit == Init => ContentInv
BY DEF Init, ContentInv, Reply, Delivered

LEMMA StillUnseen ==
  ASSUME ContentInv, pc # "done", reply' = reply
  PROVE  reply'.kind = "none" /\ ~Delivered'
<1>1. reply'.kind = "none"
  BY DEF ContentInv
<1>2. QED
  BY <1>1 DEF Delivered

\* What has to be seen depends on what was asked for and on the pieces.
LEMMA SameWanted ==
  ASSUME req' = req, up' = up, pieces' = pieces
  PROVE  Wanted' = Wanted /\ Decoder' = Decoder
<1>1. Decoder' = Decoder
  BY DEF Decoder
<1>2. FindsNothing' = FindsNothing
  BY <1>1 DEF FindsNothing
<1>3. Upstream(pieces)' = Upstream(pieces)
  BY DEF Upstream
<1>4. QED
  BY <1>1, <1>2, <1>3 DEF Wanted

LEMMA StartRendered ==
  ASSUME NEW t, Translating(t), NEW ps, Rendered(t, ps)
  PROVE  Rendered(Start(t), ps)
<1>1. PICK L : Shown(t, L, TextOf(ps), ArgsSaid(ps))
  BY DEF Rendered, Shows
<1>2. Shown(Start(t), L, TextOf(ps), ArgsSaid(ps))
  BY <1>1, StartShown
<1>3. QED
  BY <1>2 DEF Rendered, Shows

LEMMA EndContent ==
  ASSUME EventsInv, ContentInv, NEW failed \in BOOLEAN, EndTranslation(failed)
  PROVE  ContentInv'
<1> DEFINE s == Start(tr)
           t == Finalize(s)
<1>1. /\ pc = "body" /\ pend = <<>> /\ Decoder = "translate" /\ out' = out
      /\ ~failed => pend' = SubSeq(t.out, Len(tr.out) + 1, Len(t.out))
      /\ pc' = IF failed THEN "failed" ELSE "last"
      /\ req' = req /\ up' = up /\ pieces' = pieces /\ reply' = reply
  BY Zenon DEF EndTranslation
<1>2. reply'.kind = "none" /\ ~Delivered'
  BY <1>1, StillUnseen
<1>3. CASE failed
  BY <1>1, <1>2, <1>3 DEF ContentInv
<1>4. CASE ~failed
  <2>1. Translating(tr) /\ out \o pend = tr.out /\ Sequence(out) /\ Rendered(tr, pieces)
    BY <1>1 DEF EventsInv, ContentInv
  <2>2. tr.out = out
    BY <1>1, <2>1, JoinedFew
  <2>3. Translating(s) /\ Growing(tr.out, s.out) /\ Rendered(s, pieces)
    BY <2>1, Starts, StartRendered
  <2> HIDE DEF s
  <2>4. Good(t.out) /\ Growing(s.out, t.out)
    BY <2>3, Finishes
  <2>5. ViewOf(CollectAnthropic(t.out)) = Upstream(pieces)
    BY <2>3, FinalView
  <2> HIDE DEF t
  <2>6. Growing(tr.out, t.out)
    BY <2>1, <2>3, <2>4, Grown DEF Translating, Good
  <2>7. out \o pend' = t.out
    BY <1>1, <1>4, <2>1, <2>2, <2>4, <2>6, Rest, Zenon DEF Good
  <2>8. Wanted = Upstream(pieces)
    BY <1>1 DEF Wanted, FindsNothing
  <2>9. Wanted' = Wanted
    BY <1>1, SameWanted
  <2>10. ViewOf(CollectAnthropic(out \o pend))' = ViewOf(CollectAnthropic(t.out))
    BY <1>1, <2>7
  <2>11. QED
    BY <1>1, <1>2, <1>4, <2>5, <2>8, <2>9, <2>10 DEF ContentInv
<1>5. QED
  BY <1>3, <1>4

LEMMA PassContent ==
  ASSUME EventsInv, ContentInv, NEW failed \in BOOLEAN, Pass(failed)
  PROVE  ContentInv'
<1> DEFINE m == UpstreamMessage
           events == Synthetic(m)
<1>1. PICK k \in 0 .. Len(events) :
        /\ pc = "body" /\ Decoder = "pass" /\ out' = out
        /\ pend' = SubSeq(events, 1, k) /\ cut' = (failed \/ k < Len(events))
        /\ pc' = IF failed THEN "failed" ELSE "last"
        /\ req' = req /\ up' = up /\ pieces' = pieces /\ reply' = reply
  BY Zenon DEF Pass
<1>2. reply'.kind = "none" /\ ~Delivered'
  BY <1>1, StillUnseen
<1>3. CASE failed \/ cut'
  BY <1>1, <1>2, <1>3 DEF ContentInv
<1>4. CASE ~failed /\ ~cut'
  <2>1. Good(events)
    BY UpstreamReadable, SyntheticGood DEF EventsInv, Readable
  <2>2. /\ Sequence(m.content) /\ Worded(m.content) /\ Typed(m.content) /\ Argued(m.content)
        /\ ViewOf(m) = Upstream(pieces)
    BY UpstreamsView DEF EventsInv
  <2> HIDE DEF m
  <2>3. ViewOf(CollectAnthropic(events)) = Upstream(pieces)
    BY <2>2, SyntheticView
  <2> HIDE DEF events
  <2>4. out = <<>> /\ Sequence(events) /\ Len(events) \in Nat
    BY <1>1, <2>1, Elements DEF EventsInv, Good
  <2>5. k = Len(events)
    <3>1. ~(k < Len(events))
      BY <1>1, <1>4, Zenon
    <3>2. k \in 0 .. Len(events)
      BY <1>1
    <3>3. QED
      BY <2>4, <3>1, <3>2
  <2>6. pend' = events
    BY <1>1, <2>4, <2>5, Whole
  <2>7. out \o pend' = events
    BY <2>4, <2>6, NothingJoined
  <2>8. Wanted = Upstream(pieces)
    BY <1>1 DEF Wanted, FindsNothing
  <2>9. Wanted' = Wanted
    BY <1>1, SameWanted
  <2>10. ViewOf(CollectAnthropic(out \o pend))' = ViewOf(CollectAnthropic(events))
    BY <1>1, <2>7, Zenon
  <2>11. QED
    BY <1>1, <1>2, <1>4, <2>3, <2>8, <2>9, <2>10 DEF ContentInv
<1>5. QED
  BY <1>3, <1>4

LEMMA CollectContent ==
  ASSUME EventsInv, ContentInv, Collect
  PROVE  ContentInv'
<1> DEFINE whole == Len(Synthetic(UpstreamMessage))
<1>1. PICK k \in 0 .. whole :
        /\ pc = "body" /\ Decoder \notin {"translate", "pass", "closed"} /\ out' = out
        /\ cut' = (k # whole)
        /\ \/ pend' = Synthetic(Decoded(k)) /\ pc' = "last" /\ reply' = reply /\ req.stream
           \/ /\ pc' = "done"
              /\ reply' \in {Reply("message", Decoded(k)), Reply("chat", ToOpenAI(Decoded(k))),
                             Reply("chatStream", ToOpenAIChunks(Decoded(k))),
                             Reply("unmarshalled", <<>>), Reply("blocked", <<>>)}
        /\ req' = req /\ up' = up /\ pieces' = pieces
  BY Zenon DEF Collect, Done
<1> DEFINE m == Decoded(k)
<1>2. out = <<>>
  BY <1>1 DEF EventsInv
<1>3. Readable(m)
  BY <1>1, DecodedReadable
<1>4. ~cut' => /\ ViewOf(m) = Wanted /\ Worded(m.content) /\ Typed(m.content)
               /\ Decoder # "response" => Argued(m.content)
  BY <1>1, DecodedView, Zenon
<1>5. Wanted' = Wanted
  BY <1>1, SameWanted
<1> HIDE DEF m
<1>6. CASE pend' = Synthetic(m) /\ pc' = "last" /\ reply' = reply /\ req.stream
  <2>1. reply'.kind = "none" /\ ~Delivered'
    BY <1>1, <1>6, StillUnseen
  <2>2. ASSUME ~cut' PROVE ViewOf(CollectAnthropic(out \o pend))' = Wanted'
    <3>1. Decoder # "response"
      BY <1>1, <1>6 DEF Decoder, EventsInv, TypeOK
    <3>2. /\ ViewOf(m) = Wanted /\ Sequence(m.content) /\ Worded(m.content) /\ Typed(m.content)
          /\ Argued(m.content)
      BY <1>3, <1>4, <2>2, <3>1 DEF Readable
    <3>3. ViewOf(CollectAnthropic(Synthetic(m))) = Wanted
      BY <3>2, SyntheticView
    <3>4. Good(Synthetic(m))
      BY <1>3, SyntheticGood DEF Readable
    <3>5. out' \o pend' = Synthetic(m)
      BY <1>1, <1>2, <1>6, <3>4, NothingJoined DEF Good
    <3>6. QED
      BY <1>5, <3>3, <3>5
  <2>3. QED
    BY <1>6, <2>1, <2>2 DEF ContentInv
<1>7. CASE /\ pc' = "done"
           /\ reply' \in {Reply("message", m), Reply("chat", ToOpenAI(m)),
                          Reply("chatStream", ToOpenAIChunks(m)),
                          Reply("unmarshalled", <<>>), Reply("blocked", <<>>)}
  <2>1. ASSUME Delivered', ~cut' PROVE View' = Wanted'
    <3> DEFINE w == ToOpenAIChunks(m)
    <3>1. ViewOf(m) = Wanted /\ Sequence(m.content) /\ Worded(m.content) /\ Typed(m.content)
      BY <1>3, <1>4, <2>1 DEF Readable
    <3>2. /\ ToOpenAI(m).text = Texts(m.content)
          /\ CallsIn(Range(ToOpenAI(m).calls)) = CallsMade(m.content)
          /\ FlattenSeq([n \in DOMAIN w |-> ChatTextIn(w[n])]) = Texts(m.content)
          /\ CallsIn({c \in Range(w) : c.kind = "call"}) = CallsMade(m.content)
      BY <3>1, ChatViews, Zenon
    <3>3. ViewOf(m) = [text |-> Texts(m.content), calls |-> CallsMade(m.content)]
      BY DEF ViewOf, CallsMade
    <3> HIDE DEF w
    <3>4. View' = ViewOf(m)
      <4>1. CASE reply' = Reply("message", m)
        BY <4>1 DEF View, Reply
      <4>2. CASE reply' = Reply("chat", ToOpenAI(m))
        BY <3>2, <3>3, <4>2 DEF View, Reply
      <4>3. CASE reply' = Reply("chatStream", w)
        BY <3>2, <3>3, <4>3 DEF View, Reply, ChatCalls
      <4>4. CASE reply' \in {Reply("unmarshalled", <<>>), Reply("blocked", <<>>)}
        BY <2>1, <4>4 DEF Delivered, Reply
      <4>5. QED
        BY <1>7, <4>1, <4>2, <4>3, <4>4 DEF w
    <3>5. QED
      BY <1>5, <3>1, <3>4
  <2>2. QED
    BY <1>7, <2>1 DEF ContentInv
<1>8. QED
  BY <1>1, <1>6, <1>7 DEF m

LEMMA ContentNext == EventsInv /\ ContentInv /\ [Next]_vars => ContentInv'
<1> SUFFICES ASSUME EventsInv, ContentInv, [Next]_vars PROVE ContentInv'
  OBVIOUS
<1>1. CASE Call
  <2>1. pc = "call" /\ pieces' = <<>> /\ tr' = NewTranslator /\ pc' = "body" /\ reply' = reply
    BY <1>1 DEF Call
  <2>2. Rendered(tr', pieces')
    BY <2>1, NewRendered
  <2>3. QED
    BY <2>1, <2>2, StillUnseen DEF ContentInv
<1>2. CASE Receive
  <2>1. PICK c \in Offers :
          /\ pc = "body" /\ pieces' = Append(pieces, c) /\ pc' = pc /\ Follows(c)
          /\ Decoder = "translate" => tr' = Chunk(Start(tr), c)
          /\ req' = req /\ up' = up /\ reply' = reply
    BY <1>2, Zenon DEF Receive
  <2>2. Decoder' = Decoder
    BY <2>1 DEF Decoder
  <2>3. ASSUME Decoder = "translate" PROVE Rendered(tr', pieces')
    <3>1. Translating(tr) /\ Sequence(pieces) /\ Rendered(tr, pieces)
      BY <2>1, <2>3 DEF EventsInv, ContentInv
    <3>2. Translating(Start(tr)) /\ Start(tr).started /\ Rendered(Start(tr), pieces)
      BY <3>1, Starts, StartRendered
    <3>3. Chunks(c)
      BY DEF Offers, Chunks, Text, Finish, Usage, Tool
    <3>4. c.kind = "tool" => (c.head <=> c.i \notin CallsOf(pieces))
      BY <2>1 DEF Follows
    <3>5. Rendered(Chunk(Start(tr), c), Append(pieces, c))
      BY <3>1, <3>2, <3>3, <3>4, ChunkRendered
    <3>6. QED
      BY <2>1, <2>3, <3>5
  <2>4. QED
    BY <2>1, <2>2, <2>3, StillUnseen DEF ContentInv
<1>3. CASE Write
  <2>1. /\ pend # <<>> /\ out' = Append(out, Head(pend)) /\ pend' = Tail(pend)
        /\ req' = req /\ up' = up /\ pieces' = pieces /\ tr' = tr /\ pc' = pc /\ cut' = cut
        /\ reply' = reply
    BY <1>3 DEF Write
  <2>2. out' \o pend' = out \o pend
    BY <2>1, NextEvent DEF EventsInv
  <2>3. Decoder' = Decoder /\ Wanted' = Wanted
    BY <2>1, SameWanted
  <2>4. ViewOf(CollectAnthropic(out \o pend))' = ViewOf(CollectAnthropic(out \o pend))
    BY <2>2
  <2>5. pc # "done"
    BY <2>1 DEF EventsInv, TypeOK
  <2>6. QED
    BY <2>1, <2>3, <2>4, <2>5, StillUnseen DEF ContentInv
<1>4. CASE GiveUp
  <2>1. pc' = "done" /\ reply'.kind = "exhausted"
    BY <1>4 DEF GiveUp, Done, Reply
  <2>2. QED
    BY <2>1 DEF ContentInv, Delivered
<1>5. CASE Fail
  <2>1. \/ pc' = "done" /\ reply'.kind = "broken"
        \/ pc = "body" /\ pc' = "failed" /\ reply' = reply
    BY <1>5 DEF Fail, Done, Reply
  <2>2. CASE pc' = "done" /\ reply'.kind = "broken"
    BY <2>2 DEF ContentInv, Delivered
  <2>3. CASE pc = "body" /\ pc' = "failed" /\ reply' = reply
    BY <2>3, StillUnseen DEF ContentInv
  <2>4. QED
    BY <2>1, <2>2, <2>3
<1>6. CASE Retry
  <2>1. pc = "failed" /\ pc' = "call" /\ reply' = reply
    BY <1>6 DEF Retry
  <2>2. QED
    BY <2>1, StillUnseen DEF ContentInv
<1>7. CASE Return
  <2>1. /\ pc = "last" /\ pend = <<>> /\ pc' = "done" /\ reply' = Reply("stream", before \o out)
        /\ req' = req /\ up' = up /\ pieces' = pieces /\ cut' = cut /\ before' = before
    BY <1>7 DEF Return, Done
  <2>2. out \o pend = out /\ <<>> \o out = out
    BY <2>1, JoinedFew, NothingJoined DEF EventsInv
  <2>3. Wanted' = Wanted
    BY <2>1, SameWanted
  <2>4. before = <<>> => View' = ViewOf(CollectAnthropic(out))
    BY <2>1, <2>2 DEF View, Reply
  <2>5. ~cut' /\ before' = <<>> => View' = Wanted'
    BY <2>1, <2>2, <2>3, <2>4 DEF ContentInv
  <2>6. QED
    BY <2>1, <2>5 DEF ContentInv
<1>8. CASE UNCHANGED vars
  <2>1. /\ req' = req /\ up' = up /\ pieces' = pieces /\ tr' = tr /\ pc' = pc /\ cut' = cut
        /\ reply' = reply /\ out' = out /\ pend' = pend /\ before' = before
    BY <1>8 DEF vars
  <2>2. Decoder' = Decoder /\ Wanted' = Wanted
    BY <2>1, SameWanted
  <2>3. View' = View /\ Delivered' = Delivered
    BY <2>1 DEF View, Delivered, ChatCalls
  <2>4. QED
    BY <2>1, <2>2, <2>3 DEF ContentInv
<1>9. QED
  BY <1>1, <1>2, <1>3, <1>4, <1>5, <1>6, <1>7, <1>8, EndContent, PassContent, CollectContent
  DEF Next

(***************************************************************************)
(* Whatever decoder reads a complete body, and in whatever order texts and *)
(* the deltas of calls interleave, the client sees the upstream's text,    *)
(* and each call with its own name and arguments; the exception is that of *)
(* ContentKept.                                                            *)
(***************************************************************************)
THEOREM ContentSame == Spec => []ContentKept
<1>1. Spec => []ContentInv
  BY EventsAlways, ContentInit, ContentNext, PTL DEF Spec
<1>2. QED
  BY <1>1, ContentSaid, PTL

===============================================================================
