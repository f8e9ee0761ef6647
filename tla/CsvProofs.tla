----------------------------- MODULE CsvProofs -----------------------------
(***************************************************************************)
(* Proofs about Csv: a table written with quotes, doubled quotes and any   *)
(* of the breaks is read back, whatever its characters, its size and the   *)
(* caps on rows and columns.                                               *)
(*                                                                         *)
(* parseCsv runs over its text character by character.  Texts are taken    *)
(* apart by the order of their lengths: InductText says that a set that    *)
(* holds the empty text, and with each text every one a character longer,  *)
(* holds all texts.                                                        *)
(***************************************************************************)
EXTENDS Csv, SequenceTheorems, WellFoundedInduction, TLAPS

----------------------------------------------------------------------------
(* Induction over numbers and over sequences.                              *)

\* A set of numbers that is not empty has a least one.
LEMMA LeastExists ==
  ASSUME NEW T, T \subseteq Nat, T # {}
  PROVE  \E x \in T : \A y \in T : x <= y
<1>1. IsWellFoundedOn(OpToRel(<, Nat), Nat)
  BY NatLessThanWellFounded
<1>2. PICK x \in T : \A y \in T : ~(<<y, x>> \in OpToRel(<, Nat))
  BY <1>1, WFMin
<1>3. \A y \in T : ~(y < x)
  BY <1>2 DEF OpToRel
<1> QED BY <1>3

\* A set of numbers that holds 0, and the next of each it holds, holds all.
LEMMA Induct ==
  ASSUME NEW G \in SUBSET Nat, 0 \in G, \A n \in G : n + 1 \in G
  PROVE  \A n \in Nat : n \in G
<1> SUFFICES ASSUME Nat \ G # {} PROVE FALSE
  OBVIOUS
<1>1. PICK m \in Nat \ G : \A k \in Nat \ G : m <= k
  BY LeastExists
<1>2. m # 0 /\ m - 1 \in Nat /\ m - 1 \in G
  BY <1>1
<1>3. (m - 1) + 1 = m
  BY <1>1
<1> QED BY <1>1, <1>2, <1>3

\* The same for texts: a set of them that holds the empty one, and with each
\* text every one longer by a character, holds all.
LEMMA InductText ==
  ASSUME NEW C, NEW G \in SUBSET Seq(C), <<>> \in G,
         \A t \in G : \A ch \in C : Append(t, ch) \in G
  PROVE  \A t \in Seq(C) : t \in G
<1> DEFINE N == {n \in Nat : \A t \in Seq(C) : Len(t) = n => t \in G}
<1>1. 0 \in N
  BY EmptySeq
<1>2. ASSUME NEW n \in N PROVE n + 1 \in N
  <2> SUFFICES ASSUME NEW w \in Seq(C), Len(w) = n + 1 PROVE w \in G
    OBVIOUS
  <2>1. n \in Nat /\ w # <<>>
    BY EmptySeq
  <2>2. PICK t \in Seq(C), ch \in C : w = Append(t, ch)
    BY <2>1, SequenceEmptyOrAppend
  <2>3. Len(w) = Len(t) + 1 /\ Len(t) \in Nat
    BY <2>2, AppendProperties
  <2> QED BY <2>1, <2>2, <2>3
<1> SUFFICES ASSUME NEW t \in Seq(C) PROVE t \in G
  OBVIOUS
<1>3. Len(t) \in N
  <2>1. Len(t) \in Nat /\ N \in SUBSET Nat
    OBVIOUS
  <2> HIDE DEF N
  <2> QED BY <1>1, <1>2, <2>1, Induct
<1> QED BY <1>3

----------------------------------------------------------------------------
(* The loop, over a text in parts.                                         *)

\* The character after the i-th.
Following(text, after, i) == IF i < Len(text) THEN text[i + 1] ELSE after

\* The states of the loop, one per character read.
Running(run, s, text, after, delimiter, n) ==
    run = [i \in 0..n |-> IF i = 0 THEN s ELSE
             Step(run[i - 1], text[i], Following(text, after, i), delimiter)]

\* There is such a run of any length.
LEMMA RunExists ==
  ASSUME NEW s, NEW text, NEW after, NEW delimiter, NEW n \in Nat
  PROVE  \E run : Running(run, s, text, after, delimiter, n)
<1> DEFINE Run(m, run) == Running(run, s, text, after, delimiter, m)
<1> DEFINE G == {m \in Nat : \E run : Run(m, run)}
<1>1. 0 \in G
  <2> DEFINE r == [i \in 0..0 |-> s]
  <2>1. Run(0, r)
    BY DEF Running
  <2> QED BY <2>1
<1>2. ASSUME NEW m \in G PROVE m + 1 \in G
  <2>1. PICK run : Run(m, run)
    OBVIOUS
  <2> DEFINE r == [i \in 0..(m+1) |-> IF i <= m THEN run[i] ELSE
             Step(run[i - 1], text[i], Following(text, after, i), delimiter)]
  <2>2. m \in Nat
    OBVIOUS
  <2>3. ASSUME NEW i \in 0..(m+1) PROVE r[i] = IF i = 0 THEN s ELSE
             Step(r[i - 1], text[i], Following(text, after, i), delimiter)
    <3>1. CASE i = 0
      BY <3>1, <2>1, <2>2 DEF Running
    <3>2. CASE i # 0 /\ i <= m
      <4>1. i \in 0..m /\ i - 1 \in 0..(m+1) /\ i - 1 <= m
        BY <3>2, <2>2
      <4> QED BY <4>1, <3>2, <2>1 DEF Running
    <3>3. CASE i = m + 1
      <4>1. i - 1 \in 0..(m+1) /\ i - 1 <= m /\ ~(i <= m) /\ i # 0
        BY <3>3, <2>2
      <4> QED BY <4>1
    <3> QED BY <2>2, <3>1, <3>2, <3>3
  <2>4. r = [i \in 0..(m+1) |-> r[i]]
    OBVIOUS
  <2> HIDE DEF r
  <2>5. Run(m + 1, r)
    BY <2>3, <2>4 DEF Running
  <2> QED BY <2>5, <2>2
<1> HIDE DEF G
<1>3. n \in G
  BY <1>1, <1>2, Induct DEF G
<1> QED BY <1>3 DEF G

\* A run, and that Feed ends where it does.
FedBy(run, s, text, after, delimiter) ==
    /\ run[0] = s
    /\ \A i \in 1..Len(text) :
           run[i] = Step(run[i - 1], text[i], Following(text, after, i), delimiter)
    /\ Feed(s, text, after, delimiter) = run[Len(text)]

\* Feed ends where the run over its text ends.
LEMMA FeedIsRun ==
  ASSUME NEW s, NEW text, Len(text) \in Nat, NEW after, NEW delimiter
  PROVE  \E run : FedBy(run, s, text, after, delimiter)
<1> DEFINE run == CHOOSE run : Running(run, s, text, after, delimiter, Len(text))
<1>1. \E r : Running(r, s, text, after, delimiter, Len(text))
  BY RunExists
<1>2. Running(run, s, text, after, delimiter, Len(text))
  BY <1>1
<1>3. Feed(s, text, after, delimiter) = run[Len(text)]
  BY DEF Feed, Following, Running
<1> HIDE DEF run
<1>4. run[0] = s
  BY <1>2 DEF Running
<1>5. ASSUME NEW i \in 1..Len(text) 
      PROVE run[i] = Step(run[i - 1], text[i], Following(text, after, i), delimiter)
  BY <1>2 DEF Running
<1> QED BY <1>3, <1>4, <1>5 DEF FedBy

\* No character, no step.
LEMMA FeedNothing ==
  ASSUME NEW s, NEW after, NEW delimiter
  PROVE  Feed(s, <<>>, after, delimiter) = s
<1>1. Len(<<>>) = 0
  OBVIOUS
<1>2. PICK run : FedBy(run, s, <<>>, after, delimiter)
  BY <1>1, FeedIsRun
<1> QED BY <1>1, <1>2 DEF FedBy

\* The last character read.
LEMMA FeedAppend ==
  ASSUME NEW s, NEW text, NEW C, text \in Seq(C), NEW ch \in C, NEW after, NEW delimiter
  PROVE  Feed(s, Append(text, ch), after, delimiter) =
             Step(Feed(s, text, ch, delimiter), ch, after, delimiter)
<1> DEFINE n == Len(text)
           more == Append(text, ch)
<1>1. n \in Nat /\ Len(more) = n + 1 /\ more[n + 1] = ch
      /\ \A i \in 1..n : more[i] = text[i]
  OBVIOUS
<1>2. PICK run : FedBy(run, s, text, ch, delimiter)
  BY <1>1, FeedIsRun
<1>3. /\ run[0] = s
      /\ \A i \in 1..n :
             run[i] = Step(run[i - 1], text[i], Following(text, ch, i), delimiter)
      /\ Feed(s, text, ch, delimiter) = run[n]
  BY <1>2 DEF FedBy
<1> HIDE DEF n, more
<1>4. PICK longer : FedBy(longer, s, more, after, delimiter)
  <2>1. Len(more) \in Nat
    BY <1>1
  <2> QED BY <2>1, FeedIsRun
<1>5. /\ longer[0] = s
      /\ \A i \in 1..Len(more) :
             longer[i] = Step(longer[i - 1], more[i], Following(more, after, i), delimiter)
      /\ Feed(s, more, after, delimiter) = longer[Len(more)]
  BY <1>4 DEF FedBy
<1>6. \A i \in 1..n : Following(more, after, i) = Following(text, ch, i)
  BY <1>1 DEF Following, n
<1>7. Following(more, after, n + 1) = after
  BY <1>1 DEF Following
<1> DEFINE G == {m \in Nat : m <= n => longer[m] = run[m]}
<1>8. 0 \in G
  BY <1>3, <1>5
<1>9. ASSUME NEW m \in G PROVE m + 1 \in G
  <2>1. CASE m + 1 <= n
    <3>1. m \in Nat /\ m + 1 \in 1..n /\ m + 1 \in 1..Len(more) /\ (m + 1) - 1 = m
      BY <1>1, <2>1
    <3>2. longer[m] = run[m] /\ more[m + 1] = text[m + 1]
      BY <1>1, <2>1, <3>1
    <3>3. longer[m + 1] = Step(longer[m], more[m + 1], Following(more, after, m + 1), delimiter)
      BY <1>5, <3>1
    <3>4. run[m + 1] = Step(run[m], text[m + 1], Following(text, ch, m + 1), delimiter)
      BY <1>3, <3>1
    <3> QED BY <1>6, <3>1, <3>2, <3>3, <3>4
  <2> QED BY <2>1
<1> HIDE DEF G
<1>10. n \in G
  BY <1>1, <1>8, <1>9, Induct DEF G
<1>11. longer[n] = run[n]
  BY <1>1, <1>10 DEF G
<1>12. longer[n + 1] = Step(longer[n], ch, after, delimiter)
  <2>1. n + 1 \in 1..Len(more) /\ (n + 1) - 1 = n
    BY <1>1
  <2> QED BY <1>1, <1>5, <1>7, <2>1
<1> QED BY <1>1, <1>3, <1>5, <1>11, <1>12, Zenon DEF more

----------------------------------------------------------------------------
(* Joined sequences.                                                       *)

\* What Join has written, one part after another.
Joining(joined, seqs, sep, n) ==
    joined = [i \in 0..n |-> IF i <= 1 THEN IF i = 0 THEN <<>> ELSE seqs[1]
                             ELSE joined[i - 1] \o sep \o seqs[i]]

\* There is such a sequence of any length.
LEMMA JoiningExists ==
  ASSUME NEW seqs, NEW sep, NEW n \in Nat
  PROVE  \E joined : Joining(joined, seqs, sep, n)
<1> DEFINE G == {m \in Nat : \E joined : Joining(joined, seqs, sep, m)}
<1>1. 0 \in G
  <2> DEFINE r == [i \in 0..0 |-> <<>>]
  <2>1. Joining(r, seqs, sep, 0)
    BY DEF Joining
  <2> QED BY <2>1
<1>2. ASSUME NEW m \in G PROVE m + 1 \in G
  <2>1. PICK joined : Joining(joined, seqs, sep, m)
    OBVIOUS
  <2> DEFINE r == [i \in 0..(m+1) |-> IF i <= m THEN joined[i] ELSE
                      IF i = 1 THEN seqs[1] ELSE joined[i - 1] \o sep \o seqs[i]]
  <2>2. m \in Nat
    OBVIOUS
  <2>3. ASSUME NEW i \in 0..(m+1)
        PROVE r[i] = IF i <= 1 THEN IF i = 0 THEN <<>> ELSE seqs[1]
                     ELSE r[i - 1] \o sep \o seqs[i]
    <3>1. CASE i <= 1 /\ i <= m
      BY <3>1, <2>1, <2>2 DEF Joining
    <3>2. CASE i > 1 /\ i <= m
      <4>1. i \in 0..m /\ i - 1 \in 0..(m+1) /\ i - 1 <= m
        BY <3>2, <2>2
      <4> QED BY <4>1, <3>2, <2>1 DEF Joining
    <3>3. CASE i = m + 1
      <4>1. i - 1 \in 0..(m+1) /\ i - 1 <= m /\ ~(i <= m) /\ i # 0
        BY <3>3, <2>2
      <4> QED BY <4>1
    <3> QED BY <2>2, <3>1, <3>2, <3>3
  <2>4. r = [i \in 0..(m+1) |-> r[i]]
    OBVIOUS
  <2> HIDE DEF r
  <2>5. Joining(r, seqs, sep, m + 1)
    BY <2>3, <2>4 DEF Joining
  <2> QED BY <2>5, <2>2
<1> HIDE DEF G
<1>3. n \in G
  BY <1>1, <1>2, Induct DEF G
<1> QED BY <1>3 DEF G

\* Such a sequence, and that Join is its last.
JoinedBy(joined, seqs, sep) ==
    /\ joined[0] = <<>>
    /\ Len(seqs) >= 1 => joined[1] = seqs[1]
    /\ \A i \in 2..Len(seqs) : joined[i] = joined[i - 1] \o sep \o seqs[i]
    /\ Join(seqs, sep) = joined[Len(seqs)]

\* Join is the last of them.
LEMMA JoinIsJoining ==
  ASSUME NEW seqs, Len(seqs) \in Nat, NEW sep
  PROVE  \E joined : JoinedBy(joined, seqs, sep)
<1> DEFINE joined == CHOOSE joined : Joining(joined, seqs, sep, Len(seqs))
<1>1. \E r : Joining(r, seqs, sep, Len(seqs))
  BY JoiningExists
<1>2. Joining(joined, seqs, sep, Len(seqs))
  BY <1>1
<1>3. Join(seqs, sep) = joined[Len(seqs)]
  BY DEF Join, Joining
<1> HIDE DEF joined
<1>4. joined[0] = <<>> /\ (Len(seqs) >= 1 => joined[1] = seqs[1])
  BY <1>2 DEF Joining
<1>5. ASSUME NEW i \in 2..Len(seqs)
      PROVE joined[i] = joined[i - 1] \o sep \o seqs[i]
  <2>1. i \in 0..Len(seqs) /\ ~(i <= 1)
    OBVIOUS
  <2> QED BY <1>2, <2>1, Zenon DEF Joining
<1> QED BY <1>3, <1>4, <1>5 DEF JoinedBy

\* Nothing is joined, or one part.
LEMMA JoinFirst ==
  ASSUME NEW seqs, NEW sep
  PROVE  /\ Len(seqs) = 0 => Join(seqs, sep) = <<>>
         /\ Len(seqs) = 1 => Join(seqs, sep) = seqs[1]
<1> SUFFICES ASSUME Len(seqs) \in {0, 1}
             PROVE  Join(seqs, sep) = IF Len(seqs) = 0 THEN <<>> ELSE seqs[1]
  OBVIOUS
<1>1. Len(seqs) \in Nat
  OBVIOUS
<1>2. PICK joined : JoinedBy(joined, seqs, sep)
  BY <1>1, JoinIsJoining
<1> QED BY <1>2 DEF JoinedBy

\* One part more comes after a separator.
LEMMA JoinAppend ==
  ASSUME NEW X, NEW seqs \in Seq(X), seqs # <<>>, NEW x \in X, NEW sep
  PROVE  Join(Append(seqs, x), sep) = Join(seqs, sep) \o sep \o x
<1> DEFINE n == Len(seqs)
           more == Append(seqs, x)
<1>1. n \in Nat \ {0} /\ Len(more) = n + 1 /\ more[n + 1] = x
      /\ \A i \in 1..n : more[i] = seqs[i]
  BY EmptySeq
<1>2. PICK short : JoinedBy(short, seqs, sep)
  BY <1>1, JoinIsJoining
<1>3. /\ short[1] = seqs[1]
      /\ \A i \in 2..n : short[i] = short[i - 1] \o sep \o seqs[i]
      /\ Join(seqs, sep) = short[n]
  <2>1. Len(seqs) >= 1
    BY <1>1
  <2> QED BY <1>2, <2>1, Zenon DEF JoinedBy
<1> HIDE DEF n, more
<1>4. PICK long : JoinedBy(long, more, sep)
  <2>1. Len(more) \in Nat
    BY <1>1
  <2> QED BY <2>1, JoinIsJoining
<1>5. /\ long[1] = more[1]
      /\ \A i \in 2..Len(more) : long[i] = long[i - 1] \o sep \o more[i]
      /\ Join(more, sep) = long[Len(more)]
  <2>1. Len(more) >= 1
    BY <1>1
  <2> QED BY <1>4, <2>1, Zenon DEF JoinedBy
<1> DEFINE G == {m \in Nat : m + 1 <= n => long[m + 1] = short[m + 1]}
<1>6. 0 \in G
  BY <1>1, <1>3, <1>5
<1>7. ASSUME NEW m \in G PROVE m + 1 \in G
  <2>1. CASE m + 2 <= n
    <3>1. m \in Nat /\ m + 2 \in 2..n /\ m + 2 \in 2..Len(more) /\ (m + 2) - 1 = m + 1
          /\ (m + 1) + 1 = m + 2 /\ m + 2 \in 1..n
      BY <1>1, <2>1
    <3>2. long[m + 1] = short[m + 1] /\ more[m + 2] = seqs[m + 2]
      BY <1>1, <2>1, <3>1
    <3>3. long[m + 2] = long[m + 1] \o sep \o more[m + 2]
      BY <1>5, <3>1
    <3>4. short[m + 2] = short[m + 1] \o sep \o seqs[m + 2]
      BY <1>3, <3>1
    <3>5. long[m + 2] = short[m + 2]
      BY <3>2, <3>3, <3>4, Zenon
    <3> QED BY <3>1, <3>5
  <2>2. CASE ~(m + 2 <= n)
    BY <1>1, <2>2
  <2> QED BY <2>1, <2>2
<1> HIDE DEF G
<1>8. n - 1 \in G
  <2>1. n - 1 \in Nat
    BY <1>1
  <2> QED BY <2>1, <1>6, <1>7, Induct DEF G
<1>9. long[n] = short[n]
  <2>1. (n - 1) + 1 = n /\ n <= n
    BY <1>1
  <2> QED BY <2>1, <1>8 DEF G
<1>10. long[n + 1] = long[n] \o sep \o x
  <2>1. n + 1 \in 2..Len(more) /\ (n + 1) - 1 = n
    BY <1>1
  <2> QED BY <1>1, <1>5, <2>1
<1> QED BY <1>1, <1>3, <1>5, <1>9, <1>10, Zenon DEF more

\* Joined texts are a text.
LEMMA JoinIsText ==
  ASSUME NEW C, NEW seqs \in Seq(Seq(C)), NEW sep \in Seq(C)
  PROVE  Join(seqs, sep) \in Seq(C)
<1> DEFINE G == {q \in Seq(Seq(C)) : Join(q, sep) \in Seq(C)}
<1>1. <<>> \in G
  <2>1. Len(<<>>) = 0 /\ <<>> \in Seq(C) /\ <<>> \in Seq(Seq(C))
    OBVIOUS
  <2>2. Join(<<>>, sep) = <<>>
    BY <2>1, JoinFirst
  <2> QED BY <2>1, <2>2
<1>2. ASSUME NEW p \in G, NEW x \in Seq(C) PROVE Append(p, x) \in G
  <2>1. CASE p = <<>>
    <3>1. Len(Append(p, x)) = 1 /\ Append(p, x)[1] = x
      BY <2>1
    <3>2. Join(Append(p, x), sep) = x
      BY <3>1, JoinFirst
    <3>3. Append(p, x) \in Seq(Seq(C))
      BY AppendProperties
    <3> QED BY <3>2, <3>3
  <2>2. CASE p # <<>>
    <3>1. Join(Append(p, x), sep) = Join(p, sep) \o sep \o x
      BY <2>2, JoinAppend
    <3>2. Join(p, sep) \in Seq(C) /\ Append(p, x) \in Seq(Seq(C))
      BY AppendProperties
    <3>3. Join(p, sep) \o sep \o x \in Seq(C)
      BY <3>2, ConcatProperties
    <3> QED BY <3>1, <3>2, <3>3
  <2> QED BY <2>1, <2>2
<1>3. G \in SUBSET Seq(Seq(C))
  OBVIOUS
<1> HIDE DEF G
<1>4. seqs \in G
  BY <1>1, <1>2, <1>3, InductText
<1> QED BY <1>4 DEF G

----------------------------------------------------------------------------
(* A text in two parts, and a parse that has stopped.                      *)

\* The character after a text is the first of what follows.
First(text, after) == IF text = <<>> THEN after ELSE text[1]

\* One character more leaves the first as it is, and is the first after
\* nothing.
LEMMA FirstAppend ==
  ASSUME NEW C, NEW text \in Seq(C), NEW ch \in C, NEW after
  PROVE  First(Append(text, ch), after) = First(text, ch)
<1>1. CASE text = <<>>
  BY <1>1 DEF First
<1>2. CASE text # <<>>
  <2>1. Append(text, ch) # <<>> /\ 1 \in 1..Len(text)
    BY <1>2, AppendProperties, EmptySeq
  <2>2. Append(text, ch)[1] = text[1]
    BY <2>1, AppendProperties
  <2> QED BY <1>2, <2>1, <2>2 DEF First
<1> QED BY <1>1, <1>2

\* The first of two texts.
LEMMA FirstConcat ==
  ASSUME NEW C, NEW t \in Seq(C), NEW u \in Seq(C), NEW after
  PROVE  First(t \o u, after) = First(t, First(u, after))
<1>1. CASE t = <<>>
  <2>1. t \o u = u
    BY <1>1, ConcatEmptySeq
  <2> QED BY <1>1, <2>1 DEF First
<1>2. CASE t # <<>>
  <2>1. Len(t) \in Nat \ {0}
    BY <1>2, EmptySeq
  <2>2. t \o u # <<>>
    BY <1>2, ConcatEqualIffEmpty
  <2>3. (t \o u)[1] = t[1]
    <3>1. 1 \in 1..(Len(t) + Len(u)) /\ 1 <= Len(t)
      BY <2>1
    <3> QED BY <3>1, ConcatProperties
  <2> QED BY <1>2, <2>2, <2>3 DEF First
<1> QED BY <1>1, <1>2

\* A character at the end of the second of two texts is at the end of both.
LEMMA ConcatAppend ==
  ASSUME NEW C, NEW t \in Seq(C), NEW u \in Seq(C), NEW ch \in C
  PROVE  t \o Append(u, ch) = Append(t \o u, ch)
<1>1. t \o u \in Seq(C) /\ <<ch>> \in Seq(C)
  BY ConcatProperties
<1>2. Append(u, ch) = u \o <<ch>> /\ Append(t \o u, ch) = (t \o u) \o <<ch>>
  BY <1>1, AppendIsConcat
<1>3. (t \o u) \o <<ch>> = t \o (u \o <<ch>>)
  BY <1>1, ConcatAssociative
<1> QED BY <1>2, <1>3

\* Two texts are read one after the other; the first is followed by the
\* second.
LEMMA FeedConcat ==
  ASSUME NEW s, NEW C, NEW t \in Seq(C), NEW u \in Seq(C), NEW after, NEW delimiter
  PROVE  Feed(s, t \o u, after, delimiter) =
             Feed(Feed(s, t, First(u, after), delimiter), u, after, delimiter)
<1> DEFINE P(v, a) == Feed(s, t \o v, a, delimiter) =
                        Feed(Feed(s, t, First(v, a), delimiter), v, a, delimiter)
           G == {v \in Seq(C) : \A a : P(v, a)}
<1>1. <<>> \in G
  <2>1. t \o <<>> = t /\ <<>> \in Seq(C)
    BY ConcatEmptySeq
  <2>2. \A a : First(<<>>, a) = a
    BY DEF First
  <2>3. \A a : Feed(Feed(s, t, a, delimiter), <<>>, a, delimiter) = Feed(s, t, a, delimiter)
    BY FeedNothing
  <2> QED BY <2>1, <2>2, <2>3
<1>2. ASSUME NEW v \in G, NEW ch \in C PROVE Append(v, ch) \in G
  <2> SUFFICES ASSUME NEW a PROVE P(Append(v, ch), a)
    OBVIOUS
  <2>1. P(v, ch) /\ v \in Seq(C)
    OBVIOUS
  <2> HIDE DEF G
  <2>2. t \o v \in Seq(C) /\ t \o Append(v, ch) = Append(t \o v, ch)
    BY <2>1, ConcatAppend, ConcatProperties
  <2>3. Feed(s, Append(t \o v, ch), a, delimiter) =
            Step(Feed(s, t \o v, ch, delimiter), ch, a, delimiter)
    <3>1. \A x \in Seq(C) : Feed(s, Append(x, ch), a, delimiter) =
                              Step(Feed(s, x, ch, delimiter), ch, a, delimiter)
      BY FeedAppend
    <3> QED BY <2>2, <3>1, Zenon
  <2>4. First(Append(v, ch), a) = First(v, ch)
    BY <2>1, FirstAppend
  <2>5. Feed(Feed(s, t, First(v, ch), delimiter), Append(v, ch), a, delimiter) =
          Step(Feed(Feed(s, t, First(v, ch), delimiter), v, ch, delimiter), ch, a, delimiter)
    BY <2>1, FeedAppend
  <2> QED BY <2>1, <2>2, <2>3, <2>4, <2>5, Zenon
<1>3. G \in SUBSET Seq(C)
  OBVIOUS
<1> HIDE DEF G
<1>4. u \in G
  BY <1>1, <1>2, <1>3, InductText
<1> QED BY <1>4 DEF G

\* A text of one character is one step.
LEMMA FeedOne ==
  ASSUME NEW s, NEW C, NEW ch \in C, NEW after, NEW delimiter
  PROVE  Feed(s, <<ch>>, after, delimiter) = Step(s, ch, after, delimiter)
<1>1. <<>> \in Seq(C) /\ <<ch>> = Append(<<>>, ch)
  OBVIOUS
<1>2. Feed(s, <<>>, ch, delimiter) = s
  BY FeedNothing
<1>3. \A x \in Seq(C) : Feed(s, Append(x, ch), after, delimiter) =
                              Step(Feed(s, x, ch, delimiter), ch, after, delimiter)
  BY FeedAppend
<1> QED BY <1>1, <1>2, <1>3, Zenon

\* A parse that has stopped reads on without effect.
LEMMA FeedStopped ==
  ASSUME NEW s, s.stop, NEW C, NEW text \in Seq(C), NEW after, NEW delimiter
  PROVE  Feed(s, text, after, delimiter) = s
<1> DEFINE G == {v \in Seq(C) : \A a : Feed(s, v, a, delimiter) = s}
<1>1. <<>> \in G
  BY FeedNothing
<1>2. ASSUME NEW v \in G, NEW ch \in C PROVE Append(v, ch) \in G
  <2> SUFFICES ASSUME NEW a PROVE Feed(s, Append(v, ch), a, delimiter) = s
    OBVIOUS
  <2>1. Feed(s, v, ch, delimiter) = s /\ v \in Seq(C)
    OBVIOUS
  <2>2. Feed(s, Append(v, ch), a, delimiter) = Step(s, ch, a, delimiter)
    BY <2>1, FeedAppend
  <2> QED BY <2>2 DEF Step
<1>3. G \in SUBSET Seq(C)
  OBVIOUS
<1> HIDE DEF G
<1>4. text \in G
  BY <1>1, <1>2, <1>3, InductText
<1> QED BY <1>4 DEF G

----------------------------------------------------------------------------
(* One character, by where the loop stands.                                *)

\* The loop at work outside and inside quotes, with neither a character to
\* skip nor the end reached.
Outside(rows, row, field, truncated) ==
    [rows |-> rows, row |-> row, field |-> field, inQuotes |-> FALSE,
     truncated |-> truncated, skip |-> FALSE, stop |-> FALSE]

Inside(rows, row, field, truncated) ==
    [rows |-> rows, row |-> row, field |-> field, inQuotes |-> TRUE,
     truncated |-> truncated, skip |-> FALSE, stop |-> FALSE]

\* What may separate the fields of a row.
Delimits(delimiter) == delimiter \notin {"quote", "lf", "cr"}

\* Outside quotes a character that is not special is one of the field.
LEMMA StepPlain ==
  ASSUME NEW rows, NEW row, NEW field, NEW truncated, NEW after, NEW delimiter,
         NEW ch, ch \notin Special(delimiter)
  PROVE  Step(Outside(rows, row, field, truncated), ch, after, delimiter) =
             Outside(rows, row, Append(field, ch), truncated)
BY DEF Step, Plain, Take, Special, Outside

\* Inside quotes every character but the quote is.
LEMMA StepQuoted ==
  ASSUME NEW rows, NEW row, NEW field, NEW truncated, NEW after, NEW delimiter,
         NEW ch, ch # "quote"
  PROVE  Step(Inside(rows, row, field, truncated), ch, after, delimiter) =
             Inside(rows, row, Append(field, ch), truncated)
BY DEF Step, Quoted, Take, Inside

\* The same with a character to skip.
Skipping(rows, row, field, truncated) ==
    [rows |-> rows, row |-> row, field |-> field, inQuotes |-> TRUE,
     truncated |-> truncated, skip |-> TRUE, stop |-> FALSE]

\* A character skipped.
Unskip(s) == [s EXCEPT !.skip = FALSE]

\* The second of two quotes is passed over.
LEMMA Skipped ==
  ASSUME NEW rows, NEW row, NEW field, NEW truncated,
         NEW s, s = Skipping(rows, row, field, truncated),
         NEW t, t = Unskip(s)
  PROVE  t = Inside(rows, row, field, truncated)
BY DEF Inside, Skipping, Unskip

\* A doubled quote is one quote of the field.
LEMMA StepDoubled ==
  ASSUME NEW rows, NEW row, NEW field, NEW truncated, NEW after, NEW delimiter
  PROVE  Step(Step(Inside(rows, row, field, truncated), "quote", "quote", delimiter),
              "quote", after, delimiter) =
             Inside(rows, row, Append(field, "quote"), truncated)
<1> SUFFICES ASSUME NEW s, s = Inside(rows, row, field, truncated),
                    NEW t, t = Step(s, "quote", "quote", delimiter),
                    NEW u, u = Step(t, "quote", after, delimiter),
                    NEW f, f = Append(field, "quote")
             PROVE  u = Inside(rows, row, f, truncated)
  OBVIOUS
<1>1. Step(s, "quote", "quote", delimiter) = Quoted(s, "quote", "quote")
  BY DEF Step, Inside
<1>2. Quoted(s, "quote", "quote") = [Take(s, "quote") EXCEPT !.skip = TRUE]
  BY DEF Quoted
<1>3. t = Skipping(rows, row, f, truncated)
  BY <1>1, <1>2 DEF Take, Inside, Skipping
<1>4. u = Unskip(t)
  BY <1>3 DEF Step, Skipping, Unskip
<1> QED BY <1>3, <1>4, Skipped

\* A single quote opens a field at its start, and ends a quoted one.
LEMMA StepOpens ==
  ASSUME NEW rows, NEW row, NEW truncated, NEW after, NEW delimiter,
         Delimits(delimiter)
  PROVE  Step(Outside(rows, row, <<>>, truncated), "quote", after, delimiter) =
             Inside(rows, row, <<>>, truncated)
<1> SUFFICES ASSUME NEW s, s = Outside(rows, row, <<>>, truncated),
                    NEW t, t = Step(s, "quote", after, delimiter)
             PROVE  t = Inside(rows, row, <<>>, truncated)
  OBVIOUS
<1>1. t = [s EXCEPT !.inQuotes = TRUE]
  BY DEF Step, Plain, Outside, Delimits
<1> QED BY <1>1 DEF Outside, Inside

\* A quote that another does not follow ends the quotes.
LEMMA StepCloses ==
  ASSUME NEW rows, NEW row, NEW field, NEW truncated, NEW after, NEW delimiter,
         after # "quote"
  PROVE  Step(Inside(rows, row, field, truncated), "quote", after, delimiter) =
             Outside(rows, row, field, truncated)
<1> SUFFICES ASSUME NEW s, s = Inside(rows, row, field, truncated),
                    NEW t, t = Step(s, "quote", after, delimiter)
             PROVE  t = Outside(rows, row, field, truncated)
  OBVIOUS
<1>1. t = [s EXCEPT !.inQuotes = FALSE]
  BY DEF Step, Quoted, Inside
<1> QED BY <1>1 DEF Outside, Inside

\* The row has room for a field more, as pushField sees it.
HasRoom(row) == Len(row) < MaxCols

\* Whether something was left out, once a field more has come.
CutIs(cut, row, truncated) == cut = (IF HasRoom(row) THEN truncated ELSE TRUE)

\* The row once a field more has come.
Pushed(row, field) == IF HasRoom(row) THEN Append(row, field) ELSE row

\* pushField takes the field, or says that the row is too wide.
LEMMA PushField ==
  ASSUME NEW rows, NEW row, NEW field, NEW truncated, NEW cut, CutIs(cut, row, truncated)
  PROVE  pushField(Outside(rows, row, field, truncated)) =
             Outside(rows, Pushed(row, field), <<>>, cut)
<1> SUFFICES ASSUME NEW s, s = Outside(rows, row, field, truncated),
                    NEW t, t = pushField(s)
             PROVE  t = Outside(rows, Pushed(row, field), <<>>, cut)
  OBVIOUS
<1>1. CASE HasRoom(row)
  BY <1>1 DEF pushField, Outside, HasRoom, CutIs, Pushed
<1>2. CASE ~HasRoom(row)
  BY <1>2 DEF pushField, Outside, HasRoom, CutIs, Pushed
<1> QED BY <1>1, <1>2

\* A delimiter ends the field.
LEMMA StepDelimiter ==
  ASSUME NEW rows, NEW row, NEW field, NEW truncated, NEW after, NEW delimiter,
         Delimits(delimiter), NEW cut, CutIs(cut, row, truncated)
  PROVE  Step(Outside(rows, row, field, truncated), delimiter, after, delimiter) =
             Outside(rows, Pushed(row, field), <<>>, cut)
<1>1. Step(Outside(rows, row, field, truncated), delimiter, after, delimiter) =
          pushField(Outside(rows, row, field, truncated))
  BY DEF Step, Plain, Outside, Delimits
<1> QED BY <1>1, PushField

\* A sequence that is another and one element more.
LEMMA IsAppend ==
  ASSUME NEW D, NEW longer \in Seq(D), NEW shorter \in Seq(D), NEW last \in D,
         Len(longer) = Len(shorter) + 1, longer[Len(shorter) + 1] = last,
         \A i \in 1..Len(shorter) : longer[i] = shorter[i]
  PROVE  longer = Append(shorter, last)
<1>1. /\ Append(shorter, last) \in Seq(D)
      /\ Len(Append(shorter, last)) = Len(shorter) + 1
      /\ \A i \in 1..Len(shorter) : Append(shorter, last)[i] = shorter[i]
      /\ Append(shorter, last)[Len(shorter) + 1] = last
  BY AppendProperties
<1>2. ASSUME NEW i \in 1..Len(longer) PROVE longer[i] = Append(shorter, last)[i]
  <2>1. Len(shorter) \in Nat /\ (i \in 1..Len(shorter) \/ i = Len(shorter) + 1)
    OBVIOUS
  <2> QED BY <1>1, <2>1
<1> QED BY <1>1, <1>2, SeqEqual

\* Doubled quotes, character by character.
LEMMA DoubledText ==
  ASSUME NEW C, "quote" \in C
  PROVE  /\ Doubled(<<>>) = <<>>
         /\ \A ch \in C : Escaped(ch) \in Seq(C) /\ Escaped(ch) # <<>>
         /\ \A t \in Seq(C) : /\ Doubled(t) \in Seq(C)
                              /\ \A ch \in C : Doubled(Append(t, ch)) = Doubled(t) \o Escaped(ch)
<1> DEFINE parts(t) == [i \in 1..Len(t) |-> Escaped(t[i])]
<1>1. ASSUME NEW ch \in C PROVE Escaped(ch) \in Seq(C) /\ Escaped(ch) # <<>>
  BY DEF Escaped
<1>2. ASSUME NEW t \in Seq(C) PROVE parts(t) \in Seq(Seq(C)) /\ Len(parts(t)) = Len(t)
  <2>1. \A i \in 1..Len(t) : Escaped(t[i]) \in Seq(C)
    BY <1>1, ElementOfSeq
  <2>2. Len(t) \in Nat
    OBVIOUS
  <2> QED BY <2>1, <2>2
<1>3. ASSUME NEW t \in Seq(C) PROVE Doubled(t) = Join(parts(t), <<>>)
  BY DEF Doubled
<1>4. Doubled(<<>>) = <<>>
  <2>1. <<>> \in Seq(C) /\ Len(<<>>) = 0
    OBVIOUS
  <2>2. Len(parts(<<>>)) = 0
    BY <2>1, <1>2
  <2> HIDE DEF parts
  <2> QED BY <2>1, <2>2, <1>3, JoinFirst
<1>5. ASSUME NEW t \in Seq(C) PROVE Doubled(t) \in Seq(C)
  <2>1. <<>> \in Seq(C)
    OBVIOUS
  <2> HIDE DEF parts
  <2> QED BY <1>2, <1>3, <2>1, JoinIsText
<1>6. ASSUME NEW t \in Seq(C), NEW ch \in C
      PROVE Doubled(Append(t, ch)) = Doubled(t) \o Escaped(ch)
  <2>1. /\ Append(t, ch) \in Seq(C)
        /\ Len(Append(t, ch)) = Len(t) + 1 /\ Len(t) \in Nat
        /\ \A i \in 1.. Len(t) : Append(t, ch)[i] = t[i]
        /\ Append(t, ch)[Len(t)+1] = ch
    BY AppendProperties
  <2>2. parts(Append(t, ch))[Len(t) + 1] = Escaped(ch)
    BY <2>1
  <2>3. \A i \in 1..Len(t) : parts(Append(t, ch))[i] = parts(t)[i]
    BY <2>1
  <2>4. /\ parts(t) \in Seq(Seq(C)) /\ Len(parts(t)) = Len(t)
        /\ parts(Append(t, ch)) \in Seq(Seq(C)) /\ Len(parts(Append(t, ch))) = Len(t) + 1
    BY <2>1, <1>2
  <2>5. Escaped(ch) \in Seq(C) /\ Doubled(t) \in Seq(C) /\ <<>> \in Seq(C)
    BY <1>1, <1>5
  <2> HIDE DEF parts
  <2>6. parts(Append(t, ch)) = Append(parts(t), Escaped(ch))
    BY <2>2, <2>3, <2>4, <2>5, IsAppend
  <2>7. CASE parts(t) = <<>>
    <3>1. Len(Append(parts(t), Escaped(ch))) = 1 /\ Append(parts(t), Escaped(ch))[1] = Escaped(ch)
      BY <2>7, <2>5
    <3>2. Doubled(Append(t, ch)) = Escaped(ch)
      BY <3>1, <2>1, <2>6, <1>3, JoinFirst
    <3>3. Doubled(t) = <<>>
      <4>1. Len(parts(t)) = 0
        BY <2>7
      <4> QED BY <4>1, <1>3, JoinFirst
    <3> QED BY <3>2, <3>3, <2>5, ConcatEmptySeq
  <2>8. CASE parts(t) # <<>>
    <3>1. Join(Append(parts(t), Escaped(ch)), <<>>) = Join(parts(t), <<>>) \o <<>> \o Escaped(ch)
      BY <2>8, <2>4, <2>5, JoinAppend
    <3>2. Doubled(Append(t, ch)) = Doubled(t) \o <<>> \o Escaped(ch)
      BY <3>1, <2>1, <2>6, <1>3
    <3>3. Doubled(t) \o <<>> = Doubled(t)
      BY <2>5, ConcatEmptySeq
    <3> QED BY <3>2, <3>3
  <2> QED BY <2>7, <2>8
<1> QED BY <1>1, <1>4, <1>5, <1>6

----------------------------------------------------------------------------
(* Fields.                                                                 *)

\* A character, doubled or not, is one of the field.
LEMMA EscapedFeeds ==
  ASSUME NEW C, "quote" \in C, NEW ch \in C,
         NEW rows, NEW row, NEW field, NEW truncated, NEW after, NEW delimiter
  PROVE  Feed(Inside(rows, row, field, truncated), Escaped(ch), after, delimiter) =
             Inside(rows, row, Append(field, ch), truncated)
<1> DEFINE q == Inside(rows, row, field, truncated)
<1> HIDE DEF q
<1>1. CASE ch # "quote"
  <2>1. Escaped(ch) = <<ch>>
    BY <1>1 DEF Escaped
  <2>2. Feed(q, <<ch>>, after, delimiter) = Step(q, ch, after, delimiter)
    BY FeedOne
  <2>3. Step(q, ch, after, delimiter) = Inside(rows, row, Append(field, ch), truncated)
    BY <1>1, StepQuoted DEF q
  <2> QED BY <2>1, <2>2, <2>3, Zenon DEF q
<1>2. CASE ch = "quote"
  <2>1. Escaped(ch) = <<"quote", "quote">>
    BY <1>2 DEF Escaped
  <2>2. <<"quote", "quote">> = Append(<<"quote">>, "quote") /\ <<"quote">> \in Seq(C)
    OBVIOUS
  <2>3. Feed(q, <<"quote">>, "quote", delimiter) = Step(q, "quote", "quote", delimiter)
    BY FeedOne
  <2>4. \A x \in Seq(C) : Feed(q, Append(x, "quote"), after, delimiter) =
                              Step(Feed(q, x, "quote", delimiter), "quote", after, delimiter)
    BY FeedAppend
  <2>5. Step(Step(q, "quote", "quote", delimiter), "quote", after, delimiter) =
            Inside(rows, row, Append(field, "quote"), truncated)
    BY StepDoubled DEF q
  <2> QED BY <1>2, <2>1, <2>2, <2>3, <2>4, <2>5, Zenon DEF q
<1> QED BY <1>1, <1>2

\* Doubling is undone character by character.
LEMMA DoubledFeeds ==
  ASSUME NEW C, "quote" \in C, NEW text \in Seq(C),
         NEW rows, NEW row, NEW truncated, NEW after, NEW delimiter
  PROVE  Feed(Inside(rows, row, <<>>, truncated), Doubled(text), after, delimiter) =
             Inside(rows, row, text, truncated)
<1> DEFINE q == Inside(rows, row, <<>>, truncated)
           G == {t \in Seq(C) : \A a : Feed(q, Doubled(t), a, delimiter) =
                                          Inside(rows, row, t, truncated)}
<1> HIDE DEF q
<1>1. <<>> \in G
  <2>1. Doubled(<<>>) = <<>> /\ <<>> \in Seq(C)
    BY DoubledText
  <2>2. \A a : Feed(q, <<>>, a, delimiter) = q
    BY FeedNothing
  <2> QED BY <2>1, <2>2 DEF q
<1>2. ASSUME NEW t \in G, NEW ch \in C PROVE Append(t, ch) \in G
  <2>1. t \in Seq(C) /\ \A a : Feed(q, Doubled(t), a, delimiter) =
                                 Inside(rows, row, t, truncated)
    OBVIOUS
  <2> SUFFICES ASSUME NEW a
               PROVE Feed(q, Doubled(Append(t, ch)), a, delimiter) =
                         Inside(rows, row, Append(t, ch), truncated)
    BY <2>1, AppendProperties
  <2> HIDE DEF G
  <2>2. /\ Doubled(Append(t, ch)) = Doubled(t) \o Escaped(ch)
        /\ Doubled(t) \in Seq(C) /\ Escaped(ch) \in Seq(C)
    BY <2>1, DoubledText
  <2>3. Feed(q, Doubled(t) \o Escaped(ch), a, delimiter) =
            Feed(Feed(q, Doubled(t), First(Escaped(ch), a), delimiter),
                 Escaped(ch), a, delimiter)
    <3>1. \A v, w \in Seq(C) : Feed(q, v \o w, a, delimiter) =
              Feed(Feed(q, v, First(w, a), delimiter), w, a, delimiter)
      BY FeedConcat
    <3> QED BY <2>2, <3>1, Zenon
  <2>4. Feed(Inside(rows, row, t, truncated), Escaped(ch), a, delimiter) =
            Inside(rows, row, Append(t, ch), truncated)
    BY EscapedFeeds
  <2> QED BY <2>1, <2>2, <2>3, <2>4, Zenon
<1>3. G \in SUBSET Seq(C)
  OBVIOUS
<1> HIDE DEF G
<1>4. text \in G
  BY <1>1, <1>2, <1>3, InductText
<1> QED BY <1>4 DEF G, q

\* A text without special characters is the field as it stands.
LEMMA PlainFeeds ==
  ASSUME NEW C, NEW text \in Seq(C), NEW delimiter,
         \A i \in 1..Len(text) : text[i] \notin Special(delimiter),
         NEW rows, NEW row, NEW truncated, NEW after
  PROVE  Feed(Outside(rows, row, <<>>, truncated), text, after, delimiter) =
             Outside(rows, row, text, truncated)
<1> DEFINE q == Outside(rows, row, <<>>, truncated)
           D == C \ Special(delimiter)
           G == {t \in Seq(D) : \A a : Feed(q, t, a, delimiter) = Outside(rows, row, t, truncated)}
<1> HIDE DEF q, D
<1>1. <<>> \in G
  <2>1. <<>> \in Seq(D)
    OBVIOUS
  <2>2. \A a : Feed(q, <<>>, a, delimiter) = q
    BY FeedNothing
  <2> QED BY <2>1, <2>2 DEF q
<1>2. ASSUME NEW t \in G, NEW ch \in D PROVE Append(t, ch) \in G
  <2>1. t \in Seq(D) /\ \A a : Feed(q, t, a, delimiter) = Outside(rows, row, t, truncated)
    OBVIOUS
  <2> SUFFICES ASSUME NEW a
               PROVE Feed(q, Append(t, ch), a, delimiter) =
                         Outside(rows, row, Append(t, ch), truncated)
    BY <2>1, AppendProperties
  <2> HIDE DEF G
  <2>2. Feed(q, Append(t, ch), a, delimiter) =
            Step(Feed(q, t, ch, delimiter), ch, a, delimiter)
    BY <2>1, FeedAppend
  <2>3. Step(Outside(rows, row, t, truncated), ch, a, delimiter) =
            Outside(rows, row, Append(t, ch), truncated)
    BY StepPlain DEF D
  <2> QED BY <2>1, <2>2, <2>3, Zenon
<1>3. G \in SUBSET Seq(D)
  OBVIOUS
<1>4. text \in Seq(D)
  <2>1. \A i \in 1..Len(text) : text[i] \in D
    BY ElementOfSeq DEF D
  <2> QED BY <2>1
<1> HIDE DEF G
<1>5. text \in G
  BY <1>1, <1>2, <1>3, <1>4, InductText
<1> QED BY <1>5 DEF G, q

\* A written field is a text.
LEMMA WrittenIsText ==
  ASSUME NEW C, "quote" \in C, NEW field \in Seq(C), NEW style, NEW delimiter
  PROVE  WriteField(field, style, delimiter) \in Seq(C)
<1>1. Doubled(field) \in Seq(C) /\ <<"quote">> \in Seq(C)
  BY DoubledText
<1>2. <<"quote">> \o Doubled(field) \in Seq(C)
  BY <1>1, ConcatProperties
<1>3. <<"quote">> \o Doubled(field) \o <<"quote">> \in Seq(C)
  BY <1>1, <1>2, ConcatProperties
<1> QED BY <1>3, Zenon DEF WriteField

\* A written field is read back, whatever it contains.
LEMMA FieldFeeds ==
  ASSUME NEW C, "quote" \in C, NEW field \in Seq(C), NEW style, NEW delimiter,
         Delimits(delimiter),
         NEW rows, NEW row, NEW truncated, NEW after, after # "quote"
  PROVE  Feed(Outside(rows, row, <<>>, truncated),
              WriteField(field, style, delimiter), after, delimiter) =
             Outside(rows, row, field, truncated)
<1> DEFINE s == Outside(rows, row, <<>>, truncated)
           D == Doubled(field)
           quote == <<"quote">>
<1>1. CASE style.quoteAll \/ \E i \in 1..Len(field) : field[i] \in Special(delimiter)
  <2>1. WriteField(field, style, delimiter) = quote \o D \o quote
    BY <1>1, Zenon DEF WriteField
  <2>2. D \in Seq(C) /\ quote \in Seq(C)
    BY DoubledText
  <2> HIDE DEF D, s, quote
  <2>3. quote \o D \in Seq(C)
    BY <2>2, ConcatProperties
  <2>4. ASSUME NEW a
        PROVE  \A v, w \in Seq(C) : Feed(s, v \o w, a, delimiter) =
                  Feed(Feed(s, v, First(w, a), delimiter), w, a, delimiter)
    BY FeedConcat
  <2>5. Feed(s, quote \o D \o quote, after, delimiter) =
           Feed(Feed(s, quote \o D, First(quote, after), delimiter),
                quote, after, delimiter)
    BY <2>2, <2>3, <2>4, Zenon
  <2>6. \A a : Feed(s, quote \o D, a, delimiter) =
           Feed(Feed(s, quote, First(D, a), delimiter), D, a, delimiter)
    BY <2>2, <2>4, Zenon
  <2>7. \A a : Feed(s, quote, a, delimiter) = Inside(rows, row, <<>>, truncated)
    <3>1. \A a : Feed(s, quote, a, delimiter) = Step(s, "quote", a, delimiter)
      BY FeedOne DEF quote
    <3>2. \A a : Step(s, "quote", a, delimiter) = Inside(rows, row, <<>>, truncated)
      BY StepOpens DEF s
    <3> QED BY <3>1, <3>2
  <2>8. \A a : Feed(Inside(rows, row, <<>>, truncated), D, a, delimiter) =
                  Inside(rows, row, field, truncated)
    BY DoubledFeeds DEF D
  <2>9. Feed(Inside(rows, row, field, truncated), quote, after, delimiter) =
            Outside(rows, row, field, truncated)
    <3>1. \A r : Feed(r, quote, after, delimiter) = Step(r, "quote", after, delimiter)
      BY FeedOne DEF quote
    <3>2. Step(Inside(rows, row, field, truncated), "quote", after, delimiter) =
             Outside(rows, row, field, truncated)
      BY StepCloses
    <3> QED BY <3>1, <3>2, Zenon
  <2> QED BY <2>1, <2>5, <2>6, <2>7, <2>8, <2>9, Zenon DEF s, quote
<1>2. CASE ~(style.quoteAll \/ \E i \in 1..Len(field) : field[i] \in Special(delimiter))
  <2>1. WriteField(field, style, delimiter) = field
    BY <1>2, Zenon DEF WriteField
  <2>2. \A i \in 1..Len(field) : field[i] \notin Special(delimiter)
    BY <1>2
  <2> QED BY <2>1, <2>2, PlainFeeds
<1> QED BY <1>1, <1>2

----------------------------------------------------------------------------
(* What is cut at a cap, and rows as text.                                 *)

\* The smaller of two numbers.
LEMMA LeastIs ==
  ASSUME NEW a \in Nat, NEW b \in Nat
  PROVE  /\ Least(a, b) \in Nat /\ Least(a, b) <= a /\ Least(a, b) <= b
         /\ a <= b => Least(a, b) = a
         /\ b <= a => Least(a, b) = b
BY DEF Least

\* What is cut at a cap when one more element comes.
LEMMA CutAppend ==
  ASSUME NEW D, NEW seq \in Seq(D), NEW x \in D, NEW max \in Nat
  PROVE  /\ Cut(seq, max) \in Seq(D)
         /\ Len(Cut(seq, max)) = Least(Len(seq), max)
         /\ Cut(Append(seq, x), max) =
                IF Len(seq) < max THEN Append(Cut(seq, max), x) ELSE Cut(seq, max)
<1>1. /\ Append(seq, x) \in Seq(D)
      /\ Len(Append(seq, x)) = Len(seq) + 1 /\ Len(seq) \in Nat
      /\ \A i \in 1..Len(seq) : Append(seq, x)[i] = seq[i]
  BY AppendProperties
<1>2. ASSUME NEW s \in Seq(D), NEW m \in Nat, m <= Len(s)
      PROVE  /\ SubSeq(s, 1, m) \in Seq(D)
             /\ Len(SubSeq(s, 1, m)) = m
             /\ \A i \in 1..m : SubSeq(s, 1, m)[i] = s[i]
  <2>1. Len(s) \in Nat /\ \A i \in 1..m : i \in 1..Len(s) /\ s[i] \in D
    BY <1>2, ElementOfSeq
  <2>2. /\ SubSeq(s, 1, m) \in Seq(D)
        /\ Len(SubSeq(s, 1, m)) = IF 1 <= m THEN m - 1 + 1 ELSE 0
        /\ \A i \in 1..(m - 1 + 1) : SubSeq(s, 1, m)[i] = s[1 + i - 1]
    BY <2>1, SubSeqProperties
  <2> QED BY <2>2
<1>3. Least(Len(seq), max) \in Nat /\ Least(Len(seq), max) <= Len(seq)
  BY <1>1, LeastIs
<1>4. Cut(seq, max) \in Seq(D) /\ Len(Cut(seq, max)) = Least(Len(seq), max)
  BY <1>2, <1>3 DEF Cut
<1>5. CASE Len(seq) < max
  <2>1. Least(Len(seq), max) = Len(seq) /\ Least(Len(seq) + 1, max) = Len(seq) + 1
    BY <1>1, <1>5 DEF Least
  <2>2. Cut(seq, max) = seq
    BY <2>1, SubSeqFull DEF Cut
  <2>3. Cut(Append(seq, x), max) = Append(seq, x)
    BY <1>1, <2>1, SubSeqFull DEF Cut
  <2> QED BY <1>4, <1>5, <2>2, <2>3
<1>6. CASE ~(Len(seq) < max)
  <2>1. Least(Len(seq), max) = max /\ Least(Len(seq) + 1, max) = max /\ max <= Len(seq)
    BY <1>1, <1>6 DEF Least
  <2>2. /\ Cut(seq, max) = SubSeq(seq, 1, max)
        /\ Cut(Append(seq, x), max) = SubSeq(Append(seq, x), 1, max)
    BY <1>1, <2>1 DEF Cut
  <2>3. /\ SubSeq(seq, 1, max) \in Seq(D) /\ Len(SubSeq(seq, 1, max)) = max
        /\ \A i \in 1..max : SubSeq(seq, 1, max)[i] = seq[i]
    BY <1>2, <2>1
  <2>4. /\ SubSeq(Append(seq, x), 1, max) \in Seq(D) /\ Len(SubSeq(Append(seq, x), 1, max)) = max
        /\ \A i \in 1..max : SubSeq(Append(seq, x), 1, max)[i] = Append(seq, x)[i]
    <3>1. max <= Len(Append(seq, x))
      BY <1>1, <2>1
    <3> QED BY <1>1, <1>2, <3>1
  <2>5. \A i \in 1..max : Append(seq, x)[i] = seq[i]
    BY <1>1, <2>1
  <2>6. SubSeq(Append(seq, x), 1, max) = SubSeq(seq, 1, max)
    BY <2>3, <2>4, <2>5, SeqEqual
  <2> QED BY <1>4, <1>6, <2>2, <2>6
<1> QED BY <1>5, <1>6

\* Nothing is left of nothing.
LEMMA CutNothing ==
  ASSUME NEW max \in Nat
  PROVE  Cut(<<>>, max) = <<>>
<1>1. Least(Len(<<>>), max) = 0
  BY DEF Least
<1> QED BY <1>1, SubSeqEmpty DEF Cut

\* A text of one character.
Single(ch) == <<ch>>

\* A row of one field is written as that field.
LEMMA WriteRowOne ==
  ASSUME NEW row, Len(row) = 1, NEW style, NEW delimiter
  PROVE  WriteRow(row, style, delimiter) = WriteField(row[1], style, delimiter)
<1> DEFINE written == [i \in 1..Len(row) |-> WriteField(row[i], style, delimiter)]
<1>1. Len(written) = 1 /\ written[1] = WriteField(row[1], style, delimiter)
  OBVIOUS
<1>2. WriteRow(row, style, delimiter) = Join(written, <<delimiter>>)
  BY DEF WriteRow
<1> HIDE DEF written
<1> QED BY <1>1, <1>2, JoinFirst

\* The text of a row grows by a delimiter and a field.
WrittenAppend(fields, field, style, delimiter) ==
    WriteRow(Append(fields, field), style, delimiter) =
        WriteRow(fields, style, delimiter) \o Single(delimiter)
        \o WriteField(field, style, delimiter)

\* A row is written as a text, a field after the other.
LEMMA WriteRowAppend ==
  ASSUME NEW C, "quote" \in C, NEW fields \in Seq(Seq(C)), NEW field \in Seq(C),
         NEW style, NEW delimiter \in C
  PROVE  /\ WriteRow(fields, style, delimiter) \in Seq(C)
         /\ fields # <<>> => WrittenAppend(fields, field, style, delimiter)
<1> DEFINE written(t) == [i \in 1..Len(t) |-> WriteField(t[i], style, delimiter)]
           more == Append(fields, field)
           text == WriteField(field, style, delimiter)
<1>1. /\ more \in Seq(Seq(C))
      /\ Len(more) = Len(fields) + 1 /\ Len(fields) \in Nat
      /\ \A i \in 1..Len(fields) : more[i] = fields[i]
      /\ more[Len(fields) + 1] = field
  BY AppendProperties
<1>2. ASSUME NEW t \in Seq(Seq(C)) PROVE written(t) \in Seq(Seq(C)) /\ Len(written(t)) = Len(t)
  <2>1. \A i \in 1..Len(t) : WriteField(t[i], style, delimiter) \in Seq(C)
    BY ElementOfSeq, WrittenIsText
  <2>2. Len(t) \in Nat
    OBVIOUS
  <2> QED BY <2>1, <2>2
<1>3. ASSUME NEW t PROVE WriteRow(t, style, delimiter) = Join(written(t), <<delimiter>>)
  BY DEF WriteRow
<1>4. text \in Seq(C) /\ <<delimiter>> \in Seq(C)
  BY WrittenIsText
<1> HIDE DEF more, text
<1>5. written(more)[Len(fields) + 1] = text
  BY <1>1 DEF text
<1>6. \A i \in 1..Len(fields) : written(more)[i] = written(fields)[i]
  BY <1>1
<1>7. /\ written(fields) \in Seq(Seq(C)) /\ Len(written(fields)) = Len(fields)
      /\ written(more) \in Seq(Seq(C)) /\ Len(written(more)) = Len(fields) + 1
  BY <1>1, <1>2
<1> HIDE DEF written
<1>8. written(more) = Append(written(fields), text)
  BY <1>4, <1>5, <1>6, <1>7, IsAppend
<1>9. WriteRow(fields, style, delimiter) \in Seq(C)
  BY <1>3, <1>4, <1>7, JoinIsText
<1>10. CASE fields # <<>>
  <2>1. written(fields) # <<>>
    BY <1>7, <1>10, EmptySeq
  <2>2. Join(Append(written(fields), text), <<delimiter>>) =
            Join(written(fields), <<delimiter>>) \o <<delimiter>> \o text
    BY <2>1, <1>4, <1>7, JoinAppend
  <2>3. WriteRow(more, style, delimiter) =
            WriteRow(fields, style, delimiter) \o <<delimiter>> \o text
    BY <2>2, <1>3, <1>8, Zenon
  <2>4. Len(fields) # 0
    BY <1>10, EmptySeq
  <2> QED BY <2>3, <2>4, <1>9, <1>10, Zenon DEF more, text, Single, WrittenAppend
<1> QED BY <1>9, <1>10

----------------------------------------------------------------------------
(* A row up to its last field.                                             *)

\* Whether a row, or what comes after it, is wider than the preview.
Wide(truncated, row) == truncated \/ Len(row) > MaxCols

\* What a field more makes of a row that is cut.
LEMMA PushedCut ==
  ASSUME NEW D, NEW fields \in Seq(D), NEW field \in D, NEW truncated \in BOOLEAN
  PROVE  /\ Pushed(Cut(fields, MaxCols), field) = Cut(Append(fields, field), MaxCols)
         /\ CutIs(Wide(truncated, Append(fields, field)), Cut(fields, MaxCols),
                  Wide(truncated, fields))
<1> DEFINE row == Cut(fields, MaxCols)
           more == Append(fields, field)
<1>0. MaxCols \in Nat \ {0}
  BY CsvAssumption
<1>1. /\ Len(row) = Least(Len(fields), MaxCols)
      /\ Cut(more, MaxCols) = IF Len(fields) < MaxCols THEN Append(row, field) ELSE row
  BY <1>0, CutAppend
<1>2. Len(fields) \in Nat /\ Len(more) = Len(fields) + 1
  BY AppendProperties
<1> HIDE DEF row, more
<1>3. HasRoom(row) <=> Len(fields) < MaxCols
  BY <1>0, <1>1, <1>2 DEF HasRoom, Least
<1>4. Pushed(row, field) = Cut(more, MaxCols)
  BY <1>1, <1>3 DEF Pushed
<1>5. CutIs(Wide(truncated, more), row, Wide(truncated, fields))
  <2>1. CASE Len(fields) < MaxCols
    <3>1. Wide(truncated, more) = truncated /\ Wide(truncated, fields) = truncated
      BY <1>0, <1>2, <2>1 DEF Wide
    <3> QED BY <1>3, <2>1, <3>1, Zenon DEF CutIs
  <2>2. CASE ~(Len(fields) < MaxCols)
    <3>1. Wide(truncated, more) = TRUE
      BY <1>0, <1>2, <2>2 DEF Wide
    <3> QED BY <1>3, <2>2, <3>1, Zenon DEF CutIs
  <2> QED BY <2>1, <2>2
<1> QED BY <1>4, <1>5 DEF row, more

\* All of a row but its last field, which no delimiter has ended yet.
LEMMA RowFeeds ==
  ASSUME NEW C, "quote" \in C, NEW fields \in Seq(Seq(C)), NEW field \in Seq(C),
         NEW style, NEW delimiter \in C, Delimits(delimiter),
         NEW rows, NEW truncated \in BOOLEAN, NEW after, after # "quote"
  PROVE  Feed(Outside(rows, <<>>, <<>>, truncated),
              WriteRow(Append(fields, field), style, delimiter), after, delimiter) =
             Outside(rows, Cut(fields, MaxCols), field, Wide(truncated, fields))
<1> DEFINE s == Outside(rows, <<>>, <<>>, truncated)
           text(t) == WriteRow(t, style, delimiter)
           P(t, f, a) == Feed(s, text(Append(t, f)), a, delimiter) =
                             Outside(rows, Cut(t, MaxCols), f, Wide(truncated, t))
           G == {t \in Seq(Seq(C)) : \A f \in Seq(C) : \A a : a # "quote" => P(t, f, a)}
<1>0. MaxCols \in Nat \ {0}
  BY CsvAssumption
<1> HIDE DEF s
<1>1. <<>> \in G
  <2> SUFFICES ASSUME NEW f \in Seq(C), NEW a, a # "quote" PROVE P(<<>>, f, a)
    OBVIOUS
  <2>1. Len(Append(<<>>, f)) = 1 /\ Append(<<>>, f)[1] = f
    OBVIOUS
  <2>2. text(Append(<<>>, f)) = WriteField(f, style, delimiter)
    <3>1. \A q : Len(q) = 1 => text(q) = WriteField(q[1], style, delimiter)
      BY WriteRowOne
    <3> QED BY <2>1, <3>1
  <2>3. Feed(s, WriteField(f, style, delimiter), a, delimiter) =
           Outside(rows, <<>>, f, truncated)
    BY FieldFeeds DEF s
  <2>4. Cut(<<>>, MaxCols) = <<>>
    BY <1>0, CutNothing
  <2>5. Wide(truncated, <<>>) = truncated
    BY <1>0 DEF Wide
  <2> QED BY <2>2, <2>3, <2>4, <2>5, Zenon
<1>2. ASSUME NEW t \in G, NEW g \in Seq(C) PROVE Append(t, g) \in G
  <2> SUFFICES ASSUME NEW f \in Seq(C), NEW a, a # "quote" PROVE P(Append(t, g), f, a)
    BY AppendProperties
  <2>1. t \in Seq(Seq(C)) /\ P(t, g, delimiter)
    BY DEF Delimits
  <2> DEFINE line == text(Append(t, g))
             last == WriteField(f, style, delimiter)
             one == Single(delimiter)
  <2> HIDE DEF G
  <2>2. Append(t, g) \in Seq(Seq(C)) /\ Append(t, g) # <<>>
    BY <2>1, AppendProperties
  <2>3. text(Append(Append(t, g), f)) = line \o one \o last
    <3>1. \A q \in Seq(Seq(C)) : q # <<>> => text(Append(q, f)) = text(q) \o one \o last
      <4> SUFFICES ASSUME NEW q \in Seq(Seq(C)), q # <<>>
                   PROVE  text(Append(q, f)) = text(q) \o one \o last
        OBVIOUS
      <4>1. WrittenAppend(q, f, style, delimiter)
        BY WriteRowAppend
      <4> QED BY <4>1, Zenon DEF WrittenAppend
    <3> QED BY <2>2, <3>1, Zenon
  <2>4. line \in Seq(C) /\ last \in Seq(C) /\ one \in Seq(C)
    <3>1. line \in Seq(C)
      BY <2>2, WriteRowAppend
    <3>2. last \in Seq(C)
      BY WrittenIsText
    <3> QED BY <3>1, <3>2 DEF Single
  <2>5. Feed(s, line, delimiter, delimiter) = Outside(rows, Cut(t, MaxCols), g, Wide(truncated, t))
    BY <2>1
  <2>6. First(one, First(last, a)) = delimiter
    BY DEF First, Single
  <2>7. \A r : Feed(r, one, First(last, a), delimiter) =
                 Step(r, delimiter, First(last, a), delimiter)
    BY FeedOne DEF Single
  <2> HIDE DEF line, last, one
  <2>8. line \o one \in Seq(C)
    BY <2>4, ConcatProperties
  <2>9. Feed(s, line \o one \o last, a, delimiter) =
            Feed(Feed(s, line \o one, First(last, a), delimiter), last, a, delimiter)
    <3>1. \A v, w \in Seq(C) : Feed(s, v \o w, a, delimiter) =
              Feed(Feed(s, v, First(w, a), delimiter), w, a, delimiter)
      BY FeedConcat
    <3> QED BY <2>4, <2>8, <3>1, Zenon
  <2>10. Feed(s, line \o one, First(last, a), delimiter) =
            Feed(Feed(s, line, First(one, First(last, a)), delimiter), one,
                 First(last, a), delimiter)
    BY <2>4, FeedConcat
  <2>11. Step(Outside(rows, Cut(t, MaxCols), g, Wide(truncated, t)), delimiter,
              First(last, a), delimiter) =
            Outside(rows, Cut(Append(t, g), MaxCols), <<>>, Wide(truncated, Append(t, g)))
    <3>1. /\ Pushed(Cut(t, MaxCols), g) = Cut(Append(t, g), MaxCols)
          /\ CutIs(Wide(truncated, Append(t, g)), Cut(t, MaxCols), Wide(truncated, t))
      BY <2>1, PushedCut
    <3> DEFINE cut == Wide(truncated, Append(t, g))
               wide == Wide(truncated, t)
               row == Cut(t, MaxCols)
    <3> HIDE DEF cut, wide, row
    <3>2. Step(Outside(rows, row, g, wide), delimiter, First(last, a), delimiter) =
             Outside(rows, Pushed(row, g), <<>>, cut)
      BY <3>1, StepDelimiter DEF cut, wide, row
    <3> QED BY <3>1, <3>2, Zenon DEF cut, wide, row
  <2>12. Feed(Outside(rows, Cut(Append(t, g), MaxCols), <<>>, Wide(truncated, Append(t, g))),
              last, a, delimiter) =
            Outside(rows, Cut(Append(t, g), MaxCols), f, Wide(truncated, Append(t, g)))
    BY FieldFeeds DEF last
  <2> QED BY <2>3, <2>5, <2>6, <2>7, <2>9, <2>10, <2>11, <2>12, Zenon
<1>3. G \in SUBSET Seq(Seq(C))
  OBVIOUS
<1> HIDE DEF G
<1>4. fields \in G
  BY <1>1, <1>2, <1>3, InductText
<1> QED BY <1>4 DEF G, s

----------------------------------------------------------------------------
(* The break that ends a row.                                              *)

\* The parse has stopped with these rows and says that there were more.
Halted(rows) ==
    [rows |-> rows, row |-> <<>>, field |-> <<>>, inQuotes |-> FALSE,
     truncated |-> TRUE, skip |-> FALSE, stop |-> TRUE]

\* A character to skip.
Skip(s) == [s EXCEPT !.skip = TRUE]

\* The same outside quotes.
SkippingFeed(rows, row, field, truncated) ==
    [rows |-> rows, row |-> row, field |-> field, inQuotes |-> FALSE,
     truncated |-> truncated, skip |-> TRUE, stop |-> FALSE]

\* The line feed after a carriage return is passed over.
LEMMA FeedSkipped ==
  ASSUME NEW rows, NEW row, NEW field, NEW truncated,
         NEW s, s = SkippingFeed(rows, row, field, truncated), NEW t, t = Unskip(s)
  PROVE  t = Outside(rows, row, field, truncated)
BY DEF SkippingFeed, Unskip, Outside

\* Passing a character over, or having none to pass over, leaves the rest.
LEMMA SkipOutside ==
  ASSUME NEW rows, NEW row, NEW field, NEW truncated,
         NEW s, s = Outside(rows, row, field, truncated)
  PROVE  Unskip(s) = s /\ Unskip(Skip(s)) = s /\ Skip(s).skip /\ ~Skip(s).stop
<1>1. Skip(s) = SkippingFeed(rows, row, field, truncated)
  <2> SUFFICES ASSUME NEW t, t = Skip(s)
               PROVE  t = SkippingFeed(rows, row, field, truncated)
    OBVIOUS
  <2> QED BY DEF Skip, Outside, SkippingFeed
<1>2. Unskip(s) = s
  <2> SUFFICES ASSUME NEW t, t = Unskip(s) PROVE t = Outside(rows, row, field, truncated)
    OBVIOUS
  <2> QED BY DEF Unskip, Outside
<1>3. Unskip(Skip(s)) = s
  BY <1>1, FeedSkipped
<1>4. Skip(s).skip /\ ~Skip(s).stop
  BY <1>1 DEF SkippingFeed
<1> QED BY <1>2, <1>3, <1>4

\* The same of a parse that has stopped.
LEMMA SkipHalted ==
  ASSUME NEW rows, NEW s, s = Halted(rows)
  PROVE  /\ s.stop /\ s.rows = rows /\ s.truncated
         /\ Unskip(s) = s
         /\ Skip(s).stop /\ Skip(s).rows = rows /\ Skip(s).truncated
<1>1. Unskip(s) = s
  <2> SUFFICES ASSUME NEW t, t = Unskip(s) PROVE t = Halted(rows)
    OBVIOUS
  <2> QED BY DEF Unskip, Halted
<1> QED BY <1>1 DEF Skip, Halted

\* A row that is over: one more, or the end of the parse.
Taken(s, rows, row, truncated) ==
    IF Len(rows) < MaxRows THEN s = Outside(Append(rows, row), <<>>, <<>>, truncated)
    ELSE s.stop /\ s.rows = rows /\ s.truncated = TRUE

\* The same, exactly.
RowIsOver(s, rows, row, truncated) ==
    IF Len(rows) < MaxRows THEN s = Outside(Append(rows, row), <<>>, <<>>, truncated)
    ELSE s = Halted(rows)

\* pushRow takes the row, or stops.
LEMMA PushRow ==
  ASSUME NEW rows, NEW row, NEW field, NEW truncated, NEW cut, CutIs(cut, row, truncated),
         NEW t, t = pushRow(Outside(rows, row, field, truncated))
  PROVE  RowIsOver(t, rows, Pushed(row, field), cut)
<1> DEFINE more == Pushed(row, field)
<1>1. PICK p : p = Outside(rows, more, <<>>, cut)
  OBVIOUS
<1>2. t = IF Len(p.rows) < MaxRows
          THEN [p EXCEPT !.rows = Append(@, p.row), !.row = <<>>]
          ELSE [p EXCEPT !.row = <<>>, !.truncated = TRUE, !.stop = TRUE]
  <2>1. pushField(Outside(rows, row, field, truncated)) = p
    BY <1>1, PushField
  <2> QED BY <2>1, Zenon DEF pushRow
<1> HIDE DEF more
<1>3. p.rows = rows /\ p.row = more
  BY <1>1 DEF Outside
<1>4. CASE Len(rows) < MaxRows
  <2>1. t = [p EXCEPT !.rows = Append(rows, more), !.row = <<>>]
    BY <1>2, <1>3, <1>4
  <2>2. t = Outside(Append(rows, more), <<>>, <<>>, cut)
    BY <1>1, <2>1 DEF Outside
  <2> QED BY <1>4, <2>2 DEF more, RowIsOver
<1>5. CASE ~(Len(rows) < MaxRows)
  <2>1. t = [p EXCEPT !.row = <<>>, !.truncated = TRUE, !.stop = TRUE]
    BY <1>2, <1>3, <1>5
  <2>2. t = Halted(rows)
    BY <1>1, <2>1 DEF Outside, Halted
  <2> QED BY <1>5, <2>2 DEF RowIsOver
<1> QED BY <1>4, <1>5

\* A line feed that follows a carriage return is part of the same break.
Ends(break, after) == break = <<"cr">> => after # "lf"

\* Each of the three breaks ends the row.
LEMMA StepBreaks ==
  ASSUME NEW rows, NEW row, NEW field, NEW truncated, NEW cut, CutIs(cut, row, truncated),
         NEW s, s = Outside(rows, row, field, truncated),
         NEW delimiter, Delimits(delimiter), NEW after, NEW t
  PROVE  /\ t = Step(s, "lf", after, delimiter) => Taken(t, rows, Pushed(row, field), cut)
         /\ t = Step(s, "cr", after, delimiter) /\ after # "lf"
                => Taken(t, rows, Pushed(row, field), cut)
         /\ t = Step(Step(s, "cr", "lf", delimiter), "lf", after, delimiter)
                => Taken(t, rows, Pushed(row, field), cut)
<1>1. PICK p : p = pushRow(s)
  OBVIOUS
<1>2. IF Len(rows) < MaxRows
      THEN p = Outside(Append(rows, Pushed(row, field)), <<>>, <<>>, cut)
      ELSE p = Halted(rows)
  <2>1. RowIsOver(p, rows, Pushed(row, field), cut)
    BY <1>1, PushRow
  <2> QED BY <2>1, Zenon DEF RowIsOver
<1>3. Step(s, "lf", after, delimiter) = Unskip(p)
  BY <1>1 DEF Step, Plain, Outside, Delimits, Unskip
<1>4. after # "lf" => Step(s, "cr", after, delimiter) = Unskip(p)
  BY <1>1 DEF Step, Plain, Outside, Delimits, Unskip
<1>5. Step(s, "cr", "lf", delimiter) = Skip(p)
  BY <1>1 DEF Step, Plain, Outside, Delimits, Skip
<1>6. CASE Len(rows) < MaxRows
  <2>1. Unskip(p) = p /\ Unskip(Skip(p)) = p /\ Skip(p).skip /\ ~Skip(p).stop
    BY <1>2, <1>6, SkipOutside
  <2>2. Step(Skip(p), "lf", after, delimiter) = Unskip(Skip(p))
    BY <2>1 DEF Step, Unskip
  <2> QED BY <1>2, <1>3, <1>4, <1>5, <1>6, <2>1, <2>2, Zenon DEF Taken
<1>7. CASE ~(Len(rows) < MaxRows)
  <2>1. /\ p.stop /\ p.rows = rows /\ p.truncated = TRUE
        /\ Unskip(p) = p
        /\ Skip(p).stop /\ Skip(p).rows = rows /\ Skip(p).truncated = TRUE
    BY <1>2, <1>7, SkipHalted
  <2>2. Step(Skip(p), "lf", after, delimiter) = Skip(p)
    BY <2>1 DEF Step
  <2> QED BY <1>2, <1>3, <1>4, <1>5, <1>7, <2>1, <2>2, Zenon DEF Taken
<1> QED BY <1>6, <1>7

\* No written field starts with a line feed.
LEMMA FieldStarts ==
  ASSUME NEW C, "quote" \in C, NEW field \in Seq(C), NEW style, NEW delimiter,
         NEW after, after # "lf"
  PROVE  First(WriteField(field, style, delimiter), after) # "lf"
<1>1. CASE style.quoteAll \/ \E i \in 1..Len(field) : field[i] \in Special(delimiter)
  <2> DEFINE D == Doubled(field)
             mark == <<"quote">>
  <2>1. WriteField(field, style, delimiter) = mark \o D \o mark
    BY <1>1, Zenon DEF WriteField
  <2>2. D \in Seq(C) /\ mark \in Seq(C)
    BY DoubledText
  <2>3. \A a : First(mark, a) = "quote"
    BY DEF First
  <2> HIDE DEF D, mark
  <2>4. mark \o D \in Seq(C)
    BY <2>2, ConcatProperties
  <2>5. First(mark \o D \o mark, after) = First(mark \o D, First(mark, after))
    <3>1. \A v, w \in Seq(C) : First(v \o w, after) = First(v, First(w, after))
      BY FirstConcat
    <3> QED BY <2>2, <2>4, <3>1, Zenon
  <2>6. First(mark \o D, First(mark, after)) = First(mark, First(D, First(mark, after)))
    BY <2>2, FirstConcat
  <2> QED BY <2>1, <2>3, <2>5, <2>6
<1>2. CASE ~(style.quoteAll \/ \E i \in 1..Len(field) : field[i] \in Special(delimiter))
  <2>1. WriteField(field, style, delimiter) = field
    BY <1>2, Zenon DEF WriteField
  <2>2. CASE field = <<>>
    BY <2>1, <2>2 DEF First
  <2>3. CASE field # <<>>
    <3>1. 1 \in 1..Len(field)
      BY <2>3, EmptySeq
    <3>2. field[1] # "lf"
      BY <1>2, <3>1 DEF Special
    <3> QED BY <2>1, <2>3, <3>2 DEF First
  <2> QED BY <2>2, <2>3
<1> QED BY <1>1, <1>2

\* No row starts with a line feed, so none is taken for the second half of
\* the break before it.
LEMMA RowStarts ==
  ASSUME NEW C, "quote" \in C, NEW row \in Seq(Seq(C)), row # <<>>, NEW style,
         NEW delimiter \in C, Delimits(delimiter), NEW after, after # "lf"
  PROVE  First(WriteRow(row, style, delimiter), after) # "lf"
<1> DEFINE text(t) == WriteRow(t, style, delimiter)
           G == {t \in Seq(Seq(C)) : t # <<>> => \A a : a # "lf" => First(text(t), a) # "lf"}
<1>0. ASSUME NEW q \in Seq(Seq(C)), NEW f \in Seq(C), q # <<>>
      PROVE  text(Append(q, f)) = text(q) \o Single(delimiter) \o WriteField(f, style, delimiter)
  <2>1. WrittenAppend(q, f, style, delimiter)
    BY <1>0, WriteRowAppend
  <2> QED BY <2>1, Zenon DEF WrittenAppend
<1>1. <<>> \in G
  OBVIOUS
<1>2. ASSUME NEW t \in G, NEW f \in Seq(C) PROVE Append(t, f) \in G
  <2> DEFINE last == WriteField(f, style, delimiter)
             one == Single(delimiter)
  <2>1. t \in Seq(Seq(C)) /\ (t # <<>> => First(text(t), delimiter) # "lf")
    BY DEF Delimits
  <2> SUFFICES ASSUME NEW a, a # "lf" PROVE First(text(Append(t, f)), a) # "lf"
    BY AppendProperties
  <2> HIDE DEF G
  <2>2. last \in Seq(C) /\ First(last, a) # "lf"
    BY WrittenIsText, FieldStarts
  <2>3. CASE t = <<>>
    <3>1. Len(Append(t, f)) = 1 /\ Append(t, f)[1] = f
      BY <2>3
    <3>2. text(Append(t, f)) = last
      <4>1. \A q : Len(q) = 1 => text(q) = WriteField(q[1], style, delimiter)
        BY WriteRowOne
      <4> QED BY <3>1, <4>1
    <3> QED BY <2>2, <3>2
  <2>4. CASE t # <<>>
    <3>1. text(Append(t, f)) = text(t) \o one \o last
      BY <1>0, <2>1, <2>4, Zenon
    <3>2. text(t) \in Seq(C) /\ one \in Seq(C)
      <4>1. text(t) \in Seq(C)
        BY <2>1, WriteRowAppend
      <4> QED BY <4>1 DEF Single
    <3>3. First(one, First(last, a)) = delimiter
      BY DEF First, Single
    <3> HIDE DEF last, one, text
    <3>4. text(t) \o one \in Seq(C)
      BY <3>2, ConcatProperties
    <3>5. First(text(t) \o one \o last, a) = First(text(t) \o one, First(last, a))
      <4>1. \A v, w \in Seq(C) : First(v \o w, a) = First(v, First(w, a))
        BY FirstConcat
      <4> QED BY <2>2, <3>4, <4>1, Zenon
    <3>6. First(text(t) \o one, First(last, a)) = First(text(t), First(one, First(last, a)))
      BY <3>2, FirstConcat
    <3> QED BY <2>1, <2>4, <3>1, <3>3, <3>5, <3>6, Zenon DEF text
  <2> QED BY <2>3, <2>4
<1>3. G \in SUBSET Seq(Seq(C))
  OBVIOUS
<1> HIDE DEF G
<1>4. row \in G
  BY <1>1, <1>2, <1>3, InductText
<1> QED BY <1>4 DEF G

\* A break is a text that starts with no quote.
LEMMA BreakIsText ==
  ASSUME NEW C, {"quote", "lf", "cr"} \subseteq C, NEW break \in Breaks, NEW after
  PROVE  /\ break \in Seq(C)
         /\ First(break, after) # "quote"
         /\ break = <<"cr">> => First(break, after) = "cr"
<1>1. CASE break = <<"lf">>
  BY <1>1 DEF First
<1>2. CASE break = <<"cr">>
  BY <1>2 DEF First
<1>3. CASE break = <<"cr", "lf">>
  BY <1>3 DEF First
<1> QED BY <1>1, <1>2, <1>3 DEF Breaks

\* A break, fed, ends the row.
LEMMA BreakFeeds ==
  ASSUME NEW C, {"quote", "lf", "cr"} \subseteq C, NEW break \in Breaks,
         NEW rows, NEW row, NEW field, NEW truncated, NEW cut, CutIs(cut, row, truncated),
         NEW delimiter, Delimits(delimiter), NEW after, Ends(break, after)
  PROVE  Taken(Feed(Outside(rows, row, field, truncated), break, after, delimiter),
               rows, Pushed(row, field), cut)
<1> DEFINE s == Outside(rows, row, field, truncated)
<1> HIDE DEF s
<1>0. "lf" \in C /\ "cr" \in C
  OBVIOUS
<1>1. CASE break = <<"lf">>
  <2>1. Feed(s, break, after, delimiter) = Step(s, "lf", after, delimiter)
    BY <1>0, <1>1, FeedOne
  <2> QED BY <2>1, StepBreaks DEF s
<1>2. CASE break = <<"cr">>
  <2>1. Feed(s, break, after, delimiter) = Step(s, "cr", after, delimiter)
    BY <1>0, <1>2, FeedOne
  <2>2. after # "lf"
    BY <1>2 DEF Ends
  <2> QED BY <2>1, <2>2, StepBreaks DEF s
<1>3. CASE break = <<"cr", "lf">>
  <2> DEFINE one == <<"cr">>
  <2>1. break = Append(one, "lf") /\ one \in Seq(C)
    BY <1>0, <1>3
  <2>2. Feed(s, one, "lf", delimiter) = Step(s, "cr", "lf", delimiter)
    BY <1>0, FeedOne
  <2> HIDE DEF one
  <2>3. Feed(s, Append(one, "lf"), after, delimiter) =
            Step(Feed(s, one, "lf", delimiter), "lf", after, delimiter)
    BY <1>0, <2>1, FeedAppend
  <2>4. Feed(s, break, after, delimiter) =
            Step(Step(s, "cr", "lf", delimiter), "lf", after, delimiter)
    BY <2>1, <2>2, <2>3
  <2> QED BY <2>4, StepBreaks DEF s
<1> QED BY <1>1, <1>2, <1>3 DEF Breaks

\* A written row with its break is one row more, cut, or ends the parse.
LEMMA LineFeeds ==
  ASSUME NEW C, {"quote", "lf", "cr"} \subseteq C, NEW row \in Seq(Seq(C)), row # <<>>,
         NEW style, NEW break \in Breaks, NEW delimiter \in C, Delimits(delimiter),
         NEW rows, NEW truncated \in BOOLEAN, NEW after, Ends(break, after)
  PROVE  Taken(Feed(Outside(rows, <<>>, <<>>, truncated),
                    WriteRow(row, style, delimiter) \o break, after, delimiter),
               rows, Cut(row, MaxCols), Wide(truncated, row))
<1> DEFINE s == Outside(rows, <<>>, <<>>, truncated)
           line == WriteRow(row, style, delimiter)
<1>1. PICK fields \in Seq(Seq(C)), field \in Seq(C) : row = Append(fields, field)
  BY SequenceEmptyOrAppend
<1>2. line \in Seq(C) /\ break \in Seq(C) /\ First(break, after) # "quote"
  <2>1. line \in Seq(C)
    BY WriteRowAppend
  <2> QED BY <2>1, BreakIsText
<1>3. Feed(s, line, First(break, after), delimiter) =
          Outside(rows, Cut(fields, MaxCols), field, Wide(truncated, fields))
  BY <1>1, <1>2, RowFeeds
<1>4. /\ Pushed(Cut(fields, MaxCols), field) = Cut(row, MaxCols)
      /\ CutIs(Wide(truncated, row), Cut(fields, MaxCols), Wide(truncated, fields))
  BY <1>1, PushedCut
<1>5. Taken(Feed(Outside(rows, Cut(fields, MaxCols), field, Wide(truncated, fields)),
                 break, after, delimiter),
            rows, Pushed(Cut(fields, MaxCols), field), Wide(truncated, row))
  <2> DEFINE cut == Wide(truncated, row)
             wide == Wide(truncated, fields)
             few == Cut(fields, MaxCols)
  <2> HIDE DEF cut, wide, few
  <2>1. CutIs(cut, few, wide)
    BY <1>4 DEF cut, wide, few
  <2>2. Taken(Feed(Outside(rows, few, field, wide), break, after, delimiter),
              rows, Pushed(few, field), cut)
    BY <2>1, BreakFeeds
  <2> QED BY <2>2 DEF cut, wide, few
<1> HIDE DEF s, line
<1>6. Feed(s, line \o break, after, delimiter) =
          Feed(Feed(s, line, First(break, after), delimiter), break, after, delimiter)
  BY <1>2, FeedConcat
<1>7. Taken(Feed(s, line \o break, after, delimiter), rows, Cut(row, MaxCols), Wide(truncated, row))
  BY <1>3, <1>4, <1>5, <1>6, Zenon
<1> QED BY <1>7 DEF s, line

----------------------------------------------------------------------------
(* Tables.                                                                 *)

\* The rows of a table over these characters.
RowsOver(C) == Seq(Seq(C)) \ {<<>>}

\* The rows of a table as text, and the same with every row ended.
Lines(table, style, delimiter) == [i \in 1..Len(table) |-> WriteRow(table[i], style, delimiter)]
Separated(table, style, delimiter) == Join(Lines(table, style, delimiter), style.break)
EndedRows(table, style, delimiter) ==
    IF table = <<>> THEN <<>> ELSE Separated(table, style, delimiter) \o style.break

\* The text of a table grows by a row.
Grows(table, row, style, delimiter) ==
    /\ Separated(Append(table, row), style, delimiter) =
           EndedRows(table, style, delimiter) \o WriteRow(row, style, delimiter)
    /\ EndedRows(Append(table, row), style, delimiter) =
           EndedRows(table, style, delimiter) \o (WriteRow(row, style, delimiter) \o style.break)

\* A table is written row after row.
LEMMA TableGrows ==
  ASSUME NEW C, "quote" \in C, NEW table \in Seq(RowsOver(C)), NEW row \in RowsOver(C),
         NEW style, style.break \in Seq(C), NEW delimiter \in C
  PROVE  /\ EndedRows(table, style, delimiter) \in Seq(C)
         /\ Grows(table, row, style, delimiter)
<1> DEFINE lines(t) == Lines(t, style, delimiter)
           more == Append(table, row)
           text == WriteRow(row, style, delimiter)
           break == style.break
<1>1. /\ more \in Seq(RowsOver(C)) /\ more # <<>>
      /\ Len(more) = Len(table) + 1 /\ Len(table) \in Nat
      /\ \A i \in 1..Len(table) : more[i] = table[i]
      /\ more[Len(table) + 1] = row
  BY AppendProperties
<1>2. ASSUME NEW t \in Seq(RowsOver(C)) PROVE lines(t) \in Seq(Seq(C)) /\ Len(lines(t)) = Len(t)
  <2>1. \A i \in 1..Len(t) : WriteRow(t[i], style, delimiter) \in Seq(C)
    <3>1. \A i \in 1..Len(t) : t[i] \in Seq(Seq(C))
      BY ElementOfSeq DEF RowsOver
    <3> QED BY <3>1, WriteRowAppend
  <2>2. Len(t) \in Nat
    OBVIOUS
  <2> QED BY <2>1, <2>2 DEF Lines
<1>3. text \in Seq(C) /\ break \in Seq(C)
  BY WriteRowAppend DEF RowsOver
<1> HIDE DEF more, text, break
<1>4. lines(more)[Len(table) + 1] = text
  BY <1>1 DEF text, Lines
<1>5. \A i \in 1..Len(table) : lines(more)[i] = lines(table)[i]
  BY <1>1 DEF Lines
<1>6. /\ lines(table) \in Seq(Seq(C)) /\ Len(lines(table)) = Len(table)
      /\ lines(more) \in Seq(Seq(C)) /\ Len(lines(more)) = Len(table) + 1
  BY <1>1, <1>2
<1> HIDE DEF lines
<1>7. lines(more) = Append(lines(table), text)
  BY <1>3, <1>4, <1>5, <1>6, IsAppend
<1>8. Join(lines(table), break) \in Seq(C)
  BY <1>3, <1>6, JoinIsText
<1>9. EndedRows(table, style, delimiter) \in Seq(C)
  <2>1. <<>> \in Seq(C) /\ Join(lines(table), break) \o break \in Seq(C)
    BY <1>3, <1>8, ConcatProperties
  <2> QED BY <2>1, Zenon DEF EndedRows, Separated, lines, break
<1>10. Join(lines(more), break) = EndedRows(table, style, delimiter) \o text
  <2>1. CASE table = <<>>
    <3>1. Len(lines(more)) = 1 /\ lines(more)[1] = text
      <4>1. Len(table) = 0
        BY <2>1
      <4> QED BY <4>1, <1>4, <1>6
    <3>2. Join(lines(more), break) = text
      BY <3>1, JoinFirst
    <3>3. EndedRows(table, style, delimiter) = <<>>
      BY <2>1, Zenon DEF EndedRows
    <3>4. <<>> \o text = text
      BY <1>3, ConcatEmptySeq
    <3> QED BY <3>2, <3>3, <3>4, Zenon
  <2>2. CASE table # <<>>
    <3>1. lines(table) # <<>>
      BY <1>6, <2>2, EmptySeq
    <3>2. Join(Append(lines(table), text), break) = Join(lines(table), break) \o break \o text
      BY <1>3, <1>6, <3>1, JoinAppend
    <3>3. EndedRows(table, style, delimiter) = Join(lines(table), break) \o break
      BY <2>2, Zenon DEF EndedRows, Separated, lines, break
    <3> QED BY <1>7, <3>2, <3>3, Zenon
  <2> QED BY <2>1, <2>2
<1>11. EndedRows(more, style, delimiter) = EndedRows(table, style, delimiter) \o (text \o break)
  <2> DEFINE e == EndedRows(table, style, delimiter)
  <2>1. EndedRows(more, style, delimiter) = Join(lines(more), break) \o break
    BY <1>1, Zenon DEF EndedRows, Separated, lines, break
  <2>2. \A x, y, z \in Seq(C) : (x \o y) \o z = x \o (y \o z)
    BY ConcatAssociative
  <2>3. (e \o text) \o break = e \o (text \o break)
    <3> HIDE DEF e
    <3>1. e \in Seq(C)
      BY <1>9 DEF e
    <3> QED BY <1>3, <2>2, <3>1, Zenon
  <2> QED BY <1>10, <2>1, <2>3, Zenon
<1>12. Grows(table, row, style, delimiter)
  BY <1>10, <1>11, Zenon DEF Grows, Separated, lines, more, text, break
<1> QED BY <1>9, <1>12

\* What the preview shows of a table that a row more is added to.
ShownGrows(table, row) ==
    /\ Shown(Append(table, row)).rows =
           IF Len(table) < MaxRows THEN Append(Shown(table).rows, Cut(row, MaxCols))
           ELSE Shown(table).rows
    /\ Shown(Append(table, row)).truncated =
           (Wide(Shown(table).truncated, row) \/ ~(Len(table) < MaxRows))

\* The preview of a table that a row more is added to.
LEMMA ShownAppend ==
  ASSUME NEW D, NEW table \in Seq(Seq(D)), NEW row \in Seq(D)
  PROVE  /\ Len(Shown(table).rows) = Least(Len(table), MaxRows)
         /\ Shown(table).truncated \in BOOLEAN
         /\ ShownGrows(table, row)
<1> DEFINE cuts(t) == [i \in 1..Len(t) |-> Cut(t[i], MaxCols)]
           more == Append(table, row)
           last == Cut(row, MaxCols)
<1>0. MaxRows \in Nat \ {0} /\ MaxCols \in Nat \ {0}
  BY CsvAssumption
<1>1. /\ more \in Seq(Seq(D))
      /\ Len(more) = Len(table) + 1 /\ Len(table) \in Nat
      /\ \A i \in 1..Len(table) : more[i] = table[i]
      /\ more[Len(table) + 1] = row
  BY AppendProperties
<1>2. \A r \in Seq(D) : Cut(r, MaxCols) \in Seq(D)
  <2> SUFFICES ASSUME NEW r \in Seq(D) PROVE Cut(r, MaxCols) \in Seq(D)
    OBVIOUS
  <2>1. Least(Len(r), MaxCols) \in Nat /\ Least(Len(r), MaxCols) <= Len(r) /\ Len(r) \in Nat
    <3>1. Len(r) \in Nat
      OBVIOUS
    <3> QED BY <1>0, <3>1, LeastIs
  <2>2. \A i \in 1..Least(Len(r), MaxCols) : r[i] \in D
    BY <2>1, ElementOfSeq
  <2> QED BY <2>1, <2>2, SubSeqProperties DEF Cut
<1>3. ASSUME NEW t \in Seq(Seq(D)) PROVE cuts(t) \in Seq(Seq(D)) /\ Len(cuts(t)) = Len(t)
  <2>1. \A i \in 1..Len(t) : Cut(t[i], MaxCols) \in Seq(D)
    BY <1>2, ElementOfSeq
  <2>2. Len(t) \in Nat
    OBVIOUS
  <2> HIDE DEF last
  <2> QED BY <2>1, <2>2
<1>4. last \in Seq(D)
  BY <1>2
<1>5. cuts(more) = Append(cuts(table), last)
  <2>1. cuts(more)[Len(table) + 1] = last /\ \A i \in 1..Len(table) : cuts(more)[i] = cuts(table)[i]
    <3> HIDE DEF more
    <3> QED BY <1>1
  <2>2. /\ cuts(table) \in Seq(Seq(D)) /\ Len(cuts(table)) = Len(table)
        /\ cuts(more) \in Seq(Seq(D)) /\ Len(cuts(more)) = Len(table) + 1
    BY <1>1, <1>3
  <2> HIDE DEF cuts, more, last
  <2> QED BY <1>4, <2>1, <2>2, IsAppend
<1>6. ASSUME NEW t PROVE /\ Shown(t).rows = Cut(cuts(t), MaxRows)
                         /\ Shown(t).truncated =
                              (Len(t) > MaxRows \/ \E i \in 1..Len(t) : Len(t[i]) > MaxCols)
  BY DEF Shown
<1>7. cuts(table) \in Seq(Seq(D)) /\ Len(cuts(table)) = Len(table)
  BY <1>3
<1> HIDE DEF cuts, last
<1>8. /\ Len(Cut(cuts(table), MaxRows)) = Least(Len(table), MaxRows)
      /\ Cut(Append(cuts(table), last), MaxRows) =
            IF Len(table) < MaxRows THEN Append(Cut(cuts(table), MaxRows), last)
            ELSE Cut(cuts(table), MaxRows)
  BY <1>0, <1>4, <1>7, CutAppend
<1>9. Shown(more).rows = IF Len(table) < MaxRows THEN Append(Shown(table).rows, last)
                         ELSE Shown(table).rows
  BY <1>5, <1>6, <1>8, Zenon
<1>10. Shown(more).truncated = (Wide(Shown(table).truncated, row) \/ ~(Len(table) < MaxRows))
  <2> DEFINE wide(t) == \E i \in 1..Len(t) : Len(t[i]) > MaxCols
  <2> HIDE DEF more
  <2>1. wide(more) <=> (wide(table) \/ Len(row) > MaxCols)
    <3>1. ASSUME wide(table) PROVE wide(more)
      BY <1>1, <3>1
    <3>2. ASSUME Len(row) > MaxCols PROVE wide(more)
      BY <1>1, <3>2
    <3>3. ASSUME NEW i \in 1..Len(more), Len(more[i]) > MaxCols, ~(Len(row) > MaxCols)
          PROVE  wide(table)
      <4>1. i \in 1..Len(table)
        BY <1>1, <3>3
      <4> QED BY <1>1, <3>3, <4>1
    <3> QED BY <3>1, <3>2, <3>3
  <2> DEFINE a == wide(more)
             b == wide(table)
  <2>2. Shown(more).truncated = (Len(more) > MaxRows \/ a)
        /\ Shown(table).truncated = (Len(table) > MaxRows \/ b)
    BY <1>6
  <2>3. a \in BOOLEAN /\ b \in BOOLEAN
    OBVIOUS
  <2> HIDE DEF a, b
  <2>4. a <=> (b \/ Len(row) > MaxCols)
    BY <2>1 DEF a, b
  <2>5. Len(more) > MaxRows <=> (Len(table) > MaxRows \/ ~(Len(table) < MaxRows))
    BY <1>0, <1>1
  <2> QED BY <2>2, <2>3, <2>4, <2>5, Zenon DEF Wide
<1>11. Shown(table).truncated \in BOOLEAN
  BY <1>6
<1>12. Len(Shown(table).rows) = Least(Len(table), MaxRows)
  BY <1>6, <1>8
<1> QED BY <1>9, <1>10, <1>11, <1>12, Zenon DEF ShownGrows, more, last

\* The parser between two rows: it has what the preview shows of the rows so
\* far, and has stopped if they were too many.
ReadSoFar(s, table) ==
    IF Len(table) <= MaxRows
    THEN s = Outside(Shown(table).rows, <<>>, <<>>, Shown(table).truncated)
    ELSE s.stop /\ s.rows = Shown(table).rows /\ s.truncated = TRUE

\* The preview of no rows.
LEMMA ShownNothing == Shown(<<>>).rows = <<>> /\ Shown(<<>>).truncated = FALSE
<1>0. MaxRows \in Nat \ {0} /\ MaxCols \in Nat \ {0}
  BY CsvAssumption
<1>1. Shown(<<>>).rows = Cut([i \in 1..Len(<<>>) |-> Cut(<<>>[i], MaxCols)], MaxRows)
  BY DEF Shown
<1>2. [i \in 1..Len(<<>>) |-> Cut(<<>>[i], MaxCols)] = <<>>
  OBVIOUS
<1>3. Cut(<<>>, MaxRows) = <<>>
  BY <1>0, CutNothing
<1>4. Shown(<<>>).truncated = FALSE
  BY <1>0 DEF Shown
<1> QED BY <1>1, <1>2, <1>3, <1>4, Zenon

\* One row more, ended.
LEMMA ReadsRow ==
  ASSUME NEW C, {"quote", "lf", "cr"} \subseteq C, NEW table \in Seq(RowsOver(C)),
         NEW row \in RowsOver(C), NEW style, style.break \in Breaks,
         NEW delimiter \in C, Delimits(delimiter), NEW after, Ends(style.break, after),
         NEW s, ReadSoFar(s, table)
  PROVE  ReadSoFar(Feed(s, WriteRow(row, style, delimiter) \o style.break, after, delimiter),
                   Append(table, row))
<1> DEFINE text == WriteRow(row, style, delimiter) \o style.break
           more == Append(table, row)
           end == Feed(s, text, after, delimiter)
           old == Shown(table)
           new == Shown(more)
<1>0. MaxRows \in Nat \ {0}
  BY CsvAssumption
<1>1. row \in Seq(Seq(C)) /\ row # <<>> /\ table \in Seq(Seq(Seq(C)))
  <2>1. RowsOver(C) \subseteq Seq(Seq(C))
    BY DEF RowsOver
  <2>2. table \in Seq(Seq(Seq(C)))
    BY <2>1, SeqMonotonic
  <2> QED BY <2>2 DEF RowsOver
<1>2. Len(more) = Len(table) + 1 /\ Len(table) \in Nat
  BY AppendProperties
<1>3. /\ Len(old.rows) = Least(Len(table), MaxRows)
      /\ old.truncated \in BOOLEAN
      /\ ShownGrows(table, row)
  BY <1>1, ShownAppend
<1>4. text \in Seq(C)
  <2>1. WriteRow(row, style, delimiter) \in Seq(C)
    BY <1>1, WriteRowAppend
  <2>2. style.break \in Seq(C)
    BY BreakIsText
  <2> QED BY <2>1, <2>2, ConcatProperties
<1>5. ASSUME Len(table) <= MaxRows
      PROVE  Taken(end, old.rows, Cut(row, MaxCols), Wide(old.truncated, row))
  <2>1. s = Outside(old.rows, <<>>, <<>>, old.truncated)
    BY <1>5 DEF ReadSoFar
  <2> DEFINE rows == old.rows
             truncated == old.truncated
  <2>2. truncated \in BOOLEAN
    BY <1>3
  <2> HIDE DEF old, rows, truncated
  <2>3. Taken(Feed(Outside(rows, <<>>, <<>>, truncated), text, after, delimiter),
              rows, Cut(row, MaxCols), Wide(truncated, row))
    BY <1>1, <2>2, LineFeeds
  <2> QED BY <2>1, <2>3, Zenon DEF rows, truncated
<1>6. /\ new.rows = IF Len(table) < MaxRows THEN Append(old.rows, Cut(row, MaxCols)) ELSE old.rows
      /\ new.truncated = (Wide(old.truncated, row) \/ ~(Len(table) < MaxRows))
  BY <1>3, Zenon DEF ShownGrows
<1>7. CASE Len(table) < MaxRows
  <2>1. Len(table) <= MaxRows /\ Len(old.rows) < MaxRows /\ Len(more) <= MaxRows
    BY <1>0, <1>2, <1>3, <1>7 DEF Least
  <2>2. end = Outside(Append(old.rows, Cut(row, MaxCols)), <<>>, <<>>, Wide(old.truncated, row))
    BY <1>5, <2>1, Zenon DEF Taken
  <2>3. Wide(old.truncated, row) \in BOOLEAN
    BY <1>3 DEF Wide
  <2>4. new.rows = Append(old.rows, Cut(row, MaxCols)) /\ new.truncated = Wide(old.truncated, row)
    BY <1>6, <1>7, <2>3, Zenon
  <2> QED BY <2>1, <2>2, <2>4, Zenon DEF ReadSoFar
<1>8. CASE Len(table) = MaxRows
  <2>1. Len(table) <= MaxRows /\ ~(Len(old.rows) < MaxRows) /\ ~(Len(more) <= MaxRows)
        /\ ~(Len(table) < MaxRows)
    BY <1>0, <1>2, <1>3, <1>8 DEF Least
  <2>2. end.stop /\ end.rows = old.rows /\ end.truncated = TRUE
    BY <1>5, <2>1, Zenon DEF Taken
  <2>3. new.rows = old.rows
    BY <1>6, <2>1, Zenon
  <2> QED BY <2>1, <2>2, <2>3, Zenon DEF ReadSoFar
<1>9. CASE Len(table) > MaxRows
  <2>1. ~(Len(table) <= MaxRows) /\ ~(Len(more) <= MaxRows) /\ ~(Len(table) < MaxRows)
    BY <1>0, <1>2, <1>9
  <2>2. s.stop /\ s.rows = old.rows /\ s.truncated = TRUE
    BY <2>1, Zenon DEF ReadSoFar
  <2>3. end = s
    BY <1>4, <2>2, FeedStopped
  <2>4. new.rows = old.rows
    BY <1>6, <2>1, Zenon
  <2> QED BY <2>1, <2>2, <2>3, <2>4, Zenon DEF ReadSoFar
<1> QED BY <1>0, <1>2, <1>7, <1>8, <1>9

\* A table whose rows are all ended is read row after row.
LEMMA TableFeeds ==
  ASSUME NEW C, {"quote", "lf", "cr"} \subseteq C, NEW table \in Seq(RowsOver(C)),
         NEW style, style.break \in Breaks,
         NEW delimiter \in C, Delimits(delimiter), NEW after, Ends(style.break, after)
  PROVE  ReadSoFar(Feed(Start, EndedRows(table, style, delimiter), after, delimiter), table)
<1> DEFINE text(t) == EndedRows(t, style, delimiter)
           G == {t \in Seq(RowsOver(C)) : \A a : Ends(style.break, a) =>
                    ReadSoFar(Feed(Start, text(t), a, delimiter), t)}
<1>0. style.break \in Seq(C) /\ MaxRows \in Nat
  BY BreakIsText, CsvAssumption
<1>1. <<>> \in G
  <2>1. text(<<>>) = <<>>
    BY DEF EndedRows
  <2>2. \A a : Feed(Start, text(<<>>), a, delimiter) = Start
    BY <2>1, FeedNothing
  <2>3. Start = Outside(<<>>, <<>>, <<>>, FALSE)
    BY DEF Start, Outside
  <2>4. ReadSoFar(Start, <<>>)
    <3>1. Len(<<>>) <= MaxRows
      BY <1>0
    <3> QED BY <2>3, <3>1, ShownNothing, Zenon DEF ReadSoFar
  <2>5. <<>> \in Seq(RowsOver(C))
    OBVIOUS
  <2> QED BY <2>2, <2>4, <2>5
<1>2. ASSUME NEW t \in G, NEW row \in RowsOver(C) PROVE Append(t, row) \in G
  <2> DEFINE line == WriteRow(row, style, delimiter)
             full == line \o style.break
  <2>1. t \in Seq(RowsOver(C)) /\ \A a : Ends(style.break, a) =>
                                    ReadSoFar(Feed(Start, text(t), a, delimiter), t)
    OBVIOUS
  <2> SUFFICES ASSUME NEW a, Ends(style.break, a)
               PROVE  ReadSoFar(Feed(Start, text(Append(t, row)), a, delimiter), Append(t, row))
    BY AppendProperties
  <2> HIDE DEF G
  <2>2. text(t) \in Seq(C) /\ text(Append(t, row)) = text(t) \o full
    <3>1. text(t) \in Seq(C) /\ Grows(t, row, style, delimiter)
      BY <1>0, <2>1, TableGrows
    <3> QED BY <3>1, Zenon DEF Grows
  <2>3. line \in Seq(C) /\ full \in Seq(C)
    <3>1. line \in Seq(C)
      BY WriteRowAppend DEF RowsOver
    <3> QED BY <1>0, <3>1, ConcatProperties
  <2>4. Ends(style.break, First(full, a))
    <3> SUFFICES ASSUME style.break = <<"cr">> PROVE First(full, a) # "lf"
      BY DEF Ends
    <3>1. First(style.break, a) = "cr"
      BY BreakIsText
    <3>2. First(full, a) = First(line, First(style.break, a))
      <4>1. \A v, w \in Seq(C) : First(v \o w, a) = First(v, First(w, a))
        BY FirstConcat
      <4> QED BY <1>0, <2>3, <4>1, Zenon
    <3>3. First(line, "cr") # "lf"
      BY RowStarts DEF RowsOver
    <3> QED BY <3>1, <3>2, <3>3
  <2> DEFINE s == Feed(Start, text(t), First(full, a), delimiter)
  <2>5. ReadSoFar(s, t)
    BY <2>1, <2>4
  <2>6. ReadSoFar(Feed(s, full, a, delimiter), Append(t, row))
    <3> HIDE DEF s, text
    <3> QED BY <2>1, <2>5, ReadsRow
  <2>7. Feed(Start, text(t) \o full, a, delimiter) = Feed(s, full, a, delimiter)
    <3> HIDE DEF full, text
    <3>1. \A v, w \in Seq(C) : Feed(Start, v \o w, a, delimiter) =
              Feed(Feed(Start, v, First(w, a), delimiter), w, a, delimiter)
      BY FeedConcat
    <3> QED BY <2>2, <2>3, <3>1, Zenon
  <2> QED BY <2>2, <2>6, <2>7, Zenon
<1>3. G \in SUBSET Seq(RowsOver(C))
  OBVIOUS
<1> HIDE DEF G
<1>4. table \in G
  BY <1>1, <1>2, <1>3, InductText
<1> QED BY <1>4 DEF G

----------------------------------------------------------------------------
(* The flush, and the whole.                                               *)

\* The flush leaves what ended with a break as it is.
LEMMA FlushNothing ==
  ASSUME NEW s, NEW table, ReadSoFar(s, table), Len(table) \in Nat
  PROVE  Flush(s).rows = Shown(table).rows /\ Flush(s).truncated = Shown(table).truncated
<1>0. MaxRows \in Nat
  BY CsvAssumption
<1>1. CASE Len(table) <= MaxRows
  <2>1. s = Outside(Shown(table).rows, <<>>, <<>>, Shown(table).truncated)
    BY <1>1, Zenon DEF ReadSoFar
  <2>2. s.field = <<>> /\ s.row = <<>> /\ s.rows = Shown(table).rows
        /\ s.truncated = Shown(table).truncated
    BY <2>1 DEF Outside
  <2>3. Flush(s) = s
    BY <2>2, Zenon DEF Flush
  <2> QED BY <2>2, <2>3
<1>2. CASE ~(Len(table) <= MaxRows)
  <2>1. s.stop /\ s.rows = Shown(table).rows /\ s.truncated = TRUE
    BY <1>2, Zenon DEF ReadSoFar
  <2>2. Flush(s) = s
    BY <2>1, Zenon DEF Flush
  <2>3. Shown(table).truncated = TRUE
    BY <1>0, <1>2 DEF Shown
  <2> QED BY <2>1, <2>2, <2>3, Zenon
<1> QED BY <1>1, <1>2

\* What parseCsv answers, by its two parts.
LEMMA ParsedIsShown ==
  ASSUME NEW text, NEW delimiter, NEW rows,
         Flush(Feed(Start, text, "end", delimiter)).rows = Shown(rows).rows,
         Flush(Feed(Start, text, "end", delimiter)).truncated = Shown(rows).truncated
  PROVE  parseCsv(text, delimiter) = Shown(rows)
<1>1. Shown(rows) = [rows |-> Shown(rows).rows, truncated |-> Shown(rows).truncated]
  BY DEF Shown
<1>2. parseCsv(text, delimiter) =
        [rows |-> Flush(Feed(Start, text, "end", delimiter)).rows,
         truncated |-> Flush(Feed(Start, text, "end", delimiter)).truncated]
  BY DEF parseCsv
<1> QED BY <1>1, <1>2, Zenon

\* The last row, which no break has ended.
LEMMA FlushesRow ==
  ASSUME NEW C, {"quote", "lf", "cr"} \subseteq C, NEW table \in Seq(RowsOver(C)),
         NEW row \in RowsOver(C), NEW style, NEW delimiter \in C, Delimits(delimiter),
         NEW s, ReadSoFar(s, table), NEW end,
         end = Flush(Feed(s, WriteRow(row, style, delimiter), "end", delimiter))
  PROVE  /\ row = << <<>> >> =>
              end.rows = Shown(table).rows /\ end.truncated = Shown(table).truncated
         /\ row # << <<>> >> =>
              /\ end.rows = Shown(Append(table, row)).rows
              /\ end.truncated = Shown(Append(table, row)).truncated
<1> DEFINE line == WriteRow(row, style, delimiter)
           last == Feed(s, line, "end", delimiter)
           more == Append(table, row)
           old == Shown(table)
           new == Shown(more)
<1>0. MaxRows \in Nat \ {0} /\ MaxCols \in Nat \ {0}
  BY CsvAssumption
<1>1. row \in Seq(Seq(C)) /\ row # <<>> /\ table \in Seq(Seq(Seq(C)))
  <2>1. RowsOver(C) \subseteq Seq(Seq(C))
    BY DEF RowsOver
  <2>2. table \in Seq(Seq(Seq(C)))
    BY <2>1, SeqMonotonic
  <2> QED BY <2>2 DEF RowsOver
<1>2. Len(more) = Len(table) + 1 /\ Len(table) \in Nat
  BY AppendProperties
<1>3. /\ Len(old.rows) = Least(Len(table), MaxRows)
      /\ old.truncated \in BOOLEAN
      /\ new.rows = IF Len(table) < MaxRows THEN Append(old.rows, Cut(row, MaxCols)) ELSE old.rows
      /\ new.truncated = (Wide(old.truncated, row) \/ ~(Len(table) < MaxRows))
  BY <1>1, ShownAppend DEF ShownGrows
<1>4. CASE Len(table) > MaxRows
  <2>1. ~(Len(table) <= MaxRows) /\ ~(Len(more) <= MaxRows) /\ ~(Len(table) < MaxRows)
    BY <1>0, <1>2, <1>4
  <2>2. s.stop /\ s.rows = old.rows /\ s.truncated = TRUE
    BY <2>1, Zenon DEF ReadSoFar
  <2>3. last = s
    <3>1. line \in Seq(C)
      BY <1>1, WriteRowAppend
    <3> QED BY <2>2, <3>1, FeedStopped
  <2>4. end = s
    BY <2>2, <2>3, Zenon DEF Flush
  <2>5. new.rows = old.rows /\ new.truncated = TRUE
    BY <1>3, <2>1, Zenon
  <2>6. old.truncated = TRUE
    BY <1>4 DEF Shown
  <2> QED BY <2>2, <2>4, <2>5, <2>6, Zenon
<1>5. CASE Len(table) <= MaxRows
  <2>1. PICK fields \in Seq(Seq(C)), field \in Seq(C) : row = Append(fields, field)
    BY <1>1, SequenceEmptyOrAppend
  <2> DEFINE few == Cut(fields, MaxCols)
             wide == Wide(old.truncated, fields)
             cut == Wide(old.truncated, row)
             rows == old.rows
  <2>2. s = Outside(rows, <<>>, <<>>, old.truncated)
    BY <1>5, Zenon DEF ReadSoFar
  <2>3. last = Outside(rows, few, field, wide)
    <3> DEFINE truncated == old.truncated
    <3>1. truncated \in BOOLEAN
      BY <1>3
    <3> HIDE DEF old, rows, truncated
    <3>2. Feed(Outside(rows, <<>>, <<>>, truncated), line, "end", delimiter) =
             Outside(rows, few, field, Wide(truncated, fields))
      BY <2>1, <3>1, RowFeeds
    <3> QED BY <2>2, <3>2, Zenon DEF truncated
  <2>4. Pushed(few, field) = Cut(row, MaxCols) /\ CutIs(cut, few, wide)
    BY <1>3, <2>1, PushedCut
  <2>5. Len(few) = Least(Len(fields), MaxCols) /\ Len(fields) \in Nat
    <3>1. Len(fields) \in Nat
      OBVIOUS
    <3>2. \A x \in Seq(C) : Len(few) = Least(Len(fields), MaxCols)
      BY <1>0, CutAppend
    <3> QED BY <3>1, <3>2, <2>1
  <2>6. CASE row = << <<>> >>
    <3>1. fields = <<>> /\ field = <<>>
      <4>1. Len(row) = 1 /\ row[1] = <<>>
        BY <2>6
      <4>2. Len(row) = Len(fields) + 1 /\ row[Len(fields) + 1] = field
        BY <2>1, AppendProperties
      <4>3. Len(fields) = 0
        <5>1. Len(fields) \in Nat
          OBVIOUS
        <5>2. 1 = Len(fields) + 1
          BY <4>1, <4>2, Zenon
        <5> QED BY <5>1, <5>2
      <4>4. fields = <<>>
        BY <4>3, EmptySeq
      <4> QED BY <4>1, <4>2, <4>3, <4>4
    <3>2. few = <<>>
      BY <1>0, <3>1, CutNothing
    <3>3. wide = old.truncated
      BY <1>0, <1>3, <3>1 DEF Wide
    <3>4. last = s
      BY <2>2, <2>3, <3>1, <3>2, <3>3, Zenon
    <3>5. Flush(last).rows = old.rows /\ Flush(last).truncated = old.truncated
      BY <1>2, <3>4, FlushNothing
    <3> QED BY <2>6, <3>5
  <2>7. CASE row # << <<>> >>
    <3>1. few # <<>> \/ field # <<>>
      <4> SUFFICES ASSUME few = <<>>, field = <<>> PROVE FALSE
        OBVIOUS
      <4>1. Len(few) = 0
        OBVIOUS
      <4>2. Len(fields) = 0
        BY <1>0, <2>5, <4>1 DEF Least
      <4>3. fields = <<>>
        BY <4>2, EmptySeq
      <4>4. row = << <<>> >>
        BY <2>1, <4>3
      <4> QED BY <2>7, <4>4
    <3>2. last.field = field /\ last.row = few /\ ~last.stop
      <4> HIDE DEF last, few, wide, rows
      <4> QED BY <2>3 DEF Outside
    <3>3. end = pushRow(last)
      BY <3>1, <3>2, Zenon DEF Flush
    <3>4. IF Len(rows) < MaxRows
          THEN end = Outside(Append(rows, Pushed(few, field)), <<>>, <<>>, cut)
          ELSE end = Halted(rows)
      <4> HIDE DEF last, few, wide, rows, cut
      <4>1. end = pushRow(Outside(rows, few, field, wide))
        BY <2>3, <3>3, Zenon
      <4>2. RowIsOver(end, rows, Pushed(few, field), cut)
        BY <2>4, <4>1, PushRow
      <4> QED BY <4>2, Zenon DEF RowIsOver
    <3>5. Len(rows) < MaxRows <=> Len(table) < MaxRows
      BY <1>0, <1>2, <1>3, <1>5 DEF Least
    <3>6. CASE Len(table) < MaxRows
      <4>1. end = Outside(Append(rows, Cut(row, MaxCols)), <<>>, <<>>, cut)
        BY <2>4, <3>4, <3>5, <3>6, Zenon
      <4>2. end.rows = Append(rows, Cut(row, MaxCols)) /\ end.truncated = cut
        <5> HIDE DEF rows, cut
        <5> QED BY <4>1 DEF Outside
      <4>3. cut \in BOOLEAN
        BY <1>3 DEF Wide
      <4> QED BY <1>3, <2>7, <3>6, <4>2, <4>3, Zenon
    <3>7. CASE ~(Len(table) < MaxRows)
      <4>1. end = Halted(rows)
        BY <3>4, <3>5, <3>7, Zenon
      <4>2. end.rows = rows /\ end.truncated = TRUE
        <5> HIDE DEF rows
        <5> QED BY <4>1 DEF Halted
      <4> QED BY <1>3, <2>7, <3>7, <4>2, Zenon
    <3> QED BY <3>6, <3>7
  <2> QED BY <2>6, <2>7
<1> QED BY <1>0, <1>2, <1>4, <1>5

\* Whatever the table, its style and the caps: the preview shows it.
THEOREM TableParses ==
  ASSUME NEW C, {"quote", "lf", "cr"} \subseteq C, NEW table \in Seq(RowsOver(C)),
         NEW style, style.break \in Breaks, style.ended \in BOOLEAN,
         NEW delimiter \in C, Delimits(delimiter)
  PROVE  parseCsv(Write(table, style, delimiter), delimiter) = Shown(Rows(table, style))
<1> DEFINE text == Write(table, style, delimiter)
           all == EndedRows(table, style, delimiter)
           tail == IF style.ended /\ table # <<>> THEN style.break ELSE <<>>
<1>0. style.break \in Seq(C) /\ <<>> \in Seq(C) /\ Len(table) \in Nat
  <2>1. style.break \in Seq(C)
    BY BreakIsText
  <2>2. <<>> \in Seq(C) /\ Len(table) \in Nat
    OBVIOUS
  <2> QED BY <2>1, <2>2
<1>1. text = Separated(table, style, delimiter) \o tail
  BY DEF Write, Separated, Lines
<1>2. CASE table = <<>> \/ style.ended
  <2>1. text = all
    <3>1. CASE table = <<>>
      <4>1. Len(Lines(<<>>, style, delimiter)) = 0
        BY DEF Lines
      <4>2. Separated(table, style, delimiter) = <<>>
        BY <3>1, <4>1, JoinFirst DEF Separated
      <4>3. tail = <<>> /\ all = <<>>
        BY <3>1, Zenon DEF EndedRows
      <4>4. <<>> \o <<>> = <<>>
        BY <1>0, ConcatEmptySeq
      <4> QED BY <1>1, <4>2, <4>3, <4>4, Zenon
    <3>2. CASE table # <<>>
      BY <1>1, <1>2, <3>2, Zenon DEF EndedRows
    <3> QED BY <3>1, <3>2
  <2>2. Rows(table, style) = table
    BY <1>2, Zenon DEF Rows
  <2>3. Ends(style.break, "end")
    BY DEF Ends
  <2>4. ReadSoFar(Feed(Start, all, "end", delimiter), table)
    BY <2>3, TableFeeds
  <2> HIDE DEF text, all
  <2>5. /\ Flush(Feed(Start, text, "end", delimiter)).rows = Shown(table).rows
        /\ Flush(Feed(Start, text, "end", delimiter)).truncated = Shown(table).truncated
    BY <1>0, <2>1, <2>4, FlushNothing
  <2>6. parseCsv(text, delimiter) = Shown(table)
    BY <2>5, ParsedIsShown
  <2> QED BY <2>2, <2>6 DEF text
<1>3. CASE table # <<>> /\ ~style.ended
  <2>1. PICK few \in Seq(RowsOver(C)), row \in RowsOver(C) : table = Append(few, row)
    BY <1>3, SequenceEmptyOrAppend
  <2> DEFINE line == WriteRow(row, style, delimiter)
             start == EndedRows(few, style, delimiter)
             s == Feed(Start, start, First(line, "end"), delimiter)
             end == Flush(Feed(s, line, "end", delimiter))
  <2>2. start \in Seq(C) /\ Separated(table, style, delimiter) = start \o line
    <3>1. start \in Seq(C) /\ Grows(few, row, style, delimiter)
      BY <1>0, TableGrows
    <3> QED BY <2>1, <3>1, Zenon DEF Grows
  <2>3. line \in Seq(C)
    BY WriteRowAppend DEF RowsOver
  <2>4. text = start \o line
    <3>1. tail = <<>>
      BY <1>3, Zenon
    <3>2. start \o line \in Seq(C)
      BY <2>2, <2>3, ConcatProperties
    <3>3. \A v \in Seq(C) : v \o <<>> = v
      BY ConcatEmptySeq
    <3> QED BY <1>1, <2>2, <3>1, <3>2, <3>3, Zenon
  <2>5. Ends(style.break, First(line, "end"))
    <3>1. First(line, "end") # "lf"
      BY RowStarts DEF RowsOver
    <3> QED BY <3>1 DEF Ends
  <2>6. ReadSoFar(s, few)
    <3> HIDE DEF line
    <3> QED BY <2>5, TableFeeds
  <2>7. Feed(Start, text, "end", delimiter) = Feed(s, line, "end", delimiter)
    <3> HIDE DEF line, start, text
    <3>1. \A v, w \in Seq(C) : Feed(Start, v \o w, "end", delimiter) =
              Feed(Feed(Start, v, First(w, "end"), delimiter), w, "end", delimiter)
      BY FeedConcat
    <3> QED BY <2>2, <2>3, <2>4, <3>1, Zenon
  <2>8. /\ row = << <<>> >> =>
              end.rows = Shown(few).rows /\ end.truncated = Shown(few).truncated
        /\ row # << <<>> >> =>
              end.rows = Shown(table).rows /\ end.truncated = Shown(table).truncated
    <3> HIDE DEF s, end
    <3>1. end = Flush(Feed(s, line, "end", delimiter))
      BY DEF end
    <3> QED BY <2>1, <2>6, <3>1, FlushesRow
  <2>9. table[Len(table)] = row /\ SubSeq(table, 1, Len(table) - 1) = few
    <3>1. /\ Len(table) = Len(few) + 1 /\ Len(few) \in Nat
          /\ \A i \in 1..Len(few) : table[i] = few[i]
          /\ table[Len(few) + 1] = row
      BY <2>1, AppendProperties
    <3>2. /\ SubSeq(table, 1, Len(few)) \in Seq(RowsOver(C))
          /\ Len(SubSeq(table, 1, Len(few))) = Len(few)
          /\ \A i \in 1..Len(few) : SubSeq(table, 1, Len(few))[i] = table[i]
      <4>1. \A i \in 1..Len(few) : table[i] \in RowsOver(C)
        BY <3>1, ElementOfSeq
      <4>2. /\ SubSeq(table, 1, Len(few)) \in Seq(RowsOver(C))
            /\ Len(SubSeq(table, 1, Len(few))) =
                  IF 1 <= Len(few) THEN Len(few) - 1 + 1 ELSE 0
            /\ \A i \in 1..(Len(few) - 1 + 1) : SubSeq(table, 1, Len(few))[i] = table[1 + i - 1]
        BY <3>1, <4>1, SubSeqProperties
      <4> QED BY <3>1, <4>2
    <3>3. SubSeq(table, 1, Len(few)) = few
      BY <3>1, <3>2, SeqEqual
    <3>4. Len(table) - 1 = Len(few)
      BY <3>1
    <3> QED BY <3>1, <3>3, <3>4
  <2>10. Rows(table, style) = IF row = << <<>> >> THEN few ELSE table
    BY <1>3, <2>9, Zenon DEF Rows
  <2> DEFINE shown == Rows(table, style)
  <2>11. end.rows = Shown(shown).rows /\ end.truncated = Shown(shown).truncated
    BY <2>8, <2>10, Zenon
  <2>12. parseCsv(text, delimiter) = Shown(shown)
    <3> HIDE DEF s, line, text, shown
    <3> QED BY <2>7, <2>11, ParsedIsShown
  <2> QED BY <2>12
<1> QED BY <1>2, <1>3

============================================================================
