------------------------ MODULE ProgramOutputProofs ------------------------
(***************************************************************************)
(* Proofs about what a program writes and what its run makes of it: the    *)
(* type invariant, the outcome that a successful run tells, and the events *)
(* that it has.                                                            *)
(*                                                                         *)
(* Output and pipe are read one after the other, so the argument is about  *)
(* one text, Written.  It is tidy: each mark is followed by a newline, and *)
(* is lost just if it is not preceded by one.                              *)
(***************************************************************************)
EXTENDS ProgramOutput, SequenceTheorems, WellFoundedInduction, TLAPS

Written == output \o pipe

Marks == Events \union {ErrorMark, Done}
Plain == {Text, NL}

Tidy(text, gone) ==
    \A i \in 1 .. Len(text) : text[i] \in Marks =>
        /\ i < Len(text) /\ text[i + 1] = NL
        /\ text[i] \in gone <=> i > 1 /\ text[i - 1] # NL

Ordered(text) ==
    \A i, j \in 1 .. Len(text) :
        i < j /\ text[i] \in Events /\ text[j] \in Events => text[i][2] < text[j][2]

\* How the lines come to the run.
LineInv ==
    /\ held \in Seq(Plain)
    /\ mode # "fork" => pipe = <<>>
    /\ mode = "fork" /\ Open(output) => pipe = <<>> /\ Ended
    /\ Ended \/ worker = "gone" => held = <<>>
    /\ Tidy(Written, lost)

\* Which events there are, and where: each that is not lost has been read, or is
\* still to be read.
EventInv ==
    /\ (Range(Written) \union lost) \intersect Events \subseteq emitted
    /\ Range(buffered) \subseteq emitted \ lost
    /\ emitted \ lost \subseteq Range(buffered) \union Range(Written)
    /\ Ordered(Written) /\ Ordered(buffered)
    /\ \A i \in 1 .. Len(buffered), j \in 1 .. Len(Written) :
           Written[j] \in Events => buffered[i][2] < Written[j][2]
    /\ \A e \in emitted : e[2] <= writes \/ prog \notin {"running", "flushing"}
    /\ deferred <= writes

\* How programs end, and what marks the end.
EndInv ==
    /\ mode = "none" => /\ Written = <<>> /\ held = <<>> /\ lost = {} /\ emitted = {}
                        /\ prog = "exited" /\ worker = "idle" /\ ~ raised
    /\ Done \in Range(Written) \union lost =>
           worker # "executing" /\ Ended /\ pipe = <<>>
    /\ Done \in Range(Written) => mode # "cold" /\ (prog = "exited" \/ mode = "fork")
    /\ \A i \in 1 .. Len(Written) : Written[i] = Done => i = Len(Written) - 1
    /\ worker = "executing" /\ prog = "killed" => mode = "fork"
    /\ ErrorMark \in Range(Written) \union lost => prog = "exited"
    /\ prog = "exited" /\ raised =>
           errors > 0 \/ ErrorMark \in Range(Written) \union lost

\* A run that is over: nothing more happens.
OverInv == mode # "none" /\ worker # "executing" /\ (Ended \/ worker = "gone")

OutputInv ==
    /\ OutputTypeOK
    /\ verdict = "none" => LineInv /\ EventInv /\ EndInv
    /\ verdict # "none" => OverInv
    /\ OutcomeTold /\ EventsDelivered

-----------------------------------------------------------------------------
(* Pieces and texts.                                                       *)

\* The kinds of pieces are apart.
LEMMA PieceKinds ==
    /\ Pieces = Plain \union Marks /\ Plain \intersect Marks = {}
    /\ Text \in Plain /\ NL \in Plain
    /\ ErrorMark \in Marks /\ Done \in Marks /\ Done # ErrorMark
    /\ Events \subseteq Marks /\ ErrorMark \notin Events /\ Done \notin Events
    /\ \A p \in Pieces : p[1] = "event" <=> p \in Events
    /\ \A e \in Events : e[2] \in 1 .. MaxWrites + 1
    /\ \A n \in 1 .. MaxWrites + 1 : Event(n) \in Events /\ Event(n)[2] = n
  <1>1. \A n \in 1 .. MaxWrites + 1 : Event(n) \in Events /\ Event(n)[2] = n
    BY DEF Event, Events
  <1>2. \A e \in Events : e[1] = "event" /\ e[2] \in 1 .. MaxWrites + 1
    BY DEF Event, Events
  <1>3. \A p \in {Text, NL, ErrorMark, Done} : p[1] # "event" /\ p \notin Events
    BY <1>2 DEF Text, NL, ErrorMark, Done
  <1>4. Text # NL /\ Text # ErrorMark /\ Text # Done /\ NL # ErrorMark /\ NL # Done
        /\ Done # ErrorMark
    BY DEF Text, NL, ErrorMark, Done
  <1>5. Pieces = {Text, NL, ErrorMark, Done} \union Events
    BY DEF Pieces, Events
  <1> QED
    BY <1>1, <1>2, <1>3, <1>4, <1>5 DEF Plain, Marks

LEMMA RangeConcat ==
    ASSUME NEW S, NEW v \in Seq(S), NEW w \in Seq(S)
    PROVE  Range(v \o w) = Range(v) \union Range(w)
  <1>1. /\ v \o w \in Seq(S) /\ Len(v \o w) = Len(v) + Len(w)
        /\ \A i \in 1 .. Len(v) + Len(w) :
               (v \o w)[i] = IF i <= Len(v) THEN v[i] ELSE w[i - Len(v)]
    BY ConcatProperties
  <1>2. /\ DOMAIN v = 1 .. Len(v) /\ DOMAIN w = 1 .. Len(w)
        /\ DOMAIN (v \o w) = 1 .. Len(v) + Len(w) /\ Len(v) \in Nat /\ Len(w) \in Nat
    BY <1>1, LenProperties
  <1>3. \A i \in 1 .. Len(v) : i \in 1 .. Len(v) + Len(w) /\ (v \o w)[i] = v[i]
    BY <1>1, <1>2
  <1>4. \A i \in 1 .. Len(w) : /\ Len(v) + i \in 1 .. Len(v) + Len(w)
                               /\ (v \o w)[Len(v) + i] = w[i]
    <2>1. \A i \in 1 .. Len(w) : Len(v) + i \in 1 .. Len(v) + Len(w)
                                 /\ ~ (Len(v) + i <= Len(v)) /\ (Len(v) + i) - Len(v) = i
      BY <1>2
    <2> QED
      BY <1>1, <2>1
  <1>5. \A i \in 1 .. Len(v) + Len(w) :
            i \in 1 .. Len(v) \/ \E j \in 1 .. Len(w) : i = Len(v) + j
    <2>1. ASSUME NEW i \in 1 .. Len(v) + Len(w), ~ (i <= Len(v))
          PROVE  i - Len(v) \in 1 .. Len(w) /\ i = Len(v) + (i - Len(v))
      BY <1>2, <2>1
    <2>2. \A i \in 1 .. Len(v) + Len(w) : i <= Len(v) => i \in 1 .. Len(v)
      BY <1>2
    <2> QED
      BY <2>1, <2>2
  <1>6. Range(v \o w) \subseteq Range(v) \union Range(w)
    BY SMTT(30), <1>2, <1>3, <1>4, <1>5 DEF Range
  <1>7. Range(v) \subseteq Range(v \o w) /\ Range(w) \subseteq Range(v \o w)
    BY <1>2, <1>3, <1>4 DEF Range
  <1> QED
    BY <1>6, <1>7

\* A text that plain pieces continue: its marks are where they were.
LEMMA PlainContinues ==
    ASSUME NEW v \in Seq(Pieces), NEW w \in Seq(Plain)
    PROVE  /\ v \o w \in Seq(Pieces) /\ Len(v) \in Nat /\ Len(v \o w) \in Nat
           /\ Len(v) <= Len(v \o w)
           /\ \A i \in 1 .. Len(v) : i \in 1 .. Len(v \o w) /\ (v \o w)[i] = v[i]
           /\ \A i \in 1 .. Len(v \o w) : (v \o w)[i] \in Marks => i \in 1 .. Len(v)
           /\ Range(v \o w) \intersect Marks = Range(v) \intersect Marks
  <1>1. w \in Seq(Pieces) /\ Plain \intersect Marks = {}
    BY PieceKinds, SeqMonotonic
  <1>2. /\ v \o w \in Seq(Pieces) /\ Len(v \o w) = Len(v) + Len(w)
        /\ Len(v) \in Nat /\ Len(w) \in Nat
        /\ \A i \in 1 .. Len(v) + Len(w) :
               (v \o w)[i] = IF i <= Len(v) THEN v[i] ELSE w[i - Len(v)]
    BY <1>1, ConcatProperties, LenProperties
  <1>3. \A i \in 1 .. Len(v) : i \in 1 .. Len(v \o w) /\ (v \o w)[i] = v[i]
    BY <1>2
  <1>4. ASSUME NEW i \in 1 .. Len(v \o w), (v \o w)[i] \in Marks
        PROVE  i \in 1 .. Len(v)
    <2>1. CASE i <= Len(v)
      BY <1>2, <2>1
    <2>2. CASE ~ (i <= Len(v))
      <3>1. i - Len(v) \in 1 .. Len(w) /\ (v \o w)[i] = w[i - Len(v)]
        BY <1>2, <2>2
      <3>2. w[i - Len(v)] \in Plain
        BY <3>1, ElementOfSeq
      <3> QED
        BY <1>1, <1>4, <3>1, <3>2
    <2> QED
      BY <2>1, <2>2
  <1>5. Range(w) \subseteq Plain
    BY RangeOfSeq
  <1>6. Range(v \o w) \intersect Marks = Range(v) \intersect Marks
    BY <1>1, <1>5, RangeConcat
  <1>7. Len(v) <= Len(v \o w) /\ Len(v \o w) \in Nat
    BY <1>2
  <1> QED
    BY <1>2, <1>3, <1>4, <1>6, <1>7

LEMMA TidyPlain ==
    ASSUME NEW v \in Seq(Pieces), NEW w \in Seq(Plain), NEW gone, Tidy(v, gone)
    PROVE  Tidy(v \o w, gone)
  <1>1. SUFFICES ASSUME NEW i \in 1 .. Len(v \o w), (v \o w)[i] \in Marks
                 PROVE  /\ i < Len(v \o w) /\ (v \o w)[i + 1] = NL
                        /\ (v \o w)[i] \in gone <=> i > 1 /\ (v \o w)[i - 1] # NL
    BY DEF Tidy
  <1>2. /\ i \in 1 .. Len(v) /\ (v \o w)[i] = v[i] /\ Len(v) \in Nat
        /\ Len(v) <= Len(v \o w) /\ Len(v \o w) \in Nat
        /\ \A j \in 1 .. Len(v) : (v \o w)[j] = v[j]
    BY <1>1, PlainContinues
  <1>3. /\ i < Len(v) /\ v[i + 1] = NL
        /\ v[i] \in gone <=> i > 1 /\ v[i - 1] # NL
    BY <1>1, <1>2 DEF Tidy
  <1>4. i + 1 \in 1 .. Len(v) /\ (i > 1 => i - 1 \in 1 .. Len(v)) /\ i < Len(v \o w)
    BY <1>2, <1>3
  <1> QED
    BY <1>2, <1>3, <1>4

\* A mark that continues an open line is lost, and no other.
LEMMA MarkContinues ==
    ASSUME NEW v \in Seq(Pieces), NEW m \in Marks
    PROVE  LET t == v \o <<m, NL>>
           IN  /\ t \in Seq(Pieces) /\ Len(v) \in Nat /\ Len(t) = Len(v) + 2
               /\ \A i \in 1 .. Len(v) : t[i] = v[i]
               /\ t[Len(v) + 1] = m /\ t[Len(v) + 2] = NL
               /\ Range(t) = Range(v) \union {m, NL}
  <1> DEFINE w == <<m, NL>>
  <1>1. /\ w \in Seq(Pieces) /\ Len(w) = 2 /\ w[1] = m /\ w[2] = NL /\ Range(w) = {m, NL}
    <2>1. m \in Pieces /\ NL \in Pieces
      BY PieceKinds
    <2>2. DOMAIN w = 1 .. 2 /\ w[1] = m /\ w[2] = NL /\ Len(w) = 2
      OBVIOUS
    <2>3. Range(w) = {m, NL}
      BY <2>2 DEF Range
    <2> QED
      BY <2>1, <2>2, <2>3
  <1> HIDE DEF w
  <1>2. /\ v \o w \in Seq(Pieces) /\ Len(v \o w) = Len(v) + 2 /\ Len(v) \in Nat
        /\ \A i \in 1 .. Len(v) + 2 :
               (v \o w)[i] = IF i <= Len(v) THEN v[i] ELSE w[i - Len(v)]
    <2>1. /\ v \o w \in Seq(Pieces) /\ Len(v \o w) = Len(v) + Len(w)
          /\ \A i \in 1 .. Len(v) + Len(w) :
                 (v \o w)[i] = IF i <= Len(v) THEN v[i] ELSE w[i - Len(v)]
      BY <1>1, ConcatProperties
    <2>2. Len(v) \in Nat
      BY LenProperties
    <2> QED
      BY <1>1, <2>1, <2>2
  <1>3. Range(v \o w) = Range(v) \union {m, NL}
    BY <1>1, RangeConcat
  <1>4. /\ \A i \in 1 .. Len(v) : (v \o w)[i] = v[i]
        /\ (v \o w)[Len(v) + 1] = m /\ (v \o w)[Len(v) + 2] = NL
    BY <1>1, <1>2
  <1> QED
    BY <1>2, <1>3, <1>4 DEF w

LEMMA TidyMark ==
    ASSUME NEW v \in Seq(Pieces), NEW m \in Marks, NEW gone, NEW later,
           m \notin Range(v), m \notin gone, Tidy(v, gone),
           later = IF Open(v) THEN gone \union {m} ELSE gone
    PROVE  Tidy(v \o <<m, NL>>, later)
  <1> DEFINE t == v \o <<m, NL>>
  <1>1. /\ t \in Seq(Pieces) /\ Len(v) \in Nat /\ Len(t) = Len(v) + 2
        /\ \A i \in 1 .. Len(v) : t[i] = v[i]
        /\ t[Len(v) + 1] = m /\ t[Len(v) + 2] = NL
    BY MarkContinues
  <1> HIDE DEF t
  <1>2. DOMAIN v = 1 .. Len(v) /\ (v = <<>> <=> Len(v) = 0) /\ NL \notin Marks
    BY PieceKinds, LenProperties, EmptySeq
  <1>3. ASSUME NEW i \in 1 .. Len(t), t[i] \in Marks
        PROVE  /\ i < Len(t) /\ t[i + 1] = NL
               /\ t[i] \in later <=> i > 1 /\ t[i - 1] # NL
    <2>1. i \in 1 .. Len(v) \/ i = Len(v) + 1
      BY <1>1, <1>2, <1>3
    <2>2. CASE i \in 1 .. Len(v)
      <3>1. /\ i < Len(v) /\ v[i + 1] = NL
            /\ v[i] \in gone <=> i > 1 /\ v[i - 1] # NL
        BY <1>1, <1>3, <2>2 DEF Tidy
      <3>2. v[i] # m
        BY <1>2, <2>2 DEF Range
      <3>3. v[i] \in later <=> v[i] \in gone
        BY <3>2
      <3>4. i + 1 \in 1 .. Len(v) /\ (i > 1 => i - 1 \in 1 .. Len(v)) /\ i < Len(t)
        BY <1>1, <2>2, <3>1
      <3> QED
        BY <1>1, <2>2, <3>1, <3>3, <3>4
    <2>3. CASE i = Len(v) + 1
      <3>1. i < Len(t) /\ t[i + 1] = NL /\ t[i] = m
        BY <1>1, <2>3
      <3>2. m \in later <=> Open(v)
        OBVIOUS
      <3>3. Open(v) <=> Len(v) > 0 /\ v[Len(v)] # NL
        BY <1>1, <1>2 DEF Open, Last
      <3>4. i > 1 <=> Len(v) > 0
        BY <1>1, <2>3
      <3>5. Len(v) > 0 => t[i - 1] = v[Len(v)]
        BY <1>1, <2>3
      <3> QED
        BY <3>1, <3>2, <3>3, <3>4, <3>5
    <2> QED
      BY <2>1, <2>2, <2>3
  <1> QED
    BY <1>3 DEF Tidy, t

\* What is left after the first lines.
LEMMA TextLeft ==
    ASSUME NEW v \in Seq(Pieces), NEW k \in 1 .. Len(v)
    PROVE  LET t == SubSeq(v, k + 1, Len(v))
           IN  /\ t \in Seq(Pieces) /\ Len(v) \in Nat /\ Len(t) = Len(v) - k
               /\ \A i \in 1 .. Len(t) : k + i \in 1 .. Len(v) /\ t[i] = v[k + i]
               /\ Range(t) \subseteq Range(v)
               /\ \A i \in 1 .. Len(v) : i > k => v[i] \in Range(t)
  <1> DEFINE t == SubSeq(v, k + 1, Len(v))
  <1>1. Len(v) \in Nat /\ DOMAIN v = 1 .. Len(v) /\ k + 1 \in Int /\ Len(v) \in Int
    BY LenProperties
  <1>2. \A i \in k + 1 .. Len(v) : v[i] \in Pieces
    <2>1. \A i \in k + 1 .. Len(v) : i \in 1 .. Len(v)
      BY <1>1
    <2> QED
      BY <2>1, ElementOfSeq
  <1>3. /\ t \in Seq(Pieces)
        /\ Len(t) = IF k + 1 <= Len(v) THEN Len(v) - (k + 1) + 1 ELSE 0
        /\ \A i \in 1 .. Len(v) - (k + 1) + 1 : t[i] = v[(k + 1) + i - 1]
    BY <1>1, <1>2, SubSeqProperties
  <1> HIDE DEF t
  <1>4. Len(t) = Len(v) - k
    <2>1. CASE k + 1 <= Len(v)
      BY <1>1, <1>3, <2>1
    <2>2. CASE ~ (k + 1 <= Len(v))
      <3>1. k = Len(v)
        <4>1. Len(v) \in Nat /\ k \in Nat /\ k <= Len(v)
          BY LenProperties
        <4> QED
          BY <2>2, <4>1
      <3>2. Len(t) = 0
        BY <1>3, <2>2
      <3> QED
        BY <1>1, <3>1, <3>2
    <2> QED
      BY <2>1, <2>2
  <1>5. ASSUME NEW i \in 1 .. Len(t)
        PROVE  k + i \in 1 .. Len(v) /\ t[i] = v[k + i]
    <2>1. (k + 1) + i - 1 = k + i /\ i \in 1 .. Len(v) - (k + 1) + 1
          /\ k + i \in 1 .. Len(v)
      BY <1>1, <1>4
    <2> QED
      BY <1>3, <2>1
  <1>6. DOMAIN t = 1 .. Len(t)
    BY <1>3, LenProperties
  <1>7. Range(t) \subseteq Range(v)
    BY <1>1, <1>5, <1>6 DEF Range
  <1>8. ASSUME NEW i \in 1 .. Len(v), i > k PROVE v[i] \in Range(t)
    <2>1. i - k \in 1 .. Len(t) /\ k + (i - k) = i
      BY <1>1, <1>4, <1>8
    <2>2. t[i - k] = v[i]
      BY <1>5, <2>1
    <2> QED
      BY <1>6, <2>1, <2>2 DEF Range
  <1> QED
    BY <1>1, <1>3, <1>4, <1>5, <1>7, <1>8 DEF t

LEMMA TidyLeft ==
    ASSUME NEW v \in Seq(Pieces), NEW k \in 1 .. Len(v), v[k] = NL, NEW gone,
           Tidy(v, gone)
    PROVE  Tidy(SubSeq(v, k + 1, Len(v)), gone)
  <1> DEFINE t == SubSeq(v, k + 1, Len(v))
  <1>1. /\ Len(v) \in Nat /\ Len(t) = Len(v) - k
        /\ \A i \in 1 .. Len(t) : k + i \in 1 .. Len(v) /\ t[i] = v[k + i]
    BY TextLeft
  <1> HIDE DEF t
  <1>2. ASSUME NEW i \in 1 .. Len(t), t[i] \in Marks
        PROVE  /\ i < Len(t) /\ t[i + 1] = NL
               /\ t[i] \in gone <=> i > 1 /\ t[i - 1] # NL
    <2>1. /\ k + i < Len(v) /\ v[k + i + 1] = NL
          /\ v[k + i] \in gone <=> k + i > 1 /\ v[k + i - 1] # NL
      BY <1>1, <1>2 DEF Tidy
    <2>2. i < Len(t) /\ i + 1 \in 1 .. Len(t) /\ k + (i + 1) = k + i + 1 /\ k + i > 1
      BY SMTT(30), <1>1, <2>1
    <2>3. t[i + 1] = NL
      BY <1>1, <2>1, <2>2
    <2>4. CASE i = 1
      <3>1. k + i - 1 = k
        BY <2>4
      <3> QED
        BY <1>1, <2>1, <2>2, <2>3, <2>4, <3>1
    <2>5. CASE i > 1
      <3>1. i - 1 \in 1 .. Len(t) /\ k + (i - 1) = k + i - 1
        BY <1>1, <2>5
      <3>2. t[i - 1] = v[k + i - 1]
        BY <1>1, <3>1
      <3> QED
        BY <1>1, <2>1, <2>2, <2>3, <2>5, <3>2
    <2> QED
      BY <2>4, <2>5
  <1> QED
    BY <1>2 DEF Tidy, t

\* A set of natural numbers has a least element.
LEMMA LeastNat ==
    ASSUME NEW T, T \subseteq Nat, T # {}
    PROVE  \E x \in T : \A y \in T : x <= y
  <1> DEFINE R == {ss \in Nat \X Nat : ss[1] < ss[2]}
  <1>1. IsWellFoundedOn(R, Nat)
    BY NatLessThanWellFounded DEF OpToRel
  <1>2. \A x, y \in Nat : y < x => <<y, x>> \in R
    OBVIOUS
  <1> HIDE DEF R
  <1>3. PICK x \in T : \A y \in T : ~ (<<y, x>> \in R)
    BY <1>1, WFMin
  <1>4. ASSUME NEW y \in T PROVE x <= y
    <2>1. x \in Nat /\ y \in Nat /\ ~ (y < x)
      BY <1>2, <1>3
    <2> QED
      BY <2>1
  <1> QED
    BY <1>4

\* LineEnd finds the first newline, if there is one.
LEMMA FirstNewline ==
    ASSUME NEW v \in Seq(Pieces), v # <<>>
    PROVE  /\ LineEnd(v) \in 1 .. Len(v) /\ Len(v) \in Nat \ {0}
           /\ NL \in Range(v) =>
                  /\ v[LineEnd(v)] = NL
                  /\ \A j \in 1 .. LineEnd(v) - 1 : v[j] # NL
           /\ NL \notin Range(v) =>
                  LineEnd(v) = Len(v) /\ \A j \in 1 .. Len(v) : v[j] # NL
  <1>1. DOMAIN v = 1 .. Len(v) /\ Len(v) \in Nat \ {0}
    BY LenProperties, EmptySeq
  <1>2. CASE NL \in Range(v)
    <2> DEFINE T == {i \in 1 .. Len(v) : v[i] = NL}
    <2>1. T \subseteq Nat /\ T # {}
      BY <1>1, <1>2 DEF Range
    <2>2. PICK x \in T : \A y \in T : x <= y
      <3> HIDE DEF T
      <3> QED
        BY <2>1, LeastNat
    <2>3. x \in DOMAIN v /\ v[x] = NL /\ \A j \in 1 .. (x - 1) : v[j] # NL
      <3>1. ASSUME NEW j \in 1 .. (x - 1), v[j] = NL PROVE FALSE
        <4>1. j \in T /\ ~ (x <= j)
          BY <1>1, <2>2, <3>1
        <4> QED
          BY <2>2, <4>1
      <3> QED
        BY <1>1, <2>2, <3>1
    <2>4. /\ LineEnd(v) \in DOMAIN v /\ v[LineEnd(v)] = NL
          /\ \A j \in 1 .. (LineEnd(v) - 1) : v[j] # NL
      BY <1>2, <2>3 DEF LineEnd
    <2> QED
      BY <1>1, <1>2, <2>4
  <1>3. CASE NL \notin Range(v)
    BY <1>1, <1>3 DEF LineEnd, Range
  <1> QED
    BY <1>2, <1>3

\* Lines are taken from the front, whatever follows the text.
LEMMA LeftOfBoth ==
    ASSUME NEW v \in Seq(Pieces), NEW w \in Seq(Pieces), NEW k \in 1 .. Len(v)
    PROVE  /\ SubSeq(v, k + 1, Len(v)) \o w = SubSeq(v \o w, k + 1, Len(v \o w))
           /\ k \in 1 .. Len(v \o w)
           /\ \A i \in 1 .. k : (v \o w)[i] = v[i]
  <1> DEFINE t == SubSeq(v, k + 1, Len(v))
             u == SubSeq(v \o w, k + 1, Len(v \o w))
  <1>1. /\ v \o w \in Seq(Pieces) /\ Len(v \o w) = Len(v) + Len(w)
        /\ \A i \in 1 .. Len(v) + Len(w) :
               (v \o w)[i] = IF i <= Len(v) THEN v[i] ELSE w[i - Len(v)]
    BY ConcatProperties
  <1>2. Len(v) \in Nat /\ Len(w) \in Nat /\ k \in Nat /\ 1 <= k /\ k <= Len(v)
    BY LenProperties
  <1>3. k \in 1 .. Len(v \o w)
    BY <1>1, <1>2
  <1>4. /\ t \in Seq(Pieces) /\ Len(t) = Len(v) - k
        /\ \A i \in 1 .. Len(t) : t[i] = v[k + i]
    BY TextLeft
  <1>5. /\ u \in Seq(Pieces) /\ Len(u) = Len(v \o w) - k
        /\ \A i \in 1 .. Len(u) : u[i] = (v \o w)[k + i]
    BY <1>1, <1>3, TextLeft
  <1>6. \A i \in 1 .. k : (v \o w)[i] = v[i]
    <2>1. \A i \in 1 .. k : i \in 1 .. Len(v) + Len(w) /\ i <= Len(v)
      BY <1>2
    <2> QED
      BY <1>1, <2>1
  <1> HIDE DEF t, u
  <1>7. /\ t \o w \in Seq(Pieces) /\ Len(t \o w) = Len(t) + Len(w)
        /\ \A i \in 1 .. Len(t) + Len(w) :
               (t \o w)[i] = IF i <= Len(t) THEN t[i] ELSE w[i - Len(t)]
    BY <1>4, ConcatProperties
  <1>8. Len(t \o w) = Len(u)
    BY <1>1, <1>2, <1>4, <1>5, <1>7
  <1>9. ASSUME NEW i \in 1 .. Len(t \o w) PROVE (t \o w)[i] = u[i]
    <2>1. /\ i \in 1 .. Len(t) + Len(w) /\ i \in 1 .. Len(u)
          /\ k + i \in 1 .. Len(v) + Len(w) /\ Len(t) = Len(v) - k
      BY <1>1, <1>2, <1>4, <1>5, <1>7, <1>8
    <2>2. CASE i <= Len(t)
      <3>1. k + i <= Len(v) /\ i \in 1 .. Len(t)
        BY <1>2, <2>1, <2>2
      <3> QED
        BY <1>1, <1>4, <1>5, <1>7, <2>1, <2>2, <3>1
    <2>3. CASE ~ (i <= Len(t))
      <3>1. ~ (k + i <= Len(v)) /\ (k + i) - Len(v) = i - Len(t)
        BY <1>2, <2>1, <2>3
      <3> QED
        BY <1>1, <1>5, <1>7, <2>1, <2>3, <3>1
    <2> QED
      BY <2>2, <2>3
  <1>10. t \o w = u
    BY <1>5, <1>7, <1>8, <1>9, SeqEqual
  <1> QED
    BY <1>3, <1>6, <1>10 DEF t, u

LEMMA PiecesAssociate ==
    ASSUME NEW u \in Seq(Pieces), NEW v \in Seq(Pieces), NEW w \in Seq(Pieces)
    PROVE  (u \o v) \o w = u \o (v \o w)
  BY SMTT(30), ConcatAssociative

\* The first k pieces of w move to the end of v: u and t result.
Moved(v, w, k, u, t) ==
    u = v \o SubSeq(w, 1, k) /\ t = SubSeq(w, k + 1, Len(w))

LEMMA LinesMoved ==
    ASSUME NEW v \in Seq(Pieces), NEW w \in Seq(Pieces), NEW k \in 1 .. Len(w),
           NEW u, NEW t, Moved(v, w, k, u, t)
    PROVE  /\ t \in Seq(Pieces) /\ u \in Seq(Pieces) /\ u \o t = v \o w
           /\ u[Len(u)] = w[k] /\ Len(u) \in Nat \ {0}
           /\ k = Len(w) => t = <<>>
  <1>a. PICK line : line = SubSeq(w, 1, k)
    OBVIOUS
  <1>b. u = v \o line /\ t = SubSeq(w, k + 1, Len(w))
    BY <1>a DEF Moved
  <1>1. Len(v) \in Nat /\ Len(w) \in Nat /\ k \in Nat /\ 1 <= k /\ k <= Len(w)
    BY LenProperties
  <1>2. /\ line \in Seq(Pieces) /\ Len(line) = k
        /\ \A i \in 1 .. k : line[i] = w[i]
    <2>1. \A i \in 1 .. k : w[i] \in Pieces
      <3>1. \A i \in 1 .. k : i \in 1 .. Len(w)
        BY <1>1
      <3> QED
        BY <3>1, ElementOfSeq
    <2>2. /\ line \in Seq(Pieces) /\ Len(line) = IF 1 <= k THEN k - 1 + 1 ELSE 0
          /\ \A i \in 1 .. k - 1 + 1 : line[i] = w[1 + i - 1]
      BY <1>a, <1>1, <2>1, SubSeqProperties
    <2>3. k - 1 + 1 = k /\ \A i \in 1 .. k : 1 + i - 1 = i
      BY <1>1
    <2> QED
      BY <1>1, <2>2, <2>3
  <1>3. /\ t \in Seq(Pieces) /\ Len(t) = Len(w) - k
        /\ \A i \in 1 .. Len(t) : t[i] = w[k + i]
    BY <1>b, TextLeft
  <1>4. /\ line \o t \in Seq(Pieces) /\ Len(line \o t) = Len(line) + Len(t)
        /\ \A i \in 1 .. Len(line) + Len(t) :
               (line \o t)[i] = IF i <= Len(line) THEN line[i] ELSE t[i - Len(line)]
    BY <1>2, <1>3, ConcatProperties
  <1>5. Len(line \o t) = Len(w)
    BY <1>1, <1>2, <1>3, <1>4
  <1>6. ASSUME NEW i \in 1 .. Len(line \o t) PROVE (line \o t)[i] = w[i]
    <2>1. i \in 1 .. Len(line) + Len(t) /\ Len(line) = k /\ i \in Nat
      BY <1>1, <1>2, <1>4
    <2>2. CASE i <= k
      <3>1. i \in 1 .. k
        BY <1>1, <2>1, <2>2
      <3> QED
        BY <1>2, <1>4, <2>1, <2>2, <3>1
    <2>3. CASE ~ (i <= k)
      <3>1. i - k \in 1 .. Len(t) /\ k + (i - k) = i
        BY <1>1, <1>3, <2>1, <2>3
      <3> QED
        BY <1>3, <1>4, <2>1, <2>3, <3>1
    <2> QED
      BY <2>2, <2>3
  <1>7. line \o t = w
    BY <1>4, <1>5, <1>6, SeqEqual
  <1>8. (v \o line) \o t = v \o w
    <2>1. (v \o line) \o t = v \o (line \o t)
      BY <1>2, <1>3, PiecesAssociate
    <2> QED
      BY <1>7, <2>1
  <1>9. /\ v \o line \in Seq(Pieces) /\ Len(v \o line) = Len(v) + Len(line)
        /\ \A i \in 1 .. Len(v) + Len(line) :
               (v \o line)[i] = IF i <= Len(v) THEN v[i] ELSE line[i - Len(v)]
    BY <1>2, ConcatProperties
  <1>10. /\ Len(v \o line) \in Nat \ {0}
         /\ (v \o line)[Len(v \o line)] = w[k]
    <2>1. /\ Len(v) + k \in 1 .. Len(v) + Len(line) /\ ~ (Len(v) + k <= Len(v))
          /\ (Len(v) + k) - Len(v) = k /\ k \in 1 .. k /\ Len(v) + k \in Nat \ {0}
      BY <1>1, <1>2
    <2> QED
      BY <1>2, <1>9, <2>1
  <1>11. k = Len(w) => t = <<>>
    <2>1. k = Len(w) => Len(t) = 0
      BY <1>1, <1>3
    <2> QED
      BY <1>3, <2>1, EmptySeq
  <1> QED
    BY <1>b, <1>2, <1>3, <1>8, <1>9, <1>10, <1>11

-----------------------------------------------------------------------------
(* What a step does to the text.                                           *)

Working == OutputTypeOK /\ LineInv /\ EventInv /\ EndInv

LEMMA TextTypes ==
    ASSUME OutputTypeOK
    PROVE  /\ output \in Seq(Pieces) /\ pipe \in Seq(Pieces) /\ held \in Seq(Pieces)
           /\ Written \in Seq(Pieces) /\ buffered \in Seq(Events)
           /\ pipe = <<>> => Written = output
  <1>1. /\ output \in Seq(Pieces) /\ pipe \in Seq(Pieces) /\ held \in Seq(Pieces)
        /\ buffered \in Seq(Events)
    BY DEF OutputTypeOK
  <1>2. output \o pipe \in Seq(Pieces)
    BY <1>1, ConcatProperties
  <1>3. pipe = <<>> => output \o pipe = output
    BY <1>1, ConcatEmptySeq
  <1> QED
    BY <1>1, <1>2, <1>3 DEF Written

\* A call of the program continues what is written, or only what it holds.
LEMMA TextWritten ==
    ASSUME Working, ~ Ended, NEW text \in Seq(Pieces), NEW flush,
           WriteText(text, flush)
    PROVE  /\ output' \in Seq(Pieces) /\ pipe' \in Seq(Pieces)
           /\ mode # "fork" => pipe' = <<>>
           /\ mode = "fork" => output' = output
           /\ \/ held' = <<>> /\ Written' = (Written \o held) \o text
              \/ ~ flush /\ held' = held \o text /\ UNCHANGED <<output, pipe>>
  <1>1. /\ output \in Seq(Pieces) /\ pipe \in Seq(Pieces) /\ held \in Seq(Pieces)
        /\ mode # "fork" => pipe = <<>>
    BY TextTypes DEF Working, LineInv
  <1>2. CASE flush \/ (mode = "fork" /\ NL \in Range(text))
    <2>1. CASE mode = "fork"
      <3>1. held' = <<>> /\ pipe' = (pipe \o held) \o text /\ output' = output
        BY <1>2, <2>1 DEF WriteText
      <3>2. pipe \o held \in Seq(Pieces)
        BY <1>1, ConcatProperties
      <3>3. pipe' \in Seq(Pieces)
        BY <3>1, <3>2, ConcatProperties
      <3>4. /\ output \o ((pipe \o held) \o text) = (output \o (pipe \o held)) \o text
            /\ (output \o pipe) \o held = output \o (pipe \o held)
        <4>1. PICK q \in Seq(Pieces) : q = pipe \o held
          BY <3>2
        <4>2. output \o (q \o text) = (output \o q) \o text
          BY ZenonT(60), <1>1, PiecesAssociate
        <4>3. (output \o pipe) \o held = output \o (pipe \o held)
          BY ZenonT(60), <1>1, PiecesAssociate
        <4> QED
          BY <4>1, <4>2, <4>3
      <3> QED
        BY <1>1, <2>1, <3>1, <3>3, <3>4 DEF Written
    <2>2. CASE mode # "fork"
      <3>1. held' = <<>> /\ output' = (output \o held) \o text /\ pipe' = <<>>
            /\ pipe = <<>>
        BY <1>1, <1>2, <2>2 DEF WriteText
      <3>2. output \o held \in Seq(Pieces)
        BY <1>1, ConcatProperties
      <3>3. output' \in Seq(Pieces)
        BY <3>1, <3>2, ConcatProperties
      <3>4. output' \o <<>> = output' /\ output \o <<>> = output
        BY <1>1, <3>3, ConcatEmptySeq
      <3>5. <<>> \in Seq(Pieces)
        BY EmptySeq
      <3> QED
        BY <2>2, <3>1, <3>3, <3>4, <3>5 DEF Written
    <2> QED
      BY <2>1, <2>2
  <1>3. CASE ~ (flush \/ (mode = "fork" /\ NL \in Range(text)))
    BY <1>1, <1>3 DEF WriteText
  <1> QED
    BY <1>2, <1>3

\* The counters and the progress of the program go forward only.
Forth ==
    /\ writes' \in Nat /\ writes <= writes' /\ deferred' <= writes'
    /\ prog' \in {"running", "flushing"} => prog \in {"running", "flushing"}

\* Events are where they were, if plain pieces, or none, are added.
LEMMA EventsStay ==
    ASSUME Working, Forth, NEW w \in Seq(Plain), Written' = Written \o w,
           UNCHANGED <<emitted, lost, buffered>>
    PROVE  EventInv'
  <1>1. Written \in Seq(Pieces) /\ Events \subseteq Marks
    BY TextTypes, PieceKinds DEF Working
  <1>2. /\ \A i \in 1 .. Len(Written) : Written'[i] = Written[i]
        /\ \A i \in 1 .. Len(Written') : Written'[i] \in Marks => i \in 1 .. Len(Written)
        /\ Range(Written') \intersect Marks = Range(Written) \intersect Marks
    BY <1>1, PlainContinues
  <1>3. Range(Written') \intersect Events = Range(Written) \intersect Events
    BY <1>1, <1>2
  <1>4. Ordered(Written')
    BY <1>1, <1>2 DEF Working, EventInv, Ordered
  <1>5. \A i \in 1 .. Len(buffered), j \in 1 .. Len(Written') :
            Written'[j] \in Events => buffered[i][2] < Written'[j][2]
    BY <1>1, <1>2 DEF Working, EventInv
  <1>6. emitted \subseteq Events /\ writes \in Nat
    BY DEF Working, OutputTypeOK
  <1>7. ASSUME NEW e \in emitted
        PROVE  e[2] <= writes' \/ prog' \notin {"running", "flushing"}
    <2>1. e[2] \in Nat
      BY <1>6, PieceKinds, ProgramOutputAssumption
    <2> QED
      BY <1>6, <2>1 DEF Working, EventInv, Forth
  <1>8. /\ (Range(Written') \union lost) \intersect Events \subseteq emitted
        /\ Range(buffered) \subseteq emitted \ lost
        /\ Ordered(buffered)
    BY <1>3 DEF Working, EventInv
  <1>9. emitted \ lost \subseteq Range(buffered) \union Range(Written')
    <2>1. emitted \ lost \subseteq Range(buffered) \union (Range(Written) \intersect Events)
      BY <1>6 DEF Working, EventInv
    <2> QED
      BY <1>3, <2>1
  <1> QED
    BY <1>4, <1>5, <1>7, <1>8, <1>9 DEF EventInv, Forth

\* A new mark: an event has a number greater than all before it.
LEMMA EventsGrow ==
    ASSUME Working, NEW h \in Seq(Plain), NEW m \in Marks,
           Written' = (Written \o h) \o <<m, NL>>,
           lost' \in {lost, lost \union {m}}, buffered' = buffered,
           m \in Events => /\ emitted' = emitted \union {m}
                           /\ \A e \in emitted : e[2] < m[2],
           m \notin Events => emitted' = emitted,
           deferred' <= writes',
           \A e \in emitted' : e[2] <= writes' \/ prog' \notin {"running", "flushing"}
    PROVE  EventInv'
  <1> DEFINE v == Written \o h
  <1>1. /\ Written \in Seq(Pieces) /\ Events \subseteq Marks /\ emitted \subseteq Events
        /\ buffered \in Seq(Events) /\ DOMAIN buffered = 1 .. Len(buffered)
    BY TextTypes, PieceKinds, LenProperties DEF Working, OutputTypeOK
  <1>2. /\ v \in Seq(Pieces)
        /\ \A i \in 1 .. Len(Written) : v[i] = Written[i]
        /\ \A i \in 1 .. Len(v) : v[i] \in Marks => i \in 1 .. Len(Written)
        /\ Range(v) \intersect Marks = Range(Written) \intersect Marks
    BY <1>1, PlainContinues
  <1> HIDE DEF v
  <1>3. /\ Len(v) \in Nat /\ Len(Written') = Len(v) + 2
        /\ \A i \in 1 .. Len(v) : Written'[i] = v[i]
        /\ Written'[Len(v) + 1] = m /\ Written'[Len(v) + 2] = NL
        /\ Range(Written') = Range(v) \union {m, NL}
    BY <1>2, MarkContinues DEF v
  <1>4. NL \notin Marks /\ DOMAIN v = 1 .. Len(v) /\ DOMAIN Written = 1 .. Len(Written)
    BY <1>1, <1>2, PieceKinds, LenProperties
  <1>5. ASSUME NEW i \in 1 .. Len(Written'), Written'[i] \in Events
        PROVE  \/ i = Len(v) + 1 /\ Written'[i] = m
               \/ /\ i \in 1 .. Len(Written) /\ i < Len(v) + 1
                  /\ Written'[i] = Written[i] /\ Written[i] \in emitted
    <2>1. i \in 1 .. Len(v) \/ i = Len(v) + 1 \/ i = Len(v) + 2
      BY <1>3
    <2>2. CASE i \in 1 .. Len(v)
      <3>1. i \in 1 .. Len(Written) /\ Written'[i] = Written[i] /\ i < Len(v) + 1
        <4>1. Written'[i] = v[i] /\ i < Len(v) + 1
          BY <1>3, <2>2
        <4>2. v[i] \in Marks
          BY <1>1, <1>5, <4>1
        <4> QED
          BY <1>2, <2>2, <4>1, <4>2
      <3>2. Written[i] \in Range(Written) \intersect Events
        BY <1>4, <1>5, <3>1 DEF Range
      <3> QED
        BY <3>1, <3>2 DEF Working, EventInv
    <2> QED
      BY <1>1, <1>3, <1>4, <1>5, <2>1, <2>2
  <1>6. Ordered(Written')
    <2>1. SUFFICES ASSUME NEW i \in 1 .. Len(Written'), NEW j \in 1 .. Len(Written'),
                          i < j, Written'[i] \in Events, Written'[j] \in Events
                   PROVE  Written'[i][2] < Written'[j][2]
      BY DEF Ordered
    <2>2. i # Len(v) + 1
      BY <1>3, <1>5, <2>1
    <2>3. /\ i \in 1 .. Len(Written) /\ Written'[i] = Written[i] /\ Written[i] \in emitted
      BY <1>5, <2>1, <2>2
    <2>4. CASE Written'[j] = m
      BY <2>1, <2>3, <2>4
    <2>5. CASE j \in 1 .. Len(Written) /\ Written'[j] = Written[j]
      BY <2>1, <2>3, <2>5 DEF Working, EventInv, Ordered
    <2> QED
      BY <1>5, <2>1, <2>4, <2>5
  <1>7. ASSUME NEW i \in 1 .. Len(buffered), NEW j \in 1 .. Len(Written'),
               Written'[j] \in Events
        PROVE  buffered[i][2] < Written'[j][2]
    <2>1. buffered[i] \in emitted
      BY <1>1 DEF Working, EventInv, Range
    <2>2. CASE Written'[j] = m
      BY <1>7, <2>1, <2>2
    <2>3. CASE j \in 1 .. Len(Written) /\ Written'[j] = Written[j]
      BY <1>7, <2>3 DEF Working, EventInv
    <2> QED
      BY <1>5, <1>7, <2>2, <2>3
  <1>8. m \notin emitted
    <2>1. CASE m \in Events
      <3>1. m[2] \in Nat
        BY <2>1, PieceKinds, ProgramOutputAssumption
      <3> QED
        BY <2>1, <3>1
    <2>2. CASE m \notin Events
      BY <1>1, <2>2
    <2> QED
      BY <2>1, <2>2
  <1>9. (Range(Written') \union lost') \intersect Events \subseteq emitted'
    <2>1. (Range(v) \union lost) \intersect Events \subseteq emitted
      BY <1>1, <1>2 DEF Working, EventInv
    <2> QED
      BY <1>1, <1>3, <1>4, <2>1
  <1>10. Range(buffered) \subseteq emitted' \ lost'
    BY <1>8 DEF Working, EventInv
  <1>11. emitted' \ lost' \subseteq Range(buffered) \union Range(Written')
    <2>1. emitted \ lost \subseteq Range(buffered) \union Range(v)
      BY <1>1, <1>2 DEF Working, EventInv
    <2> QED
      BY <1>3, <2>1
  <1>12. Ordered(buffered)
    BY DEF Working, EventInv
  <1> QED
    BY <1>6, <1>7, <1>9, <1>10, <1>11, <1>12 DEF EventInv

\* The text is tidy, and the end of the program as it was, if nothing but plain
\* pieces is added before it ends.
LEMMA PlainKept ==
    ASSUME Working, NEW w \in Seq(Plain), Written' = Written \o w,
           UNCHANGED lost
    PROVE  /\ Tidy(Written', lost')
           /\ ErrorMark \in Range(Written') <=> ErrorMark \in Range(Written)
           /\ Done \in Range(Written') <=> Done \in Range(Written)
  <1>1. Written \in Seq(Pieces)
    BY TextTypes DEF Working
  <1>2. Tidy(Written', lost')
    BY <1>1, TidyPlain DEF Working, LineInv
  <1>3. Range(Written') \intersect Marks = Range(Written) \intersect Marks
    BY <1>1, PlainContinues
  <1> QED
    BY <1>2, <1>3, PieceKinds

\* A new mark that is neither written nor lost yet.
LEMMA MarkKept ==
    ASSUME Working, NEW h \in Seq(Plain), NEW m \in Marks,
           Written' = (Written \o h) \o <<m, NL>>,
           m \notin Range(Written), m \notin lost,
           lost' = IF Open(Written \o h) THEN lost \union {m} ELSE lost
    PROVE  /\ Tidy(Written', lost')
           /\ \A p \in Marks : p \in Range(Written') <=> p \in Range(Written) \union {m}
           /\ \A i \in 1 .. Len(Written') : Written'[i] = m => i = Len(Written') - 1
  <1> DEFINE v == Written \o h
  <1>1. Written \in Seq(Pieces) /\ NL \notin Marks
    BY TextTypes, PieceKinds DEF Working
  <1>2. /\ v \in Seq(Pieces) /\ Tidy(v, lost)
        /\ Range(v) \intersect Marks = Range(Written) \intersect Marks
    BY <1>1, PlainContinues, TidyPlain DEF Working, LineInv
  <1> HIDE DEF v
  <1>3. m \notin Range(v)
    BY <1>2
  <1>4. Tidy(Written', lost')
    BY <1>2, <1>3, TidyMark DEF v
  <1>5. /\ Len(v) \in Nat /\ Len(Written') = Len(v) + 2
        /\ \A i \in 1 .. Len(v) : Written'[i] = v[i]
        /\ Written'[Len(v) + 1] = m /\ Written'[Len(v) + 2] = NL
        /\ Range(Written') = Range(v) \union {m, NL}
    BY ZenonT(60), <1>2, MarkContinues DEF v
  <1>6. \A p \in Marks : p \in Range(Written') <=> p \in Range(Written) \union {m}
    BY <1>1, <1>2, <1>5
  <1>7. ASSUME NEW i \in 1 .. Len(Written'), Written'[i] = m
        PROVE  i = Len(Written') - 1
    <2>1. i \in 1 .. Len(v) \/ i = Len(v) + 1 \/ i = Len(v) + 2
      BY <1>5
    <2>2. DOMAIN v = 1 .. Len(v)
      BY <1>2, LenProperties
    <2>3. i \notin 1 .. Len(v)
      BY <1>3, <1>5, <1>7, <2>2 DEF Range
    <2>4. i # Len(v) + 2
      BY <1>1, <1>5, <1>7
    <2> QED
      BY <1>5, <2>1, <2>3, <2>4
  <1> QED
    BY <1>4, <1>6, <1>7

\* The run has been over: no step is possible.
LEMMA OverIsOver ==
    ASSUME verdict # "none", OverInv, OutputNext PROVE FALSE
  BY DEF OverInv, OutputNext, Ended, TakeProgram, ProgramStep, PrintText, PrintLog,
         EmitEvent, Calls, EndProgram, FlushLogs, ReportError, Kill, WorkerStep,
         Forward, WriteDone, ExitCold, WorkerDies, RunStep, ReadLine, ReadEnd,
         TimeOutIdle

-----------------------------------------------------------------------------
(* The program and the worker.                                             *)

\* A step of a program that has not ended, or its kill, that adds no mark.
LEMMA PlainStep ==
    ASSUME Working, ~ Ended, worker # "gone", Forth, OutputTypeOK',
           UNCHANGED <<mode, worker, lost, emitted, buffered, errors>>,
           mode # "fork" => pipe' = <<>>, mode = "fork" => output' = output,
           NEW w \in Seq(Plain), Written' = Written \o w, held' \in Seq(Plain),
           Ended' => /\ held' = <<>>
                     /\ prog' = "exited" => ~ raised'
                     /\ prog' = "killed" => mode = "fork"
    PROVE  Working'
  <1>1. /\ Tidy(Written', lost')
        /\ ErrorMark \in Range(Written') <=> ErrorMark \in Range(Written)
        /\ Done \in Range(Written') <=> Done \in Range(Written)
    BY PlainKept
  <1>2. EventInv'
    BY EventsStay
  <1>3. LineInv'
    BY <1>1 DEF Working, LineInv, Open
  <1>4. /\ Done \notin Range(Written') \union lost' /\ mode # "none"
        /\ ErrorMark \notin Range(Written') \union lost'
    BY <1>1 DEF Working, EndInv, Ended
  <1>5. \A i \in 1 .. Len(Written') : Written'[i] # Done
    <2>1. DOMAIN Written' = 1 .. Len(Written')
      <3>1. Written' \in Seq(Pieces)
        BY TextTypes, PlainContinues DEF Working
      <3> QED
        BY <3>1, LenProperties
    <2> QED
      BY <1>4, <2>1 DEF Range
  <1>6. EndInv'
    BY <1>4, <1>5 DEF EndInv, Ended
  <1> QED
    BY <1>2, <1>3, <1>6 DEF Working

\* A step of a program that has not ended, with an event or the error mark.
LEMMA MarkStep ==
    ASSUME Working, ~ Ended, worker # "gone", OutputTypeOK', EventInv',
           UNCHANGED <<mode, worker>>, NEW m \in Marks, m # Done,
           mode # "fork" => pipe' = <<>>, mode = "fork" => output' = output,
           held' = <<>>, Written' = (Written \o held) \o <<m, NL>>,
           m \notin Range(Written), m \notin lost, lost' = Lost(m),
           prog' = "exited" <=> m = ErrorMark, prog' # "killed"
    PROVE  Working'
  <1>1. held \in Seq(Plain) /\ lost' = IF Open(Written \o held) THEN lost \union {m} ELSE lost
    BY DEF Lost, Unread, Written, Working, LineInv
  <1>2. /\ Tidy(Written', lost')
        /\ \A p \in Marks : p \in Range(Written') <=> p \in Range(Written) \union {m}
    BY <1>1, MarkKept
  <1>3. held' \in Seq(Plain)
    BY EmptySeq
  <1>4. LineInv'
    BY <1>2, <1>3 DEF Working, LineInv, Open
  <1>5. /\ Done \notin Range(Written') \union lost' /\ mode # "none"
        /\ ErrorMark \in Range(Written') \union lost' => m = ErrorMark
        /\ m \in Range(Written')
    <2>1. /\ Done \notin Range(Written) \union lost /\ mode # "none"
          /\ ErrorMark \notin Range(Written) \union lost
      BY DEF Working, EndInv, Ended
    <2> QED
      BY <1>1, <1>2, <2>1, PieceKinds
  <1>6. \A i \in 1 .. Len(Written') : Written'[i] # Done
    <2>1. Written' \in Seq(Pieces)
      <3>1. Written \o held \in Seq(Pieces)
        BY <1>1, TextTypes, PlainContinues DEF Working
      <3> QED
        BY <3>1, MarkContinues
    <2>2. DOMAIN Written' = 1 .. Len(Written')
      BY <2>1, LenProperties
    <2> QED
      BY <1>5, <2>2 DEF Range
  <1>7. EndInv'
    BY <1>5, <1>6 DEF EndInv, Ended
  <1> QED
    BY <1>4, <1>7 DEF Working

\* A step that leaves the text as it is, after the program has ended or when it
\* ends with its worker.
LEMMA TextStays ==
    ASSUME Working, OutputTypeOK', mode # "none",
           UNCHANGED <<mode, raised, writes, deferred, lost, emitted, buffered, errors>>,
           Written' = Written, worker' \in {worker, "gone"},
           \/ prog' = prog
           \/ ~ Ended /\ prog' = "killed" /\ worker' = "gone",
           LineInv', UNCHANGED pipe \/ Done \notin Range(Written) \union lost
    PROVE  Working'
  <1>1. Written \in Seq(Pieces) /\ <<>> \in Seq(Plain)
    BY TextTypes, EmptySeq DEF Working
  <1>2. Written' = Written \o <<>>
    BY <1>1, ConcatEmptySeq
  <1>3. Forth
    BY DEF Forth, Working, EventInv, OutputTypeOK
  <1>4. EventInv'
    BY <1>1, <1>2, <1>3, EventsStay
  <1>5. EndInv'
    BY DEF Working, EndInv, Ended
  <1> QED
    BY <1>4, <1>5 DEF Working

LEMMA TakeKeeps ==
    ASSUME Working, TakeProgram PROVE Working'
  <1>1. /\ mode = "none" /\ mode' \in Modes /\ prog' = "running" /\ worker' = "executing"
        /\ UNCHANGED <<raised, writes, deferred, held, pipe, output, errors,
                       buffered, stdoutLogs, verdict, emitted, lost>>
    BY DEF TakeProgram, runVars
  <1>2. /\ Written = <<>> /\ held = <<>> /\ lost = {} /\ emitted = {} /\ ~ raised
        /\ pipe = <<>> /\ OutputTypeOK
    BY <1>1 DEF Working, LineInv, EndInv
  <1>3. output = <<>> /\ Written' = <<>>
    BY <1>1, <1>2, TextTypes DEF Written
  <1>4. OutputTypeOK'
    BY <1>1, <1>2 DEF OutputTypeOK, Progress
  <1>5. LineInv'
    BY <1>1, <1>2, <1>3 DEF Working, LineInv, Open, Ended
  <1>6. Range(<<>>) = {} /\ Len(<<>>) = 0
    BY EmptySeq DEF Range
  <1>7. EventInv'
    BY <1>1, <1>2, <1>3, <1>6 DEF Working, EventInv
  <1>8. EndInv'
    <2>1. mode' # "none"
      BY <1>1, ProgramOutputAssumption
    <2> QED
      BY <1>1, <1>2, <1>3, <1>6, <2>1 DEF EndInv
  <1> QED
    BY <1>4, <1>5, <1>7, <1>8 DEF Working

LEMMA PrintTextKeeps ==
    ASSUME Working, PrintText PROVE Working'
  <1>1. PICK flush \in BOOLEAN, text \in {<<Text, NL>>, <<Text>>} : WriteText(text, flush)
    BY DEF PrintText
  <1>2. /\ prog = "running" /\ worker # "gone" /\ writes < MaxWrites
        /\ writes' = writes + 1
        /\ UNCHANGED <<mode, prog, raised, worker, errors, buffered, stdoutLogs,
                       verdict, deferred, emitted, lost>>
    BY DEF PrintText, Calls, runVars
  <1>3. ~ Ended /\ ~ Ended'
    BY <1>2 DEF Ended
  <1>4. /\ text \in Seq(Plain) /\ held \in Seq(Plain) /\ OutputTypeOK
        /\ deferred <= writes /\ writes \in 0 .. MaxWrites /\ <<>> \in Seq(Plain)
    <2>1. Text \in Plain /\ NL \in Plain
      BY PieceKinds
    <2>2. <<Text, NL>> \in Seq(Plain) /\ <<Text>> \in Seq(Plain) /\ <<>> \in Seq(Plain)
      BY <2>1
    <2> QED
      BY <2>2 DEF Working, LineInv, EventInv, OutputTypeOK
  <1>5. Plain \subseteq Pieces
    BY PieceKinds
  <1>6. text \in Seq(Pieces)
    BY <1>4, <1>5, SeqMonotonic
  <1>7. /\ output' \in Seq(Pieces) /\ pipe' \in Seq(Pieces)
        /\ mode # "fork" => pipe' = <<>>
        /\ mode = "fork" => output' = output
        /\ \/ held' = <<>> /\ Written' = (Written \o held) \o text
           \/ held' = held \o text /\ UNCHANGED <<output, pipe>>
    BY <1>1, <1>3, <1>6, TextWritten
  <1>8. held \o text \in Seq(Plain)
    BY <1>4, ConcatProperties
  <1>9. held' \in Seq(Plain) /\ held' \in Seq(Pieces)
    <2>1. held' \in Seq(Plain)
      BY <1>4, <1>7, <1>8
    <2> QED
      BY <1>5, <2>1, SeqMonotonic
  <1>10. PICK w \in Seq(Plain) : Written' = Written \o w
    <2>1. Written \in Seq(Pieces) /\ held \in Seq(Pieces)
      BY <1>4, TextTypes
    <2>2. (Written \o held) \o text = Written \o (held \o text)
      BY <1>6, <2>1, PiecesAssociate
    <2>3. Written \o <<>> = Written
      BY <2>1, ConcatEmptySeq
    <2>4. UNCHANGED <<output, pipe>> => Written' = Written
      BY DEF Written
    <2> QED
      BY <1>4, <1>7, <1>8, <2>2, <2>3, <2>4
  <1>11. OutputTypeOK'
    <2>1. writes' \in 0 .. MaxWrites
      BY <1>2, <1>4, ProgramOutputAssumption
    <2> QED
      BY <1>2, <1>4, <1>7, <1>9, <2>1 DEF OutputTypeOK
  <1>12. Forth
    <2>1. deferred \in Nat
      BY <1>4, ProgramOutputAssumption DEF OutputTypeOK
    <2> QED
      BY <1>2, <1>4, <2>1, ProgramOutputAssumption DEF Forth
  <1> QED
    BY <1>2, <1>3, <1>7, <1>9, <1>10, <1>11, <1>12, PlainStep

\* A step of the program that writes nothing.
LEMMA SilentKeeps ==
    ASSUME Working, PrintLog \/ EndProgram \/ (FlushLogs /\ deferred = 0) \/ Kill
    PROVE  Working'
  <1>1. /\ ~ Ended /\ worker # "gone"
        /\ UNCHANGED <<mode, worker, lost, emitted, buffered, errors, stdoutLogs,
                       verdict, output, pipe>>
        /\ held' \in {held, <<>>}
        /\ Ended' => held' = <<>> /\ prog' = "killed" /\ mode = "fork"
    BY DEF PrintLog, Calls, EndProgram, FlushLogs, Kill, Ended, runVars, programVars
  <1>2. /\ OutputTypeOK /\ held \in Seq(Plain) /\ deferred <= writes
        /\ writes \in 0 .. MaxWrites /\ deferred \in 0 .. MaxWrites /\ prog \in Progress
    BY DEF Working, LineInv, EventInv, OutputTypeOK
  <1>3. /\ writes' \in 0 .. MaxWrites /\ writes <= writes' /\ deferred' <= writes'
        /\ deferred' \in 0 .. MaxWrites
    <2>1. CASE PrintLog
      BY <1>2, <2>1, ProgramOutputAssumption DEF PrintLog, Calls
    <2>2. CASE ~ PrintLog
      BY <1>2, <2>2, ProgramOutputAssumption DEF EndProgram, FlushLogs, Kill, programVars
    <2> QED
      BY <2>1, <2>2
  <1>4. /\ prog' \in Progress /\ raised' \in BOOLEAN
        /\ prog' \in {"running", "flushing"} => prog \in {"running", "flushing"}
    BY <1>2 DEF PrintLog, Calls, EndProgram, FlushLogs, Kill, programVars, Progress,
                OutputTypeOK
  <1>5. Forth
    BY <1>3, <1>4, ProgramOutputAssumption DEF Forth
  <1>6. held' \in Seq(Plain) /\ held' \in Seq(Pieces) /\ <<>> \in Seq(Plain)
    <2>1. <<>> \in Seq(Plain) /\ <<>> \in Seq(Pieces)
      BY EmptySeq
    <2> QED
      BY <1>1, <1>2, <2>1 DEF OutputTypeOK
  <1>7. OutputTypeOK'
    BY <1>1, <1>2, <1>3, <1>4, <1>6 DEF OutputTypeOK
  <1>8. Written' = Written \o <<>>
    <2>1. Written' = Written /\ Written \in Seq(Pieces)
      BY <1>1, <1>2, TextTypes DEF Written
    <2> QED
      BY <2>1, ConcatEmptySeq
  <1>9. mode # "fork" => pipe' = <<>>
    BY <1>1 DEF Working, LineInv
  <1> QED
    BY <1>1, <1>5, <1>6, <1>7, <1>8, <1>9, PlainStep

\* An event, of a call or of the log.
LEMMA EventKeeps ==
    ASSUME Working, ~ Ended, worker # "gone", NEW n \in 1 .. MaxWrites + 1,
           WriteEvent(Event(n)), \A e \in emitted : e[2] < n,
           UNCHANGED <<mode, raised, worker, errors, buffered, stdoutLogs, verdict,
                       deferred>>,
           writes' \in 0 .. MaxWrites, writes <= writes', prog' \in Progress,
           ~ Ended', n <= writes' \/ prog' \notin {"running", "flushing"},
           prog' \in {"running", "flushing"} => prog \in {"running", "flushing"}
    PROVE  Working'
  <1> DEFINE m == Event(n)
  <1>1. /\ m \in Events /\ m[2] = n /\ m \in Marks /\ m # Done /\ m # ErrorMark
        /\ m \in Pieces /\ NL \in Pieces
    BY PieceKinds
  <1>2. /\ WriteText(<<m, NL>>, TRUE) /\ emitted' = emitted \union {m} /\ lost' = Lost(m)
    BY DEF WriteEvent
  <1> HIDE DEF m
  <1>3. <<m, NL>> \in Seq(Pieces)
    BY <1>1
  <1>4. /\ output' \in Seq(Pieces) /\ pipe' \in Seq(Pieces)
        /\ mode # "fork" => pipe' = <<>>
        /\ mode = "fork" => output' = output
        /\ held' = <<>> /\ Written' = (Written \o held) \o <<m, NL>>
    BY <1>2, <1>3, TextWritten
  <1>5. /\ OutputTypeOK /\ held \in Seq(Plain) /\ deferred <= writes
        /\ writes \in Nat /\ deferred \in Nat /\ emitted \subseteq Events
        /\ lost \subseteq Pieces
    BY ProgramOutputAssumption DEF Working, LineInv, EventInv, OutputTypeOK
  <1>6. lost' \in {lost, lost \union {m}}
    BY <1>2 DEF Lost
  <1>7. OutputTypeOK'
    <2>1. held' \in Seq(Pieces)
      BY <1>4, EmptySeq
    <2> QED
      BY <1>1, <1>2, <1>4, <1>5, <1>6, <2>1 DEF OutputTypeOK
  <1>8. m \notin emitted
    BY <1>1
  <1>9. m \notin Range(Written) /\ m \notin lost
    <2>1. m \notin Range(Written)
      BY <1>1, <1>8 DEF Working, EventInv
    <2>2. ASSUME m \in lost PROVE FALSE
      BY <1>1, <1>8, <2>2 DEF Working, EventInv
    <2> QED
      BY <2>1, <2>2
  <1>10. EventInv'
    <2>1. \A e \in emitted' : e[2] <= writes' \/ prog' \notin {"running", "flushing"}
      <3>1. ASSUME NEW e \in emitted, prog' \in {"running", "flushing"}
            PROVE  e[2] <= writes'
        <4>1. e[2] \in Nat
          BY <1>5, PieceKinds, ProgramOutputAssumption
        <4>2. e[2] <= writes
          BY <3>1 DEF Working, EventInv
        <4> QED
          BY <1>5, <4>1, <4>2
      <3> QED
        BY <1>1, <1>2, <3>1
    <2>2. deferred' <= writes'
      BY <1>5
    <2> QED
      BY <1>1, <1>2, <1>4, <1>5, <1>6, <2>1, <2>2, EventsGrow
  <1>11. prog' # "exited" /\ prog' # "killed"
    BY DEF Ended
  <1> QED
    BY <1>1, <1>2, <1>4, <1>7, <1>9, <1>10, <1>11, MarkStep

LEMMA ReportKeeps ==
    ASSUME Working, ReportError PROVE Working'
  <1>1. /\ prog = "exiting" /\ worker # "gone" /\ prog' = "exited" /\ ~ Ended /\ Ended'
        /\ UNCHANGED <<mode, raised, writes, deferred, worker, errors, buffered,
                       stdoutLogs, verdict, emitted>>
    BY DEF ReportError, runVars, Ended
  <1>2. /\ OutputTypeOK /\ held \in Seq(Plain) /\ deferred <= writes
        /\ writes \in Nat /\ deferred \in Nat /\ lost \subseteq Pieces
        /\ emitted \subseteq Events /\ <<>> \in Seq(Plain) /\ <<>> \in Seq(Pieces)
        /\ Written \in Seq(Pieces) /\ held \in Seq(Pieces)
    BY ProgramOutputAssumption, EmptySeq, TextTypes
    DEF Working, LineInv, EventInv, OutputTypeOK
  <1>3. CASE raised
    <2> DEFINE m == ErrorMark
    <2>1. WriteText(<<m, NL>>, TRUE) /\ lost' = Lost(m)
      BY <1>3 DEF ReportError
    <2>2. m \in Marks /\ m \in Pieces /\ NL \in Pieces /\ m \notin Events /\ m # Done
      BY PieceKinds
    <2>3. m \notin Range(Written) /\ m \notin lost
      BY <1>1 DEF Working, EndInv
    <2>4. /\ output' \in Seq(Pieces) /\ pipe' \in Seq(Pieces)
          /\ mode # "fork" => pipe' = <<>>
          /\ mode = "fork" => output' = output
          /\ held' = <<>> /\ Written' = (Written \o held) \o <<m, NL>>
      <3>1. <<m, NL>> \in Seq(Pieces)
        BY <2>2
      <3> QED
        BY <1>1, <2>1, <3>1, TextWritten
    <2>5. lost' \in {lost, lost \union {m}}
      BY <2>1 DEF Lost
    <2>6. OutputTypeOK'
      BY <1>1, <1>2, <2>2, <2>4, <2>5 DEF OutputTypeOK, Progress
    <2>7. EventInv'
      BY <1>1, <1>2, <2>2, <2>4, <2>5, EventsGrow
    <2> QED
      BY <1>1, <2>1, <2>2, <2>3, <2>4, <2>6, <2>7, MarkStep
  <1>4. CASE ~ raised
    <2>1. WriteText(<<>>, TRUE) /\ lost' = lost
      BY <1>4 DEF ReportError
    <2>2. /\ output' \in Seq(Pieces) /\ pipe' \in Seq(Pieces)
          /\ mode # "fork" => pipe' = <<>>
          /\ mode = "fork" => output' = output
          /\ held' = <<>> /\ Written' = (Written \o held) \o <<>>
      BY <1>1, <1>2, <2>1, TextWritten
    <2>3. Written' = Written \o held
      <3>1. Written \o held \in Seq(Pieces)
        BY <1>2, ConcatProperties
      <3> QED
        BY <2>2, <3>1, ConcatEmptySeq
    <2>4. OutputTypeOK'
      BY <1>1, <1>2, <2>1, <2>2 DEF OutputTypeOK, Progress
    <2>5. Forth
      BY <1>1, <1>2 DEF Forth
    <2> QED
      BY <1>1, <1>2, <1>4, <2>1, <2>2, <2>3, <2>4, <2>5, PlainStep
  <1> QED
    BY <1>3, <1>4

LEMMA ProgramKeeps ==
    ASSUME Working, ProgramStep \/ Kill PROVE Working'
  <1>1. /\ \A e \in emitted : e[2] \in 1 .. MaxWrites + 1
        /\ \A e \in emitted : e[2] <= writes \/ prog \notin {"running", "flushing"}
        /\ writes \in 0 .. MaxWrites /\ MaxWrites \in Nat /\ prog \in Progress
    BY PieceKinds, ProgramOutputAssumption DEF Working, OutputTypeOK, EventInv
  <1>2. CASE EmitEvent
    <2>1. /\ WriteEvent(Event(writes + 1)) /\ prog = "running" /\ prog' = "running"
          /\ worker # "gone" /\ writes < MaxWrites /\ writes' = writes + 1
          /\ UNCHANGED <<mode, raised, worker, errors, buffered, stdoutLogs, verdict,
                         deferred>>
          /\ ~ Ended /\ ~ Ended'
      BY <1>2 DEF EmitEvent, Calls, runVars, Ended
    <2>2. /\ writes + 1 \in 1 .. MaxWrites + 1 /\ writes' \in 0 .. MaxWrites
          /\ writes <= writes' /\ writes + 1 <= writes'
      BY <1>1, <2>1
    <2>3. \A e \in emitted : e[2] < writes + 1
      BY <1>1, <2>1
    <2> QED
      BY <1>1, <2>1, <2>2, <2>3, EventKeeps
  <1>3. CASE FlushLogs /\ deferred # 0
    <2>1. /\ WriteEvent(Event(MaxWrites + 1)) /\ prog = "flushing" /\ prog' = "exiting"
          /\ worker # "gone"
          /\ UNCHANGED <<mode, raised, writes, worker, errors, buffered, stdoutLogs,
                         verdict, deferred>>
          /\ ~ Ended /\ ~ Ended'
      BY <1>3 DEF FlushLogs, runVars, Ended, LogEvent
    <2>2. MaxWrites + 1 \in 1 .. MaxWrites + 1 /\ writes <= writes /\ prog' \in Progress
      BY <1>1, <2>1 DEF Progress
    <2>3. \A e \in emitted : e[2] < MaxWrites + 1
      BY <1>1, <2>1
    <2> QED
      BY <1>1, <2>1, <2>2, <2>3, EventKeeps
  <1> QED
    BY <1>2, <1>3, PrintTextKeeps, SilentKeeps, ReportKeeps DEF ProgramStep

LEMMA ForwardKeeps ==
    ASSUME Working, Forward PROVE Working'
  <1> DEFINE k == LineEnd(pipe)
  <1>1. /\ mode = "fork" /\ worker = "executing" /\ pipe # <<>>
        /\ NL \in Range(pipe) \/ Ended
        /\ output' = output \o SubSeq(pipe, 1, k) /\ pipe' = SubSeq(pipe, k + 1, Len(pipe))
        /\ UNCHANGED <<mode, raised, writes, deferred, emitted, prog, held, worker,
                       errors, buffered, stdoutLogs, verdict, lost>>
    BY DEF Forward, programVars, runVars
  <1>2. output \in Seq(Pieces) /\ pipe \in Seq(Pieces) /\ OutputTypeOK
    BY TextTypes DEF Working
  <1>3. /\ k \in 1 .. Len(pipe)
        /\ NL \in Range(pipe) => pipe[k] = NL
        /\ NL \notin Range(pipe) => k = Len(pipe)
    BY <1>1, <1>2, FirstNewline
  <1> HIDE DEF k
  <1>4. /\ output' \in Seq(Pieces) /\ pipe' \in Seq(Pieces)
        /\ output' \o pipe' = output \o pipe
        /\ output'[Len(output')] = pipe[k] /\ Len(output') \in Nat \ {0}
        /\ k = Len(pipe) => pipe' = <<>>
    <2>1. Moved(output, pipe, k, output', pipe')
      BY <1>1 DEF Moved
    <2> QED
      BY ONLY SMTT(30), <1>2, <1>3, <2>1, LinesMoved
  <1>5. Written' = Written
    BY <1>4 DEF Written
  <1>6. OutputTypeOK'
    BY <1>1, <1>2, <1>4 DEF OutputTypeOK
  <1>7. Open(output') => pipe' = <<>> /\ Ended
    BY <1>1, <1>3, <1>4 DEF Open, Last
  <1>8. LineInv'
    BY <1>1, <1>5, <1>7 DEF Working, LineInv, Ended
  <1>9. Done \notin Range(Written) \union lost
    BY <1>1 DEF Working, EndInv
  <1> QED
    BY <1>1, <1>5, <1>6, <1>8, <1>9, TextStays

LEMMA DeathKeeps ==
    ASSUME Working, ExitCold \/ WorkerDies PROVE Working'
  <1>1. /\ mode # "none" /\ worker' = "gone" /\ worker # "gone"
        /\ prog' = IF Ended THEN prog ELSE "killed"
        /\ held' = <<>>
        /\ UNCHANGED <<mode, raised, writes, deferred, emitted, errors, buffered,
                       stdoutLogs, verdict, lost, output, pipe>>
    BY DEF ExitCold, WorkerDies, programVars, runVars, Ended, Working, LineInv
  <1>2. Written' = Written
    BY <1>1 DEF Written
  <1>3. <<>> \in Seq(Plain) /\ <<>> \in Seq(Pieces)
    BY EmptySeq
  <1>4. OutputTypeOK'
    BY <1>1, <1>3 DEF Working, OutputTypeOK, Progress
  <1>5. LineInv'
    BY <1>1, <1>2, <1>3 DEF Working, LineInv, Ended
  <1> QED
    BY <1>1, <1>2, <1>4, <1>5, TextStays

LEMMA DoneKeeps ==
    ASSUME Working, WriteDone PROVE Working'
  <1>1. /\ mode \in {"fork", "inline"} /\ worker = "executing" /\ worker' = "idle"
        /\ Ended /\ Ended' /\ pipe = <<>> /\ pipe' = <<>> /\ held = <<>>
        /\ output' = output \o <<Done, NL>>
        /\ lost' = IF Open(output) THEN lost \union {Done} ELSE lost
        /\ UNCHANGED <<mode, raised, writes, deferred, emitted, prog, held,
                       errors, buffered, stdoutLogs, verdict>>
    BY DEF WriteDone, programVars, runVars, Ended, Working, LineInv
  <1>2. /\ output \in Seq(Pieces) /\ OutputTypeOK /\ Written = output
        /\ <<>> \in Seq(Plain) /\ <<>> \in Seq(Pieces)
    BY <1>1, TextTypes, EmptySeq DEF Working
  <1>3. Done \in Marks /\ Done \in Pieces /\ NL \in Pieces /\ Done \notin Events
        /\ NL \notin Marks /\ ErrorMark \in Marks /\ Done # ErrorMark
    BY PieceKinds
  <1>4. Done \notin Range(Written) /\ Done \notin lost
    BY <1>1 DEF Working, EndInv
  <1>5. /\ output' \in Seq(Pieces) /\ output'[Len(output')] = NL
    <2>1. /\ output' \in Seq(Pieces) /\ Len(output') = Len(output) + 2
          /\ output'[Len(output) + 2] = NL
      BY <1>1, <1>2, <1>3, MarkContinues
    <2> QED
      BY <2>1
  <1>6. Written' = (Written \o <<>>) \o <<Done, NL>> /\ Written \o <<>> = output
    <2>1. output \o <<>> = output /\ output' \o <<>> = output'
      BY <1>2, <1>5, ConcatEmptySeq
    <2> QED
      BY <1>1, <1>2, <2>1 DEF Written
  <1>7. /\ Tidy(Written', lost')
        /\ \A p \in Marks : p \in Range(Written') <=> p \in Range(Written) \union {Done}
        /\ \A i \in 1 .. Len(Written') : Written'[i] = Done => i = Len(Written') - 1
    <2>1. lost' = IF Open(Written \o <<>>) THEN lost \union {Done} ELSE lost
      BY <1>1, <1>6
    <2> QED
      BY <1>2, <1>3, <1>4, <1>6, <2>1, MarkKept
  <1>8. OutputTypeOK'
    BY <1>1, <1>2, <1>3, <1>5 DEF OutputTypeOK
  <1>9. EventInv'
    <2>1. deferred' <= writes' /\ \A e \in emitted : e[2] <= writes' \/ prog' \notin {"running", "flushing"}
      BY <1>1 DEF Working, EventInv
    <2> QED
      BY <1>1, <1>2, <1>3, <1>6, <2>1, EventsGrow
  <1>10. LineInv'
    BY <1>1, <1>2, <1>5, <1>7 DEF LineInv, Open, Last
  <1>11. ErrorMark \in Range(Written') \union lost' <=> ErrorMark \in Range(Written) \union lost
    BY <1>1, <1>3, <1>7
  <1>12. EndInv'
    BY <1>1, <1>7, <1>11 DEF Working, EndInv, Ended
  <1> QED
    BY <1>8, <1>9, <1>10, <1>12 DEF Working

-----------------------------------------------------------------------------
(* The run.                                                                *)

\* The line that is read: a mark in it is the last piece before the newline, and
\* is lost unless it is the first too.
Takes(k, size, line) ==
    /\ k = LineEnd(output) /\ size = IF output[k] = NL THEN k - 1 ELSE k
    /\ line = SubSeq(output, 1, size)
    /\ output' = SubSeq(output, k + 1, Len(output)) /\ pipe' = pipe

LEMMA LineTaken ==
    ASSUME Working, verdict = "none", output # <<>>,
           NL \in Range(output) \/ worker = "gone",
           NEW k, NEW size, NEW line, Takes(k, size, line)
    PROVE  /\ output' \in Seq(Pieces)
           /\ k \in 1 .. Len(Written) /\ size \in 0 .. k
           /\ Written' = SubSeq(Written, k + 1, Len(Written))
           /\ Tidy(Written', lost)
           /\ line \in Seq(Pieces) /\ Len(line) = size
           /\ \A i \in 1 .. size : line[i] = Written[i]
           /\ \A i \in 1 .. k : Written[i] \in Marks =>
                  i = size /\ k = size + 1 /\ (Written[i] \in lost <=> i > 1)
           /\ Open(output') => Open(output)
  <1>1. /\ output \in Seq(Pieces) /\ pipe \in Seq(Pieces) /\ Written \in Seq(Pieces)
        /\ Tidy(Written, lost) /\ NL \notin Marks
    BY TextTypes, PieceKinds DEF Working, LineInv
  <1>0. /\ k = LineEnd(output) /\ size = IF output[k] = NL THEN k - 1 ELSE k
        /\ line = SubSeq(output, 1, size)
        /\ output' = SubSeq(output, k + 1, Len(output)) /\ pipe' = pipe
    BY DEF Takes
  <1>2. /\ k \in 1 .. Len(output) /\ Len(output) \in Nat \ {0}
        /\ NL \in Range(output) =>
               output[k] = NL /\ \A j \in 1 .. k - 1 : output[j] # NL
        /\ NL \notin Range(output) =>
               k = Len(output) /\ \A j \in 1 .. Len(output) : output[j] # NL
    BY <1>0, <1>1, FirstNewline
  <1>3. /\ output' \in Seq(Pieces) /\ Len(output') = Len(output) - k
        /\ \A i \in 1 .. Len(output') : output'[i] = output[k + i]
    BY ZenonT(60), <1>0, <1>1, <1>2, TextLeft
  <1>4. /\ Written' = SubSeq(Written, k + 1, Len(Written)) /\ k \in 1 .. Len(Written)
        /\ \A i \in 1 .. k : Written[i] = output[i]
    BY <1>0, <1>1, <1>2, LeftOfBoth DEF Written
  <1>5. /\ size \in 0 .. k /\ size \in Int /\ \A i \in 1 .. size : i \in 1 .. k
        /\ \A i \in 1 .. size : output[i] # NL
        /\ \A i \in 1 .. k : i <= size \/ output[i] = NL
    <2>1. CASE output[k] = NL
      <3>1. NL \in Range(output)
        BY <1>1, <1>2, <2>1, LenProperties DEF Range
      <3>2. size = k - 1 /\ k \in Nat /\ 1 <= k
        BY <1>0, <1>2, <2>1
      <3>3. \A i \in 1 .. k : i <= k - 1 \/ i = k
        BY <3>2
      <3> QED
        BY <1>2, <2>1, <3>1, <3>2, <3>3
    <2>2. CASE output[k] # NL
      <3>1. size = k /\ k = Len(output) /\ k \in Nat /\ \A j \in 1 .. Len(output) : output[j] # NL
        BY <1>0, <1>2, <2>2
      <3> QED
        BY <3>1
    <2> QED
      BY <2>1, <2>2
  <1>6. /\ line \in Seq(Pieces) /\ Len(line) = size
        /\ \A i \in 1 .. size : line[i] = Written[i]
    <2>1. \A i \in 1 .. size : output[i] \in Pieces
      BY <1>1, <1>2, <1>5, ElementOfSeq
    <2>2. /\ line \in Seq(Pieces) /\ Len(line) = IF 1 <= size THEN size - 1 + 1 ELSE 0
          /\ \A i \in 1 .. size - 1 + 1 : line[i] = output[1 + i - 1]
      BY <1>0, <1>5, <2>1, SubSeqProperties
    <2>3. size - 1 + 1 = size /\ \A i \in 1 .. size : 1 + i - 1 = i
      BY <1>5
    <2>4. Len(line) = size
      BY <1>5, <2>2
    <2>5. \A i \in 1 .. size : line[i] = output[i]
      BY <2>2, <2>3
    <2> QED
      BY <1>4, <1>5, <2>2, <2>4, <2>5
  <1>7. Open(output') => Open(output)
    <2>1. SUFFICES ASSUME output' # <<>>, output'[Len(output')] # NL
                   PROVE  Open(output)
      BY DEF Open, Last
    <2>2. Len(output') \in Nat \ {0}
      BY <1>3, <2>1, EmptySeq
    <2>3. Len(output') \in 1 .. Len(output') /\ k + Len(output') = Len(output)
      <3>1. k \in Nat /\ Len(output) \in Nat /\ Len(output') = Len(output) - k
        BY <1>2, <1>3
      <3>2. PICK n \in Nat : n = Len(output') /\ n # 0
        BY <2>2
      <3>3. k + n = Len(output) /\ n \in 1 .. n
        BY ONLY <3>1, <3>2
      <3> QED
        BY <3>2, <3>3
    <2>4. output'[Len(output')] = output[Len(output)]
      BY <1>3, <2>3
    <2> QED
      BY <2>1, <2>4 DEF Open, Last
  <1>8. NL \notin Range(output) => Written = output
    <2>1. SUFFICES ASSUME NL \notin Range(output) PROVE pipe = <<>>
      BY TextTypes DEF Working
    <2>2. Open(output)
      BY <1>2, <2>1 DEF Open, Last
    <2> QED
      BY <2>2 DEF Working, LineInv
  <1>9. ASSUME NEW i \in 1 .. k, Written[i] \in Marks
        PROVE  i = size /\ k = size + 1 /\ (Written[i] \in lost <=> i > 1)
    <2>1. /\ i < Len(Written) /\ Written[i + 1] = NL
          /\ Written[i] \in lost <=> i > 1 /\ Written[i - 1] # NL
      <3>1. Len(Written) \in Nat
        BY <1>1, LenProperties
      <3>2. i \in 1 .. Len(Written)
        BY <1>4, <3>1
      <3> QED
        BY <1>1, <1>9, <3>2 DEF Tidy
    <2>2. output[i] # NL /\ i <= size
      BY <1>1, <1>4, <1>5, <1>9
    <2>3. NL \in Range(output)
      <3>1. ASSUME NL \notin Range(output) PROVE FALSE
        <4>1. i + 1 \in 1 .. Len(output) /\ output[i + 1] = NL
          BY <1>2, <1>8, <2>1, <3>1
        <4> QED
          BY <1>2, <3>1, <4>1
      <3> QED
        BY <3>1
    <2>4. output[k] = NL /\ size = k - 1 /\ i \in 1 .. k - 1
      BY <1>0, <1>2, <1>5, <2>2, <2>3
    <2>5. ~ (i + 1 \in 1 .. k - 1)
      <3>1. i + 1 \in 1 .. k - 1 => output[i + 1] = NL
        <4>1. i + 1 \in 1 .. k - 1 => i + 1 \in 1 .. k
          BY <1>2
        <4> QED
          BY <1>4, <2>1, <4>1
      <3> QED
        BY <1>2, <2>3, <3>1
    <2>6. i = k - 1
      BY <1>2, <2>4, <2>5
    <2>7. i > 1 => Written[i - 1] # NL
      <3>1. i > 1 => i - 1 \in 1 .. k - 1 /\ i - 1 \in 1 .. k
        BY <1>2, <2>6
      <3> QED
        BY <1>2, <1>4, <2>3, <3>1
    <2> QED
      BY <1>2, <2>1, <2>4, <2>6, <2>7
  <1>10. Tidy(Written', lost)
    <2>1. CASE NL \in Range(output)
      <3>1. Written[k] = NL
        <4>1. k \in 1 .. k
          BY <1>2
        <4> QED
          BY <1>2, <1>4, <2>1, <4>1
      <3> QED
        BY <1>1, <1>4, <3>1, TidyLeft
    <2>2. CASE NL \notin Range(output)
      <3>1. Len(Written') = 0
        BY <1>1, <1>2, <1>4, <1>8, <2>2, TextLeft
      <3> QED
        BY <3>1 DEF Tidy
    <2> QED
      BY <2>1, <2>2
  <1> QED
    BY <1>3, <1>4, <1>5, <1>6, <1>7, <1>9, <1>10

\* Lines are read: an event of them, if it is not lost, is buffered.
LEMMA EventsRead ==
    ASSUME Working, NEW k \in 1 .. Len(Written),
           Written' = SubSeq(Written, k + 1, Len(Written)),
           UNCHANGED <<emitted, lost, writes, prog, deferred>>,
           \/ /\ buffered' = buffered
              /\ \A i \in 1 .. k : Written[i] \in Events => Written[i] \in lost
           \/ /\ Written[1] \in Events /\ Written[1] \notin lost
              /\ \A i \in 1 .. k : Written[i] \in Events => i = 1
              /\ buffered' = Append(buffered, Written[1])
    PROVE  EventInv'
  <1>1. /\ Written \in Seq(Pieces) /\ emitted \subseteq Events /\ buffered \in Seq(Events)
        /\ Len(Written) \in Nat /\ Len(buffered) \in Nat
        /\ DOMAIN Written = 1 .. Len(Written) /\ DOMAIN buffered = 1 .. Len(buffered)
    BY TextTypes, LenProperties DEF Working, OutputTypeOK
  <1>2. /\ Written' \in Seq(Pieces) /\ Len(Written') = Len(Written) - k
        /\ \A i \in 1 .. Len(Written') :
               k + i \in 1 .. Len(Written) /\ Written'[i] = Written[k + i]
        /\ Range(Written') \subseteq Range(Written)
        /\ \A i \in 1 .. Len(Written) : i > k => Written[i] \in Range(Written')
    BY ZenonT(60), <1>1, TextLeft
  <1>3. Ordered(Written')
    <2>1. \A i, j \in 1 .. Len(Written') : i < j => k + i < k + j
      <3>1. k \in Nat
        OBVIOUS
      <3> QED
        BY ONLY <3>1
    <2> QED
      BY <1>2, <2>1 DEF Working, EventInv, Ordered
  <1>4. (Range(Written') \union lost') \intersect Events \subseteq emitted'
    BY <1>2 DEF Working, EventInv
  <1>5. \A e \in emitted' : e[2] <= writes' \/ prog' \notin {"running", "flushing"}
    BY DEF Working, EventInv
  <1>6. deferred' <= writes'
    BY DEF Working, EventInv
  <1>7. CASE /\ buffered' = buffered
             /\ \A i \in 1 .. k : Written[i] \in Events => Written[i] \in lost
    <2>1. emitted \ lost \subseteq Range(buffered) \union Range(Written')
      <3>1. ASSUME NEW e \in emitted \ lost, e \notin Range(buffered)
            PROVE  e \in Range(Written')
        <4>1. e \in Range(Written)
          BY <3>1 DEF Working, EventInv
        <4>2. PICK i \in 1 .. Len(Written) : Written[i] = e
          BY <1>1, <4>1 DEF Range
        <4>3. i \notin 1 .. k
          BY <1>1, <1>7, <3>1, <4>2
        <4>4. i > k
          BY <1>1, <4>3
        <4> QED
          BY <1>2, <4>2, <4>4
      <3> QED
        BY <3>1
    <2>2. \A i \in 1 .. Len(buffered), j \in 1 .. Len(Written') :
              Written'[j] \in Events => buffered[i][2] < Written'[j][2]
      BY <1>2 DEF Working, EventInv
    <2>3. Range(buffered) \subseteq emitted \ lost /\ Ordered(buffered)
      BY DEF Working, EventInv
    <2> QED
      BY <1>3, <1>4, <1>5, <1>6, <1>7, <2>1, <2>2, <2>3 DEF EventInv
  <1>8. CASE /\ Written[1] \in Events /\ Written[1] \notin lost
             /\ \A i \in 1 .. k : Written[i] \in Events => i = 1
             /\ buffered' = Append(buffered, Written[1])
    <2>1. 1 \in 1 .. Len(Written) /\ k \in Nat /\ 1 <= k
      BY <1>1
    <2>2. PICK e \in Events : e = Written[1]
      BY <1>8
    <2>3. e \in Range(Written) /\ e \in emitted /\ e \notin lost
      BY <1>1, <1>8, <2>1, <2>2 DEF Range, Working, EventInv
    <2>4. /\ Len(buffered') = Len(buffered) + 1 /\ buffered'[Len(buffered) + 1] = e
          /\ \A i \in 1 .. Len(buffered) : buffered'[i] = buffered[i]
          /\ buffered' \in Seq(Events) /\ DOMAIN buffered' = 1 .. Len(buffered')
      <3>1. /\ buffered' \in Seq(Events)
            /\ Len(buffered') = Len(buffered) + 1 /\ buffered'[Len(buffered) + 1] = e
            /\ \A i \in 1 .. Len(buffered) : buffered'[i] = buffered[i]
        <4>1. buffered \in Seq(Events) /\ e \in Events /\ buffered' = Append(buffered, e)
          BY <1>1, <1>8, <2>2
        <4> QED
          BY ONLY <4>1, AppendProperties
      <3> QED
        BY <3>1, LenProperties
    <2>6. /\ \A i \in 1 .. Len(buffered') : i \in 1 .. Len(buffered) \/ i = Len(buffered) + 1
          /\ \A i \in 1 .. Len(buffered) : i \in 1 .. Len(buffered')
          /\ Len(buffered) + 1 \in 1 .. Len(buffered')
      BY <1>1, <2>4
    <2>5. Range(buffered') = Range(buffered) \union {e}
      <3>1. Range(buffered') \subseteq Range(buffered) \union {e}
        BY <1>1, <2>4, <2>6 DEF Range
      <3>2. Range(buffered) \union {e} \subseteq Range(buffered')
        BY SMTT(30), <1>1, <2>4, <2>6 DEF Range
      <3> QED
        BY <3>1, <3>2
    <2>7. emitted \ lost \subseteq Range(buffered') \union Range(Written')
      <3>1. ASSUME NEW f \in emitted \ lost, f \notin Range(buffered')
            PROVE  f \in Range(Written')
        <4>1. f \in Range(Written)
          BY <2>5, <3>1 DEF Working, EventInv
        <4>2. PICK i \in 1 .. Len(Written) : Written[i] = f
          BY <1>1, <4>1 DEF Range
        <4>3. i \notin 1 .. k
          BY <1>1, <1>8, <2>2, <2>5, <3>1, <4>2
        <4>4. i > k
          BY <1>1, <4>3
        <4> QED
          BY <1>2, <4>2, <4>4
      <3> QED
        BY <3>1
    <2>8. ASSUME NEW i \in 1 .. Len(buffered'), NEW j \in 1 .. Len(Written'),
                 Written'[j] \in Events
          PROVE  buffered'[i][2] < Written'[j][2]
      <3>1. k + j \in 1 .. Len(Written) /\ Written'[j] = Written[k + j] /\ 1 < k + j
        BY <1>2, <2>1
      <3>2. CASE i \in 1 .. Len(buffered)
        BY <2>4, <2>8, <3>1, <3>2 DEF Working, EventInv
      <3>3. CASE i = Len(buffered) + 1
        <4>1. /\ Ordered(Written) /\ Written[1] \in Events /\ Written[k + j] \in Events
              /\ 1 \in 1 .. Len(Written)
          BY <1>8, <2>1, <2>8, <3>1 DEF Working, EventInv
        <4>2. Written[1][2] < Written[k + j][2]
          BY <3>1, <4>1 DEF Ordered
        <4> QED
          BY <2>2, <2>4, <3>1, <3>3, <4>2
      <3> QED
        BY <2>6, <3>2, <3>3
    <2>9. Ordered(buffered')
      <3>1. SUFFICES ASSUME NEW i \in 1 .. Len(buffered'), NEW j \in 1 .. Len(buffered'),
                            i < j
                     PROVE  buffered'[i][2] < buffered'[j][2]
        BY DEF Ordered
      <3>2. i \in 1 .. Len(buffered)
        BY <1>1, <2>4, <3>1
      <3>3. CASE j \in 1 .. Len(buffered)
        <4>1. buffered[i] \in Events /\ buffered[j] \in Events
          BY <1>1, <3>2, <3>3, ElementOfSeq
        <4> QED
          BY <2>4, <3>1, <3>2, <3>3, <4>1 DEF Working, EventInv, Ordered
      <3>4. CASE j = Len(buffered) + 1
        BY <1>8, <2>1, <2>2, <2>4, <3>2, <3>4 DEF Working, EventInv
      <3> QED
        BY <2>6, <3>3, <3>4
    <2>10. Range(buffered') \subseteq emitted' \ lost'
      BY <2>3, <2>5 DEF Working, EventInv
    <2> QED
      BY <1>3, <1>4, <1>5, <1>6, <2>7, <2>8, <2>9, <2>10 DEF EventInv
  <1> QED
    BY <1>7, <1>8

\* The marks of the end, when lines are read.
LEMMA EndRead ==
    ASSUME Working, mode # "none", NEW k \in 1 .. Len(Written),
           Written' = SubSeq(Written, k + 1, Len(Written)),
           UNCHANGED <<mode, prog, raised, worker, pipe, lost>>, errors' \in Nat,
           errors > 0 => errors' > 0,
           \A i \in 1 .. k : Written[i] = ErrorMark => ErrorMark \in lost \/ errors' > 0
    PROVE  EndInv'
  <1>1. /\ Written \in Seq(Pieces) /\ Len(Written) \in Nat
        /\ DOMAIN Written = 1 .. Len(Written)
    BY TextTypes, LenProperties DEF Working
  <1>2. /\ Len(Written') = Len(Written) - k
        /\ \A i \in 1 .. Len(Written') :
               k + i \in 1 .. Len(Written) /\ Written'[i] = Written[k + i]
        /\ Range(Written') \subseteq Range(Written)
        /\ \A i \in 1 .. Len(Written) : i > k => Written[i] \in Range(Written')
    BY <1>1, TextLeft
  <1>3. ASSUME NEW i \in 1 .. Len(Written'), Written'[i] = Done
        PROVE  i = Len(Written') - 1
    <2>1. k + i = Len(Written) - 1
      BY <1>2, <1>3 DEF Working, EndInv
    <2>2. k \in Nat /\ i \in Nat /\ Len(Written) \in Nat /\ Len(Written') = Len(Written) - k
      <3>1. k \in Nat
        BY <1>1
      <3>2. i \in Nat
        OBVIOUS
      <3> QED
        BY <1>1, <1>2, <3>1, <3>2
    <2> QED
      BY ONLY <2>1, <2>2
  <1>4. ASSUME prog = "exited", raised
        PROVE  errors' > 0 \/ ErrorMark \in Range(Written') \union lost
    <2>1. CASE ErrorMark \in Range(Written)
      <3>1. PICK i \in 1 .. Len(Written) : Written[i] = ErrorMark
        BY <1>1, <2>1 DEF Range
      <3>2. i \in 1 .. k \/ i > k
        BY <1>1
      <3> QED
        BY <1>2, <3>1, <3>2
    <2> QED
      BY <1>4, <2>1 DEF Working, EndInv
  <1> QED
    BY <1>2, <1>3, <1>4 DEF Working, EndInv, Ended

LEMMA Sorted ==
    ASSUME NEW line, Sort(line)
    PROVE  /\ line = <<Done>> =>
                  /\ verdict' = IF errors = 0 THEN "ok" ELSE "failed"
                  /\ UNCHANGED <<errors, buffered, stdoutLogs>>
           /\ line # <<Done>> /\ line # <<>> /\ line[1][1] = "event" =>
                  /\ buffered' = Append(buffered, line[1])
                  /\ UNCHANGED <<errors, stdoutLogs, verdict>>
  <1> DEFINE D == line = <<Done>>
  <1> DEFINE E == line # <<>> /\ line[1][1] = "event"
  <1> DEFINE M == line # <<>> /\ line[1] = ErrorMark
  <1> DEFINE A == Append(buffered, line[1])
  <1>1. (CASE D -> Conclude(0) /\ UNCHANGED <<errors, buffered, stdoutLogs>>
           [] E -> buffered' = A /\ UNCHANGED <<errors, stdoutLogs, verdict>>
           [] M -> errors' = errors + 1 /\ UNCHANGED <<buffered, stdoutLogs, verdict>>
           [] OTHER -> /\ stdoutLogs' = stdoutLogs + 1
                       /\ UNCHANGED <<errors, buffered, verdict>>)
    BY DEF Sort
  <1>2. (D => ~ E /\ ~ M) /\ (E => ~ M)
    BY DEF Done, ErrorMark
  <1> HIDE DEF D, E, M, A
  <1>3. D => Conclude(0) /\ UNCHANGED <<errors, buffered, stdoutLogs>>
    BY <1>1, <1>2
  <1>4. ~ D /\ E => buffered' = A /\ UNCHANGED <<errors, stdoutLogs, verdict>>
    BY <1>1, <1>2
  <1> QED
    BY <1>3, <1>4 DEF D, E, A, Conclude

LEMMA ReadLineKeeps ==
    ASSUME Working, ReadLine PROVE OutputInv'
  <1>1. PICK k : k = LineEnd(output)
    OBVIOUS
  <1>2. PICK size : size = IF output[k] = NL THEN k - 1 ELSE k
    OBVIOUS
  <1>3. PICK line : line = SubSeq(output, 1, size)
    OBVIOUS
  <1>4. /\ mode # "none" /\ verdict = "none" /\ output # <<>>
        /\ NL \in Range(output) \/ worker = "gone"
        /\ Sort(line) /\ output' = SubSeq(output, k + 1, Len(output))
        /\ UNCHANGED <<mode, raised, writes, deferred, emitted, prog, held, pipe,
                       worker, lost>>
    BY <1>1, <1>2, <1>3 DEF ReadLine, programVars
  <1>5. /\ output' \in Seq(Pieces)
        /\ k \in 1 .. Len(Written) /\ size \in 0 .. k
        /\ Written' = SubSeq(Written, k + 1, Len(Written))
        /\ Tidy(Written', lost)
        /\ line \in Seq(Pieces) /\ Len(line) = size
        /\ \A i \in 1 .. size : line[i] = Written[i]
        /\ \A i \in 1 .. k : Written[i] \in Marks =>
               i = size /\ k = size + 1 /\ (Written[i] \in lost <=> i > 1)
        /\ Open(output') => Open(output)
    <2>1. Takes(k, size, line)
      BY <1>1, <1>2, <1>3, <1>4 DEF Takes
    <2> QED
      BY <1>4, <2>1, LineTaken
  <1>6. LineInv'
    BY <1>4, <1>5 DEF Working, LineInv, Ended
  <1>7. /\ OutputTypeOK /\ errors \in Nat /\ stdoutLogs \in Nat /\ buffered \in Seq(Events)
        /\ Written \in Seq(Pieces) /\ Len(Written) \in Nat
        /\ DOMAIN Written = 1 .. Len(Written)
    BY TextTypes, LenProperties DEF Working, OutputTypeOK
  <1>8. line # <<>> => size >= 1 /\ line[1] = Written[1] /\ line[1] \in Pieces
    <2>1. SUFFICES ASSUME line # <<>>
                   PROVE  size >= 1 /\ line[1] = Written[1] /\ line[1] \in Pieces
      OBVIOUS
    <2>2. size \in Nat \ {0}
      BY <1>5, <2>1, EmptySeq
    <2>3. 1 \in 1 .. size
      BY <2>2
    <2> QED
      BY <1>5, <2>2, <2>3, ElementOfSeq
  \* The marks of the line are lost if the line does not begin with one.
  <1>9. ASSUME line = <<>> \/ Written[1] \notin Marks, NEW i \in 1 .. k, Written[i] \in Marks
        PROVE  Written[i] \in lost
    <2>1. i = size /\ (Written[i] \in lost <=> i > 1)
      BY <1>5, <1>9
    <2>2. i # 1
      <3>1. line # <<>>
        <4>1. Len(line) # 0
          BY <1>5, <2>1
        <4> QED
          BY <4>1, EmptySeq
      <3> QED
        BY <1>9, <3>1
    <2> QED
      BY <2>1, <2>2
  \* A line that begins with a mark is this mark.
  <1>10. ASSUME line # <<>>, Written[1] \in Marks
         PROVE  /\ size = 1 /\ k = 2 /\ Written[1] \notin lost /\ line = <<Written[1]>>
                /\ \A i \in 1 .. k : Written[i] \in Marks => i = 1
    <2>1. 1 \in 1 .. k
      BY <1>5, <1>8, <1>10
    <2>2. size = 1 /\ k = 2 /\ Written[1] \notin lost
      BY <1>5, <1>10, <2>1
    <2>3. \A i \in 1 .. k : Written[i] \in Marks => i = 1
      BY <1>5, <2>2
    <2>4. line = <<Written[1]>>
      <3>1. Len(line) = 1 /\ line[1] = Written[1] /\ DOMAIN line = 1 .. 1
        BY <1>5, <1>8, <1>10, <2>2, LenProperties
      <3>2. line \in Seq(Pieces) /\ <<Written[1]>> \in Seq(Pieces)
        BY <1>5, <1>8, <1>10
      <3>3. Len(<<Written[1]>>) = 1 /\ <<Written[1]>>[1] = Written[1]
        OBVIOUS
      <3> QED
        BY <3>1, <3>2, <3>3, SeqEqual
    <2> QED
      BY <2>2, <2>3, <2>4
  <1>11. CASE line = <<Done>>
    <2>1. /\ verdict' = IF errors = 0 THEN "ok" ELSE "failed"
          /\ UNCHANGED <<errors, buffered, stdoutLogs>>
      BY <1>4, <1>11, Sorted
    <2>2. line # <<>> /\ Written[1] = Done
      <3>1. Len(<<Done>>) = 1 /\ <<Done>>[1] = Done
        OBVIOUS
      <3>2. line # <<>>
        BY <1>11, <3>1, EmptySeq
      <3> QED
        BY <1>8, <1>11, <3>1, <3>2
    <2>3. k = 2 /\ \A i \in 1 .. k : Written[i] \in Marks => i = 1
      BY <1>10, <2>2, PieceKinds
    <2>4. 1 \in 1 .. Len(Written) /\ Done \in Range(Written)
      BY <1>5, <1>7, <2>2, <2>3 DEF Range
    <2>5. Len(Written) = 2
      <3>1. 1 = Len(Written) - 1
        BY <2>2, <2>4 DEF Working, EndInv
      <3>2. Len(Written) \in Nat
        BY <1>7
      <3> QED
        BY ONLY <3>1, <3>2
    <2>6. Range(Written) \intersect Marks \subseteq {Done}
      BY <1>7, <2>2, <2>3, <2>5 DEF Range
    <2>7. Range(Written) \intersect Events = {} /\ ErrorMark \notin Range(Written)
      BY <2>6, PieceKinds
    <2>8. /\ worker # "executing" /\ Ended /\ mode # "cold"
          /\ prog = "exited" \/ mode = "fork"
      BY <2>4 DEF Working, EndInv
    <2>9. OutputTypeOK'
      BY <1>4, <1>5, <1>7, <2>1 DEF OutputTypeOK
    <2>10. OverInv'
      BY <1>4, <2>8 DEF OverInv, Ended
    <2>11. OutcomeTold'
      BY <1>4, <2>1, <2>7, <2>8 DEF Working, EndInv, OutcomeTold, Ended, OutputTypeOK
    <2>12. EventsDelivered'
      <3>1. Range(buffered) = emitted \ lost
        BY <1>7, <2>7 DEF Working, EventInv, OutputTypeOK
      <3>2. \A i, j \in DOMAIN buffered : i < j => buffered[i][2] < buffered[j][2]
        BY <1>7, ElementOfSeq, LenProperties DEF Working, EventInv, Ordered
      <3> QED
        BY <1>4, <2>1, <3>1, <3>2 DEF EventsDelivered
    <2>13. verdict' # "none"
      BY <2>1
    <2> QED
      BY <2>9, <2>10, <2>11, <2>12, <2>13 DEF OutputInv
  <1>12. CASE line # <<Done>> /\ line # <<>> /\ line[1][1] = "event"
    <2>1. /\ buffered' = Append(buffered, line[1])
          /\ UNCHANGED <<errors, stdoutLogs, verdict>>
      BY <1>4, <1>12, Sorted
    <2>2. Written[1] \in Events /\ line[1] = Written[1] /\ Written[1] \in Marks
      BY <1>8, <1>12, PieceKinds
    <2>3. /\ Written[1] \notin lost
          /\ \A i \in 1 .. k : Written[i] \in Marks => i = 1
      BY <1>10, <1>12, <2>2
    <2>4. /\ \A i \in 1 .. k : Written[i] \in Events => i = 1
          /\ \A i \in 1 .. k : Written[i] # ErrorMark
      BY <2>2, <2>3, PieceKinds
    <2>5. EventInv'
      BY <1>4, <1>5, <2>1, <2>2, <2>3, <2>4, EventsRead
    <2>6. EndInv'
      BY <1>4, <1>5, <1>7, <2>1, <2>4, EndRead
    <2>7. buffered' \in Seq(Events)
      BY <1>7, <2>1, <2>2, AppendProperties
    <2>8. OutputTypeOK'
      BY <1>4, <1>5, <1>7, <2>1, <2>7 DEF OutputTypeOK
    <2> QED
      BY <1>4, <1>6, <2>1, <2>5, <2>6, <2>8 DEF OutputInv, OutcomeTold, EventsDelivered
  <1>13. CASE line # <<Done>> /\ ~ (line # <<>> /\ line[1][1] = "event")
              /\ line # <<>> /\ line[1] = ErrorMark
    <2>1. /\ errors' = errors + 1
          /\ UNCHANGED <<buffered, stdoutLogs, verdict>>
      BY <1>4, <1>13 DEF Sort
    <2>2. Written[1] = ErrorMark /\ Written[1] \in Marks
      BY <1>8, <1>13, PieceKinds
    <2>3. \A i \in 1 .. k : Written[i] \in Marks => i = 1
      BY <1>10, <1>13, <2>2
    <2>4. \A i \in 1 .. k : Written[i] \notin Events
      BY <2>2, <2>3, PieceKinds
    <2>5. EventInv'
      BY <1>4, <1>5, <2>1, <2>4, EventsRead
    <2>6. errors' \in Nat /\ errors' > 0
      BY <1>7, <2>1
    <2>7. EndInv'
      BY <1>4, <1>5, <2>6, EndRead
    <2>8. OutputTypeOK'
      BY <1>4, <1>5, <1>7, <2>1, <2>6 DEF OutputTypeOK
    <2> QED
      BY <1>4, <1>6, <2>1, <2>5, <2>7, <2>8 DEF OutputInv, OutcomeTold, EventsDelivered
  <1>14. CASE line # <<Done>> /\ ~ (line # <<>> /\ line[1][1] = "event")
              /\ ~ (line # <<>> /\ line[1] = ErrorMark)
    <2>1. /\ stdoutLogs' = stdoutLogs + 1
          /\ UNCHANGED <<errors, buffered, verdict>>
      BY <1>4, <1>14 DEF Sort
    <2>2. line = <<>> \/ Written[1] \notin Marks
      <3>1. SUFFICES ASSUME line # <<>>, Written[1] \in Marks PROVE FALSE
        OBVIOUS
      <3>2. line[1] = Written[1] /\ line = <<Written[1]>> /\ line[1] \in Pieces
        BY <1>8, <1>10, <3>1
      <3>3. Written[1] \notin Events /\ Written[1] # ErrorMark /\ Written[1] # Done
        BY <1>14, <3>1, <3>2, PieceKinds
      <3> QED
        BY <3>1, <3>3 DEF Marks
    <2>3. \A i \in 1 .. k : Written[i] \in Marks => Written[i] \in lost
      BY <1>9, <2>2
    <2>4. /\ \A i \in 1 .. k : Written[i] \in Events => Written[i] \in lost
          /\ \A i \in 1 .. k : Written[i] = ErrorMark => ErrorMark \in lost
      BY <2>3, PieceKinds
    <2>5. EventInv'
      BY <1>4, <1>5, <2>1, <2>4, EventsRead
    <2>6. EndInv'
      BY <1>4, <1>5, <1>7, <2>1, <2>4, EndRead
    <2>7. OutputTypeOK'
      BY SMTT(30), <1>4, <1>5, <1>7, <2>1 DEF OutputTypeOK
    <2> QED
      BY <1>4, <1>6, <2>1, <2>5, <2>6, <2>7 DEF OutputInv, OutcomeTold, EventsDelivered
  <1> QED
    BY <1>11, <1>12, <1>13, <1>14

LEMMA ReadEndKeeps ==
    ASSUME Working, ReadEnd PROVE OutputInv'
  <1>1. /\ mode # "none" /\ worker = "gone"
        /\ verdict' \in {"ok", "failed"}
        /\ verdict' = "ok" => errors = 0 /\ mode = "cold" /\ prog = "exited" /\ ~ raised
        /\ UNCHANGED <<mode, raised, writes, deferred, emitted, prog, held, pipe,
                       worker, output, errors, buffered, stdoutLogs, lost>>
    BY DEF ReadEnd, Conclude, programVars
  <1>2. OutputTypeOK'
    BY <1>1 DEF Working, OutputTypeOK
  <1>3. OverInv' /\ OutcomeTold'
    BY <1>1 DEF OverInv, OutcomeTold
  \* What was not read comes after what was.
  <1>4. EventsDelivered'
    <2>1. SUFFICES ASSUME verdict' = "ok" PROVE EventsDelivered'
      BY DEF EventsDelivered
    <2>2. buffered \in Seq(Events) /\ DOMAIN buffered = 1 .. Len(buffered)
      BY LenProperties DEF Working, OutputTypeOK
    <2>3. \A i, j \in DOMAIN buffered : i < j => buffered[i][2] < buffered[j][2]
      BY <2>2, ElementOfSeq DEF Working, EventInv, Ordered
    <2>4. ASSUME NEW e \in (emitted \ lost) \ Range(buffered), NEW i \in DOMAIN buffered
          PROVE  buffered[i][2] < e[2]
      <3>1. e \in Range(Written) /\ e \in Events
        BY <2>4 DEF Working, EventInv, OutputTypeOK
      <3>2. DOMAIN Written = 1 .. Len(Written)
        BY TextTypes, LenProperties
      <3>3. PICK j \in 1 .. Len(Written) : Written[j] = e
        BY <3>1, <3>2 DEF Range
      <3> QED
        BY <2>2, <3>1, <3>3 DEF Working, EventInv
    <2>5. Range(buffered) \subseteq emitted \ lost
      BY DEF Working, EventInv
    <2> QED
      BY <1>1, <2>1, <2>3, <2>4, <2>5 DEF EventsDelivered
  <1> QED
    BY <1>1, <1>2, <1>3, <1>4 DEF OutputInv

LEMMA TimeOutKeeps ==
    ASSUME Working, TimeOutIdle PROVE OutputInv'
  <1>1. /\ mode # "none" /\ worker' = "gone" /\ verdict' = "failed"
        /\ prog' = IF Ended THEN prog ELSE "killed"
        /\ UNCHANGED <<mode, raised, writes, deferred, emitted, held, pipe, output,
                       errors, buffered, stdoutLogs, lost>>
    BY DEF TimeOutIdle, programVars
  <1>2. OutputTypeOK'
    BY <1>1 DEF Working, OutputTypeOK, Progress
  <1> QED
    BY <1>1, <1>2 DEF OutputInv, OverInv, OutcomeTold, EventsDelivered

-----------------------------------------------------------------------------
(* The theorems.                                                           *)

LEMMA OutputInitially ==
    ASSUME OutputInit PROVE OutputInv
  <1>1. <<>> \in Seq(Pieces) /\ <<>> \in Seq(Plain) /\ <<>> \in Seq(Events)
    BY EmptySeq
  <1>2. Written = <<>> /\ Len(Written) = 0 /\ Len(buffered) = 0
        /\ Range(Written) = {} /\ Range(buffered) = {}
    <2>1. Written = <<>> /\ buffered = <<>>
      BY <1>1, ConcatEmptySeq DEF OutputInit, Written
    <2>2. DOMAIN Written = {} /\ DOMAIN buffered = {}
      BY <2>1
    <2> QED
      BY <2>1, <2>2, EmptySeq DEF Range
  <1>3. OutputTypeOK
    <2>1. 0 \in 0 .. MaxWrites
      BY ProgramOutputAssumption
    <2> QED
      BY <1>1, <2>1 DEF OutputInit, OutputTypeOK, Progress
  <1>4. LineInv
    BY <1>1, <1>2 DEF OutputInit, LineInv, Open, Tidy
  <1>5. EventInv
    BY <1>2 DEF OutputInit, EventInv, Ordered
  <1>6. EndInv
    BY <1>2 DEF OutputInit, EndInv
  <1> QED
    BY <1>3, <1>4, <1>5, <1>6 DEF OutputInit, OutputInv, OutcomeTold, EventsDelivered

\* A step of a run that works keeps the invariant.
LEMMA WorkingNext ==
    ASSUME OutputInv, verdict = "none", OutputNext PROVE OutputInv'
  <1>1. Working
    BY DEF OutputInv, Working
  <1>2. CASE TakeProgram \/ ProgramStep \/ Kill \/ Forward \/ WriteDone \/ ExitCold
             \/ WorkerDies
    <2>1. Working'
      BY <1>1, <1>2, TakeKeeps, ProgramKeeps, ForwardKeeps, DoneKeeps, DeathKeeps
    <2>2. verdict' = "none"
      BY <1>2 DEF TakeProgram, ProgramStep, Kill, Forward, WriteDone, ExitCold,
                  WorkerDies, PrintText, PrintLog, EmitEvent, EndProgram, FlushLogs,
                  ReportError, Calls, runVars
    <2> QED
      BY <2>1, <2>2 DEF Working, OutputInv, OutcomeTold, EventsDelivered
  <1>3. CASE RunStep \/ TimeOutIdle
    BY <1>1, <1>3, ReadLineKeeps, ReadEndKeeps, TimeOutKeeps DEF RunStep
  <1> QED
    BY <1>2, <1>3 DEF OutputNext, WorkerStep

LEMMA OutputInductive ==
    ASSUME OutputInv, [OutputNext]_outputVars PROVE OutputInv'
  <1>1. CASE verdict = "none" /\ OutputNext
    BY <1>1, WorkingNext
  <1>2. CASE verdict # "none" /\ OutputNext
    BY <1>2, OverIsOver DEF OutputInv
  <1>3. CASE UNCHANGED outputVars
    <2>1. UNCHANGED <<mode, prog, raised, writes, deferred, held, pipe, worker, output,
                      errors, buffered, stdoutLogs, verdict, emitted, lost>>
      BY <1>3 DEF outputVars
    <2>2. Written' = Written
      BY <2>1 DEF Written
    <2>3. OutputTypeOK' <=> OutputTypeOK
      BY <2>1 DEF OutputTypeOK
    <2>4. LineInv' <=> LineInv
      BY <2>1, <2>2 DEF LineInv, Ended, Open
    <2>5. OverInv' <=> OverInv
      BY <2>1 DEF OverInv, Ended
    <2>6. OutcomeTold' <=> OutcomeTold
      BY <2>1 DEF OutcomeTold
    <2>7. EventInv' <=> EventInv
      BY <2>1, <2>2 DEF EventInv, Ordered
    <2>8. EndInv' <=> EndInv
      BY <2>1, <2>2 DEF EndInv, Ended
    <2>9. EventsDelivered' <=> EventsDelivered
      BY <2>1 DEF EventsDelivered
    <2> QED
      BY <2>1, <2>3, <2>4, <2>5, <2>6, <2>7, <2>8, <2>9 DEF OutputInv
  <1> QED
    BY <1>1, <1>2, <1>3

\* What OutputInv says of the text that a run has still to read holds in every
\* run of a program: its marks stand at the begin of lines, or are lost, and the
\* events that are neither lost nor read are there, in the order they were
\* written.
THEOREM OutputInvCorrect == OutputSpec => []OutputInv
  BY OutputInitially, OutputInductive, PTL DEF OutputSpec

\* Every variable has its type, whatever a program prints, emits or raises.
THEOREM OutputTypeCorrect == OutputSpec => []OutputTypeOK
  <1>1. OutputInv => OutputTypeOK
    BY DEF OutputInv
  <1> QED
    BY <1>1, OutputInvCorrect, PTL

\* A run that runner.py counts as successful ran a program that returned, but for
\* the child that was killed and the exception whose line continued an open one.
THEOREM OutcomeToldCorrect == OutputSpec => []OutcomeTold
  <1>1. OutputInv => OutcomeTold
    BY DEF OutputInv
  <1> QED
    BY <1>1, OutputInvCorrect, PTL

\* A successful run has the events that its program wrote, in their order,
\* however the worker and the run interleave with it, but for those that continue
\* an open line, and the last ones of a cold subprocess that were not read.
THEOREM EventsDeliveredCorrect == OutputSpec => []EventsDelivered
  <1>1. OutputInv => EventsDelivered
    BY DEF OutputInv
  <1> QED
    BY <1>1, OutputInvCorrect, PTL
=============================================================================
