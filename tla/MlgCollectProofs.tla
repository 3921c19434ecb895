-------------------------- MODULE MlgCollectProofs --------------------------
(***************************************************************************)
(* Proofs about MlgCollect for any size of block, number of entries and    *)
(* collections: types, that a collection reads all that is new, that no    *)
(* entry is stored more than once and once more for each disturbance, and  *)
(* that the date of a collection hides none.                               *)
(***************************************************************************)
EXTENDS MlgCollect, SequenceTheorems, FiniteSetTheorems, WellFoundedInduction, TLAPS

LEMMA Constants ==
  /\ MaxEntry \in Nat /\ MaxDate \in Nat /\ Block \in Nat /\ MaxTask \in Nat
  /\ MaxEntry > 0 /\ MaxDate > 0 /\ Block > 0 /\ MaxTask > 0
  /\ OldEntries \in Nat
BY MlgCollectAssumption DEF MlgCollectAssumption
-----------------------------------------------------------------------------
(***************************************************************************)
(* The last position of a kind in a sequence.                              *)
(***************************************************************************)
\* A set of positions has a last one: of the sets {x \in T : x >= t}, the one
\* that holds no other is that of the last t.
LEMMA LastExists ==
  ASSUME NEW n \in Nat, NEW T \in SUBSET (1..n), T # {}
  PROVE  \E m \in T : \A x \in T : x <= m
<1> DEFINE From(t) == {x \in T : x >= t}
           F == {From(t) : t \in T}
<1>1. IsFiniteSet(T)
  <2>1. IsFiniteSet(1..n)
    BY FS_Interval
  <2> QED
    BY <2>1, FS_Subset
<1>2. F \subseteq FiniteSubsetsOf(T) /\ F # {}
  <2>1. \A t \in T : From(t) \in SUBSET T
    OBVIOUS
  <2>2. \A t \in T : IsFiniteSet(From(t))
    BY <1>1, <2>1, FS_Subset
  <2> QED
    BY <2>1, <2>2 DEF FiniteSubsetsOf
<1> HIDE DEF F
<1>3. PICK U \in F : \A V \in F : <<V, U>> \notin StrictSubsetOrdering(T)
  BY <1>2, FS_StrictSubsetOrderingWellFounded, WFMin
<1>4. PICK m \in T : U = From(m)
  BY DEF F
<1>5. ASSUME NEW x \in T, ~(x <= m) PROVE FALSE
  <2>1. From(x) \in F
    BY DEF F
  <2>2. From(x) \subseteq From(m) /\ m \in From(m) /\ m \notin From(x)
    <3>1. x \in Int /\ m \in Int /\ x >= m /\ ~(m >= x)
      BY <1>5
    <3>2. \A y \in T : y \in Int /\ (y >= x => y >= m)
      BY <3>1
    <3>3. \A y : y \in From(x) => y \in From(m)
      BY <3>2
    <3>4. m \in From(m) /\ m \notin From(x)
      BY <3>1
    <3> QED
      BY <3>3, <3>4
  <2>3. <<From(x), From(m)>> \in StrictSubsetOrdering(T)
    BY <2>2 DEF StrictSubsetOrdering
  <2> QED
    BY <1>3, <1>4, <2>1, <2>3
<1> QED
  BY <1>5

LEMMA LineStartIs ==
  ASSUME NEW s \in Seq(Token)
  PROVE  LET l == LineStart(s)
         IN /\ l \in 0..Len(s)
            /\ l > 0 => s[l] = LF
            /\ \A i \in (l + 1)..Len(s) : s[i] # LF
<1> DEFINE feeds == {i \in DOMAIN s : s[i] = LF}
<1>1. feeds \in SUBSET (1..Len(s)) /\ Len(s) \in Nat
  OBVIOUS
<1>2. CASE feeds = {}
  BY <1>2 DEF LineStart
<1>3. CASE feeds # {}
  <2> DEFINE m == CHOOSE x \in feeds : \A y \in feeds : x >= y
  <2>1. \E x \in feeds : \A y \in feeds : y <= x
    BY <1>1, <1>3, LastExists
  <2>2. \E x \in feeds : \A y \in feeds : x >= y
    BY <1>1, <2>1
  <2>3. m \in feeds /\ \A y \in feeds : m >= y
    BY <2>2
  <2>4. LineStart(s) = m
    BY <1>3 DEF LineStart, Max
  <2> HIDE DEF m
  <2>5. \A i \in (m + 1)..Len(s) : s[i] # LF
    BY <1>1, <2>3
  <2> QED
    BY <1>1, <2>3, <2>4, <2>5
<1> QED
  BY <1>2, <1>3

\* Trim takes nothing off a line without line breaks.
LEMMA TrimKeeps ==
  ASSUME NEW s \in Seq(Token), \A i \in 1..Len(s) : s[i] \notin {CR, LF}
  PROVE  Trim(s) = s
<1> DEFINE text == {i \in DOMAIN s : s[i] \notin {CR, LF}}
<1>1. text = 1..Len(s) /\ Len(s) \in Nat
  OBVIOUS
<1>2. CASE Len(s) = 0
  BY <1>1, <1>2 DEF Trim
<1>3. CASE Len(s) > 0
  <2>1. \E x \in text : \A y \in text : x >= y
    BY <1>1, <1>3
  <2>2. \E x \in text : \A y \in text : x =< y
    BY <1>1, <1>3
  <2>3. Max(text) \in text /\ \A y \in text : Max(text) >= y
    BY <2>1 DEF Max
  <2>4. Min(text) \in text /\ \A y \in text : Min(text) =< y
    BY <2>2 DEF Min
  <2>5. 1 \in text /\ Len(s) \in text
    BY <1>1, <1>3
  <2>6. Min(text) = 1 /\ Max(text) = Len(s)
    BY <1>1, <2>3, <2>4, <2>5
  <2>7. Trim(s) = SubSeq(s, 1, Len(s))
    <3>1. text # {}
      BY <2>5
    <3>2. Trim(s) = SubSeq(s, Min(text), Max(text))
      BY <3>1 DEF Trim
    <3> QED
      BY <2>6, <3>2
  <2> QED
    BY <2>7, SubSeqFull
<1> QED
  BY <1>1, <1>2, <1>3
-----------------------------------------------------------------------------
(***************************************************************************)
(* What 1C writes.                                                         *)
(***************************************************************************)
Data(c) == c[1] \in {"head", "tail"}

\* What is written before position q, over a line break.
Prior(w, q) == IF w[q-1] = LF THEN w[q-3] ELSE w[q-1]

\* Line breaks are whole; a head follows a tail, a tail its own head.
FormedAt(w, q) ==
  /\ w[q] = CR => q > 1 /\ q < Len(w) /\ Data(w[q-1]) /\ w[q+1] = LF
  /\ w[q] = LF => q > 2 /\ w[q-1] = CR
  /\ w[q][1] = "head" => q = 1 \/ Prior(w, q)[1] = "tail"
  /\ w[q][1] = "tail" => q > 1 /\ Prior(w, q) = <<"head", w[q][2]>>
Formed(w) == \A q \in 1..Len(w) : FormedAt(w, q)

\* Entries stand in the order 1C made them.
Ordered(w) ==
  \A p, q \in 1..Len(w) : p < q /\ Data(w[p]) /\ Data(w[q]) =>
    \/ w[p][2] < w[q][2]
    \/ w[p][2] = w[q][2] /\ w[p][1] = "head" /\ w[q][1] = "tail"

\* Up to position n, a head begins a line.
Starts(w, n) == \A q \in 2..n : w[q][1] = "head" => w[q-1] = LF

Dated(w) == \A q \in 1..Len(w) : Data(w[q]) => w[q][2] \in DOMAIN date

\* The file ends with the line of entry n, or is empty.
EndsLine(n) ==
  \/ n = 0 /\ file = <<>>
  \/ /\ n > 0 /\ Len(file) > 2 /\ file[Len(file)] = LF
     /\ file[Len(file) - 2] = <<"tail", n>>

\* What is not written yet, and how the file ends before it.
RestInv ==
  LET n == Len(date)
      l == Len(file)
  IN \/ rest = <<>> /\ EndsLine(n)
     \/ n > 0 /\ rest \in {Text(n), Split(n)} /\ EndsLine(n - 1)
     \/ /\ n > 0 /\ l > 0 /\ rest = <<<<"tail", n>>, CR, LF>>
        /\ \/ file[l] = <<"head", n>>
           \/ file[l] = LF /\ l > 2 /\ file[l-2] = <<"head", n>>
     \/ /\ n > 0 /\ l > 0 /\ rest = <<CR, LF, <<"tail", n>>, CR, LF>>
        /\ file[l] = <<"head", n>>
     \/ n > 0 /\ l > 0 /\ rest = <<CR, LF>> /\ file[l] = <<"tail", n>>

\* Nothing of an entry is written before all of the entries before it.
NoHole(w) ==
  \A q \in 1..Len(w) : Data(w[q]) =>
    \A i \in 1..(w[q][2] - 1) : \E p \in 1..q : w[p] = <<"tail", i>>

LogType ==
  /\ date \in Seq(1..MaxDate) /\ Len(date) <= MaxEntry
  /\ file \in Seq(Token) /\ rest \in Seq(Token)

Monotone == \A i, j \in DOMAIN date : i < j => date[i] <= date[j]

FileInv ==
  /\ Formed(file) /\ Ordered(file) /\ Starts(file, Len(file)) /\ Dated(file)
  /\ NoHole(file)

LogInv == LogType /\ Monotone /\ FileInv /\ RestInv

LEMMA TokenKinds ==
  /\ CR \in Token /\ LF \in Token /\ CR # LF /\ ~Data(CR) /\ ~Data(LF)
  /\ \A c \in Token : c = CR \/ c = LF \/ Data(c)
  /\ \A c \in Token : Data(c) => c[2] \in Entry /\ c = <<c[1], c[2]>>
  /\ \A i \in Entry : /\ <<"head", i>> \in Token /\ Data(<<"head", i>>)
                      /\ <<"tail", i>> \in Token /\ Data(<<"tail", i>>)
BY DEF Token, CR, LF, Data

LEMMA TextTypes ==
  ASSUME NEW i \in Entry
  PROVE  /\ Text(i) \in Seq(Token) /\ Split(i) \in Seq(Token)
         /\ <<<<"tail", i>>, CR, LF>> \in Seq(Token)
         /\ <<CR, LF, <<"tail", i>>, CR, LF>> \in Seq(Token)
         /\ <<CR, LF>> \in Seq(Token) /\ <<LF>> \in Seq(Token)
BY TokenKinds DEF Text, Split

\* A part added to a sequence of tokens.
LEMMA Grown ==
  ASSUME NEW s \in Seq(Token), NEW part \in Seq(Token)
  PROVE  /\ s \o part \in Seq(Token) /\ Len(s \o part) = Len(s) + Len(part)
         /\ \A q \in 1..Len(s) : (s \o part)[q] = s[q]
         /\ \A q \in 1..Len(part) : (s \o part)[Len(s) + q] = part[q]
BY ConcatProperties

\* Where a sequence is formed depends on what is around, up to the next token.
LEMMA FormedKept ==
  ASSUME NEW s \in Seq(Token), Formed(s), NEW w, NEW q \in 1..Len(s),
         \A p \in 1..q : w[p] = s[p],
         Len(w) \in Nat, Len(w) >= q,
         s[q] = CR => Len(w) > q /\ w[q + 1] = s[q + 1]
  PROVE  FormedAt(w, q)
<1>1. FormedAt(s, q) /\ Len(s) \in Nat /\ w[q] = s[q]
  BY DEF Formed
<1>2. q > 1 => q - 1 \in 1..q /\ w[q-1] = s[q-1]
  OBVIOUS
<1>3. q > 1 /\ s[q-1] = LF => q - 3 \in 1..q /\ w[q-3] = s[q-3]
  <2>1. q > 1 => FormedAt(s, q - 1)
    BY DEF Formed
  <2> QED
    BY <2>1 DEF FormedAt
<1>4. q > 1 => Prior(w, q) = Prior(s, q)
  BY <1>2, <1>3 DEF Prior
<1> QED
  BY <1>1, <1>2, <1>4 DEF FormedAt

LEMMA FormedLonger ==
  ASSUME NEW s \in Seq(Token), Formed(s), NEW w, \A p \in 1..Len(s) : w[p] = s[p],
         Len(w) \in Nat, Len(w) >= Len(s)
  PROVE  \A q \in 1..Len(s) : FormedAt(w, q)
<1> SUFFICES ASSUME NEW q \in 1..Len(s) PROVE FormedAt(w, q)
  OBVIOUS
<1>1. s[q] = CR => q < Len(s)
  BY DEF Formed, FormedAt
<1>2. \A p \in 1..q : w[p] = s[p]
  OBVIOUS
<1>3. s[q] = CR => Len(w) > q /\ w[q + 1] = s[q + 1]
  BY <1>1
<1>4. Len(w) >= q
  OBVIOUS
<1> QED
  BY <1>2, <1>3, <1>4, FormedKept

\* The file grows by a head or a tail.
LEMMA DataAdded ==
  ASSUME LogInv, NEW c \in Token, Data(c), NEW w, w = file \o <<c>>,
         c[2] = Len(date), NEW l, l = Len(file),
         \A q \in 1..l : Data(file[q]) =>
            file[q][2] < c[2] \/ (file[q][2] = c[2] /\ file[q][1] = "head" /\ c[1] = "tail"),
         c[1] = "head" => EndsLine(c[2] - 1),
         c[1] = "tail" => /\ l > 0
                          /\ \/ file[l] = <<"head", c[2]>>
                             \/ file[l] = LF /\ l > 2 /\ file[l-2] = <<"head", c[2]>>,
         \A i \in 1..(c[2] - 1) : \E p \in 1..l : file[p] = <<"tail", i>>
  PROVE  Formed(w) /\ Ordered(w) /\ Starts(w, Len(w)) /\ Dated(w) /\ NoHole(w)
<1>1. /\ l \in Nat /\ w \in Seq(Token) /\ Len(w) = l + 1 /\ w[l + 1] = c
      /\ \A q \in 1..l : w[q] = file[q]
  BY Grown DEF LogInv, LogType
<1>2. Ordered(w)
  BY <1>1, TokenKinds DEF LogInv, LogType, FileInv, Ordered
<1>3. Starts(w, Len(w))
  BY <1>1, TokenKinds DEF LogInv, LogType, FileInv, Starts, EndsLine
<1>4. Dated(w)
  <2>1. c[2] \in DOMAIN date
    BY TokenKinds DEF LogInv, LogType, Entry
  <2>2. \A q \in 1..l : Data(w[q]) => w[q][2] \in DOMAIN date
    BY <1>1 DEF LogInv, FileInv, Dated
  <2> QED
    BY <1>1, <2>1, <2>2 DEF Dated
<1>5. NoHole(w)
  <2>1. ASSUME NEW q \in 1..l, Data(w[q]), NEW i \in 1..(w[q][2] - 1)
        PROVE  \E p \in 1..q : w[p] = <<"tail", i>>
    <3>1. PICK p \in 1..q : file[p] = <<"tail", i>>
      BY <1>1, <2>1 DEF LogInv, FileInv, NoHole
    <3>2. w[p] = file[p]
      BY <1>1
    <3> QED
      BY <3>1, <3>2
  <2>2. ASSUME NEW i \in 1..(c[2] - 1)
        PROVE  \E p \in 1..(l + 1) : w[p] = <<"tail", i>>
    <3>1. PICK p \in 1..l : file[p] = <<"tail", i>>
      OBVIOUS
    <3>2. p \in 1..(l + 1) /\ w[p] = file[p]
      BY <1>1
    <3> QED
      BY <3>1, <3>2
  <2>3. ASSUME NEW q \in 1..Len(w), Data(w[q]), NEW i \in 1..(w[q][2] - 1)
        PROVE  \E p \in 1..q : w[p] = <<"tail", i>>
    <3>1. q \in 1..l \/ q = l + 1
      BY <1>1
    <3>2. CASE q = l + 1
      BY <1>1, <2>2, <2>3, <3>2
    <3> QED
      BY <2>1, <2>3, <3>1, <3>2
  <2> QED
    BY <2>3 DEF NoHole
<1>6. Formed(w)
  <2>1. \A q \in 1..l : FormedAt(w, q)
    <3>1. file \in Seq(Token) /\ Formed(file)
      BY DEF LogInv, LogType, FileInv
    <3>2. \A p \in 1..Len(file) : w[p] = file[p]
      BY <1>1
    <3>3. Len(w) \in Nat /\ Len(w) >= Len(file)
      BY <1>1
    <3> QED
      BY <3>1, <3>2, <3>3, FormedLonger
  <2>2. /\ w[l+1] # CR /\ w[l+1] # LF
        /\ c[1] = "head" => l = 0 \/ Prior(w, l + 1)[1] = "tail"
        /\ c[1] = "tail" => l > 0 /\ Prior(w, l + 1) = <<"head", c[2]>>
    BY <1>1, TokenKinds DEF Prior, EndsLine
  <2>3. FormedAt(w, l + 1)
    <3>1. c[1] = "tail" => l + 1 > 1
      BY <1>1, <2>2
    <3> QED
      BY <1>1, <2>2, <3>1 DEF FormedAt
  <2>4. \A q \in 1..Len(w) : q \in 1..l \/ q = l + 1
    BY <1>1
  <2> QED
    BY <2>1, <2>3, <2>4 DEF Formed
<1> QED
  BY <1>2, <1>3, <1>4, <1>5, <1>6

\* The file grows by a line break.
LEMMA BreakAdded ==
  ASSUME LogInv, NEW w, w = file \o <<CR, LF>>, NEW l, l = Len(file),
         l > 0, Data(file[l])
  PROVE  Formed(w) /\ Ordered(w) /\ Starts(w, Len(w)) /\ Dated(w) /\ NoHole(w)
<1>1. /\ l \in Nat /\ w \in Seq(Token) /\ Len(w) = l + 2
      /\ w[l + 1] = CR /\ w[l + 2] = LF
      /\ \A q \in 1..l : w[q] = file[q]
  <2> DEFINE part == <<CR, LF>>
  <2>1. part \in Seq(Token) /\ Len(part) = 2 /\ part[1] = CR /\ part[2] = LF
    BY TextTypes, TokenKinds
  <2>2. file \in Seq(Token) /\ w = file \o part /\ l \in Nat
    BY DEF LogInv, LogType
  <2> HIDE DEF part
  <2>3. /\ w \in Seq(Token) /\ Len(w) = l + Len(part)
        /\ \A q \in 1..l : w[q] = file[q]
        /\ \A q \in 1..Len(part) : w[l + q] = part[q]
    BY <2>1, <2>2, Grown
  <2> QED
    BY <2>1, <2>2, <2>3
<1>2. Ordered(w)
  <2>2. \A q \in 1..Len(w) : Data(w[q]) => q \in 1..l /\ w[q] = file[q]
    BY <1>1, TokenKinds
  <2> QED
    BY <2>2 DEF LogInv, FileInv, Ordered
<1>3. Starts(w, Len(w))
  <2>1. CR[1] # "head" /\ LF[1] # "head"
    BY DEF CR, LF
  <2>2. \A q \in 2..Len(w) : q \in 2..l \/ q = l + 1 \/ q = l + 2
    BY <1>1
  <2> QED
    BY <1>1, <2>1, <2>2 DEF LogInv, LogType, FileInv, Starts
<1>4. Dated(w)
  <2>2. \A q \in 1..Len(w) : q \in 1..l \/ q = l + 1 \/ q = l + 2
    BY <1>1
  <2> QED
    BY <1>1, <2>2, TokenKinds DEF LogInv, LogType, FileInv, Dated
<1>5. NoHole(w)
  <2>1. ASSUME NEW q \in 1..Len(w), Data(w[q]), NEW i \in 1..(w[q][2] - 1)
        PROVE  \E p \in 1..q : w[p] = <<"tail", i>>
    <3>1. q \in 1..l /\ w[q] = file[q]
      BY <1>1, <2>1, TokenKinds
    <3>2. PICK p \in 1..q : file[p] = <<"tail", i>>
      BY <2>1, <3>1 DEF LogInv, FileInv, NoHole
    <3>3. w[p] = file[p]
      BY <1>1, <3>1
    <3> QED
      BY <3>2, <3>3
  <2> QED
    BY <2>1 DEF NoHole
<1>6. Formed(w)
  <2>1. \A q \in 1..l : FormedAt(w, q)
    <3>1. file \in Seq(Token) /\ Formed(file)
      BY DEF LogInv, LogType, FileInv
    <3>2. \A p \in 1..Len(file) : w[p] = file[p]
      BY <1>1
    <3>3. Len(w) \in Nat /\ Len(w) >= Len(file)
      BY <1>1
    <3> QED
      BY <3>1, <3>2, <3>3, FormedLonger
  <2>2. /\ w[l+1] # LF /\ w[l+2] # CR
        /\ CR[1] \notin {"head", "tail"} /\ LF[1] \notin {"head", "tail"}
    BY <1>1 DEF CR, LF
  <2>3. l + 1 > 1 /\ l + 1 < Len(w) /\ Data(w[l]) /\ l + 2 > 2
    BY <1>1
  <2>4. \A q \in 1..Len(w) : q \in 1..l \/ q = l + 1 \/ q = l + 2
    BY <1>1
  <2>5. FormedAt(w, l + 1)
    BY <1>1, <2>2, <2>3 DEF FormedAt
  <2>6. FormedAt(w, l + 2)
    BY <1>1, <2>2, <2>3 DEF FormedAt
  <2> QED
    BY <2>1, <2>4, <2>5, <2>6 DEF Formed
<1> QED
  BY <1>2, <1>3, <1>4, <1>5, <1>6


\* All entries of the file come before that of its last head or tail.
LEMMA LastData ==
  ASSUME LogInv, NEW z \in 1..Len(file), Data(file[z]),
         \A q \in (z + 1)..Len(file) : ~Data(file[q])
  PROVE  /\ \A q \in 1..Len(file) : Data(file[q]) =>
              \/ file[q][2] < file[z][2]
              \/ file[q][2] = file[z][2] /\ (q = z \/ file[z][1] = "tail")
         /\ \A i \in 1..(file[z][2] - 1) : \E p \in 1..Len(file) : file[p] = <<"tail", i>>
<1>1. ASSUME NEW q \in 1..Len(file), Data(file[q])
      PROVE  \/ file[q][2] < file[z][2]
             \/ file[q][2] = file[z][2] /\ (q = z \/ file[z][1] = "tail")
  <2>1. q = z \/ q < z
    BY <1>1 DEF LogInv, LogType
  <2> QED
    BY <1>1, <2>1 DEF LogInv, FileInv, Ordered
<1>2. ASSUME NEW i \in 1..(file[z][2] - 1)
      PROVE  \E p \in 1..Len(file) : file[p] = <<"tail", i>>
  <2>1. PICK p \in 1..z : file[p] = <<"tail", i>>
    BY DEF LogInv, FileInv, NoHole
  <2>2. p \in 1..Len(file)
    BY DEF LogInv, LogType
  <2> QED
    BY <2>1, <2>2
<1> QED
  BY <1>1, <1>2

LEMMA LineEnd ==
  ASSUME LogInv, NEW n \in Nat, EndsLine(n)
  PROVE  /\ \A q \in 1..Len(file) : Data(file[q]) => file[q][2] <= n
         /\ \A i \in 1..n : \E p \in 1..Len(file) : file[p] = <<"tail", i>>
<1>1. CASE n = 0
  BY <1>1 DEF EndsLine
<1>2. CASE n > 0
  <2> DEFINE z == Len(file) - 2
  <2>1. /\ z \in 1..Len(file) /\ file[z] = <<"tail", n>> /\ Len(file) \in Nat
        /\ file[z+2] = LF /\ z + 2 = Len(file)
    BY <1>2 DEF EndsLine, LogInv, LogType
  <2>2. file[z+1] = CR
    BY <2>1 DEF LogInv, FileInv, Formed, FormedAt
  <2>3. \A q \in (z + 1)..Len(file) : ~Data(file[q])
    BY <2>1, <2>2, TokenKinds
  <2>4. Data(file[z]) /\ file[z][2] = n
    BY <2>1 DEF Data
  <2> HIDE DEF z
  <2>5. \A q \in 1..Len(file) : Data(file[q]) => file[q][2] < n \/ file[q][2] = n
    BY <2>1, <2>3, <2>4, LastData
  <2>6. \A i \in 1..(n - 1) : \E p \in 1..Len(file) : file[p] = <<"tail", i>>
    BY <2>1, <2>3, <2>4, LastData
  <2>7. \A i \in 1..n : i \in 1..(n - 1) \/ i = n
    OBVIOUS
  <2>8. \A q \in 1..Len(file) : Data(file[q]) => file[q][2] \in Int
    BY TokenKinds DEF LogInv, LogType, Entry
  <2>9. \A q \in 1..Len(file) : Data(file[q]) => file[q][2] <= n
    BY <2>5, <2>8
  <2>10. \A i \in 1..n : \E p \in 1..Len(file) : file[p] = <<"tail", i>>
    BY <2>1, <2>6, <2>7
  <2> QED
    BY <2>9, <2>10
<1>3. n = 0 \/ n > 0
  OBVIOUS
<1> QED
  BY <1>1, <1>2, <1>3, Zenon

\* The last entry has its head in the file, and not yet its tail.
LEMMA HeadEnd ==
  ASSUME LogInv, NEW n \in Nat, NEW l, l = Len(file), l > 0,
         file[l] = <<"head", n>> \/ (file[l] = LF /\ l > 2 /\ file[l-2] = <<"head", n>>)
  PROVE  /\ \A q \in 1..l : Data(file[q]) =>
              file[q][2] < n \/ (file[q][2] = n /\ file[q][1] = "head")
         /\ \A i \in 1..(n - 1) : \E p \in 1..l : file[p] = <<"tail", i>>
<1>1. PICK z \in 1..l : /\ file[z] = <<"head", n>>
                        /\ \A q \in (z + 1)..l : ~Data(file[q])
  <2>0. l \in Nat
    BY DEF LogInv, LogType
  <2>1. CASE file[l] = <<"head", n>>
    BY <2>0, <2>1
  <2>2. CASE file[l] = LF /\ l > 2 /\ file[l-2] = <<"head", n>>
    <3>1. file[l-1] = CR
      BY <2>0, <2>2 DEF LogInv, FileInv, Formed, FormedAt
    <3>2. \A q \in (l - 1)..l : ~Data(file[q])
      BY <2>0, <2>2, <3>1, TokenKinds
    <3> QED
      BY <2>0, <2>2, <3>2
  <2> QED
    BY <2>1, <2>2
<1>2. Data(file[z]) /\ file[z][2] = n /\ file[z][1] = "head"
  BY <1>1 DEF Data
<1>3. \A q \in 1..l : Data(file[q]) =>
         file[q][2] < n \/ (file[q][2] = n /\ q = z)
  BY <1>1, <1>2, LastData
<1>4. \A i \in 1..(n - 1) : \E p \in 1..l : file[p] = <<"tail", i>>
  BY <1>1, <1>2, LastData
<1> QED
  BY <1>2, <1>3, <1>4

LEMMA LogInit == Init => LogInv
<1> SUFFICES ASSUME Init PROVE LogInv
  OBVIOUS
<1>1. date = <<>> /\ file = <<>> /\ rest = <<>>
  BY DEF Init
<1>2. LogType
  BY <1>1, Constants DEF LogType
<1>3. FileInv /\ Monotone
  BY <1>1 DEF FileInv, Monotone, Formed, Ordered, Starts, Dated, NoHole
<1>4. RestInv
  BY <1>1 DEF RestInv, EndsLine
<1> QED
  BY <1>2, <1>3, <1>4 DEF LogInv

\* What FileInv says of the file as it is written now.
LEMMA FilePrime ==
  ASSUME NEW w, w = file',
         Formed(w), Ordered(w), Starts(w, Len(w)), Dated(w)', NoHole(w)
  PROVE  FileInv'
<1>1. Formed(file)'
  BY DEF Formed, FormedAt, Prior
<1>2. Ordered(file)'
  BY DEF Ordered
<1>3. Starts(file, Len(file))'
  BY DEF Starts
<1>4. Dated(file)'
  BY DEF Dated
<1>5. NoHole(file)'
  BY DEF NoHole
<1> QED
  BY <1>1, <1>2, <1>3, <1>4, <1>5 DEF FileInv

\* A new entry: the file is as it was, the line is to be written.
LEMMA LogLogs == ASSUME LogInv, NEW d \in 1..MaxDate, Log(d) PROVE LogInv'
<1>1. /\ date \in Seq(1..MaxDate) /\ Len(date) \in Nat /\ date' = Append(date, d)
      /\ file' = file /\ Len(date) < MaxEntry /\ rest = <<>>
      /\ \A i \in DOMAIN date : date[i] <= d
  BY DEF Log, LogInv, LogType
<1>2. /\ date' \in Seq(1..MaxDate) /\ Len(date') = Len(date) + 1
      /\ \A i \in 1..Len(date) : date'[i] = date[i]
      /\ date'[Len(date) + 1] = d /\ DOMAIN date = 1..Len(date)
      /\ DOMAIN date' = 1..(Len(date) + 1)
  BY <1>1
<1>3. Len(date') \in Entry
  BY <1>1, <1>2, Constants DEF Entry
<1>4. rest' \in {Text(Len(date')), Split(Len(date'))}
  BY DEF Log
<1>5. LogType'
  <2>1. rest' \in Seq(Token)
    BY <1>3, <1>4, TextTypes
  <2>2. Len(date') <= MaxEntry
    BY <1>1, <1>2, Constants
  <2> QED
    BY <1>1, <1>2, <2>1, <2>2 DEF LogInv, LogType
<1>6. Monotone'
  <2>1. ASSUME NEW i \in DOMAIN date', NEW j \in DOMAIN date', i < j
        PROVE  date'[i] <= date'[j]
    <3>1. i \in 1..Len(date) /\ (j \in 1..Len(date) \/ j = Len(date) + 1)
      BY <1>1, <1>2, <2>1
    <3> QED
      BY <1>1, <1>2, <2>1, <3>1 DEF LogInv, Monotone
  <2> QED
    BY <2>1 DEF Monotone
<1>7. FileInv'
  <2>1. Dated(file)'
    BY <1>1, <1>2 DEF LogInv, FileInv, Dated
  <2> QED
    BY <1>1, <2>1, FilePrime DEF LogInv, FileInv
<1>8. RestInv'
  <2>1. EndsLine(Len(date))
    <3>1. rest # <<<<"tail", Len(date)>>, CR, LF>>
      BY <1>1
    <3>2. rest # <<CR, LF, <<"tail", Len(date)>>, CR, LF>> /\ rest # <<CR, LF>>
      BY <1>1
    <3>3. rest \notin {Text(Len(date)), Split(Len(date))}
      BY <1>1 DEF Text, Split
    <3> QED
      BY <3>1, <3>2, <3>3 DEF LogInv, RestInv
  <2>2. EndsLine(Len(date) - 1)'
    BY <1>1, <1>2, <2>1 DEF EndsLine
  <2>3. Len(date') > 0
    BY <1>1, <1>2
  <2> QED
    BY <1>4, <2>2, <2>3 DEF RestInv
<1> QED
  BY <1>5, <1>6, <1>7, <1>8 DEF LogInv


LEMMA LogWrites == ASSUME LogInv, Write PROVE LogInv'
<1> DEFINE n == Len(date)
           l == Len(file)
<1>1. /\ date' = date /\ rest # <<>> /\ n \in Nat /\ l \in Nat
      /\ file \in Seq(Token) /\ rest \in Seq(Token)
  BY DEF Write, LogInv, LogType
<1>2. n > 0 => n \in Entry
  BY <1>1, Constants DEF Entry, LogInv, LogType
<1>3. Monotone'
  BY <1>1 DEF LogInv, Monotone
<1>4. \A w : w = file' /\ Dated(w) => Dated(w)'
  BY <1>1 DEF Dated
<1>5. ASSUME NEW c \in Token, Data(c), c[2] = n, n > 0, NEW r \in Seq(Token),
             file' = file \o <<c>>, rest' = r,
             c[1] = "head" => EndsLine(n - 1),
             c[1] = "tail" => /\ l > 0
                              /\ \/ file[l] = <<"head", n>>
                                 \/ file[l] = LF /\ l > 2 /\ file[l-2] = <<"head", n>>
      PROVE  /\ LogType' /\ FileInv'
             /\ Len(file') = l + 1 /\ file'[l + 1] = c
  <2>1. /\ \A q \in 1..l : Data(file[q]) =>
             file[q][2] < n \/ (file[q][2] = n /\ file[q][1] = "head" /\ c[1] = "tail")
        /\ \A i \in 1..(n - 1) : \E p \in 1..l : file[p] = <<"tail", i>>
    <3>1. CASE c[1] = "head"
      <4>1. n - 1 \in Nat /\ EndsLine(n - 1)
        BY <1>1, <1>5, <3>1
      <4>2. /\ \A q \in 1..l : Data(file[q]) => file[q][2] <= n - 1
            /\ \A i \in 1..(n - 1) : \E p \in 1..l : file[p] = <<"tail", i>>
        BY <4>1, LineEnd
      <4>3. \A q \in 1..l : Data(file[q]) => file[q][2] \in Int
        BY <1>1, TokenKinds DEF Entry
      <4>4. \A q \in 1..l : Data(file[q]) => file[q][2] < n
        BY <1>1, <4>2, <4>3
      <4> QED
        BY <4>2, <4>4
    <3>2. CASE c[1] = "tail"
      <4>1. n \in Nat /\ l > 0
        BY <1>1, <1>5, <3>2
      <4>2. file[l] = <<"head", n>> \/ (file[l] = LF /\ l > 2 /\ file[l-2] = <<"head", n>>)
        BY <1>5, <3>2
      <4>3. /\ \A q \in 1..l : Data(file[q]) =>
                 file[q][2] < n \/ (file[q][2] = n /\ file[q][1] = "head")
            /\ \A i \in 1..(n - 1) : \E p \in 1..l : file[p] = <<"tail", i>>
        <5> HIDE DEF n
        <5> QED
          BY <4>1, <4>2, HeadEnd
      <4> QED
        BY <3>2, <4>3
    <3> QED
      BY <1>5, <3>1, <3>2 DEF Data
  <2>2. LET w == file' IN Formed(w) /\ Ordered(w) /\ Starts(w, Len(w)) /\ Dated(w) /\ NoHole(w)
    BY <1>5, <2>1, DataAdded
  <2>3. FileInv'
    BY <1>4, <2>2, FilePrime
  <2>4. <<c>> \in Seq(Token) /\ Len(<<c>>) = 1 /\ <<c>>[1] = c
    OBVIOUS
  <2>5. file' \in Seq(Token) /\ Len(file') = l + 1 /\ file'[l + 1] = c
    BY <1>1, <1>5, <2>4, Grown
  <2> QED
    BY <1>1, <1>5, <2>3, <2>5 DEF LogType, LogInv
<1>6. ASSUME NEW r \in Seq(Token), file' = file \o <<CR, LF>>, rest' = r,
             l > 0, Data(file[l])
      PROVE  /\ LogType' /\ FileInv'
             /\ Len(file') = l + 2 /\ file'[l + 2] = LF /\ file'[l] = file[l]
  <2>2. LET w == file' IN Formed(w) /\ Ordered(w) /\ Starts(w, Len(w)) /\ Dated(w) /\ NoHole(w)
    BY <1>6, BreakAdded
  <2>3. FileInv'
    BY <1>4, <2>2, FilePrime
  <2>4. <<CR, LF>> \in Seq(Token) /\ Len(<<CR, LF>>) = 2 /\ <<CR, LF>>[2] = LF
    BY TokenKinds
  <2>5. /\ file' \in Seq(Token) /\ Len(file') = l + 2 /\ file'[l + 2] = LF
        /\ file'[l] = file[l]
    <3> DEFINE part == <<CR, LF>>
    <3>1. part \in Seq(Token) /\ Len(part) = 2 /\ part[2] = LF /\ file' = file \o part
      BY <1>6, <2>4
    <3> HIDE DEF part
    <3> QED
      BY <1>1, <1>6, <3>1, Grown
  <2> QED
    BY <1>1, <1>6, <2>3, <2>5 DEF LogType, LogInv
<1>7. CASE n > 0 /\ rest = Text(n) /\ EndsLine(n - 1)
  <2>1. /\ file' = file \o <<<<"head", n>>>> /\ rest' = <<<<"tail", n>>, CR, LF>>
    <3>1. /\ Head(rest) = <<"head", n>> /\ Tail(rest) = <<<<"tail", n>>, CR, LF>>
      BY <1>7 DEF Text
    <3>2. <<"head", n>> # CR
      BY DEF CR
    <3> QED
      BY <3>1, <3>2 DEF Write
  <2>2. <<"head", n>> \in Token /\ Data(<<"head", n>>)
    BY <1>2, <1>7, TokenKinds
  <2>3. rest' \in Seq(Token)
    BY <1>2, <1>7, <2>1, TextTypes
  <2>4. LogType' /\ FileInv' /\ Len(file') = l + 1 /\ file'[l + 1] = <<"head", n>>
    BY <1>5, <1>7, <2>1, <2>2, <2>3
  <2>5. RestInv'
    BY <1>1, <1>7, <2>1, <2>4 DEF RestInv
  <2> QED
    BY <1>3, <2>4, <2>5 DEF LogInv
<1>8. CASE n > 0 /\ rest = Split(n) /\ EndsLine(n - 1)
  <2>1. /\ file' = file \o <<<<"head", n>>>>
        /\ rest' = <<CR, LF, <<"tail", n>>, CR, LF>>
    <3>1. /\ Head(rest) = <<"head", n>> /\ Tail(rest) = <<CR, LF, <<"tail", n>>, CR, LF>>
      BY <1>8 DEF Split
    <3>2. <<"head", n>> # CR
      BY DEF CR
    <3> QED
      BY <3>1, <3>2 DEF Write
  <2>2. <<"head", n>> \in Token /\ Data(<<"head", n>>)
    BY <1>2, <1>8, TokenKinds
  <2>3. rest' \in Seq(Token)
    BY <1>2, <1>8, <2>1, TextTypes
  <2>4. LogType' /\ FileInv' /\ Len(file') = l + 1 /\ file'[l + 1] = <<"head", n>>
    BY <1>5, <1>8, <2>1, <2>2, <2>3
  <2>5. RestInv'
    BY <1>1, <1>8, <2>1, <2>4 DEF RestInv
  <2> QED
    BY <1>3, <2>4, <2>5 DEF LogInv
<1>9. CASE /\ n > 0 /\ l > 0 /\ rest = <<<<"tail", n>>, CR, LF>>
           /\ \/ file[l] = <<"head", n>>
              \/ file[l] = LF /\ l > 2 /\ file[l-2] = <<"head", n>>
  <2>1. file' = file \o <<<<"tail", n>>>> /\ rest' = <<CR, LF>>
    <3>1. /\ Head(rest) = <<"tail", n>> /\ Tail(rest) = <<CR, LF>>
      BY <1>9
    <3>2. <<"tail", n>> # CR
      BY DEF CR
    <3> QED
      BY <3>1, <3>2 DEF Write
  <2>2. <<"tail", n>> \in Token /\ Data(<<"tail", n>>)
    BY <1>2, <1>9, TokenKinds
  <2>3. rest' \in Seq(Token)
    BY <1>2, <1>9, <2>1, TextTypes
  <2>4. LogType' /\ FileInv' /\ Len(file') = l + 1 /\ file'[l + 1] = <<"tail", n>>
    BY <1>5, <1>9, <2>1, <2>2, <2>3
  <2>5. RestInv'
    BY <1>1, <1>9, <2>1, <2>4 DEF RestInv
  <2> QED
    BY <1>3, <2>4, <2>5 DEF LogInv
<1>10. CASE /\ n > 0 /\ l > 0 /\ rest = <<CR, LF, <<"tail", n>>, CR, LF>>
            /\ file[l] = <<"head", n>>
  <2>1. file' = file \o <<CR, LF>> /\ rest' = <<<<"tail", n>>, CR, LF>>
    BY <1>10 DEF Write
  <2>2. rest' \in Seq(Token) /\ Data(file[l])
    BY <1>2, <1>10, <2>1, TextTypes, TokenKinds
  <2>3. /\ LogType' /\ FileInv' /\ Len(file') = l + 2 /\ file'[l + 2] = LF
        /\ file'[l] = file[l]
    BY <1>6, <1>10, <2>1, <2>2
  <2>4. RestInv'
    BY <1>1, <1>10, <2>1, <2>3 DEF RestInv
  <2> QED
    BY <1>3, <2>3, <2>4 DEF LogInv
<1>11. CASE n > 0 /\ l > 0 /\ rest = <<CR, LF>> /\ file[l] = <<"tail", n>>
  <2>1. file' = file \o <<CR, LF>> /\ rest' = <<>>
    BY <1>11 DEF Write
  <2>2. rest' \in Seq(Token) /\ Data(file[l])
    <3>1. <<>> \in Seq(Token) /\ Data(<<"tail", n>>)
      BY DEF Data
    <3> QED
      BY <1>11, <2>1, <3>1
  <2>3. /\ LogType' /\ FileInv' /\ Len(file') = l + 2 /\ file'[l + 2] = LF
        /\ file'[l] = file[l]
    BY <1>6, <1>11, <2>1, <2>2
  <2>4. RestInv'
    BY <1>1, <1>11, <2>1, <2>3 DEF RestInv, EndsLine
  <2> QED
    BY <1>3, <2>3, <2>4 DEF LogInv
<1> QED
  BY <1>1, <1>7, <1>8, <1>9, <1>10, <1>11 DEF LogInv, RestInv

LEMMA LogStep == LogInv /\ [Next]_vars => LogInv'
<1> SUFFICES ASSUME LogInv, [Next]_vars PROVE LogInv'
  OBVIOUS
<1>1. CASE UNCHANGED log
  <2>1. date' = date /\ file' = file /\ rest' = rest
    BY <1>1 DEF log
  <2>2. LogType' /\ Monotone' /\ Dated(file)'
    BY <2>1 DEF LogInv, LogType, Monotone, FileInv, Dated
  <2>3. FileInv'
    BY <2>1, <2>2, FilePrime DEF LogInv, FileInv
  <2>4. RestInv'
    BY <2>1 DEF LogInv, RestInv, EndsLine
  <2> QED
    BY <2>2, <2>3, <2>4 DEF LogInv
<1> QED
  BY <1>1, LogLogs, LogWrites
     DEF Next, Collects, Prepare, Command, Repeat, Open, ReadBlock, TakeLine,
         LinesTaken, Conclude, GetOperationReport, Throws, Interrupt, Enumerate,
         KillReports, AnswerLost, SetReport, vars
-----------------------------------------------------------------------------
(***************************************************************************)
(* The last line of what is still to be read.                              *)
(***************************************************************************)
\* The last line break of w ends at position z; w is one line if z = 0.
LastBreak(w, z) ==
  /\ z \in 0..Len(w)
  /\ z > 0 => w[z] = LF
  /\ \A q \in (z + 1)..Len(w) : w[q] # LF

\* Where the line before it ends.
LineBefore(z) == IF z = 0 THEN 0 ELSE z - 2

LEMMA LastLine ==
  ASSUME NEW w \in Seq(Token), Formed(w), NEW z, LastBreak(w, z)
  PROVE  /\ z \in Nat /\ Len(w) \in Nat
         /\ z > 0 => z > 2 /\ w[z-1] = CR /\ Data(w[z-2])
         /\ \A q \in (z + 1)..Len(w) : Data(w[q])
         /\ \A q \in (z + 2)..Len(w) : Prior(w, q) = w[q-1]
         /\ z > 0 /\ z < Len(w) => Prior(w, z + 1) = w[z-2]
<1>1. z \in Nat /\ Len(w) \in Nat /\ z <= Len(w)
  BY DEF LastBreak
<1>2. z > 0 => z > 2 /\ w[z-1] = CR
  BY <1>1 DEF LastBreak, Formed, FormedAt
<1>3. z > 0 => Data(w[z-2])
  <2>1. z > 0 => z - 1 \in 1..Len(w) /\ (z - 1) - 1 = z - 2
    BY <1>1, <1>2
  <2> QED
    BY <1>2, <2>1 DEF Formed, FormedAt
<1>4. ASSUME NEW q \in (z + 1)..Len(w) PROVE Data(w[q])
  <2>1. q \in 1..Len(w) /\ w[q] # LF
    BY <1>1 DEF LastBreak
  <2>2. w[q] # CR
    <3>1. SUFFICES ASSUME w[q] = CR PROVE FALSE
      OBVIOUS
    <3>2. q < Len(w) /\ w[q+1] = LF
      BY <2>1, <3>1 DEF Formed, FormedAt
    <3>3. q + 1 \in (z + 1)..Len(w)
      BY <1>1, <3>2
    <3> QED
      BY <3>2, <3>3 DEF LastBreak
  <2> QED
    BY <2>1, <2>2, TokenKinds
<1>5. ASSUME NEW q \in (z + 2)..Len(w) PROVE Prior(w, q) = w[q-1]
  <2>1. q - 1 \in (z + 1)..Len(w)
    BY <1>1
  <2> QED
    BY <2>1 DEF LastBreak, Prior
<1>6. z > 0 /\ z < Len(w) => Prior(w, z + 1) = w[z-2]
  BY <1>1 DEF LastBreak, Prior
<1> QED
  BY <1>1, <1>2, <1>3, <1>4, <1>5, <1>6

\* What is left when the last line is taken.
LEMMA Cut ==
  ASSUME NEW w \in Seq(Token), Formed(w), Ordered(w), NEW z, LastBreak(w, z),
         NEW v \in Seq(Token), Len(v) = LineBefore(z),
         \A q \in 1..Len(v) : v[q] = w[q]
  PROVE  Formed(v) /\ Ordered(v)
<1>1. /\ z \in Nat /\ Len(w) \in Nat /\ z <= Len(w) /\ Len(v) \in Nat
      /\ Len(v) <= Len(w) /\ (z = 0 => Len(v) = 0) /\ (z > 0 => Len(v) = z - 2)
  BY LastLine DEF LastBreak, LineBefore
<1>2. ASSUME NEW q \in 1..Len(v) PROVE FormedAt(v, q)
  <2>1. q \in 1..Len(w) /\ z > 0 /\ w[z-2] # CR /\ z - 2 = Len(v)
    BY <1>1, LastLine, TokenKinds
  <2>2. \A p \in 1..q : v[p] = w[p]
    BY <1>1
  <2>3. w[q] = CR => Len(v) > q
    BY <1>1, <2>1
  <2>4. w[q] = CR => v[q + 1] = w[q + 1]
    BY <1>1, <2>3
  <2> QED
    BY <1>1, <2>1, <2>2, <2>3, <2>4, FormedKept
<1>3. Ordered(v)
  BY <1>1 DEF Ordered
<1> QED
  BY <1>2, <1>3 DEF Formed

\* What is left when the last line is joined to the one before it.
Joins(w, z, v) ==
  /\ v \in Seq(Token) /\ Len(v) = LineBefore(z) + (Len(w) - z)
  /\ \A q \in 1..LineBefore(z) : v[q] = w[q]
  /\ \A q \in (z + 1)..Len(w) : v[LineBefore(z) + q - z] = w[q]

LEMMA Join ==
  ASSUME NEW w \in Seq(Token), Formed(w), Ordered(w), NEW z, LastBreak(w, z), z > 0,
         NEW v, Joins(w, z, v)
  PROVE  Formed(v) /\ Ordered(v)
<1> DEFINE m == z - 2
<1>1. /\ z \in Nat /\ Len(w) \in Nat /\ z <= Len(w) /\ z > 2 /\ LineBefore(z) = m
      /\ Len(v) = Len(w) - 2 /\ Len(v) \in Nat
      /\ \A q \in 1..m : v[q] = w[q]
      /\ \A q \in (m + 1)..Len(v) : v[q] = w[q + 2] /\ q + 2 \in (z + 1)..Len(w)
  <2>1. z \in Nat /\ Len(w) \in Nat /\ z <= Len(w) /\ z > 2 /\ LineBefore(z) = m
    BY LastLine DEF LastBreak, LineBefore
  <2>2. Len(v) = Len(w) - 2 /\ Len(v) \in Nat
    BY <2>1 DEF Joins
  <2>3. ASSUME NEW q \in (m + 1)..Len(v)
        PROVE  v[q] = w[q + 2] /\ q + 2 \in (z + 1)..Len(w)
    <3>1. q + 2 \in (z + 1)..Len(w) /\ m + (q + 2) - z = q
      BY <2>1, <2>2
    <3> QED
      BY <2>1, <3>1 DEF Joins
  <2> QED
    BY <2>1, <2>2, <2>3 DEF Joins
<1>2. Data(w[m]) /\ w[m] # CR /\ w[m] # LF
  BY LastLine, TokenKinds
<1>3. ASSUME NEW q \in 1..m PROVE FormedAt(v, q)
  <2>1. q \in 1..Len(w) /\ (\A p \in 1..q : v[p] = w[p]) /\ Len(v) >= q
    BY <1>1
  <2>2. w[q] = CR => q < m
    BY <1>1, <1>2
  <2>3. w[q] = CR => Len(v) > q /\ v[q + 1] = w[q + 1]
    BY <1>1, <2>2
  <2> QED
    BY <1>1, <2>1, <2>3, FormedKept
<1>4. ASSUME NEW q \in (m + 1)..Len(v) PROVE FormedAt(v, q)
  <2>1. q + 2 \in (z + 1)..Len(w) /\ v[q] = w[q + 2] /\ q > 1 /\ q + 2 \in 1..Len(w)
    BY <1>1
  <2>2. Data(w[q + 2]) /\ w[q + 2] # CR /\ w[q + 2] # LF
    BY <2>1, LastLine, TokenKinds
  <2>3. FormedAt(w, q + 2)
    BY <2>1 DEF Formed
  <2>4. Prior(v, q) = Prior(w, q + 2)
    <3>1. CASE q = m + 1
      <4>1. v[q-1] = w[m] /\ Prior(v, q) = w[m]
        BY <1>1, <1>2, <3>1 DEF Prior
      <4>2. Prior(w, z + 1) = w[z-2] /\ q + 2 = z + 1
        BY <1>1, <2>1, <3>1, LastLine
      <4> QED
        BY <4>1, <4>2
    <3>2. CASE q # m + 1
      <4>1. q - 1 \in (m + 1)..Len(v) /\ q + 2 \in (z + 2)..Len(w)
        BY <1>1, <3>2
      <4>2. v[q-1] = w[q+1] /\ q + 1 \in (z + 1)..Len(w)
        BY <1>1, <4>1
      <4>3. w[q+1] # LF /\ Prior(w, q + 2) = w[q+1]
        <5>1. w[q+1] # LF
          BY <4>2 DEF LastBreak
        <5>2. Prior(w, q + 2) = w[(q + 2) - 1]
          BY <4>1, LastLine
        <5>3. (q + 2) - 1 = q + 1
          BY <4>1
        <5> QED
          BY <5>1, <5>2, <5>3
      <4> QED
        BY <4>2, <4>3 DEF Prior
    <3> QED
      BY <3>1, <3>2
  <2> QED
    BY <2>1, <2>2, <2>3, <2>4 DEF FormedAt
<1>5. \A q \in 1..Len(v) : q \in 1..m \/ q \in (m + 1)..Len(v)
  BY <1>1
<1>6. Ordered(v)
  <2> DEFINE At(q) == IF q <= m THEN q ELSE q + 2
  <2>1. \A q \in 1..Len(v) : At(q) \in 1..Len(w) /\ v[q] = w[At(q)]
    BY <1>1
  <2>2. \A p, q \in 1..Len(v) : p < q => At(p) < At(q)
    BY <1>1
  <2> HIDE DEF At
  <2>3. ASSUME NEW p \in 1..Len(v), NEW q \in 1..Len(v), p < q, Data(v[p]), Data(v[q])
        PROVE  \/ v[p][2] < v[q][2]
               \/ v[p][2] = v[q][2] /\ v[p][1] = "head" /\ v[q][1] = "tail"
    <3>1. At(p) \in 1..Len(w) /\ At(q) \in 1..Len(w) /\ At(p) < At(q)
      BY <2>1, <2>2, <2>3
    <3>2. v[p] = w[At(p)] /\ v[q] = w[At(q)]
      BY <2>1
    <3> QED
      BY <2>3, <3>1, <3>2 DEF Ordered
  <2> QED
    BY <2>3 DEF Ordered
<1> QED
  BY <1>3, <1>4, <1>5, <1>6 DEF Formed

\* The last line is an entry: nothing of another one is lost with it.
LEMMA EntryLine ==
  ASSUME NEW w \in Seq(Token), Formed(w), Ordered(w), Starts(w, Len(w) - 1),
         NEW z, LastBreak(w, z), Len(w) >= z + 2,
         w[z+1][1] = "head", w[z+2][1] = "tail"
  PROVE  /\ w[z+2] = <<"tail", w[z+1][2]>>
         /\ \A q \in (z + 1)..Len(w) : w[q][1] = "tail" => q = z + 2
         /\ \A q \in 1..LineBefore(z) : Data(w[q]) => w[q][2] < w[z+1][2]
         /\ z > 0 => w[z-2][1] = "tail"
<1>1. /\ z \in Nat /\ Len(w) \in Nat /\ z + 1 \in 1..Len(w) /\ z + 2 \in 1..Len(w)
      /\ z + 2 \in (z + 2)..Len(w) /\ (z > 0 => z > 2 /\ LineBefore(z) = z - 2)
      /\ (z = 0 => LineBefore(z) = 0)
  BY LastLine DEF LineBefore
<1>2. Data(w[z+1]) /\ Data(w[z+2])
  BY DEF Data
<1>3. w[z+2] = <<"tail", w[z+1][2]>>
  <2>1. FormedAt(w, z + 2) /\ Prior(w, z + 2) = w[(z + 2) - 1] /\ (z + 2) - 1 = z + 1
    BY <1>1, LastLine DEF Formed
  <2>2. w[z+1] = <<"head", w[z+2][2]>>
    BY <2>1 DEF FormedAt
  <2>3. w[z+2] = <<w[z+2][1], w[z+2][2]>>
    BY <1>1, <1>2, TokenKinds
  <2> QED
    BY <2>2, <2>3
<1>4. ASSUME NEW q \in (z + 1)..Len(w), w[q][1] = "tail", q # z + 2 PROVE FALSE
  <2>1. q # z + 1
    BY <1>4
  <2>2. q \in (z + 2)..Len(w) /\ q - 1 \in 2..(Len(w) - 1) /\ q - 2 \in (z + 1)..Len(w)
        /\ q \in 1..Len(w)
    BY <1>1, <1>4, <2>1
  <2>3. w[q-1][1] = "head"
    BY <1>4, <2>2, LastLine DEF Formed, FormedAt
  <2>4. w[(q-1)-1] = LF /\ (q-1)-1 = q - 2
    BY <2>2, <2>3 DEF Starts
  <2> QED
    BY <2>2, <2>4 DEF LastBreak
<1>5. ASSUME NEW q \in 1..LineBefore(z), Data(w[q]) PROVE w[q][2] < w[z+1][2]
  <2>1. q \in 1..Len(w) /\ q < z + 1
    BY <1>1
  <2> QED
    BY <1>1, <1>2, <1>5, <2>1 DEF Ordered
<1>6. z > 0 => w[z-2][1] = "tail"
  <2>1. FormedAt(w, z + 1)
    BY <1>1 DEF Formed
  <2> QED
    BY <1>1, <2>1, LastLine DEF FormedAt
<1> QED
  BY <1>3, <1>4, <1>5, <1>6

\* The last line is no entry: joined to the one before it, a head that now
\* stands within a line stands at the end.
LEMMA OtherLine ==
  ASSUME NEW w \in Seq(Token), Formed(w), Ordered(w), Starts(w, Len(w) - 1),
         NEW z, LastBreak(w, z), z > 0, NEW v, Joins(w, z, v),
         ~(Len(w) >= z + 2 /\ w[z+1][1] = "head" /\ w[z+2][1] = "tail")
  PROVE  Starts(v, Len(v) - 1)
<1> DEFINE m == z - 2
<1>1. /\ z \in Nat /\ Len(w) \in Nat /\ z <= Len(w) /\ z > 2 /\ LineBefore(z) = m
      /\ Len(v) = Len(w) - 2 /\ Len(v) \in Nat
      /\ \A q \in 1..m : v[q] = w[q]
  BY LastLine DEF LastBreak, LineBefore, Joins
<1>2. ASSUME NEW q \in (m + 1)..Len(v)
      PROVE  v[q] = w[q + 2] /\ q + 2 \in (z + 1)..Len(w)
  <2>1. q + 2 \in (z + 1)..Len(w) /\ m + (q + 2) - z = q
    BY <1>1
  <2> QED
    BY <1>1, <2>1 DEF Joins
<1>3. ASSUME NEW q \in 2..(Len(v) - 1), v[q][1] = "head" PROVE v[q-1] = LF
  <2>1. CASE q <= m
    <3>1. q \in 2..(Len(w) - 1) /\ v[q] = w[q] /\ v[q-1] = w[q-1]
      BY <1>1, <2>1
    <3> QED
      BY <1>3, <3>1 DEF Starts
  <2>2. CASE q > m
    <3>1. q \in (m + 1)..Len(v) /\ q + 2 \in 2..(Len(w) - 1)
      BY <1>1, <2>2
    <3>2. v[q] = w[q + 2] /\ q + 2 \in (z + 1)..Len(w)
      BY <1>2, <3>1
    <3>3. w[(q + 2) - 1] = LF
      BY <1>3, <3>1, <3>2 DEF Starts
    <3>4. (q + 2) - 1 \notin (z + 1)..Len(w)
      BY <3>3 DEF LastBreak
    <3>5. q + 2 = z + 1 /\ z + 2 \in 1..Len(w) /\ z + 2 \in (z + 2)..Len(w)
      BY <1>1, <3>1, <3>2, <3>4
    <3>6. w[z+1][1] = "head" /\ w[z+2][1] # "tail" /\ z + 2 \in (z + 1)..Len(w)
      BY <1>1, <1>3, <3>2, <3>5
    <3>7. w[z+2][1] = "head"
      BY <3>6, LastLine DEF Data
    <3>8. Prior(w, z + 2)[1] = "tail"
      BY <1>1, <3>5, <3>7 DEF Formed, FormedAt
    <3>9. Prior(w, z + 2) = w[(z + 2) - 1] /\ (z + 2) - 1 = z + 1
      BY <1>1, <3>5, LastLine
    <3> QED
      BY <3>6, <3>8, <3>9
  <2> QED
    BY <1>1, <2>1, <2>2
<1> QED
  BY <1>3 DEF Starts
-----------------------------------------------------------------------------
(***************************************************************************)
(* A collection: what it has pushed and what it has left, given the file f *)
(* and the dates d of the entries.                                         *)
(***************************************************************************)
Has(f, n, i)  == \E j \in 1..n : f[j] = <<"tail", i>>
Entries(m)    == {m[n].entry : n \in DOMAIN m}
Descending(m) == \A n, x \in DOMAIN m : n < x => m[n].entry > m[x].entry

MessagesOK(t, d) ==
  /\ t.pc \in {"none", "prepared", "start"} =>
       t.messages = <<>> /\ t.cache = <<>> /\ t.last = MaxDate + 1
  /\ \A i \in Entries(t.messages) : i \in DOMAIN d /\ d[i] > t.prev
  /\ Descending(t.messages)
  /\ \A n \in DOMAIN t.messages : n > 1 => t.messages[n].clean

\* The part of the file that is not read yet, and the cache after it.
Remaining(t, f) == SubSeq(f, 1, t.unread) \o t.cache

\* What is left in w is older than what was pushed; what is new in the file is
\* either left or pushed.
LeftOK(t, w, f, d) ==
  /\ Formed(w) /\ Ordered(w) /\ Starts(w, Len(w) - 1)
  /\ \A q \in 1..Len(w) : Data(w[q]) =>
       /\ w[q][2] \in DOMAIN d /\ d[w[q][2]] <= t.last
       /\ \A i \in Entries(t.messages) : w[q][2] < i
       /\ w[q][1] = "tail" => Has(f, t.size, w[q][2])
  /\ t.last <= MaxDate => w = <<>> \/ w[Len(w)][1] = "tail"
  /\ t.messages # <<>> => t.last <= MaxDate
  /\ \A i \in DOMAIN d : Has(f, t.size, i) /\ d[i] > t.prev =>
       i \in Entries(t.messages) \/ \E q \in 1..Len(w) : w[q] = <<"tail", i>>
  /\ \A i \in Entries(t.messages) : Has(f, t.size, i)

ReadingOK(t, f, d) ==
  /\ t.unread <= t.size /\ t.size <= Len(f)
  /\ LeftOK(t, Remaining(t, f), f, d)
  /\ t.pc = "read" /\ t.unread = 0 => t.cache = <<>>

ReportOK(t, f, d) ==
  t.pc = "report" /\ ~t.isInterrupt /\ ~t.failed =>
    /\ t.size <= Len(f)
    /\ Entries(t.messages) = {i \in DOMAIN d : Has(f, t.size, i) /\ d[i] > t.prev}

TaskOK(t, f, d) ==
  /\ MessagesOK(t, d)
  /\ t.pc \in {"read", "lines"} => ReadingOK(t, f, d)
  /\ ReportOK(t, f, d)

TasksInv == task \in [Task -> State] /\ \A k \in Task : TaskOK(task[k], file, date)

LEMMA StateFields ==
  ASSUME NEW t \in State
  PROVE  /\ t.prev \in 0..MaxDate /\ t.size \in Nat /\ t.unread \in Nat
         /\ t.cache \in Seq(Token) /\ t.last \in 0..(MaxDate + 1)
         /\ t.messages \in Seq(Message)
         /\ Len(t.cache) \in Nat /\ Len(t.messages) \in Nat
         /\ DOMAIN t.messages = 1..Len(t.messages)
         /\ \A n \in DOMAIN t.messages : t.messages[n] \in Message
BY DEF State

LEMMA RemainingIs ==
  ASSUME NEW f \in Seq(Token), NEW t \in State, t.unread <= Len(f)
  PROVE  LET w == Remaining(t, f)
         IN /\ w \in Seq(Token) /\ Len(w) = t.unread + Len(t.cache)
            /\ \A q \in 1..t.unread : w[q] = f[q]
            /\ \A q \in 1..Len(t.cache) : w[t.unread + q] = t.cache[q]
<1> DEFINE s == SubSeq(f, 1, t.unread)
<1>1. t.unread \in Nat /\ t.cache \in Seq(Token) /\ Len(f) \in Nat
  BY StateFields
<1>2. s \in Seq(Token) /\ Len(s) = t.unread /\ \A q \in 1..t.unread : s[q] = f[q]
  BY <1>1
<1>3. Remaining(t, f) = s \o t.cache
  BY DEF Remaining
<1> HIDE DEF s
<1>4. /\ s \o t.cache \in Seq(Token) /\ Len(s \o t.cache) = Len(s) + Len(t.cache)
      /\ \A q \in 1..Len(s) : (s \o t.cache)[q] = s[q]
      /\ \A q \in 1..Len(t.cache) : (s \o t.cache)[Len(s) + q] = t.cache[q]
  BY <1>1, <1>2, Grown
<1> QED
  BY <1>2, <1>3, <1>4

\* 1C only adds to the file and to the dates.
Extends(f, d, f2, d2) ==
  /\ f \in Seq(Token) /\ f2 \in Seq(Token) /\ Len(f) <= Len(f2)
  /\ \A q \in 1..Len(f) : f2[q] = f[q]
  /\ d \in Seq(1..MaxDate) /\ d2 \in Seq(1..MaxDate) /\ Len(d) <= Len(d2)
  /\ \A i \in 1..Len(d) : d2[i] = d[i]
  /\ \A q \in 1..Len(f) : Data(f[q]) => f[q][2] \in DOMAIN d

LEMMA LogExtends == LogInv /\ [Next]_vars => Extends(file, date, file', date')
<1> SUFFICES ASSUME LogInv, [Next]_vars PROVE Extends(file, date, file', date')
  OBVIOUS
<1>1. LogInv'
  BY LogStep
<1>2. /\ file \in Seq(Token) /\ file' \in Seq(Token)
      /\ date \in Seq(1..MaxDate) /\ date' \in Seq(1..MaxDate)
      /\ \A q \in 1..Len(file) : Data(file[q]) => file[q][2] \in DOMAIN date
  BY <1>1 DEF LogInv, LogType, FileInv, Dated
<1>3. CASE UNCHANGED log
  BY <1>2, <1>3 DEF Extends, log
<1>4. ASSUME NEW d \in 1..MaxDate, Log(d) PROVE Extends(file, date, file', date')
  BY <1>2, <1>4 DEF Extends, Log
<1>5. CASE Write
  <2>1. PICK part \in Seq(Token) : file' = file \o part
    <3>1. rest \in Seq(Token) /\ rest # <<>> /\ Head(rest) \in Token
      BY <1>5 DEF Write, LogInv, LogType
    <3>2. <<CR, LF>> \in Seq(Token) /\ <<Head(rest)>> \in Seq(Token)
      BY <3>1, TokenKinds
    <3> QED
      BY <1>5, <3>2 DEF Write
  <2>2. Len(file) <= Len(file') /\ \A q \in 1..Len(file) : file'[q] = file[q]
    BY <1>2, <2>1, Grown
  <2>3. date' = date
    BY <1>5 DEF Write
  <2> QED
    BY <1>2, <2>2, <2>3 DEF Extends
<1> QED
  BY <1>3, <1>4, <1>5
     DEF Next, Collects, Prepare, Command, Repeat, Open, ReadBlock, TakeLine,
         LinesTaken, Conclude, GetOperationReport, Throws, Interrupt, Enumerate,
         KillReports, AnswerLost, SetReport, vars

LEMMA HasKept ==
  ASSUME NEW f, NEW d, NEW f2, NEW d2, Extends(f, d, f2, d2),
         NEW n \in Nat, n <= Len(f), NEW i
  PROVE  /\ Has(f2, n, i) <=> Has(f, n, i)
         /\ Has(f, n, i) => i \in DOMAIN d
<1>1. \A q \in 1..n : q \in 1..Len(f) /\ f2[q] = f[q]
  BY DEF Extends
<1>2. ASSUME Has(f, n, i) PROVE i \in DOMAIN d
  <2>1. PICK q \in 1..n : f[q] = <<"tail", i>>
    BY <1>2 DEF Has
  <2>2. Data(f[q]) /\ f[q][2] = i
    BY <2>1 DEF Data
  <2> QED
    BY <1>1, <2>2 DEF Extends
<1> QED
  BY <1>1, <1>2 DEF Has

\* A collection is not disturbed while 1C writes.
LEMMA TaskKept ==
  ASSUME NEW f, NEW d, NEW f2, NEW d2, Extends(f, d, f2, d2),
         NEW t \in State, TaskOK(t, f, d)
  PROVE  TaskOK(t, f2, d2)
<1>1. /\ Len(f) \in Nat /\ Len(f2) \in Nat /\ Len(f) <= Len(f2)
      /\ \A i \in DOMAIN d : i \in DOMAIN d2 /\ d2[i] = d[i]
  <2>1. /\ Len(f) \in Nat /\ Len(f2) \in Nat /\ Len(f) <= Len(f2)
        /\ Len(d) \in Nat /\ Len(d2) \in Nat /\ Len(d) <= Len(d2)
        /\ \A i \in 1..Len(d) : d2[i] = d[i]
    BY DEF Extends
  <2>2. DOMAIN d = 1..Len(d) /\ DOMAIN d2 = 1..Len(d2)
    BY DEF Extends
  <2> QED
    BY <2>1, <2>2
<1>2. t.size \in Nat /\ t.unread \in Nat
  BY StateFields
<1>3. MessagesOK(t, d2)
  BY <1>1 DEF TaskOK, MessagesOK
<1>4. ASSUME t.size <= Len(f), NEW i
      PROVE  /\ Has(f2, t.size, i) <=> Has(f, t.size, i)
             /\ Has(f, t.size, i) => i \in DOMAIN d
  BY <1>2, <1>4, HasKept
<1>5. ReportOK(t, f2, d2)
  <2> SUFFICES ASSUME t.pc = "report", ~t.isInterrupt, ~t.failed
               PROVE  /\ t.size <= Len(f2)
                      /\ Entries(t.messages) =
                           {i \in DOMAIN d2 : Has(f2, t.size, i) /\ d2[i] > t.prev}
    BY DEF ReportOK
  <2>1. /\ t.size <= Len(f)
        /\ Entries(t.messages) = {i \in DOMAIN d : Has(f, t.size, i) /\ d[i] > t.prev}
    BY DEF TaskOK, ReportOK
  <2> QED
    BY <1>1, <1>2, <1>4, <2>1
<1>6. ASSUME t.pc \in {"read", "lines"} PROVE ReadingOK(t, f2, d2)
  <2>1. ReadingOK(t, f, d) /\ t.size <= Len(f) /\ t.unread <= Len(f)
    BY <1>1, <1>2, <1>6 DEF TaskOK, ReadingOK
  <2>2. SubSeq(f2, 1, t.unread) = SubSeq(f, 1, t.unread)
    <3>1. \A q \in 1..t.unread : f2[q] = f[q] /\ f[q] \in Token
      BY <1>1, <1>2, <2>1 DEF Extends
    <3> QED
      BY <1>2, <3>1
  <2>3. Remaining(t, f2) = Remaining(t, f)
    BY <2>2 DEF Remaining
  <2> DEFINE w == Remaining(t, f)
  <2>4. LeftOK(t, w, f, d)
    BY <2>1 DEF ReadingOK
  <2> HIDE DEF w
  <2>5. LeftOK(t, w, f2, d2)
    BY <1>1, <1>4, <2>1, <2>4 DEF LeftOK
  <2> QED
    BY <1>1, <1>2, <2>1, <2>3, <2>5 DEF ReadingOK, w
<1> QED
  BY <1>3, <1>5, <1>6 DEF TaskOK

\* What TakeLine looks at: the last line of what remains, and what is before it.
LEMMA LineOf ==
  ASSUME NEW f \in Seq(Token), NEW t \in State, t.unread <= Len(f), HasLine(t),
         NEW w, w = Remaining(t, f), Formed(w), NEW z, z = t.unread + LineStart(t.cache)
  PROVE  /\ LastBreak(w, z)
         /\ Line(t) \in Seq(Token) /\ Len(Line(t)) = Len(w) - z
         /\ \A q \in 1..Len(Line(t)) : Line(t)[q] = w[z + q]
         /\ Before(t) \in Seq(Token) /\ t.unread + Len(Before(t)) = LineBefore(z)
         /\ \A q \in 1..Len(Before(t)) : Before(t)[q] = w[t.unread + q]
<1> DEFINE c == t.cache
           l == LineStart(c)
           u == t.unread
<1>1. /\ u \in Nat /\ c \in Seq(Token) /\ Len(c) \in Nat /\ c # <<>>
      /\ w \in Seq(Token) /\ Len(w) = u + Len(c)
      /\ \A q \in 1..u : w[q] = f[q]
      /\ \A q \in 1..Len(c) : w[u + q] = c[q]
  BY StateFields, RemainingIs DEF HasLine
<1>2. /\ l \in 0..Len(c) /\ (l > 0 => c[l] = LF)
      /\ \A i \in (l + 1)..Len(c) : c[i] # LF
  BY <1>1, LineStartIs
<1>3. l > 1 \/ (l = 0 /\ u = 0)
  BY DEF HasLine
<1>4. Line(t) = SubSeq(c, l + 1, Len(c)) /\ Before(t) = SubSeq(c, 1, l - 2)
  BY DEF Line, Before
<1>5. z = u + l /\ z \in 0..Len(w) /\ (z > 0 => l > 1)
  BY <1>1, <1>2, <1>3
<1> HIDE DEF c, l, u
<1>6. LastBreak(w, z)
  <2>1. z > 0 => w[z] = LF
    <3>1. z > 0 => l \in 1..Len(c) /\ c[l] = LF
      BY <1>1, <1>2, <1>5
    <3>2. z > 0 => w[u + l] = c[l]
      BY <1>1, <3>1
    <3> QED
      BY <1>5, <3>1, <3>2
  <2>2. ASSUME NEW q \in (z + 1)..Len(w) PROVE w[q] # LF
    <3>1. q - u \in (l + 1)..Len(c) /\ q - u \in 1..Len(c) /\ u + (q - u) = q
      BY <1>1, <1>2, <1>5
    <3>2. w[u + (q - u)] = c[q - u]
      BY <1>1, <3>1
    <3> QED
      BY <1>2, <3>1, <3>2
  <2> QED
    BY <1>5, <2>1, <2>2 DEF LastBreak
<1>7. /\ Line(t) \in Seq(Token) /\ Len(Line(t)) = Len(c) - l
      /\ \A q \in 1..(Len(c) - l) : Line(t)[q] = c[l + q]
  <2>1. \A q \in (l + 1)..Len(c) : c[q] \in Token
    BY <1>1, <1>2
  <2>2. /\ SubSeq(c, l + 1, Len(c)) \in Seq(Token)
        /\ Len(SubSeq(c, l + 1, Len(c))) = Len(c) - l
        /\ \A q \in 1..(Len(c) - l) : SubSeq(c, l + 1, Len(c))[q] = c[l + q]
    BY <1>1, <1>2, <2>1
  <2> QED
    BY <1>4, <2>2
<1>8. Len(Line(t)) = Len(w) - z /\ \A q \in 1..Len(Line(t)) : Line(t)[q] = w[z + q]
  <2>1. ASSUME NEW q \in 1..Len(Line(t)) PROVE Line(t)[q] = w[z + q]
    <3>1. q \in 1..(Len(c) - l) /\ l + q \in 1..Len(c) /\ u + (l + q) = z + q
      BY <1>1, <1>2, <1>5, <1>7
    <3>2. w[u + (l + q)] = c[l + q]
      BY <1>1, <3>1
    <3> QED
      BY <1>7, <3>1, <3>2
  <2> QED
    BY <1>1, <1>2, <1>5, <1>7, <2>1
<1>9. CASE l = 0
  <2>1. Before(t) = <<>>
    BY <1>1, <1>4, <1>9
  <2>2. z = 0 /\ u = 0
    BY <1>3, <1>5, <1>9
  <2>3. Before(t) \in Seq(Token) /\ Len(Before(t)) = 0
    BY <2>1
  <2>4. u + Len(Before(t)) = LineBefore(z)
    BY <2>2, <2>3 DEF LineBefore
  <2> QED
    BY <1>6, <1>7, <1>8, <2>3, <2>4 DEF u
<1>10. CASE l > 1
  <2>1. l - 2 \in Nat /\ l - 2 <= Len(c) /\ \A q \in 1..(l - 2) : c[q] \in Token
    BY <1>1, <1>2, <1>10
  <2>2. /\ Before(t) \in Seq(Token) /\ Len(Before(t)) = l - 2
        /\ \A q \in 1..(l - 2) : Before(t)[q] = c[q]
    BY <1>1, <1>4, <2>1
  <2>3. \A q \in 1..(l - 2) : Before(t)[q] = w[u + q]
    BY <1>1, <2>1, <2>2
  <2>4. u + Len(Before(t)) = LineBefore(z)
    BY <1>1, <1>2, <1>5, <1>10, <2>2 DEF LineBefore
  <2> QED
    BY <1>6, <1>7, <1>8, <2>2, <2>3, <2>4 DEF u
<1> QED
  BY <1>2, <1>3, <1>9, <1>10

\* The cache without its last line, and what then remains.
LEMMA LineCut ==
  ASSUME NEW f \in Seq(Token), NEW t \in State, t.unread <= Len(f), HasLine(t),
         NEW w, w = Remaining(t, f), Formed(w), NEW z, z = t.unread + LineStart(t.cache),
         NEW t2 \in State, t2.unread = t.unread, t2.cache = Before(t),
         NEW v, v = Remaining(t2, f)
  PROVE  v \in Seq(Token) /\ Len(v) = LineBefore(z) /\ \A q \in 1..Len(v) : v[q] = w[q]
<1> DEFINE u == t.unread
           b == Before(t)
<1>1. /\ u \in Nat /\ b \in Seq(Token) /\ Len(b) \in Nat
      /\ u + Len(b) = LineBefore(z) /\ \A q \in 1..Len(b) : b[q] = w[u + q]
      /\ \A q \in 1..u : w[q] = f[q]
  <2>1. u \in Nat /\ \A q \in 1..u : w[q] = f[q]
    BY StateFields, RemainingIs
  <2>2. /\ b \in Seq(Token) /\ u + Len(b) = LineBefore(z)
        /\ \A q \in 1..Len(b) : b[q] = w[u + q]
    BY LineOf
  <2> QED
    BY <2>1, <2>2
<1>2. /\ v \in Seq(Token) /\ Len(v) = u + Len(b)
      /\ \A q \in 1..u : v[q] = f[q]
      /\ \A q \in 1..Len(b) : v[u + q] = b[q]
  BY RemainingIs
<1> HIDE DEF u, b
<1>3. ASSUME NEW q \in 1..Len(v) PROVE v[q] = w[q]
  <2>1. CASE q \in 1..u
    BY <1>1, <1>2, <2>1
  <2>2. CASE q \notin 1..u
    <3>1. q - u \in 1..Len(b) /\ u + (q - u) = q
      BY <1>1, <1>2, <2>2
    <3> QED
      BY <1>1, <1>2, <3>1
  <2> QED
    BY <2>1, <2>2
<1> QED
  BY <1>1, <1>2, <1>3

\* The cache with its last line joined to the one before it.
LEMMA LineJoined ==
  ASSUME NEW f \in Seq(Token), NEW t \in State, t.unread <= Len(f), HasLine(t),
         NEW w, w = Remaining(t, f), Formed(w), NEW z, z = t.unread + LineStart(t.cache),
         NEW t2 \in State, t2.unread = t.unread, t2.cache = Before(t) \o Trim(Line(t)),
         NEW v, v = Remaining(t2, f)
  PROVE  Joins(w, z, v)
<1> DEFINE u == t.unread
           b == Before(t)
           n == Line(t)
<1>1. /\ u \in Nat /\ b \in Seq(Token) /\ n \in Seq(Token) /\ LastBreak(w, z)
      /\ u + Len(b) = LineBefore(z) /\ \A q \in 1..Len(b) : b[q] = w[u + q]
      /\ Len(n) = Len(w) - z /\ \A q \in 1..Len(n) : n[q] = w[z + q]
      /\ w \in Seq(Token) /\ \A q \in 1..u : w[q] = f[q]
  <2>1. u \in Nat /\ w \in Seq(Token) /\ \A q \in 1..u : w[q] = f[q]
    BY StateFields, RemainingIs
  <2>2. /\ b \in Seq(Token) /\ n \in Seq(Token) /\ LastBreak(w, z)
        /\ u + Len(b) = LineBefore(z) /\ \A q \in 1..Len(b) : b[q] = w[u + q]
        /\ Len(n) = Len(w) - z /\ \A q \in 1..Len(n) : n[q] = w[z + q]
    BY LineOf
  <2> QED
    BY <2>1, <2>2
<1>2. z \in Nat /\ Len(w) \in Nat /\ \A q \in (z + 1)..Len(w) : Data(w[q])
  BY <1>1, LastLine
<1>3. Trim(n) = n
  <2>1. ASSUME NEW q \in 1..Len(n) PROVE n[q] \notin {CR, LF}
    <3>1. z + q \in (z + 1)..Len(w) /\ n[q] = w[z + q]
      BY <1>1, <1>2
    <3> QED
      BY <1>2, <3>1, TokenKinds
  <2> QED
    BY <1>1, <2>1, TrimKeeps
<1>4. t2.cache = b \o n
  BY <1>3
<1>5. /\ v \in Seq(Token) /\ Len(v) = u + Len(b \o n)
      /\ \A q \in 1..u : v[q] = f[q]
      /\ \A q \in 1..Len(b \o n) : v[u + q] = (b \o n)[q]
  <2> DEFINE c == t2.cache
  <2>1. /\ v \in Seq(Token) /\ Len(v) = u + Len(c)
        /\ \A q \in 1..u : v[q] = f[q]
        /\ \A q \in 1..Len(c) : v[u + q] = c[q]
    <3>1. t2.unread = u /\ t2.unread <= Len(f)
      OBVIOUS
    <3>2. /\ v \in Seq(Token) /\ Len(v) = t2.unread + Len(t2.cache)
          /\ \A q \in 1..t2.unread : v[q] = f[q]
          /\ \A q \in 1..Len(t2.cache) : v[t2.unread + q] = t2.cache[q]
      BY <3>1, RemainingIs
    <3> HIDE DEF u
    <3> QED
      BY <3>1, <3>2
  <2>2. c = b \o n
    BY <1>4
  <2> HIDE DEF c, b, n, u
  <2> QED
    BY <2>1, <2>2
<1> HIDE DEF u, b, n
<1>6. /\ Len(b) \in Nat /\ Len(n) \in Nat /\ Len(b \o n) = Len(b) + Len(n)
      /\ \A q \in 1..Len(b) : (b \o n)[q] = b[q]
      /\ \A q \in 1..Len(n) : (b \o n)[Len(b) + q] = n[q]
  <2>1. b \in Seq(Token) /\ n \in Seq(Token)
    BY <1>1
  <2> QED
    BY <2>1, Grown
<1>7. ASSUME NEW q \in 1..LineBefore(z) PROVE v[q] = w[q]
  <2>1. CASE q \in 1..u
    BY <1>1, <1>5, <2>1
  <2>2. CASE q \notin 1..u
    <3>1. /\ q - u \in 1..Len(b) /\ u + (q - u) = q
          /\ q - u \in 1..Len(b \o n)
      BY <1>1, <1>6, <2>2
    <3>2. v[u + (q - u)] = b[q - u] /\ b[q - u] = w[u + (q - u)]
      BY <1>1, <1>5, <1>6, <3>1
    <3> QED
      BY <3>1, <3>2
  <2> QED
    BY <2>1, <2>2
<1>8. ASSUME NEW q \in (z + 1)..Len(w) PROVE v[LineBefore(z) + q - z] = w[q]
  <2>1. /\ q - z \in 1..Len(n) /\ z + (q - z) = q
        /\ Len(b) + (q - z) \in 1..Len(b \o n)
        /\ LineBefore(z) + q - z = u + (Len(b) + (q - z))
    <3>1. Len(b) \in Nat /\ Len(n) \in Nat /\ Len(n) = Len(w) - z /\ q \in Int
          /\ Len(b \o n) = Len(b) + Len(n) /\ u + Len(b) = LineBefore(z)
      BY <1>1, <1>6
    <3>2. q - z \in 1..Len(n) /\ z + (q - z) = q
      BY <1>2, <3>1
    <3>3. u \in Nat /\ z \in Nat
      BY <1>1, <1>2
    <3>4. LineBefore(z) + q - z = u + (Len(b) + (q - z))
      BY <3>1, <3>3
    <3> QED
      BY <3>1, <3>2, <3>4
  <2>2. v[u + (Len(b) + (q - z))] = (b \o n)[Len(b) + (q - z)]
    BY <1>5, <2>1
  <2>3. (b \o n)[Len(b) + (q - z)] = n[q - z] /\ n[q - z] = w[z + (q - z)]
    BY <1>1, <1>6, <2>1
  <2> QED
    BY <2>1, <2>2, <2>3
<1>9. v \in Seq(Token) /\ Len(v) = LineBefore(z) + (Len(w) - z)
  BY <1>1, <1>2, <1>5, <1>6
<1> QED
  BY <1>7, <1>8, <1>9 DEF Joins

LEMMA SeqTypes ==
  ASSUME NEW S, NEW d \in Seq(S)
  PROVE  Len(d) \in Nat /\ DOMAIN d = 1..Len(d) /\ \A i \in DOMAIN d : d[i] \in S
OBVIOUS

LEMMA Pushed ==
  ASSUME NEW m \in Seq(Message), NEW x \in Message
  PROVE  LET p == Append(m, x)
         IN /\ Len(p) = Len(m) + 1 /\ DOMAIN p = 1..(Len(m) + 1) /\ p # <<>>
            /\ \A n \in 1..Len(m) : p[n] = m[n]
            /\ p[Len(m) + 1] = x
OBVIOUS

\* An entry is taken.
Taken(t, t2, w, z, v, d) ==
  LET e == w[z+1][2]
  IN /\ LastBreak(w, z) /\ Len(w) >= z + 2
     /\ w[z+1][1] = "head" /\ w[z+2][1] = "tail"
     /\ v \in Seq(Token) /\ Len(v) = LineBefore(z) /\ \A q \in 1..Len(v) : v[q] = w[q]
     /\ t.pc = "lines" /\ t2.pc = "lines" /\ t2.prev = t.prev /\ t2.size = t.size
     /\ t2.last = d[e]
     /\ t2.messages = IF d[e] <= t.prev THEN t.messages
                      ELSE Append(t.messages, [entry |-> e, clean |-> Len(w) = z + 2])

LEMMA EntryTaken ==
  ASSUME NEW f \in Seq(Token), NEW d \in Seq(1..MaxDate),
         \A i, j \in DOMAIN d : i < j => d[i] <= d[j],
         NEW t \in State, NEW w \in Seq(Token), LeftOK(t, w, f, d), MessagesOK(t, d),
         NEW t2 \in State, NEW z, NEW v, Taken(t, t2, w, z, v, d)
  PROVE  LeftOK(t2, v, f, d) /\ MessagesOK(t2, d)
<1> DEFINE e == w[z+1][2]
<1>a. /\ LastBreak(w, z) /\ Len(w) >= z + 2 /\ e = w[z+1][2]
      /\ w[z+1][1] = "head" /\ w[z+2][1] = "tail"
      /\ v \in Seq(Token) /\ Len(v) = LineBefore(z) /\ \A q \in 1..Len(v) : v[q] = w[q]
  BY DEF Taken
<1>b. /\ t.pc = "lines" /\ t2.pc = "lines" /\ t2.prev = t.prev /\ t2.size = t.size
      /\ t2.last = d[e]
      /\ t2.messages = IF d[e] <= t.prev THEN t.messages
                       ELSE Append(t.messages, [entry |-> e, clean |-> Len(w) = z + 2])
  BY DEF Taken
<1> HIDE DEF e
<1> USE <1>a, <1>b
<1> DEFINE m  == t.messages
           m2 == t2.messages
           x  == [entry |-> e, clean |-> Len(w) = z + 2]
<1>1. /\ z \in Nat /\ Len(w) \in Nat /\ z + 1 \in 1..Len(w) /\ z + 2 \in 1..Len(w)
      /\ (z > 0 => z > 2 /\ LineBefore(z) = z - 2 /\ w[z-1] = CR /\ w[z] = LF)
      /\ (z = 0 => LineBefore(z) = 0)
      /\ \A q \in 1..Len(v) : q \in 1..Len(w) /\ q <= Len(w) - 2
  <2>1. Formed(w)
    BY DEF LeftOK
  <2>2. z \in Nat /\ Len(w) \in Nat /\ (z > 0 => z > 2 /\ w[z-1] = CR /\ w[z] = LF)
    BY <2>1, LastLine DEF LastBreak
  <2>3. (z > 0 => LineBefore(z) = z - 2) /\ (z = 0 => LineBefore(z) = 0)
    BY DEF LineBefore
  <2> HIDE DEF m, m2, x
  <2> QED
    BY <2>2, <2>3
<1>2. /\ w[z+2] = <<"tail", e>>
      /\ \A q \in (z + 1)..Len(w) : w[q][1] = "tail" => q = z + 2
      /\ \A q \in 1..LineBefore(z) : Data(w[q]) => w[q][2] < e
      /\ z > 0 => w[z-2][1] = "tail"
  BY EntryLine DEF LeftOK
<1>3. /\ e \in DOMAIN d /\ d[e] \in 1..MaxDate /\ Has(f, t.size, e)
      /\ \A i \in Entries(m) : e < i
  <2>1. Data(w[z+2]) /\ w[z+2][1] = "tail" /\ w[z+2][2] = e
    BY <1>2 DEF Data
  <2>2. e \in DOMAIN d /\ Has(f, t.size, e) /\ \A i \in Entries(m) : e < i
    BY <1>1, <2>1 DEF LeftOK
  <2>3. \A i \in DOMAIN d : d[i] \in 1..MaxDate
    BY SeqTypes
  <2> HIDE DEF m
  <2> QED
    BY <2>2, <2>3
<1>4. m \in Seq(Message) /\ Len(m) \in Nat /\ DOMAIN m = 1..Len(m) /\ t.prev \in 0..MaxDate
  BY StateFields
<1>5. /\ m2 \in Seq(Message) /\ Len(m2) \in Nat /\ DOMAIN m2 = 1..Len(m2)
      /\ Entries(m2) \subseteq Entries(m) \cup {e}
      /\ Entries(m) \subseteq Entries(m2)
      /\ d[e] > t.prev => e \in Entries(m2)
      /\ e \in Entries(m2) /\ e \notin Entries(m) => d[e] > t.prev
      /\ m # <<>> => m2 # <<>>
  <2>1. CASE d[e] <= t.prev
    <3>1. m2 = m /\ ~(d[e] > t.prev)
      BY <1>3, <1>4, <2>1
    <3> QED
      BY <1>3, <1>4, <3>1
  <2>2. CASE ~(d[e] <= t.prev)
    <3>1. m2 = Append(m, x) /\ d[e] > t.prev
      BY <1>3, <1>4, <2>2
    <3>2. /\ Len(m2) = Len(m) + 1 /\ DOMAIN m2 = 1..(Len(m) + 1)
          /\ \A n \in 1..Len(m) : m2[n] = m[n]
          /\ m2[Len(m) + 1] = x /\ m2 # <<>>
      <4>1. e \in Entry
        <5>1. w[z+2] \in Token /\ Data(w[z+2]) /\ w[z+2][2] = e
          BY <1>1, <1>2, TokenKinds DEF Data
        <5> QED
          BY <5>1, TokenKinds
      <4>2. x \in Message
        BY <4>1 DEF Message
      <4> HIDE DEF m, m2, x
      <4> QED
        BY <1>4, <3>1, <4>2, Pushed
    <3>3. m2 \in Seq(Message)
      BY StateFields, Zenon
    <3>4. Entries(m) \subseteq Entries(m2)
      BY <1>4, <3>2 DEF Entries
    <3>5. e \in Entries(m2)
      <4>1. Len(m) + 1 \in DOMAIN m2 /\ m2[Len(m) + 1].entry = e
        BY <1>4, <3>2
      <4> QED
        BY <4>1 DEF Entries
    <3>6. Entries(m2) \subseteq Entries(m) \cup {e}
      <4>1. ASSUME NEW n \in DOMAIN m2 PROVE m2[n].entry \in Entries(m) \cup {e}
        <5>1. n \in 1..Len(m) \/ n = Len(m) + 1
          BY <1>4, <3>2
        <5> QED
          BY <1>4, <3>2, <5>1 DEF Entries
      <4> QED
        BY <4>1 DEF Entries
    <3> QED
      BY <1>4, <3>1, <3>2, <3>3, <3>4, <3>5, <3>6
  <2> QED
    BY <2>1, <2>2
<1>6. Formed(v) /\ Ordered(v) /\ Starts(v, Len(v) - 1)
  <2>1. Formed(w) /\ Ordered(w) /\ Starts(w, Len(w) - 1)
    BY DEF LeftOK
  <2>2. Formed(v) /\ Ordered(v)
    BY <2>1, Cut
  <2>3. \A q \in 2..(Len(v) - 1) : /\ q \in 2..(Len(w) - 1) /\ v[q] = w[q]
                                   /\ v[q-1] = w[q-1]
    <3>1. ASSUME NEW q \in 2..(Len(v) - 1)
          PROVE  q \in 1..Len(v) /\ q - 1 \in 1..Len(v) /\ q \in 2..(Len(w) - 1)
      BY <1>1
    <3> QED
      BY <3>1
  <2>4. Starts(v, Len(v) - 1)
    <3>1. ASSUME NEW q \in 2..(Len(v) - 1), v[q][1] = "head" PROVE v[q-1] = LF
      BY <2>1, <2>3, <3>1 DEF Starts
    <3> QED
      BY <3>1 DEF Starts
  <2> QED
    BY <2>2, <2>4
<1>7. ASSUME NEW q \in 1..Len(v), Data(v[q])
      PROVE  /\ v[q][2] \in DOMAIN d /\ d[v[q][2]] <= d[e]
             /\ \A i \in Entries(m2) : v[q][2] < i
             /\ v[q][1] = "tail" => Has(f, t.size, v[q][2])
  <2>1. q \in 1..Len(w) /\ q \in 1..LineBefore(z) /\ v[q] = w[q]
    BY <1>1
  <2>2. w[q][2] < e /\ w[q][2] \in DOMAIN d
    BY <1>2, <1>7, <2>1 DEF LeftOK
  <2>3. d[w[q][2]] <= d[e]
    BY <1>3, <2>2
  <2>4. /\ \A i \in Entries(m) : w[q][2] < i
        /\ w[q][1] = "tail" => Has(f, t.size, w[q][2])
    BY <1>7, <2>1 DEF LeftOK
  <2> QED
    BY <1>5, <2>1, <2>2, <2>3, <2>4
<1>8. v = <<>> \/ v[Len(v)][1] = "tail"
  <2>1. CASE z = 0
    BY <1>1, <2>1
  <2>2. CASE z > 0
    BY <1>1, <1>2, <2>2
  <2> QED
    BY <1>1, <2>1, <2>2
<1>9. ASSUME NEW i \in DOMAIN d, Has(f, t.size, i), d[i] > t.prev, i \notin Entries(m2)
      PROVE  \E q \in 1..Len(v) : v[q] = <<"tail", i>>
  <2>1. i \notin Entries(m) /\ i # e
    BY <1>5, <1>9
  <2>2. PICK q \in 1..Len(w) : w[q] = <<"tail", i>>
    BY <1>9, <2>1 DEF LeftOK
  <2>3. q \in (z + 1)..Len(w) => q = z + 2
    BY <1>2, <2>2
  <2>4. q \notin (z + 1)..Len(w)
    BY <1>2, <2>1, <2>2, <2>3
  <2>5. z > 0 => q # z /\ q # z - 1
    BY <1>1, <2>2 DEF CR, LF
  <2>6. q \in 1..Len(v)
    BY <1>1, <2>4, <2>5
  <2> QED
    BY <2>2, <2>6
<1>10. \A i \in Entries(m2) : Has(f, t.size, i)
  BY <1>3, <1>5 DEF LeftOK
<1>11. LeftOK(t2, v, f, d)
  <2>1. t2.last <= MaxDate
    BY <1>3
  <2> QED
    BY <1>6, <1>7, <1>8, <1>9, <1>10, <2>1 DEF LeftOK
<1>12. \A i \in Entries(m2) : i \in DOMAIN d /\ d[i] > t.prev
  BY <1>3, <1>5 DEF MessagesOK
<1>13. Descending(m2) /\ \A n \in DOMAIN m2 : n > 1 => m2[n].clean
  <2>1. Descending(m) /\ \A n \in DOMAIN m : n > 1 => m[n].clean
    BY DEF MessagesOK
  <2>2. CASE d[e] <= t.prev
    <3>1. m2 = m
      BY <2>2
    <3> QED
      BY <2>1, <3>1
  <2>3. CASE ~(d[e] <= t.prev)
    <3>1. m2 = Append(m, x)
      BY <2>3
    <3>2. /\ DOMAIN m2 = 1..(Len(m) + 1) /\ \A n \in 1..Len(m) : m2[n] = m[n]
          /\ m2[Len(m) + 1] = x
      BY <1>4, <3>1
    <3>3. \A n \in 1..Len(m) : e < m[n].entry
      BY <1>3, <1>4 DEF Entries
    <3>4. m # <<>> => x.clean
      <4>1. m # <<>> => w[Len(w)][1] = "tail"
        <5>1. m # <<>> => t.last <= MaxDate
          BY DEF LeftOK
        <5>2. w # <<>>
          BY <1>1
        <5> QED
          BY <5>1, <5>2 DEF LeftOK
      <4>2. Len(w) \in (z + 1)..Len(w)
        BY <1>1
      <4> QED
        BY <1>2, <4>1, <4>2
    <3>5. ASSUME NEW n \in 1..(Len(m) + 1), n > 1 PROVE m2[n].clean
      <4>1. CASE n \in 1..Len(m)
        BY <1>4, <2>1, <3>2, <3>5, <4>1
      <4>2. CASE n = Len(m) + 1
        <5>1. m # <<>>
          BY <1>4, <3>5, <4>2
        <5> QED
          BY <3>2, <3>4, <4>2, <5>1
      <4>3. n \in 1..Len(m) \/ n = Len(m) + 1
        BY <1>4
      <4> QED
        BY <4>1, <4>2, <4>3
    <3>6. ASSUME NEW n \in 1..(Len(m) + 1), NEW y \in 1..(Len(m) + 1), n < y
          PROVE  m2[n].entry > m2[y].entry
      <4>1. n \in 1..Len(m)
        BY <1>4, <3>6
      <4>2. CASE y \in 1..Len(m)
        BY <1>4, <2>1, <3>2, <3>6, <4>1, <4>2 DEF Descending
      <4>3. CASE y = Len(m) + 1
        <5>1. m2[y].entry = e /\ m2[n].entry = m[n].entry /\ m[n].entry > e
          <6>1. m[n].entry \in Int /\ e \in Int
            <7>1. m[n] \in Message /\ DOMAIN d = 1..Len(d)
              BY <1>4, <4>1
            <7> QED
              BY <1>3, <7>1 DEF Message, Entry
          <6> QED
            BY <3>2, <3>3, <4>1, <4>3, <6>1
        <5> QED
          BY <5>1
      <4>4. y \in 1..Len(m) \/ y = Len(m) + 1
        BY <1>4
      <4> QED
        BY <4>2, <4>3, <4>4
    <3>7. DOMAIN m2 = 1..(Len(m) + 1)
      BY <3>2
    <3>8. Descending(m2)
      BY <3>6, <3>7 DEF Descending
    <3> QED
      BY <3>5, <3>7, <3>8
  <2> QED
    BY <2>2, <2>3
<1> QED
  BY <1>3, <1>11, <1>12, <1>13 DEF MessagesOK

LEMMA Shift ==
  ASSUME NEW b \in Nat, NEW z \in Nat, NEW n \in Nat, NEW q \in Int,
         q > b, q <= b + (n - z)
  PROVE  LET p == q - b + z IN p \in (z + 1)..n /\ b + p - z = q /\ p \in 1..n
OBVIOUS

\* A line that is no entry is joined to the one before it.
LEMMA OtherTaken ==
  ASSUME NEW f \in Seq(Token), NEW d, NEW t \in State,
         NEW w \in Seq(Token), LeftOK(t, w, f, d),
         NEW z, LastBreak(w, z), NEW v, Joins(w, z, v),
         ~(Len(w) >= z + 2 /\ w[z+1][1] = "head" /\ w[z+2][1] = "tail")
  PROVE  LeftOK(t, v, f, d)
<1>1. /\ z \in Nat /\ Len(w) \in Nat /\ z <= Len(w) /\ v \in Seq(Token) /\ Len(v) \in Nat
      /\ Len(v) = LineBefore(z) + (Len(w) - z)
      /\ (z > 0 => z > 2 /\ LineBefore(z) = z - 2 /\ w[z-1] = CR /\ w[z] = LF)
      /\ (z = 0 => LineBefore(z) = 0) /\ LineBefore(z) \in Nat
  <2>1. Formed(w)
    BY DEF LeftOK
  <2>2. /\ z \in Nat /\ Len(w) \in Nat /\ z <= Len(w)
        /\ (z > 0 => z > 2 /\ w[z-1] = CR /\ w[z] = LF)
    BY <2>1, LastLine DEF LastBreak
  <2>3. /\ (z > 0 => LineBefore(z) = z - 2) /\ (z = 0 => LineBefore(z) = 0)
    BY DEF LineBefore
  <2>4. v \in Seq(Token) /\ Len(v) = LineBefore(z) + (Len(w) - z)
    BY DEF Joins
  <2> QED
    BY <2>2, <2>3, <2>4
<1> DEFINE From(q) == IF q <= LineBefore(z) THEN q ELSE q - LineBefore(z) + z
           To(q)   == IF q <= LineBefore(z) THEN q ELSE LineBefore(z) + q - z
<1>2. ASSUME NEW q \in 1..Len(v) PROVE From(q) \in 1..Len(w) /\ v[q] = w[From(q)]
  <2>1. CASE q <= LineBefore(z)
    <3>1. q \in 1..LineBefore(z) /\ From(q) = q /\ q \in 1..Len(w)
      BY <1>1, <2>1
    <3> QED
      BY <3>1 DEF Joins
  <2>2. CASE ~(q <= LineBefore(z))
    <3>1. /\ From(q) \in (z + 1)..Len(w) /\ LineBefore(z) + From(q) - z = q
          /\ From(q) \in 1..Len(w)
      <4>1. q \in Int /\ q > LineBefore(z) /\ q <= LineBefore(z) + (Len(w) - z)
        BY <1>1, <2>2
      <4>2. From(q) = q - LineBefore(z) + z
        BY <2>2
      <4> HIDE DEF From
      <4>3. z \in Nat /\ Len(w) \in Nat /\ LineBefore(z) \in Nat
        BY <1>1
      <4> QED
        BY <4>1, <4>2, <4>3, Shift
    <3> HIDE DEF From
    <3>2. v[LineBefore(z) + From(q) - z] = w[From(q)]
      BY <3>1 DEF Joins
    <3> QED
      BY <3>1, <3>2
  <2> QED
    BY <2>1, <2>2
<1>3. ASSUME NEW q \in 1..Len(w), w[q][1] = "tail"
      PROVE  To(q) \in 1..Len(v) /\ v[To(q)] = w[q]
  <2>1. q \in 1..LineBefore(z) \/ q \in (z + 1)..Len(w)
    <3>1. z > 0 => q # z /\ q # z - 1
      BY <1>1, <1>3 DEF CR, LF
    <3> QED
      BY <1>1, <3>1
  <2>2. CASE q \in 1..LineBefore(z)
    <3>1. To(q) = q /\ q \in 1..Len(v)
      BY <1>1, <2>2
    <3> QED
      BY <2>2, <3>1 DEF Joins
  <2>3. CASE q \in (z + 1)..Len(w)
    <3>1. To(q) = LineBefore(z) + q - z /\ To(q) \in 1..Len(v)
      BY <1>1, <2>3
    <3> QED
      BY <2>3, <3>1 DEF Joins
  <2> QED
    BY <2>1, <2>2, <2>3
<1>4. Formed(v) /\ Ordered(v) /\ Starts(v, Len(v) - 1)
  <2>1. Formed(w) /\ Ordered(w) /\ Starts(w, Len(w) - 1)
    BY DEF LeftOK
  <2>2. CASE z > 0
    <3>1. Formed(v) /\ Ordered(v)
      BY <2>1, <2>2, Join
    <3>2. Starts(v, Len(v) - 1)
      BY <2>1, <2>2, OtherLine
    <3> QED
      BY <3>1, <3>2
  <2>3. CASE z = 0
    <3>1. Len(v) = Len(w) /\ \A q \in 1..Len(v) : From(q) = q
      BY <1>1, <2>3
    <3>2. Len(v) = Len(w) /\ \A q \in 1..Len(v) : v[q] = w[q]
      BY <1>2, <3>1
    <3>3. v = w
      BY <1>1, <3>2, SeqEqual
    <3> QED
      BY <2>1, <3>3
  <2> QED
    BY <1>1, <2>2, <2>3
<1> HIDE DEF From, To
<1>5. ASSUME NEW q \in 1..Len(v), Data(v[q])
      PROVE  /\ v[q][2] \in DOMAIN d /\ d[v[q][2]] <= t.last
             /\ \A i \in Entries(t.messages) : v[q][2] < i
             /\ v[q][1] = "tail" => Has(f, t.size, v[q][2])
  <2>1. From(q) \in 1..Len(w) /\ v[q] = w[From(q)]
    BY <1>2
  <2> QED
    BY <1>5, <2>1 DEF LeftOK
<1>6. ASSUME t.last <= MaxDate PROVE v = <<>> \/ v[Len(v)][1] = "tail"
  <2>1. w = <<>> \/ w[Len(w)][1] = "tail"
    BY <1>6 DEF LeftOK
  <2>2. CASE w = <<>>
    BY <1>1, <2>2
  <2>3. CASE w # <<>> /\ w[Len(w)][1] = "tail"
    <3>1. z # Len(w)
      BY <1>1, <2>3 DEF LF
    <3>2. Len(w) \in (z + 1)..Len(w) /\ LineBefore(z) + Len(w) - z = Len(v)
      BY <1>1, <3>1
    <3>3. v[Len(v)] = w[Len(w)]
      BY <3>2 DEF Joins
    <3> QED
      BY <2>3, <3>3
  <2> QED
    BY <2>1, <2>2, <2>3
<1>7. ASSUME NEW i \in DOMAIN d, Has(f, t.size, i), d[i] > t.prev,
             i \notin Entries(t.messages)
      PROVE  \E q \in 1..Len(v) : v[q] = <<"tail", i>>
  <2>1. PICK q \in 1..Len(w) : w[q] = <<"tail", i>>
    BY <1>7 DEF LeftOK
  <2>2. To(q) \in 1..Len(v) /\ v[To(q)] = w[q]
    BY <1>3, <2>1
  <2> QED
    BY <2>1, <2>2
<1> QED
  BY <1>4, <1>5, <1>6, <1>7 DEF LeftOK
-----------------------------------------------------------------------------
(***************************************************************************)
(* The steps of a collection.                                              *)
(***************************************************************************)
LEMMA Changed ==
  ASSUME TasksInv, UNCHANGED log, NEW k \in Task, NEW t2 \in State,
         task' = [task EXCEPT ![k] = t2], TaskOK(t2, file, date)
  PROVE  TasksInv'
<1>1. task' \in [Task -> State]
  BY DEF TasksInv
<1>2. ASSUME NEW j \in Task PROVE TaskOK(task'[j], file, date)
  <2>1. task'[j] = IF j = k THEN t2 ELSE task[j]
    BY DEF TasksInv
  <2> QED
    BY <2>1 DEF TasksInv
<1>3. file' = file /\ date' = date
  BY DEF log
<1>4. \A j \in Task : TaskOK(task[j], file, date)'
  BY <1>2, <1>3
<1> QED
  BY <1>1, <1>4 DEF TasksInv

\* Marks of KillTask.
LEMMA Marked ==
  ASSUME NEW t \in State, NEW f, NEW d, TaskOK(t, f, d), NEW t2 \in State,
         t2.pc = t.pc, t2.prev = t.prev, t2.size = t.size, t2.unread = t.unread,
         t2.cache = t.cache, t2.last = t.last, t2.messages = t.messages,
         t2.failed = t.failed, ~t2.isInterrupt => ~t.isInterrupt
  PROVE  TaskOK(t2, f, d)
<1>1. MessagesOK(t2, d)
  BY DEF TaskOK, MessagesOK
<1>2. ASSUME t2.pc \in {"read", "lines"} PROVE ReadingOK(t2, f, d)
  <2>1. Remaining(t2, f) = Remaining(t, f)
    BY DEF Remaining
  <2>2. ReadingOK(t, f, d)
    BY <1>2 DEF TaskOK
  <2> DEFINE w == Remaining(t, f)
  <2>3. LeftOK(t, w, f, d)
    BY <2>2 DEF ReadingOK
  <2> HIDE DEF w
  <2>4. LeftOK(t2, w, f, d)
    BY <2>3 DEF LeftOK
  <2> QED
    BY <2>1, <2>2, <2>4 DEF ReadingOK, w
<1>3. ReportOK(t2, f, d)
  BY DEF TaskOK, ReportOK
<1> QED
  BY <1>1, <1>2, <1>3 DEF TaskOK

LEMMA MarkSteps ==
  ASSUME LogInv, TasksInv, NEW k \in Task,
         Interrupt(k) \/ Enumerate(k) \/ KillReports(k) \/ AnswerLost(k)
  PROVE  TasksInv'
<1> DEFINE t == task[k]
<1>1. t \in State /\ TaskOK(t, file, date) /\ task \in [Task -> State]
  BY DEF TasksInv
<1>2. Len(t.messages) \in Nat
  BY <1>1, StateFields
<1>3. CASE Interrupt(k)
  <2> DEFINE t2 == [t EXCEPT !.isInterrupt = TRUE, !.killer = "flagged"]
  <2>1. task' = [task EXCEPT ![k] = t2] /\ UNCHANGED log
    BY <1>1, <1>3 DEF Interrupt
  <2>2. t2 \in State
    BY <1>1 DEF State
  <2>3. TaskOK(t2, file, date)
    <3>1. /\ t2.pc = t.pc /\ t2.prev = t.prev /\ t2.size = t.size
          /\ t2.unread = t.unread /\ t2.cache = t.cache /\ t2.last = t.last
          /\ t2.messages = t.messages /\ t2.failed = t.failed /\ t2.isInterrupt
      BY <1>1 DEF State
    <3> HIDE DEF t, t2
    <3> QED
      BY <1>1, <2>2, <3>1, Marked
  <2> QED
    BY <2>1, <2>2, <2>3, Changed
<1>4. CASE Enumerate(k)
  <2> DEFINE t2 == [t EXCEPT !.killer = "enumerates", !.seen = Len(t.messages)]
  <2>1. task' = [task EXCEPT ![k] = t2] /\ UNCHANGED log
    BY <1>1, <1>4 DEF Enumerate
  <2>2. t2 \in State
    BY <1>1, <1>2 DEF State
  <2>3. TaskOK(t2, file, date)
    <3>1. /\ t2.pc = t.pc /\ t2.prev = t.prev /\ t2.size = t.size
          /\ t2.unread = t.unread /\ t2.cache = t.cache /\ t2.last = t.last
          /\ t2.messages = t.messages /\ t2.failed = t.failed
          /\ t2.isInterrupt = t.isInterrupt
      BY <1>1 DEF State
    <3> HIDE DEF t, t2
    <3> QED
      BY <1>1, <2>2, <3>1, Marked
  <2> QED
    BY <2>1, <2>2, <2>3, Changed
<1>5. ASSUME NEW c \in {"done", "threw"}, task' = [task EXCEPT ![k].killer = c],
             UNCHANGED log
      PROVE  TasksInv'
  <2> DEFINE t2 == [t EXCEPT !.killer = c]
  <2>1. task' = [task EXCEPT ![k] = t2] /\ UNCHANGED log
    BY <1>1, <1>5
  <2>2. t2 \in State
    BY <1>1 DEF State
  <2>3. TaskOK(t2, file, date)
    <3>1. /\ t2.pc = t.pc /\ t2.prev = t.prev /\ t2.size = t.size
          /\ t2.unread = t.unread /\ t2.cache = t.cache /\ t2.last = t.last
          /\ t2.messages = t.messages /\ t2.failed = t.failed
          /\ t2.isInterrupt = t.isInterrupt
      BY <1>1 DEF State
    <3> HIDE DEF t, t2
    <3> QED
      BY <1>1, <2>2, <3>1, Marked
  <2> QED
    BY <2>1, <2>2, <2>3, Changed
<1>6. CASE KillReports(k)
  <2>1. PICK c \in {"done", "threw"} : task' = [task EXCEPT ![k].killer = c]
    BY <1>6 DEF KillReports
  <2> QED
    BY <1>5, <1>6, <2>1 DEF KillReports
<1>7. CASE AnswerLost(k)
  BY <1>5, <1>7 DEF AnswerLost
<1> QED
  BY <1>3, <1>4, <1>6, <1>7

\* A collection begins, gives up, or is over.
LEMMA EndSteps ==
  ASSUME LogInv, TasksInv, dateLog \in 0..MaxDate, NEW k \in Task,
         \/ Prepare(k) \/ Command(k) \/ Repeat(k) \/ Throws(k)
         \/ GetOperationReport(k)
  PROVE  TasksInv'
<1> DEFINE t == task[k]
<1>1. t \in State /\ MessagesOK(t, date) /\ task \in [Task -> State]
  BY DEF TasksInv, TaskOK
<1>2. ASSUME NEW c \in {"prepared", "start"}, NEW g \in 0..MaxTask, NEW p \in 0..MaxDate,
             task' = [task EXCEPT ![k].pc = c, ![k].guid = g, ![k].prev = p],
             UNCHANGED log, t.pc \in {"none", "prepared"}
      PROVE  TasksInv'
  <2> DEFINE t2 == [t EXCEPT !.pc = c, !.guid = g, !.prev = p]
  <2>1. task' = [task EXCEPT ![k] = t2]
    BY <1>1, <1>2
  <2>2. t2 \in State
    BY <1>1 DEF State
  <2>3. TaskOK(t2, file, date)
    <3>1. /\ t2.pc = c /\ t2.messages = t.messages /\ t2.cache = t.cache
          /\ t2.last = t.last
      BY <1>1 DEF State
    <3>2. t2.messages = <<>> /\ t2.cache = <<>> /\ t2.last = MaxDate + 1
      BY <1>1, <1>2, <3>1 DEF MessagesOK
    <3> HIDE DEF t2
    <3>3. Entries(t2.messages) = {} /\ DOMAIN t2.messages = {}
      BY <3>2 DEF Entries
    <3> QED
      BY <3>1, <3>2, <3>3 DEF TaskOK, MessagesOK, ReportOK, Descending
  <2> QED
    BY <1>2, <2>1, <2>2, <2>3, Changed
<1>3. CASE Prepare(k)
  <2>1. k \in 0..MaxTask
    BY Constants DEF Task
  <2> QED
    BY <1>2, <1>3, <2>1 DEF Prepare, Fresh
<1>4. CASE Command(k)
  <2>1. t.guid \in 0..MaxTask /\ t.prev \in 0..MaxDate
    BY <1>1 DEF State
  <2>2. task' = [task EXCEPT ![k].pc = "start", ![k].guid = t.guid, ![k].prev = t.prev]
    BY <1>1, <1>4 DEF Command, State
  <2> QED
    BY <1>2, <1>4, <2>1, <2>2 DEF Command
<1>5. CASE Repeat(k)
  <2>1. PICK o \in Task : task' = [task EXCEPT ![k].pc = "start",
                                     ![k].guid = task[o].guid, ![k].prev = task[o].prev]
    BY <1>5 DEF Repeat
  <2>2. task[o].guid \in 0..MaxTask /\ task[o].prev \in 0..MaxDate
    BY <1>1 DEF State
  <2> QED
    BY <1>2, <1>5, <2>1, <2>2 DEF Repeat, Fresh
<1>6. CASE Throws(k)
  <2> DEFINE t2 == [t EXCEPT !.pc = "report", !.failed = TRUE]
  <2>1. task' = [task EXCEPT ![k] = t2] /\ UNCHANGED log
    BY <1>1, <1>6 DEF Throws
  <2>2. t2 \in State
    BY <1>1 DEF State
  <2>3. TaskOK(t2, file, date)
    <3>1. t2.pc = "report" /\ t2.failed /\ t2.messages = t.messages /\ t2.prev = t.prev
      BY <1>1 DEF State
    <3> HIDE DEF t2, t
    <3> QED
      BY <1>1, <3>1 DEF TaskOK, MessagesOK, ReportOK
  <2> QED
    BY <2>1, <2>2, <2>3, Changed
<1>7. CASE GetOperationReport(k)
  <2> DEFINE t2 == [t EXCEPT !.pc = "over", !.size = 0, !.unread = 0,
                             !.cache = <<>>, !.last = MaxDate + 1]
  <2>1. task' = [task EXCEPT ![k] = t2] /\ UNCHANGED log
    BY <1>1, <1>7 DEF GetOperationReport
  <2>2. t2 \in State
    <3>1. MaxDate + 1 \in 0..MaxDate+1 /\ <<>> \in Seq(Token)
      BY Constants
    <3> QED
      BY <1>1, <3>1 DEF State
  <2>3. TaskOK(t2, file, date)
    <3>1. t2.pc = "over" /\ t2.prev = t.prev /\ t2.messages = t.messages
      BY <1>1 DEF State
    <3> HIDE DEF t2, t
    <3> QED
      BY <1>1, <3>1 DEF TaskOK, MessagesOK, ReportOK
  <2> QED
    BY <2>1, <2>2, <2>3, Changed
<1> QED
  BY <1>3, <1>4, <1>5, <1>6, <1>7

LEMMA OpenStep ==
  ASSUME LogInv, TasksInv, NEW k \in Task, Open(k)
  PROVE  TasksInv'
<1> DEFINE t == task[k]
           n == Len(file)
           t2 == [t EXCEPT !.pc = "read", !.size = n, !.unread = n]
<1>1. /\ t \in State /\ MessagesOK(t, date) /\ task \in [Task -> State] /\ t.pc = "start"
      /\ file \in Seq(Token) /\ n \in Nat
  BY DEF TasksInv, TaskOK, Open, LogInv, LogType
<1>2. task' = [task EXCEPT ![k] = t2] /\ UNCHANGED log
  BY <1>1 DEF Open
<1>3. t2 \in State
  BY <1>1 DEF State
<1>4. /\ t2.pc = "read" /\ t2.size = n /\ t2.unread = n /\ t2.messages = t.messages
      /\ t2.cache = t.cache /\ t2.last = t.last /\ t2.prev = t.prev
  BY <1>1 DEF State
<1>5. t2.messages = <<>> /\ t2.cache = <<>> /\ t2.last = MaxDate + 1
  BY <1>1, <1>4 DEF MessagesOK
<1> HIDE DEF t2, t
<1>6. Entries(t2.messages) = {}
  BY <1>5 DEF Entries
<1> DEFINE w == Remaining(t2, file)
<1>7. w = file
  <2>1. /\ w \in Seq(Token) /\ Len(w) = n + 0 /\ \A q \in 1..n : w[q] = file[q]
    BY <1>1, <1>3, <1>4, <1>5, RemainingIs
  <2> QED
    BY <1>1, <2>1, SeqEqual
<1> HIDE DEF w
<1>8. ASSUME NEW q \in 1..Len(file), Data(file[q])
      PROVE  /\ file[q][2] \in DOMAIN date /\ date[file[q][2]] <= MaxDate + 1
             /\ file[q][1] = "tail" => Has(file, n, file[q][2])
  <2>1. file[q][2] \in DOMAIN date
    BY <1>8 DEF LogInv, FileInv, Dated
  <2>2. date[file[q][2]] \in 1..MaxDate
    BY <2>1, SeqTypes DEF LogInv, LogType
  <2>3. file[q] = <<file[q][1], file[q][2]>>
    BY <1>1, <1>8, TokenKinds
  <2> QED
    BY <2>1, <2>2, <2>3, Constants DEF Has
<1>9. Starts(file, n - 1)
  BY <1>1 DEF LogInv, FileInv, Starts
<1>10. \A i \in DOMAIN date : Has(file, n, i) => \E q \in 1..Len(file) : file[q] = <<"tail", i>>
  BY DEF Has
<1>11. LeftOK(t2, w, file, date)
  <2>1. ~(t2.last <= MaxDate)
    BY <1>5, Constants
  <2>2. Formed(w) /\ Ordered(w) /\ Starts(w, Len(w) - 1)
    BY <1>7, <1>9 DEF LogInv, FileInv
  <2> QED
    BY <1>4, <1>5, <1>6, <1>7, <1>8, <1>10, <2>1, <2>2 DEF LeftOK
<1>12. TaskOK(t2, file, date)
  <2>1. MessagesOK(t2, date)
    <3>1. DOMAIN t2.messages = {}
      BY <1>5
    <3> QED
      BY <1>4, <1>6, <3>1 DEF MessagesOK, Descending
  <2>2. ReadingOK(t2, file, date)
    BY <1>1, <1>4, <1>5, <1>11 DEF ReadingOK, w
  <2> QED
    BY <1>4, <2>1, <2>2 DEF TaskOK, ReportOK
<1> QED
  BY <1>2, <1>3, <1>12, Changed

\* What is read goes from the one part of what remains to the other.
LEMMA ReadBlockStep ==
  ASSUME LogInv, TasksInv, NEW k \in Task, ReadBlock(k)
  PROVE  TasksInv'
<1> DEFINE t == task[k]
           u == t.unread
           from == IF u >= Block THEN u - Block ELSE 0
           s == SubSeq(file, from + 1, u)
           t2 == [t EXCEPT !.pc = "lines", !.unread = from, !.cache = s \o t.cache]
<1>1. /\ t \in State /\ TaskOK(t, file, date) /\ task \in [Task -> State] /\ t.pc = "read"
      /\ file \in Seq(Token) /\ Len(file) \in Nat
  BY DEF TasksInv, ReadBlock, LogInv, LogType
<1>2. /\ u \in Nat /\ t.cache \in Seq(Token) /\ Len(t.cache) \in Nat /\ t.size \in Nat
      /\ u <= t.size /\ t.size <= Len(file) /\ LeftOK(t, Remaining(t, file), file, date)
      /\ MessagesOK(t, date)
  BY <1>1, StateFields DEF TaskOK, ReadingOK
<1>3. from \in Nat /\ from <= u
  BY <1>2, Constants
<1>4. task' = [task EXCEPT ![k] = t2] /\ UNCHANGED log
  BY <1>1 DEF ReadBlock
<1> HIDE DEF from, u
<1>5. /\ s \in Seq(Token) /\ Len(s) = u - from
      /\ \A q \in 1..(u - from) : s[q] = file[from + q]
  <2>1. u <= Len(file)
    BY <1>1, <1>2
  <2>2. \A q \in (from + 1)..u : file[q] \in Token
    BY <1>1, <1>2, <1>3, <2>1
  <2> QED
    BY <1>1, <1>2, <1>3, <2>1, <2>2
<1> HIDE DEF s
<1>6. /\ s \o t.cache \in Seq(Token) /\ Len(s \o t.cache) = (u - from) + Len(t.cache)
      /\ \A q \in 1..(u - from) : (s \o t.cache)[q] = s[q]
      /\ \A q \in 1..Len(t.cache) : (s \o t.cache)[(u - from) + q] = t.cache[q]
  <2> DEFINE c == t.cache
  <2>1. s \in Seq(Token) /\ c \in Seq(Token)
    BY <1>2, <1>5
  <2> HIDE DEF c
  <2>2. /\ s \o c \in Seq(Token) /\ Len(s \o c) = Len(s) + Len(c)
        /\ \A q \in 1..Len(s) : (s \o c)[q] = s[q]
        /\ \A q \in 1..Len(c) : (s \o c)[Len(s) + q] = c[q]
    BY <2>1, Grown
  <2>3. Len(s) = u - from
    BY <1>5
  <2> QED
    BY <2>2, <2>3 DEF c
<1>7. t2 \in State
  BY <1>1, <1>3, <1>6 DEF State
<1>8. /\ t2.pc = "lines" /\ t2.unread = from /\ t2.cache = s \o t.cache
      /\ t2.messages = t.messages /\ t2.last = t.last /\ t2.prev = t.prev
      /\ t2.size = t.size
  BY <1>1 DEF State
<1> HIDE DEF t2, t
<1> DEFINE w  == Remaining(t, file)
           w2 == Remaining(t2, file)
<1>9. w2 = w
  <2>1. /\ w \in Seq(Token) /\ Len(w) = u + Len(t.cache)
        /\ \A q \in 1..u : w[q] = file[q]
        /\ \A q \in 1..Len(t.cache) : w[u + q] = t.cache[q]
    <3>1. u = t.unread /\ t.unread <= Len(file)
      BY <1>1, <1>2 DEF u
    <3> QED
      BY <1>1, <3>1, RemainingIs
  <2>2. /\ w2 \in Seq(Token) /\ Len(w2) = from + Len(s \o t.cache)
        /\ \A q \in 1..from : w2[q] = file[q]
        /\ \A q \in 1..Len(s \o t.cache) : w2[from + q] = (s \o t.cache)[q]
    <3>1. t2.unread <= Len(file)
      BY <1>1, <1>2, <1>3, <1>8
    <3>2. /\ w2 \in Seq(Token) /\ Len(w2) = t2.unread + Len(t2.cache)
          /\ \A q \in 1..t2.unread : w2[q] = file[q]
          /\ \A q \in 1..Len(t2.cache) : w2[t2.unread + q] = t2.cache[q]
      BY <1>1, <1>7, <3>1, RemainingIs
    <3> HIDE DEF w2
    <3> QED
      BY <1>8, <3>2
  <2> HIDE DEF w, w2
  <2>3. Len(w2) = Len(w) /\ Len(w) \in Nat
    BY <1>2, <1>3, <1>6, <2>1, <2>2
  <2>4. ASSUME NEW q \in 1..Len(w) PROVE w2[q] = w[q]
    <3>1. CASE q <= from
      <4>1. q \in 1..from /\ q \in 1..u
        BY <1>2, <1>3, <3>1
      <4> QED
        BY <2>1, <2>2, <4>1
    <3>2. CASE q > from /\ q <= u
      <4>1. /\ q \in 1..u /\ q - from \in 1..(u - from) /\ from + (q - from) = q
            /\ q - from \in 1..Len(s \o t.cache)
        BY <1>2, <1>3, <1>6, <3>2
      <4>2. w2[from + (q - from)] = (s \o t.cache)[q - from]
        BY <2>2, <4>1
      <4>3. (s \o t.cache)[q - from] = s[q - from] /\ s[q - from] = file[from + (q - from)]
        BY <1>5, <1>6, <4>1
      <4> QED
        BY <2>1, <4>1, <4>2, <4>3
    <3>3. CASE q > u
      <4>1. /\ q - u \in 1..Len(t.cache) /\ u + (q - u) = q
            /\ from + ((u - from) + (q - u)) = q
            /\ (u - from) + (q - u) \in 1..Len(s \o t.cache)
        BY <1>2, <1>3, <1>6, <2>1, <3>3
      <4>2. w2[from + ((u - from) + (q - u))] = (s \o t.cache)[(u - from) + (q - u)]
        BY <2>2, <4>1
      <4>3. (s \o t.cache)[(u - from) + (q - u)] = t.cache[q - u]
        BY <1>6, <4>1
      <4>4. w[u + (q - u)] = t.cache[q - u]
        BY <2>1, <4>1
      <4> QED
        BY <4>1, <4>2, <4>3, <4>4
    <3> QED
      BY <1>2, <1>3, <3>1, <3>2, <3>3
  <2> QED
    BY <2>1, <2>2, <2>3, <2>4, SeqEqual
<1>10. LeftOK(t2, w2, file, date)
  <2>1. LeftOK(t, w, file, date)
    BY <1>2
  <2> HIDE DEF w, w2
  <2> QED
    BY <1>8, <1>9, <2>1 DEF LeftOK
<1>11. TaskOK(t2, file, date)
  <2>1. MessagesOK(t2, date)
    BY <1>2, <1>8 DEF MessagesOK
  <2>2. ReadingOK(t2, file, date)
    <3>1. t2.unread <= t2.size /\ t2.size <= Len(file)
      BY <1>2, <1>3, <1>8
    <3> QED
      BY <1>8, <1>10, <3>1 DEF ReadingOK
  <2> QED
    BY <1>8, <2>1, <2>2 DEF TaskOK, ReportOK
<1> QED
  BY <1>4, <1>7, <1>11, Changed

LEMMA TakeLineStep ==
  ASSUME LogInv, TasksInv, NEW k \in Task, TakeLine(k)
  PROVE  TasksInv'
<1> DEFINE t == task[k]
           u == t.unread
           c == t.cache
           w == Remaining(t, file)
           z == u + LineStart(c)
           n == Line(t)
           e == n[1][2]
<1>1. /\ t \in State /\ TaskOK(t, file, date) /\ task \in [Task -> State] /\ t.pc = "lines"
      /\ file \in Seq(Token) /\ Len(file) \in Nat /\ date \in Seq(1..MaxDate) /\ HasLine(t)
      /\ \A i, j \in DOMAIN date : i < j => date[i] <= date[j]
      /\ UNCHANGED log
  BY DEF TasksInv, TakeLine, LogInv, LogType, Monotone
<1>2. /\ u \in Nat /\ u <= t.size /\ t.size <= Len(file) /\ t.size \in Nat
      /\ LeftOK(t, w, file, date) /\ MessagesOK(t, date) /\ u <= Len(file)
      /\ w \in Seq(Token) /\ Formed(w)
  <2>1. /\ u \in Nat /\ t.size \in Nat /\ u <= t.size /\ t.size <= Len(file)
        /\ LeftOK(t, w, file, date) /\ MessagesOK(t, date)
    BY <1>1, StateFields DEF TaskOK, ReadingOK
  <2>2. u <= Len(file)
    BY <1>1, <2>1
  <2>3. w \in Seq(Token)
    BY <1>1, <2>2, RemainingIs
  <2> QED
    BY <2>1, <2>2, <2>3 DEF LeftOK
<1>3. /\ LastBreak(w, z) /\ n \in Seq(Token) /\ Len(n) = Len(w) - z
      /\ \A q \in 1..Len(n) : n[q] = w[z + q]
      /\ Before(t) \in Seq(Token)
  BY <1>1, <1>2, LineOf
<1>4. z \in Nat /\ Len(w) \in Nat /\ Len(n) \in Nat
  BY <1>2, <1>3, LastLine
<1>5. /\ Len(n) > 1 <=> Len(w) >= z + 2
      /\ Len(n) > 1 => n[1] = w[z+1] /\ n[2] = w[z+2]
  BY <1>3, <1>4
<1>6. IsEntry(n) <=> Len(w) >= z + 2 /\ w[z+1][1] = "head" /\ w[z+2][1] = "tail"
  BY <1>5 DEF IsEntry
<1>7. CASE IsEntry(n)
  <2> DEFINE x  == [entry |-> e, clean |-> Len(n) = 2]
             m2 == IF date[e] <= t.prev THEN t.messages ELSE Append(t.messages, x)
             t2 == [t EXCEPT !.cache = Before(t), !.last = date[e], !.messages = m2]
             v  == Remaining(t2, file)
  <2>1. task' = [task EXCEPT ![k] = t2]
    BY <1>1, <1>7 DEF TakeLine
  <2>2. /\ Len(w) >= z + 2 /\ w[z+1][1] = "head" /\ w[z+2][1] = "tail"
        /\ e = w[z+1][2] /\ (Len(n) = 2) = (Len(w) = z + 2)
    BY <1>3, <1>4, <1>5, <1>6, <1>7
  <2>3. e \in DOMAIN date /\ e \in Entry
    <3>1. z + 1 \in 1..Len(w) /\ Data(w[z+1])
      BY <1>4, <2>2 DEF Data
    <3>2. w[z+1] \in Token
      BY <1>2, <3>1
    <3> HIDE DEF w
    <3> QED
      BY <1>2, <2>2, <3>1, <3>2, TokenKinds DEF LeftOK
  <2>4. date[e] \in 1..MaxDate /\ date[e] \in 0..(MaxDate + 1)
    BY <1>1, <2>3, SeqTypes, Constants
  <2>5. t.messages \in Seq(Message) /\ m2 \in Seq(Message)
    <3>1. t.messages \in Seq(Message) /\ x \in Message
      BY <1>1, <2>3, StateFields DEF Message
    <3> HIDE DEF x, t
    <3> QED
      BY <3>1
  <2> HIDE DEF m2
  <2>6. t2 \in State
    BY <1>1, <1>3, <2>4, <2>5 DEF State
  <2>7. /\ t2.pc = "lines" /\ t2.unread = u /\ t2.cache = Before(t) /\ t2.last = date[e]
        /\ t2.messages = m2 /\ t2.prev = t.prev /\ t2.size = t.size
        /\ t2.isInterrupt = t.isInterrupt
    BY <1>1 DEF State
  <2> HIDE DEF t2, t, z, e, n
  <2>8. v \in Seq(Token) /\ Len(v) = LineBefore(z) /\ \A q \in 1..Len(v) : v[q] = w[q]
    BY <1>1, <1>2, <2>6, <2>7, LineCut DEF z
  <2> HIDE DEF w, v
  <2>9. t2.messages = IF date[e] <= t.prev THEN t.messages
                      ELSE Append(t.messages, [entry |-> e, clean |-> Len(w) = z + 2])
    BY <2>2, <2>7 DEF m2
  <2>10. LeftOK(t2, v, file, date) /\ MessagesOK(t2, date)
    <3>1. Taken(t, t2, w, z, v, date)
      BY <1>1, <1>3, <2>2, <2>7, <2>8, <2>9 DEF Taken
    <3> QED
      BY <1>1, <1>2, <2>6, <3>1, EntryTaken
  <2>11. ReadingOK(t2, file, date)
    BY <1>2, <2>7, <2>10 DEF ReadingOK, v
  <2>12. TaskOK(t2, file, date)
    BY <2>7, <2>10, <2>11 DEF TaskOK, ReportOK
  <2> QED
    BY <1>1, <2>1, <2>6, <2>12, Changed
<1>8. CASE ~IsEntry(n)
  <2> DEFINE b  == Before(t) \o Trim(n)
             t2 == [t EXCEPT !.cache = b]
             v  == Remaining(t2, file)
  <2>1. task' = [task EXCEPT ![k] = t2]
    BY <1>1, <1>8 DEF TakeLine
  <2>2. b \in Seq(Token)
    <3>1. Trim(n) \in Seq(Token)
      <4>1. ASSUME NEW q \in 1..Len(n) PROVE n[q] \notin {CR, LF}
        <5>1. z + q \in (z + 1)..Len(w)
          BY <1>3, <1>4
        <5>2. Data(w[z + q])
          BY <1>2, <1>3, <5>1, LastLine
        <5> HIDE DEF w, n, z
        <5> QED
          BY <1>3, <5>2, TokenKinds
      <4> QED
        BY <1>3, <4>1, TrimKeeps
    <3> QED
      BY <1>3, <3>1
  <2> HIDE DEF b
  <2>3. t2 \in State
    BY <1>1, <2>2 DEF State
  <2>4. /\ t2.pc = "lines" /\ t2.unread = u /\ t2.cache = b /\ t2.last = t.last
        /\ t2.messages = t.messages /\ t2.prev = t.prev /\ t2.size = t.size
        /\ t2.isInterrupt = t.isInterrupt
    BY <1>1 DEF State
  <2> HIDE DEF t2, t, z
  <2>5. Joins(w, z, v)
    BY <1>1, <1>2, <2>3, <2>4, LineJoined DEF z, b
  <2>6. LeftOK(t, v, file, date)
    BY <1>1, <1>2, <1>3, <1>6, <1>8, <2>5, OtherTaken
  <2> HIDE DEF w, v
  <2>7. LeftOK(t2, v, file, date)
    BY <2>4, <2>6 DEF LeftOK
  <2>8. ReadingOK(t2, file, date)
    BY <1>2, <2>4, <2>7 DEF ReadingOK, v
  <2>9. MessagesOK(t2, date)
    BY <1>2, <2>4 DEF MessagesOK
  <2>10. TaskOK(t2, file, date)
    BY <2>4, <2>8, <2>9 DEF TaskOK, ReportOK
  <2> QED
    BY <1>1, <2>1, <2>3, <2>10, Changed
<1> QED
  BY <1>7, <1>8

\* A cache in which no line is found begins with a part of one, which the next
\* block completes: with nothing left to be read it is empty.
LEMMA LinesTakenStep ==
  ASSUME LogInv, TasksInv, NEW k \in Task, LinesTaken(k)
  PROVE  TasksInv'
<1> DEFINE t  == task[k]
           t2 == [t EXCEPT !.pc = "read"]
           w  == Remaining(t, file)
<1>1. /\ t \in State /\ TaskOK(t, file, date) /\ task \in [Task -> State] /\ t.pc = "lines"
      /\ file \in Seq(Token) /\ Len(file) \in Nat /\ ~HasLine(t) /\ UNCHANGED log
  BY DEF TasksInv, LinesTaken, LogInv, LogType
<1>2. /\ MessagesOK(t, date) /\ LeftOK(t, w, file, date)
      /\ t.unread <= t.size /\ t.size <= Len(file)
  BY <1>1 DEF TaskOK, ReadingOK
<1>3. task' = [task EXCEPT ![k] = t2]
  BY <1>1 DEF LinesTaken
<1>4. t2 \in State
  BY <1>1 DEF State
<1>5. /\ t2.pc = "read" /\ t2.unread = t.unread /\ t2.cache = t.cache /\ t2.last = t.last
      /\ t2.messages = t.messages /\ t2.prev = t.prev /\ t2.size = t.size
      /\ t2.isInterrupt = t.isInterrupt
  BY <1>1 DEF State
<1> HIDE DEF t2, t
<1>6. ASSUME t.unread = 0, t.cache # <<>> PROVE FALSE
  <2> DEFINE l == LineStart(t.cache)
  <2>1. t.cache \in Seq(Token) /\ l \in 0..Len(t.cache) /\ (l > 0 => t.cache[l] = LF)
    BY <1>1, StateFields, LineStartIs
  <2>2. l = 1
    BY <1>1, <1>6, <2>1 DEF HasLine
  <2>3. /\ Len(w) = 0 + Len(t.cache) /\ \A q \in 1..Len(t.cache) : w[0 + q] = t.cache[q]
    <3>1. t.unread <= Len(file)
      BY <1>1, <1>6
    <3> QED
      BY <1>1, <1>6, <3>1, RemainingIs
  <2>4. 1 \in 1..Len(w) /\ w[1] = LF
    <3>1. 1 \in 1..Len(t.cache) /\ t.cache[1] = LF
      BY <2>1, <2>2
    <3>2. w[0 + 1] = t.cache[1]
      BY <2>3, <3>1
    <3> HIDE DEF w
    <3> QED
      BY <2>1, <2>3, <3>1, <3>2
  <2> HIDE DEF w
  <2>5. FormedAt(w, 1)
    BY <1>2, <2>4 DEF LeftOK, Formed
  <2> QED
    BY <2>4, <2>5 DEF FormedAt
<1>7. Remaining(t2, file) = w
  BY <1>5 DEF Remaining
<1> HIDE DEF w
<1>8. LeftOK(t2, w, file, date) /\ MessagesOK(t2, date)
  BY <1>1, <1>2, <1>5 DEF LeftOK, MessagesOK
<1>9. TaskOK(t2, file, date)
  <2>1. ReadingOK(t2, file, date)
    BY <1>2, <1>5, <1>6, <1>7, <1>8 DEF ReadingOK
  <2> QED
    BY <1>5, <1>8, <2>1 DEF TaskOK, ReportOK
<1> QED
  BY <1>1, <1>3, <1>4, <1>9, Changed

\* The loop is left with all of the new entries pushed.
LEMMA ConcludeStep ==
  ASSUME LogInv, TasksInv, NEW k \in Task, Conclude(k)
  PROVE  TasksInv'
<1> DEFINE t  == task[k]
           t2 == [t EXCEPT !.pc = "report"]
           w  == Remaining(t, file)
<1>1. /\ t \in State /\ TaskOK(t, file, date) /\ task \in [Task -> State]
      /\ file \in Seq(Token) /\ Len(file) \in Nat /\ UNCHANGED log
  BY DEF TasksInv, Conclude, LogInv, LogType
<1>2. MessagesOK(t, date)
  BY <1>1 DEF TaskOK
<1>3. task' = [task EXCEPT ![k] = t2]
  BY <1>1 DEF Conclude
<1>4. t2 \in State
  BY <1>1 DEF State
<1>5. /\ t2.pc = "report" /\ t2.messages = t.messages /\ t2.prev = t.prev
      /\ t2.size = t.size /\ t2.isInterrupt = t.isInterrupt
  BY <1>1 DEF State
<1>6. \/ t.pc = "start" /\ t.isInterrupt
      \/ t.pc = "read" /\ (~(t.unread > 0) \/ ~(t.last > t.prev) \/ t.isInterrupt)
  BY DEF Conclude, Reads
<1> HIDE DEF t2, t
<1>7. ASSUME t.pc = "read", ~t.isInterrupt
      PROVE  /\ t.size <= Len(file)
             /\ Entries(t.messages) =
                  {i \in DOMAIN date : Has(file, t.size, i) /\ date[i] > t.prev}
  <2>1. /\ LeftOK(t, w, file, date) /\ t.unread <= t.size /\ t.size <= Len(file)
        /\ (t.unread = 0 => t.cache = <<>>)
        /\ t.unread \in Nat /\ t.size \in Nat /\ t.last \in Int /\ t.prev \in Int
        /\ t.cache \in Seq(Token)
    BY <1>1, <1>7, StateFields DEF TaskOK, ReadingOK
  <2>2. \A i \in Entries(t.messages) : i \in DOMAIN date /\ Has(file, t.size, i)
                                       /\ date[i] > t.prev
    BY <1>2, <2>1 DEF LeftOK, MessagesOK
  <2>3. ASSUME NEW i \in DOMAIN date, Has(file, t.size, i), date[i] > t.prev,
               i \notin Entries(t.messages)
        PROVE  FALSE
    <3>1. PICK q \in 1..Len(w) : w[q] = <<"tail", i>>
      BY <2>1, <2>3 DEF LeftOK
    <3>2. date[i] <= t.last
      <4>1. Data(w[q]) /\ w[q][2] = i
        BY <3>1 DEF Data
      <4> QED
        BY <2>1, <4>1 DEF LeftOK
    <3>3. date[i] \in Int
      <4>1. date \in Seq(1..MaxDate)
        BY DEF LogInv, LogType
      <4>2. date[i] \in 1..MaxDate
        BY <2>3, <4>1, SeqTypes
      <4> QED
        BY <4>2
    <3>4. t.unread = 0
      BY <1>6, <1>7, <2>1, <2>3, <3>2, <3>3
    <3>5. t.unread <= Len(file) /\ Len(t.cache) = 0
      BY <1>1, <2>1, <3>4
    <3>6. Len(w) = 0
      BY <1>1, <3>4, <3>5, RemainingIs
    <3> QED
      BY <3>1, <3>6
  <2> QED
    BY <2>1, <2>2, <2>3
<1>8. TaskOK(t2, file, date)
  <2>1. MessagesOK(t2, date)
    BY <1>2, <1>5, <1>6 DEF MessagesOK
  <2>2. ReportOK(t2, file, date)
    BY <1>5, <1>6, <1>7 DEF ReportOK
  <2> QED
    BY <1>5, <2>1, <2>2 DEF TaskOK
<1> QED
  BY <1>1, <1>3, <1>4, <1>8, Changed

LEMMA TasksInit == Init => TasksInv
<1> SUFFICES ASSUME Init PROVE TasksInv
  OBVIOUS
<1>1. NoTask \in State
  <2>1. 0 \in 0..MaxDate /\ MaxDate + 1 \in 0..MaxDate+1 /\ 0 \in 0..MaxTask
    BY Constants
  <2>2. <<>> \in Seq(Token) /\ <<>> \in Seq(Message) /\ 0 \in Nat
    OBVIOUS
  <2> QED
    BY <2>1, <2>2 DEF NoTask, State
<1>2. TaskOK(NoTask, file, date)
  <2>1. /\ NoTask.pc = "none" /\ NoTask.messages = <<>> /\ NoTask.cache = <<>>
        /\ NoTask.last = MaxDate + 1
    BY DEF NoTask
  <2> HIDE DEF NoTask
  <2>2. Entries(NoTask.messages) = {} /\ DOMAIN NoTask.messages = {}
    BY <2>1 DEF Entries
  <2> QED
    BY <2>1, <2>2 DEF TaskOK, MessagesOK, ReportOK, Descending
<1>3. task = [k \in Task |-> NoTask]
  BY DEF Init
<1> QED
  BY <1>1, <1>2, <1>3 DEF TasksInv

LEMMA TasksStep ==
  LogInv /\ TasksInv /\ dateLog \in 0..MaxDate /\ [Next]_vars => TasksInv'
<1> SUFFICES ASSUME LogInv, TasksInv, dateLog \in 0..MaxDate, [Next]_vars
             PROVE  TasksInv'
  OBVIOUS
<1>1. ASSUME UNCHANGED task PROVE TasksInv'
  <2>1. Extends(file, date, file', date')
    BY LogExtends
  <2>2. \A k \in Task : TaskOK(task[k], file', date')
    BY <2>1, TaskKept DEF TasksInv
  <2> QED
    BY <1>1, <2>2 DEF TasksInv
<1>2. CASE UNCHANGED vars
  BY <1>1, <1>2 DEF vars
<1>3. ASSUME NEW d \in 1..MaxDate, Log(d) PROVE TasksInv'
  BY <1>1, <1>3 DEF Log
<1>4. CASE Write
  BY <1>1, <1>4 DEF Write
<1>5. ASSUME NEW r \in reports, SetReport(r) PROVE TasksInv'
  BY <1>1, <1>5 DEF SetReport
<1>6. ASSUME NEW k \in Task,
             \/ Prepare(k) \/ Command(k) \/ Repeat(k) \/ Collects(k) \/ Throws(k)
             \/ Interrupt(k) \/ Enumerate(k) \/ KillReports(k) \/ AnswerLost(k)
      PROVE  TasksInv'
  BY <1>6, MarkSteps, EndSteps, OpenStep, ReadBlockStep, TakeLineStep, LinesTakenStep,
     ConcludeStep DEF Collects
<1> QED
  BY <1>2, <1>3, <1>4, <1>5, <1>6 DEF Next
-----------------------------------------------------------------------------
(***************************************************************************)
(* The reports and the database.                                           *)
(***************************************************************************)
LEMMA CountIs ==
  ASSUME NEW m \in Seq(Message), NEW i
  PROVE  /\ Count(m, i) \in Nat
         /\ Count(m, i) > 0 <=> i \in Entries(m)
         /\ Descending(m) => Count(m, i) <= 1
<1> DEFINE at == {n \in DOMAIN m : m[n].entry = i}
<1>1. DOMAIN m = 1..Len(m) /\ Len(m) \in Nat /\ \A n \in DOMAIN m : m[n] \in Message
  OBVIOUS
<1>2. IsFiniteSet(at)
  <2>1. IsFiniteSet(1..Len(m))
    BY <1>1, FS_Interval
  <2>2. at \in SUBSET (1..Len(m))
    BY <1>1
  <2> QED
    BY <2>1, <2>2, FS_Subset
<1>3. Count(m, i) = Cardinality(at)
  BY DEF Count
<1>4. i \in Entries(m) <=> at # {}
  BY DEF Entries
<1>5. ASSUME Descending(m), NEW n \in at, NEW x \in at PROVE n = x
  <2>1. n \in DOMAIN m /\ x \in DOMAIN m /\ m[n].entry = m[x].entry
    OBVIOUS
  <2>2. n \in Nat /\ x \in Nat /\ m[n].entry \in Int
    BY <1>1, <2>1 DEF Message, Entry
  <2> HIDE DEF at
  <2>3. ~(n < x) /\ ~(x < n)
    BY <1>5, <2>1, <2>2 DEF Descending
  <2> QED
    BY <2>2, <2>3
<1> HIDE DEF at
<1>6. Cardinality(at) \in Nat /\ (Cardinality(at) = 0 <=> at = {})
  BY <1>2, FS_CardinalityType, FS_EmptySet
<1>7. ASSUME Descending(m), at # {} PROVE Cardinality(at) = 1
  <2>1. PICK n \in at : TRUE
    BY <1>7
  <2>2. at = {n}
    BY <1>5, <1>7, <2>1
  <2> QED
    BY <2>2, FS_Singleton
<1> QED
  BY <1>3, <1>4, <1>6, <1>7

ReportsInv ==
  /\ reports \subseteq Report
  /\ \A r \in reports : /\ \A i \in Entries(r.messages) : i \in DOMAIN date
                        /\ Descending(r.messages)

DbType ==
  /\ open \in 0..MaxTask /\ extras \in Nat
  /\ stored \in [Entry -> Nat] /\ dateLog \in 0..MaxDate

BaseInv == LogInv /\ TasksInv /\ ReportsInv /\ DbType

LEMMA BaseInit == Init => BaseInv
<1> SUFFICES ASSUME Init PROVE BaseInv
  OBVIOUS
<1>1. LogInv /\ TasksInv
  BY LogInit, TasksInit
<1>2. ReportsInv /\ DbType
  <2>1. 0 \in 0..MaxDate /\ 0 \in Nat /\ 0 \in 0..MaxTask
    BY Constants
  <2> QED
    BY <2>1 DEF Init, ReportsInv, DbType
<1> QED
  BY <1>1, <1>2 DEF BaseInv

\* The dates of what is there already stay.
LEMMA DatesStay ==
  ASSUME BaseInv, [Next]_vars
  PROVE  \A i \in DOMAIN date : i \in DOMAIN date' /\ date'[i] = date[i]
<1>1. /\ date \in Seq(1..MaxDate) /\ date' \in Seq(1..MaxDate) /\ Len(date) <= Len(date')
      /\ \A i \in 1..Len(date) : date'[i] = date[i]
  BY LogExtends DEF BaseInv, Extends
<1>2. /\ Len(date) \in Nat /\ Len(date') \in Nat
      /\ DOMAIN date = 1..Len(date) /\ DOMAIN date' = 1..Len(date')
  BY <1>1, SeqTypes
<1> HIDE DEF BaseInv
<1> QED
  BY <1>1, <1>2

LEMMA ReportsStep == BaseInv /\ [Next]_vars => ReportsInv'
<1> SUFFICES ASSUME BaseInv, [Next]_vars PROVE ReportsInv'
  OBVIOUS
<1>1. \A i \in DOMAIN date : i \in DOMAIN date'
  BY DatesStay
<1>2. ASSUME NEW r \in reports
      PROVE  /\ r \in Report /\ Descending(r.messages)
             /\ \A i \in Entries(r.messages) : i \in DOMAIN date'
  BY <1>1 DEF BaseInv, ReportsInv
<1>3. CASE reports' \subseteq reports
  BY <1>2, <1>3 DEF ReportsInv
<1>4. ASSUME NEW k \in Task, NEW b \in BOOLEAN, Reports(k, b) PROVE ReportsInv'
  <2> DEFINE t == task[k]
             x == [task |-> k, killed |-> b, messages |-> t.messages]
  <2>1. t \in State /\ MessagesOK(t, date)
    BY DEF BaseInv, TasksInv, TaskOK
  <2>2. x \in Report
    BY <2>1, StateFields DEF Report
  <2>3. Descending(x.messages) /\ \A i \in Entries(x.messages) : i \in DOMAIN date'
    BY <1>1, <2>1 DEF MessagesOK
  <2>4. reports' = reports \cup {x}
    BY <1>4 DEF Reports
  <2> HIDE DEF x
  <2> QED
    BY <1>2, <2>2, <2>3, <2>4 DEF ReportsInv
<1>5. ASSUME NEW k \in Task, GetOperationReport(k) \/ KillReports(k) PROVE ReportsInv'
  BY <1>3, <1>4, <1>5 DEF GetOperationReport, KillReports
<1>6. ASSUME NEW r \in reports, SetReport(r) PROVE ReportsInv'
  BY <1>3, <1>6 DEF SetReport
<1> QED
  BY <1>3, <1>5, <1>6
     DEF Next, Collects, Log, Write, Prepare, Command, Repeat, Open, ReadBlock,
         TakeLine, LinesTaken, Conclude, Throws, Interrupt, Enumerate, AnswerLost, vars

LEMMA DbStep == BaseInv /\ [Next]_vars => DbType'
<1> SUFFICES ASSUME BaseInv, [Next]_vars PROVE DbType'
  OBVIOUS
<1>1. DbType /\ date \in Seq(1..MaxDate)
  BY DEF BaseInv, LogInv, LogType
<1>2. ASSUME NEW r \in reports, SetReport(r) PROVE DbType'
  <2>1. r.messages \in Seq(Message) /\ \A i \in Entries(r.messages) : i \in DOMAIN date
    BY DEF BaseInv, ReportsInv, Report
  <2>2. \A i \in Entry : stored[i] + Count(r.messages, i) \in Nat
    BY <1>1, <2>1, CountIs DEF DbType
  <2>3. dateLog' \in 0..MaxDate
    <3>1. CASE r.messages = <<>>
      BY <1>1, <1>2, <3>1 DEF SetReport, DbType
    <3>2. CASE r.messages # <<>>
      <4>1. 1 \in DOMAIN r.messages
        BY <2>1, <3>2
      <4>2. r.messages[1].entry \in DOMAIN date
        BY <2>1, <4>1 DEF Entries
      <4>3. date[r.messages[1].entry] \in 1..MaxDate
        BY <1>1, <4>2, SeqTypes
      <4>4. date[r.messages[1].entry] \in 0..MaxDate
        BY <4>3, Constants
      <4> QED
        BY <1>2, <3>2, <4>4 DEF SetReport
    <3> QED
      BY <3>1, <3>2
  <2>4. stored' \in [Entry -> Nat]
    BY <1>2, <2>2 DEF SetReport
  <2>5. open' \in 0..MaxTask /\ extras' \in Nat
    BY <1>1, <1>2, Constants DEF SetReport, DbType
  <2> QED
    BY <2>3, <2>4, <2>5 DEF DbType
<1>3. CASE UNCHANGED db
  BY <1>1, <1>3 DEF DbType, db
<1>4. ASSUME NEW k \in Task,
             Command(k) \/ Repeat(k) \/ KillReports(k) \/ AnswerLost(k)
      PROVE  DbType'
  <2>1. extras' \in Nat
    <3>1. extras' = extras \/ extras' = extras + 1
      <4>1. CASE Command(k)
        BY <4>1 DEF Command
      <4>2. CASE KillReports(k)
        BY <4>2 DEF KillReports
      <4> QED
        BY <1>4, <4>1, <4>2 DEF Repeat, AnswerLost
    <3> QED
      BY <1>1, <3>1 DEF DbType
  <2>2. open' \in 0..MaxTask
    <3>1. k \in 0..MaxTask /\ 0 \in 0..MaxTask
      BY Constants DEF Task
    <3> QED
      BY <1>1, <1>4, <3>1 DEF DbType, Command, Repeat, KillReports, AnswerLost
  <2>3. stored' = stored /\ dateLog' = dateLog
    BY <1>4 DEF Command, Repeat, KillReports, AnswerLost
  <2> QED
    BY <1>1, <2>1, <2>2, <2>3 DEF DbType
<1> QED
  BY <1>2, <1>3, <1>4
     DEF Next, Collects, Log, Write, Prepare, Open, ReadBlock, TakeLine, LinesTaken,
         Conclude, GetOperationReport, Throws, Interrupt, Enumerate, vars

LEMMA BaseStep == BaseInv /\ [Next]_vars => BaseInv'
BY LogStep, TasksStep, ReportsStep, DbStep DEF BaseInv, DbType

LEMMA BaseAlways == Spec => []BaseInv
BY BaseInit, BaseStep, PTL DEF Spec
-----------------------------------------------------------------------------
\* The state is of the declared types: among what this takes is that the cache
\* holds nothing but parts of the log, that every entry pushed is one of the
\* log, and that the date stored is that of an entry or none.
THEOREM CollectTypeCorrect == Spec => []TypeOK
<1>1. BaseInv => TypeOK
  <2> SUFFICES ASSUME BaseInv PROVE TypeOK
    OBVIOUS
  <2>1. Len(date) <= MaxEntry /\ \A i \in DOMAIN date : date[i] \in 1..MaxDate
    <3>1. date \in Seq(1..MaxDate) /\ Len(date) <= MaxEntry
      BY DEF BaseInv, LogInv, LogType
    <3> QED
      BY <3>1, SeqTypes
  <2> QED
    BY <2>1 DEF BaseInv, LogInv, LogType, TasksInv, ReportsInv, DbType, TypeOK
<1> QED
  BY <1>1, BaseAlways, PTL

\* Wherever the blocks cut the lines and 1C breaks them, a collection that reads
\* on to its end pushes exactly the new entries, the newest first, and all but
\* the newest as 1C wrote them (MlgCollectStrategy.cs:63-105).
THEOREM CollectionReadsAll == Spec => []ReadsAll
<1>1. BaseInv => ReadsAll
  <2> SUFFICES ASSUME BaseInv, NEW k \in Task,
                      task[k].pc = "report", ~task[k].isInterrupt, ~task[k].failed
               PROVE  LET t   == task[k]
                          new == {i \in DOMAIN date : Within(i, t.size)
                                                      /\ date[i] > t.prev}
                      IN /\ {t.messages[n].entry : n \in DOMAIN t.messages} = new
                         /\ \A n, m \in DOMAIN t.messages :
                              n < m => t.messages[n].entry > t.messages[m].entry
                         /\ \A n \in DOMAIN t.messages : n > 1 => t.messages[n].clean
    BY DEF ReadsAll
  <2>1. MessagesOK(task[k], date) /\ ReportOK(task[k], file, date)
    BY DEF BaseInv, TasksInv, TaskOK
  <2>2. \A i, n : Within(i, n) <=> Has(file, n, i)
    BY DEF Within, Has
  <2> QED
    BY <2>1, <2>2 DEF MessagesOK, ReportOK, Descending, Entries
<1> QED
  BY <1>1, BaseAlways, PTL
-----------------------------------------------------------------------------
(***************************************************************************)
(* What is stored.                                                         *)
(***************************************************************************)
Started(t) == t.pc \notin {"none", "prepared"}

\* What a collection has of its command; KillTask marks what it answers for.
LaneInv ==
  /\ \A k \in Task : LET t == task[k] IN
       /\ t.pc = "prepared" => t.guid = k
       /\ Started(t) => /\ t.guid \in Task /\ Started(task[t.guid])
                        /\ task[t.guid].prev = t.prev
       /\ t.killer # "none" => Started(t)
       /\ t.killer \in {"flagged", "enumerates"} => t.isInterrupt
  /\ \A r \in reports : /\ Started(task[r.task])
                        /\ \A i \in Entries(r.messages) : date[i] > task[r.task].prev

\* How a step changes a collection.
Goes(k, t, t2) ==
  /\ t2.pc = "prepared" => t.pc = "prepared" \/ Prepare(k)
  /\ Started(t2) => Started(t) \/ Command(k) \/ Repeat(k)
  /\ Started(t) => Started(t2)
  /\ Started(t) \/ t.pc = "prepared" \/ t2.pc = "none" =>
       t2.guid = t.guid /\ t2.prev = t.prev
  /\ t.isInterrupt => t2.isInterrupt
  /\ t.failed => t2.failed
  /\ t2.killer # "none" => t.killer # "none" \/ Started(t)
  /\ t2.killer \in {"flagged", "enumerates"} =>
       t2.isInterrupt \/ t.killer \in {"flagged", "enumerates"}

LEMMA AllGo ==
  ASSUME BaseInv, [Next]_vars
  PROVE  \A k \in Task : Goes(k, task[k], task'[k])
<1>1. task \in [Task -> State]
  BY DEF BaseInv, TasksInv
<1>2. ASSUME UNCHANGED task PROVE \A k \in Task : Goes(k, task[k], task'[k])
  BY <1>2 DEF Goes
<1>3. ASSUME NEW j \in Task,
             \/ Prepare(j) \/ Command(j) \/ Repeat(j) \/ Open(j) \/ ReadBlock(j)
             \/ LinesTaken(j) \/ Conclude(j) \/ GetOperationReport(j) \/ Throws(j)
             \/ Interrupt(j) \/ Enumerate(j) \/ KillReports(j) \/ AnswerLost(j)
             \/ TakeLine(j),
             NEW k \in Task
      PROVE  Goes(k, task[k], task'[k])
  <2>1. task[k] \in State /\ task[j] \in State
    BY <1>1
  <2>2. CASE Command(j)
    BY <1>1, <2>1, <2>2 DEF Goes, Command, State, Started
  <2>3. CASE Open(j)
    BY <1>1, <2>1, <2>3 DEF Goes, Open, State, Started
  <2>4. CASE ReadBlock(j)
    BY <1>1, <2>1, <2>4 DEF Goes, ReadBlock, State, Started
  <2>5. CASE LinesTaken(j)
    BY <1>1, <2>1, <2>5 DEF Goes, LinesTaken, State, Started
  <2>6. CASE Conclude(j)
    BY <1>1, <2>1, <2>6 DEF Goes, Conclude, State, Started
  <2>7. CASE GetOperationReport(j)
    BY <1>1, <2>1, <2>7 DEF Goes, GetOperationReport, State, Started
  <2>8. CASE Throws(j)
    BY <1>1, <2>1, <2>8 DEF Goes, Throws, State, Started
  <2>9. CASE Interrupt(j)
    BY <1>1, <2>1, <2>9 DEF Goes, Interrupt, State, Started, Runs
  <2>10. CASE Enumerate(j)
    BY <1>1, <2>1, <2>10 DEF Goes, Enumerate, State, Started
  <2>11. CASE KillReports(j)
    <3>1. PICK c \in {"done", "threw"} : task' = [task EXCEPT ![j].killer = c]
      BY <2>11 DEF KillReports
    <3>2. task[j].killer # "none"
      BY <2>11 DEF KillReports
    <3> QED
      BY <1>1, <2>1, <3>1, <3>2 DEF Goes, State, Started
  <2>12. CASE AnswerLost(j)
    <3>1. task[j].pc = "over"
      BY <2>12 DEF AnswerLost
    <3> QED
      BY <1>1, <2>1, <2>12, <3>1 DEF Goes, AnswerLost, State, Started
  <2>13. CASE TakeLine(j)
    <3>1. CASE k = j
      <4>1. /\ task'[k].pc = task[k].pc /\ task'[k].killer = task[k].killer
            /\ task'[k].guid = task[k].guid /\ task'[k].prev = task[k].prev
            /\ task'[k].isInterrupt = task[k].isInterrupt
            /\ task'[k].failed = task[k].failed
        BY <1>1, <2>1, <2>13, <3>1 DEF TakeLine, State
      <4> QED
        BY <4>1 DEF Goes, Started
    <3>2. CASE k # j
      <4>1. task'[k] = task[k]
        BY <1>1, <2>13, <3>2 DEF TakeLine
      <4> QED
        BY <4>1 DEF Goes
    <3> QED
      BY <3>1, <3>2
  <2>14. CASE Prepare(j)
    <3>1. task[j].pc = "none" /\ task' = [task EXCEPT ![j].pc = "prepared",
                                             ![j].guid = j, ![j].prev = dateLog]
      BY <2>14 DEF Prepare, Fresh
    <3>2. CASE k = j
      BY <1>1, <2>1, <2>14, <3>1, <3>2 DEF Goes, State, Started
    <3>3. CASE k # j
      <4>1. task'[k] = task[k]
        BY <1>1, <3>1, <3>3
      <4> QED
        BY <4>1 DEF Goes
    <3> QED
      BY <3>2, <3>3
  <2>15. CASE Repeat(j)
    <3>1. PICK o \in Task : task' = [task EXCEPT ![j].pc = "start",
                                       ![j].guid = task[o].guid, ![j].prev = task[o].prev]
      BY <2>15 DEF Repeat
    <3>2. task[j].pc = "none"
      BY <2>15 DEF Repeat, Fresh
    <3>3. CASE k = j
      BY <1>1, <2>1, <2>15, <3>1, <3>2, <3>3 DEF Goes, State, Started
    <3>4. CASE k # j
      <4>1. task'[k] = task[k]
        BY <1>1, <3>1, <3>4
      <4> QED
        BY <4>1 DEF Goes
    <3> QED
      BY <3>3, <3>4
  <2> QED
    BY <1>3, <2>2, <2>3, <2>4, <2>5, <2>6, <2>7, <2>8, <2>9, <2>10, <2>11, <2>12, <2>13,
       <2>14, <2>15
<1> QED
  BY <1>2, <1>3 DEF Next, Collects, Log, Write, SetReport, vars

LEMMA LaneStep == BaseInv /\ LaneInv /\ [Next]_vars => LaneInv'
<1> SUFFICES ASSUME BaseInv, LaneInv, [Next]_vars PROVE LaneInv'
  OBVIOUS
<1>1. \A k \in Task : Goes(k, task[k], task'[k])
  BY AllGo
<1>2. /\ task \in [Task -> State] /\ \A r \in reports : r.task \in Task
      /\ \A r \in reports : \A i \in Entries(r.messages) : i \in DOMAIN date
  BY DEF BaseInv, TasksInv, ReportsInv, Report
<1>3. \A k \in Task : Started(task[k]) =>
         /\ Started(task'[k]) /\ task'[k].guid = task[k].guid
         /\ task'[k].prev = task[k].prev
  BY <1>1 DEF Goes
<1>4. ASSUME NEW k \in Task
      PROVE  LET t == task'[k]
             IN /\ t.pc = "prepared" => t.guid = k
                /\ Started(t) => /\ t.guid \in Task /\ Started(task'[t.guid])
                                 /\ task'[t.guid].prev = t.prev
  <2>1. ASSUME task'[k].pc = "prepared" PROVE task'[k].guid = k
    <3>1. CASE task[k].pc = "prepared"
      BY <1>1, <3>1 DEF Goes, LaneInv
    <3>2. CASE Prepare(k)
      BY <1>2, <3>2 DEF Prepare, State
    <3> QED
      BY <1>1, <2>1, <3>1, <3>2 DEF Goes
  <2>2. ASSUME Started(task'[k])
        PROVE  LET g == task'[k].guid
               IN g \in Task /\ Started(task'[g]) /\ task'[g].prev = task'[k].prev
    <3>1. CASE Started(task[k])
      BY <1>3, <3>1 DEF LaneInv
    <3>2. CASE Command(k)
      <4>1. task[k].guid = k /\ task'[k].guid = k
        BY <1>1, <3>2 DEF Command, LaneInv, Goes
      <4> QED
        BY <2>2, <4>1
    <3>3. CASE Repeat(k)
      <4>1. PICK o \in Task : /\ task[o].pc = "start"
                              /\ task' = [task EXCEPT ![k].pc = "start",
                                   ![k].guid = task[o].guid, ![k].prev = task[o].prev]
        BY <3>3 DEF Repeat
      <4>2. task'[k].guid = task[o].guid /\ task'[k].prev = task[o].prev
        BY <1>2, <4>1 DEF State
      <4>3. LET g == task[o].guid
            IN g \in Task /\ Started(task[g]) /\ task[g].prev = task[o].prev
        BY <4>1 DEF LaneInv, Started
      <4> QED
        BY <1>3, <4>2, <4>3
    <3> QED
      BY <1>1, <2>2, <3>1, <3>2, <3>3 DEF Goes
  <2> QED
    BY <2>1, <2>2
<1>5. ASSUME NEW k \in Task
      PROVE  /\ task'[k].killer # "none" => Started(task'[k])
             /\ task'[k].killer \in {"flagged", "enumerates"} => task'[k].isInterrupt
  BY <1>1 DEF Goes, LaneInv
<1>6. ASSUME NEW r \in reports
      PROVE  /\ Started(task'[r.task])
             /\ \A i \in Entries(r.messages) : date'[i] > task'[r.task].prev
  BY <1>2, <1>3, DatesStay DEF LaneInv
<1>7. ASSUME NEW k \in Task, Started(task[k]), NEW b \in BOOLEAN, Reports(k, b),
             NEW r \in reports'
      PROVE  /\ Started(task'[r.task])
             /\ \A i \in Entries(r.messages) : date'[i] > task'[r.task].prev
  <2> DEFINE x == [task |-> k, killed |-> b, messages |-> task[k].messages]
  <2>1. r \in reports \/ r = x
    BY <1>7 DEF Reports
  <2>2. \A i \in Entries(task[k].messages) : i \in DOMAIN date /\ date[i] > task[k].prev
    BY DEF BaseInv, TasksInv, TaskOK, MessagesOK
  <2>3. x.task = k /\ x.messages = task[k].messages
    OBVIOUS
  <2> HIDE DEF x
  <2>4. CASE r = x
    BY <1>3, <1>7, <2>2, <2>3, <2>4, DatesStay
  <2> QED
    BY <1>6, <2>1, <2>4
<1>8. ASSUME NEW r \in reports'
      PROVE  /\ Started(task'[r.task])
             /\ \A i \in Entries(r.messages) : date'[i] > task'[r.task].prev
  <2>1. CASE reports' \subseteq reports
    BY <1>6, <2>1
  <2>2. ASSUME NEW k \in Task, GetOperationReport(k) PROVE Started(task[k]) /\ Reports(k, FALSE)
    BY <2>2 DEF GetOperationReport, Started
  <2>3. ASSUME NEW k \in Task, KillReports(k)
        PROVE  Started(task[k]) /\ (Reports(k, TRUE) \/ reports' \subseteq reports)
    BY <2>3 DEF KillReports, LaneInv
  <2>4. ASSUME NEW x \in reports, SetReport(x) PROVE reports' \subseteq reports
    BY <2>4 DEF SetReport
  <2> QED
    BY <1>7, <2>1, <2>2, <2>3, <2>4
       DEF Next, Collects, Log, Write, Prepare, Command, Repeat, Open, ReadBlock,
           TakeLine, LinesTaken, Conclude, Throws, Interrupt, Enumerate, AnswerLost, vars
<1> QED
  BY <1>4, <1>5, <1>8 DEF LaneInv

LEMMA LaneAlways == Spec => []LaneInv
<1>1. Init => LaneInv
  BY DEF Init, LaneInv, NoTask, Started
<1> QED
  BY <1>1, LaneStep, BaseAlways, PTL DEF Spec

\* What the database has next of the entries of a report.
LEMMA Stored ==
  ASSUME BaseInv, NEW r \in reports, SetReport(r)
  PROVE  /\ r.messages \in Seq(Message)
         /\ \A i \in Entries(r.messages) : i \in DOMAIN date
         /\ \A i \in Entry : LET n == stored'[i] - stored[i]
                             IN /\ stored[i] \in Nat /\ stored'[i] \in Nat /\ n \in {0, 1}
                                /\ n = 1 <=> i \in Entries(r.messages)
         /\ r.messages = <<>> => dateLog' = dateLog
         /\ r.messages # <<>> =>
              LET e == r.messages[1].entry
              IN /\ e \in Entries(r.messages) /\ dateLog' = date[e]
                 /\ \A i \in Entries(r.messages) : i <= e /\ date[i] <= date[e]
<1> DEFINE m == r.messages
<1>1. /\ m \in Seq(Message) /\ Descending(m) /\ \A i \in Entries(m) : i \in DOMAIN date
      /\ stored \in [Entry -> Nat] /\ date \in Seq(1..MaxDate)
      /\ \A i, j \in DOMAIN date : i < j => date[i] <= date[j]
  BY DEF BaseInv, ReportsInv, Report, DbType, LogInv, LogType, Monotone
<1> HIDE DEF m
<1>2. ASSUME NEW i \in Entry
      PROVE  LET n == stored'[i] - stored[i]
             IN /\ stored[i] \in Nat /\ stored'[i] \in Nat /\ n \in {0, 1}
                /\ n = 1 <=> i \in Entries(m)
  <2>1. stored[i] \in Nat /\ stored'[i] = stored[i] + Count(m, i)
    BY <1>1 DEF SetReport, m
  <2>2. Count(m, i) \in Nat /\ Count(m, i) <= 1 /\ (Count(m, i) > 0 <=> i \in Entries(m))
    BY <1>1, CountIs
  <2> QED
    BY <2>1, <2>2
<1>3. ASSUME m # <<>>
      PROVE  LET e == m[1].entry
             IN /\ e \in Entries(m) /\ dateLog' = date[e]
                /\ \A i \in Entries(m) : i <= e /\ date[i] <= date[e]
  <2> DEFINE e == m[1].entry
  <2>1. 1 \in DOMAIN m /\ DOMAIN m = 1..Len(m) /\ Len(m) \in Nat
    BY <1>1, <1>3
  <2>2. e \in Entries(m) /\ dateLog' = date[e]
    BY <1>3, <2>1 DEF Entries, SetReport, m
  <2>3. ASSUME NEW i \in Entries(m) PROVE i <= e /\ date[i] <= date[e]
    <3>1. PICK n \in DOMAIN m : m[n].entry = i
      BY DEF Entries
    <3>2. i \in DOMAIN date /\ e \in DOMAIN date
      BY <1>1, <2>2
    <3>3. date[i] \in Int /\ date[e] \in Int /\ i \in Int /\ e \in Int
      <4>1. date[i] \in 1..MaxDate /\ date[e] \in 1..MaxDate /\ DOMAIN date = 1..Len(date)
        BY <1>1, <3>2, SeqTypes
      <4> QED
        BY <3>2, <4>1
    <3>4. n = 1 \/ 1 < n
      BY <2>1
    <3>5. i = e \/ e > i
      BY <1>1, <2>1, <3>1, <3>4 DEF Descending
    <3> HIDE DEF e
    <3> QED
      BY <1>1, <3>2, <3>3, <3>5
  <2> QED
    BY <2>2, <2>3
<1>4. m = <<>> => dateLog' = dateLog
  BY DEF SetReport, m
<1> QED
  BY <1>1, <1>2, <1>3, <1>4 DEF m

Works(k) ==
  Open(k) \/ ReadBlock(k) \/ TakeLine(k) \/ LinesTaken(k) \/ Conclude(k) \/ Throws(k)

LEMMA WorkKeeps ==
  ASSUME BaseInv, NEW k \in Task, Works(k)
  PROVE  /\ Runs(task[k]) /\ Runs(task'[k])
         /\ \A j \in Task : j # k => task'[j] = task[j]
         /\ UNCHANGED <<log, reports, db>>
<1>1. task \in [Task -> State] /\ task[k] \in State
  BY DEF BaseInv, TasksInv
<1>2. CASE Open(k)
  BY <1>1, <1>2 DEF Open, Runs, State
<1>3. CASE ReadBlock(k)
  BY <1>1, <1>3 DEF ReadBlock, Runs, State
<1>4. CASE TakeLine(k)
  <2>1. task[k].pc = "lines" /\ UNCHANGED <<log, reports, db>>
    BY <1>4 DEF TakeLine
  <2>2. task'[k].pc = task[k].pc
    BY <1>1, <1>4 DEF TakeLine, State
  <2>3. \A j \in Task : j # k => task'[j] = task[j]
    BY <1>1, <1>4 DEF TakeLine
  <2> QED
    BY <2>1, <2>2, <2>3 DEF Runs
<1>5. CASE LinesTaken(k)
  BY <1>1, <1>5 DEF LinesTaken, Runs, State
<1>6. CASE Conclude(k)
  BY <1>1, <1>6 DEF Conclude, Runs, State
<1>7. CASE Throws(k)
  BY <1>1, <1>7 DEF Throws, Runs, State
<1> QED
  BY <1>2, <1>3, <1>4, <1>5, <1>6, <1>7 DEF Works

\* Ways in which an entry of second x may still come to be stored: from each
\* collection that began below it and runs, from each of their reports, and, if
\* the date is below it, from the next command; that one is accounted for while
\* the command the lane waits for will bring it.
Due(x)  == {k \in Task : Runs(task[k]) /\ task[k].prev < x}
Sent(x) == {r \in reports : task[r.task].prev < x}
Held(x) ==
  /\ open # 0
  /\ \/ \E k \in Due(x) : task[k].guid = open
     \/ \E r \in Sent(x) : task[r.task].guid = open
Again(x) == IF dateLog < x /\ ~Held(x) THEN 1 ELSE 0
Ways(x)  == Cardinality(Due(x)) + Cardinality(Sent(x)) + Again(x)

StoreInv ==
  /\ IsFiniteSet(reports)
  /\ \A x \in 1..MaxDate : Ways(x) <= 1 + extras
  /\ \A x \in 1..MaxDate : \A i \in DOMAIN date :
       date[i] = x => stored[i] + Ways(x) <= 1 + extras
  /\ \A i \in Entry : stored[i] > 0 => i \in DOMAIN date

LEMMA OneMore ==
  ASSUME NEW S, IsFiniteSet(S), NEW a, NEW T \in SUBSET (S \cup {a})
  PROVE  /\ Cardinality(S) \in Nat /\ Cardinality(T) \in Nat
         /\ Cardinality(T) <= Cardinality(S) + 1
<1>1. /\ IsFiniteSet(S \cup {a})
      /\ Cardinality(S \cup {a}) = IF a \in S THEN Cardinality(S) ELSE Cardinality(S) + 1
  BY FS_AddElement
<1>2. IsFiniteSet(T) /\ Cardinality(T) <= Cardinality(S \cup {a})
  BY <1>1, FS_Subset
<1>3. Cardinality(S) \in Nat /\ Cardinality(T) \in Nat /\ Cardinality(S \cup {a}) \in Nat
  BY <1>1, <1>2, FS_CardinalityType
<1> QED
  BY <1>1, <1>2, <1>3

LEMMA OneLess ==
  ASSUME NEW S, IsFiniteSet(S), NEW a \in S
  PROVE  /\ Cardinality(S) \in Nat /\ Cardinality(S \ {a}) \in Nat
         /\ Cardinality(S \ {a}) = Cardinality(S) - 1
BY FS_RemoveElement, FS_CardinalityType

LEMMA WaysFinite ==
  ASSUME IsFiniteSet(reports), NEW x
  PROVE  /\ IsFiniteSet(Due(x)) /\ IsFiniteSet(Sent(x))
         /\ Cardinality(Due(x)) \in Nat /\ Cardinality(Sent(x)) \in Nat
         /\ Again(x) \in {0, 1}
<1>1. IsFiniteSet(Task)
  BY Constants, FS_Interval DEF Task
<1>2. Due(x) \subseteq Task /\ Sent(x) \subseteq reports
  BY DEF Due, Sent
<1>3. IsFiniteSet(Due(x)) /\ IsFiniteSet(Sent(x))
  BY <1>1, <1>2, FS_Subset
<1> QED
  BY <1>3, FS_CardinalityType DEF Again

LEMMA FiniteStep == BaseInv /\ IsFiniteSet(reports) /\ [Next]_vars => IsFiniteSet(reports')
<1> SUFFICES ASSUME BaseInv, IsFiniteSet(reports), [Next]_vars PROVE IsFiniteSet(reports')
  OBVIOUS
<1>1. CASE reports' \subseteq reports
  BY <1>1, FS_Subset
<1>2. ASSUME NEW k \in Task, NEW b \in BOOLEAN, Reports(k, b) PROVE IsFiniteSet(reports')
  BY <1>2, FS_AddElement DEF Reports
<1>3. ASSUME NEW k \in Task, GetOperationReport(k) PROVE IsFiniteSet(reports')
  BY <1>2, <1>3 DEF GetOperationReport
<1>4. ASSUME NEW k \in Task, KillReports(k) PROVE IsFiniteSet(reports')
  BY <1>1, <1>2, <1>4 DEF KillReports
<1>5. ASSUME NEW r \in reports, SetReport(r) PROVE IsFiniteSet(reports')
  BY <1>1, <1>5 DEF SetReport
<1> QED
  BY <1>1, <1>3, <1>4, <1>5
     DEF Next, Collects, Log, Write, Prepare, Command, Repeat, Open, ReadBlock,
         TakeLine, LinesTaken, Conclude, Throws, Interrupt, Enumerate, AnswerLost, vars

LEMMA HeldStays ==
  ASSUME NEW x, dateLog' = dateLog, Held(x) => Held(x)'
  PROVE  Again(x)' = Again(x) \/ (Again(x)' = 0 /\ Again(x) = 1)
BY DEF Again

\* A step that begins and ends no collection and leaves the database alone.
LEMMA Quiet ==
  ASSUME BaseInv, LaneInv, [Next]_vars, NEW x,
         \A k \in Task : Runs(task'[k]) <=> Runs(task[k]),
         UNCHANGED <<reports, open, dateLog>>
  PROVE  Ways(x)' = Ways(x)
<1>1. \A k \in Task : Started(task[k]) =>
         task'[k].guid = task[k].guid /\ task'[k].prev = task[k].prev
  BY AllGo DEF Goes
<1>2. \A k \in Task : Runs(task[k]) => Started(task[k])
  BY DEF Runs, Started
<1>3. \A r \in reports : r.task \in Task /\ Started(task[r.task])
  BY DEF BaseInv, ReportsInv, Report, LaneInv
<1>4. Due(x)' = Due(x)
  BY <1>1, <1>2 DEF Due
<1>5. Sent(x)' = Sent(x)
  BY <1>1, <1>3 DEF Sent
<1>6. \A k \in Due(x) : task'[k].guid = task[k].guid
  BY <1>1, <1>2 DEF Due
<1>7. \A r \in Sent(x) : task'[r.task].guid = task[r.task].guid
  BY <1>1, <1>3 DEF Sent
<1>8. Held(x)' <=> Held(x)
  BY <1>4, <1>5, <1>6, <1>7 DEF Held
<1> QED
  BY <1>4, <1>5, <1>8 DEF Ways, Again

\* A command brings no second way if the lane is free and the date that of its
\* preparation.
LEMMA CommandWays ==
  ASSUME BaseInv, LaneInv, IsFiniteSet(reports), NEW x \in 1..MaxDate,
         NEW k \in Task, Command(k)
  PROVE  Ways(x)' <= Ways(x) + (extras' - extras)
<1> DEFINE p == task[k].prev
<1>1. /\ task \in [Task -> State] /\ p \in Int /\ dateLog \in Int /\ x \in Int
      /\ extras \in Nat /\ task[k].pc = "prepared" /\ task[k].guid = k /\ k # 0
      /\ IsFiniteSet(reports') /\ open' = k /\ dateLog' = dateLog /\ reports' = reports
  <2>1. task[k] \in State /\ task[k].prev \in 0..MaxDate /\ dateLog \in 0..MaxDate
    BY StateFields DEF BaseInv, TasksInv, DbType
  <2> QED
    BY <2>1, Constants DEF BaseInv, TasksInv, DbType, Command, LaneInv, Task
<1>2. /\ task'[k].pc = "start" /\ task'[k].guid = k /\ task'[k].prev = p
      /\ \A j \in Task : j # k => task'[j] = task[j]
  BY <1>1 DEF Command, State
<1>3. /\ Cardinality(Due(x)) \in Nat /\ Cardinality(Sent(x)) \in Nat /\ Again(x) \in {0, 1}
      /\ Again(x)' \in {0, 1} /\ IsFiniteSet(Due(x))
  BY <1>1, WaysFinite DEF Again
<1>4. Sent(x)' = Sent(x)
  <2>1. \A r \in reports : r.task \in Task /\ r.task # k
    BY <1>1 DEF BaseInv, ReportsInv, Report, LaneInv, Started
  <2> QED
    BY <1>1, <1>2, <2>1 DEF Sent
<1>5. CASE p < x
  <2>1. Due(x)' \subseteq Due(x) \cup {k} /\ k \in Due(x)'
    BY <1>2, <1>5 DEF Due, Runs
  <2>2. Cardinality(Due(x)') \in Nat /\ Cardinality(Due(x)') <= Cardinality(Due(x)) + 1
    BY <1>3, <2>1, OneMore
  <2>3. Again(x)' = 0
    BY <1>1, <1>2, <2>1 DEF Held, Again
  <2>4. CASE Raced(k)
    <3>1. extras' = extras + 1
      BY <2>4 DEF Command
    <3> QED
      BY <1>1, <1>3, <1>4, <2>2, <2>3, <3>1 DEF Ways
  <2>5. CASE ~Raced(k)
    <3>1. extras' = extras /\ open = 0 /\ p = dateLog
      BY <2>5 DEF Command, Raced
    <3>2. Again(x) = 1
      BY <1>5, <3>1 DEF Again, Held
    <3> QED
      BY <1>1, <1>3, <1>4, <2>2, <2>3, <3>1, <3>2 DEF Ways
  <2> QED
    BY <2>4, <2>5
<1>6. CASE ~(p < x)
  <2>1. Due(x)' = Due(x)
    BY <1>1, <1>2, <1>6 DEF Due, Runs
  <2>2. CASE Raced(k)
    <3>1. extras' = extras + 1
      BY <2>2 DEF Command
    <3> QED
      BY <1>1, <1>3, <1>4, <2>1, <3>1 DEF Ways
  <2>3. CASE ~Raced(k)
    <3>1. extras' = extras /\ p = dateLog
      BY <2>3 DEF Command, Raced
    <3>2. Again(x)' = 0
      BY <1>1, <1>6, <3>1 DEF Again
    <3> QED
      BY <1>1, <1>3, <1>4, <2>1, <3>1, <3>2 DEF Ways
  <2> QED
    BY <2>2, <2>3
<1> QED
  BY <1>5, <1>6

LEMMA RepeatWays ==
  ASSUME BaseInv, LaneInv, IsFiniteSet(reports), NEW x, NEW k \in Task, Repeat(k)
  PROVE  Ways(x)' <= Ways(x) + (extras' - extras)
<1>1. /\ task \in [Task -> State] /\ extras \in Nat /\ extras' = extras + 1
      /\ task[k].pc = "none" /\ reports' = reports /\ open' = open /\ dateLog' = dateLog
  BY DEF BaseInv, TasksInv, DbType, Repeat, Fresh
<1>2. PICK o \in Task : task' = [task EXCEPT ![k].pc = "start",
                                   ![k].guid = task[o].guid, ![k].prev = task[o].prev]
  BY DEF Repeat
<1>3. \A j \in Task : j # k => task'[j] = task[j]
  BY <1>1, <1>2
<1>4. /\ Cardinality(Due(x)) \in Nat /\ Cardinality(Sent(x)) \in Nat /\ Again(x) \in {0, 1}
      /\ IsFiniteSet(Due(x)) /\ Again(x)' \in {0, 1}
  BY WaysFinite DEF Again
<1>5. \A r \in reports : r.task \in Task /\ r.task # k
  BY <1>1 DEF BaseInv, ReportsInv, Report, LaneInv, Started
<1>6. Sent(x)' = Sent(x)
  BY <1>1, <1>3, <1>5 DEF Sent
<1>7. Due(x)' \subseteq Due(x) \cup {k} /\ \A j \in Due(x) : j \in Due(x)' /\ j # k
  BY <1>1, <1>3 DEF Due, Runs
<1>8. Cardinality(Due(x)') \in Nat /\ Cardinality(Due(x)') <= Cardinality(Due(x)) + 1
  BY <1>4, <1>7, OneMore
<1>9. Held(x) => Held(x)'
  <2>1. \A j \in Due(x) : task'[j].guid = task[j].guid
    BY <1>3, <1>7 DEF Due
  <2>2. \A r \in Sent(x) : task'[r.task].guid = task[r.task].guid
    BY <1>3, <1>5 DEF Sent
  <2> QED
    BY <1>1, <1>6, <1>7, <2>1, <2>2 DEF Held
<1>10. Again(x)' <= Again(x)
  BY <1>1, <1>4, <1>9, HeldStays
<1> QED
  BY <1>1, <1>4, <1>6, <1>8, <1>10 DEF Ways

\* The report of a collection takes its place.
LEMMA GetReportWays ==
  ASSUME BaseInv, LaneInv, IsFiniteSet(reports), NEW x, NEW k \in Task,
         GetOperationReport(k)
  PROVE  Ways(x)' <= Ways(x) + (extras' - extras)
<1> DEFINE y == [task |-> k, killed |-> FALSE, messages |-> task[k].messages]
<1>1. /\ task \in [Task -> State] /\ extras \in Nat /\ extras' = extras
      /\ reports' = reports \cup {y} /\ open' = open /\ dateLog' = dateLog
      /\ y.task = k /\ task[k].pc = "report" /\ \A r \in reports : r.task \in Task
  BY DEF BaseInv, TasksInv, DbType, GetOperationReport, Reports, db, ReportsInv, Report
<1> HIDE DEF y
<1>2. /\ task'[k].pc = "over"
      /\ \A j \in Task : task'[j].prev = task[j].prev /\ task'[j].guid = task[j].guid
      /\ \A j \in Task : j # k => task'[j] = task[j]
  BY <1>1 DEF GetOperationReport, State
<1>3. /\ Cardinality(Due(x)) \in Nat /\ Cardinality(Sent(x)) \in Nat /\ Again(x) \in {0, 1}
      /\ IsFiniteSet(Due(x)) /\ IsFiniteSet(Sent(x)) /\ Again(x)' \in {0, 1}
  BY WaysFinite DEF Again
<1>4. Due(x)' = Due(x) \ {k}
  BY <1>1, <1>2 DEF Due, Runs
<1>5. Sent(x) \subseteq Sent(x)'
  BY <1>1, <1>2 DEF Sent
<1>6. CASE task[k].prev < x
  <2>1. k \in Due(x) /\ y \in Sent(x)' /\ Sent(x)' \subseteq Sent(x) \cup {y}
    BY <1>1, <1>2, <1>6 DEF Due, Runs, Sent
  <2>2. Cardinality(Due(x)') \in Nat /\ Cardinality(Due(x)') = Cardinality(Due(x)) - 1
    BY <1>3, <1>4, <2>1, OneLess
  <2>3. Cardinality(Sent(x)') \in Nat /\ Cardinality(Sent(x)') <= Cardinality(Sent(x)) + 1
    BY <1>3, <2>1, OneMore
  <2>4. Held(x) => Held(x)'
    <3>1. ASSUME NEW j \in Due(x), task[j].guid = open, open # 0 PROVE Held(x)'
      <4>1. CASE j = k
        BY <1>1, <1>2, <2>1, <3>1, <4>1 DEF Held
      <4>2. CASE j # k
        BY <1>1, <1>2, <1>4, <3>1, <4>2 DEF Held, Due
      <4> QED
        BY <4>1, <4>2
    <3>2. ASSUME NEW r \in Sent(x), task[r.task].guid = open, open # 0 PROVE Held(x)'
      BY <1>1, <1>2, <1>5, <3>2 DEF Held, Sent
    <3> QED
      BY <3>1, <3>2 DEF Held
  <2>5. Again(x)' <= Again(x)
    BY <1>1, <1>3, <2>4, HeldStays
  <2> QED
    BY <1>1, <1>3, <2>2, <2>3, <2>5 DEF Ways
<1>7. CASE ~(task[k].prev < x)
  <2>1. Due(x)' = Due(x) /\ Sent(x)' = Sent(x)
    BY <1>1, <1>2, <1>4, <1>7 DEF Due, Sent
  <2>2. Held(x)' <=> Held(x)
    BY <1>1, <1>2, <2>1 DEF Held, Due, Sent
  <2> QED
    BY <1>1, <1>3, <2>1, <2>2 DEF Ways, Again
<1> QED
  BY <1>6, <1>7

LEMMA KillWays ==
  ASSUME BaseInv, LaneInv, IsFiniteSet(reports), NEW x, NEW k \in Task,
         task' = [task EXCEPT ![k].killer = "done"], Reports(k, TRUE),
         UNCHANGED <<open, dateLog>>, extras' = extras + 1
  PROVE  Ways(x)' <= Ways(x) + (extras' - extras)
<1> DEFINE y == [task |-> k, killed |-> TRUE, messages |-> task[k].messages]
<1>1. /\ task \in [Task -> State] /\ extras \in Nat /\ reports' = reports \cup {y}
      /\ \A r \in reports : r.task \in Task
  BY DEF BaseInv, TasksInv, DbType, Reports, ReportsInv, Report
<1> HIDE DEF y
<1>2. \A j \in Task : /\ task'[j].prev = task[j].prev /\ task'[j].guid = task[j].guid
                      /\ task'[j].pc = task[j].pc
  BY <1>1 DEF State
<1>3. /\ Cardinality(Due(x)) \in Nat /\ Cardinality(Sent(x)) \in Nat /\ Again(x) \in {0, 1}
      /\ IsFiniteSet(Sent(x)) /\ Again(x)' \in {0, 1}
  BY WaysFinite DEF Again
<1>4. Due(x)' = Due(x)
  BY <1>2 DEF Due, Runs
<1>5. Sent(x) \subseteq Sent(x)' /\ Sent(x)' \subseteq Sent(x) \cup {y}
  BY <1>1, <1>2 DEF Sent
<1>6. Cardinality(Sent(x)') \in Nat /\ Cardinality(Sent(x)') <= Cardinality(Sent(x)) + 1
  BY <1>3, <1>5, OneMore
<1>7. Held(x) => Held(x)'
  BY <1>1, <1>2, <1>4, <1>5 DEF Held, Due, Sent
<1>8. Again(x)' <= Again(x)
  BY <1>3, <1>7, HeldStays
<1> QED
  BY <1>1, <1>3, <1>4, <1>6, <1>8 DEF Ways

LEMMA AnswerWays ==
  ASSUME BaseInv, LaneInv, IsFiniteSet(reports), NEW x, NEW k \in Task, AnswerLost(k)
  PROVE  Ways(x)' <= Ways(x) + (extras' - extras)
<1>1. /\ task \in [Task -> State] /\ extras \in Nat /\ extras' = extras + 1
      /\ reports' = reports /\ \A r \in reports : r.task \in Task
      /\ task' = [task EXCEPT ![k].killer = "done"]
  BY DEF BaseInv, TasksInv, DbType, AnswerLost, ReportsInv, Report
<1>2. \A j \in Task : task'[j].prev = task[j].prev /\ task'[j].pc = task[j].pc
  BY <1>1 DEF State
<1>3. /\ Cardinality(Due(x)) \in Nat /\ Cardinality(Sent(x)) \in Nat /\ Again(x) \in {0, 1}
      /\ Again(x)' \in {0, 1}
  BY WaysFinite DEF Again
<1>4. Due(x)' = Due(x) /\ Sent(x)' = Sent(x)
  BY <1>1, <1>2 DEF Due, Runs, Sent
<1> QED
  BY <1>1, <1>3, <1>4 DEF Ways

\* A report that is handled brings its entries, and is then no way any more; the
\* date it leaves is not below them.
LEMMA ReportWays ==
  ASSUME BaseInv, LaneInv, IsFiniteSet(reports), NEW x \in 1..MaxDate,
         NEW r \in reports, SetReport(r)
  PROVE  /\ Ways(x)' <= Ways(x) + (extras' - extras)
         /\ \A i \in Entries(r.messages) :
              date[i] = x => Ways(x)' + 1 <= Ways(x) + (extras' - extras)
<1> DEFINE p == task[r.task].prev
<1>1. /\ task' = task /\ extras \in Nat /\ dateLog \in Int /\ dateLog' \in Int /\ x \in Int
      /\ p \in Int /\ r.task \in Task /\ Started(task[r.task])
      /\ \A i \in Entries(r.messages) : date[i] > p /\ date[i] \in Int
  <2>1. /\ r.task \in Task /\ task \in [Task -> State]
        /\ dateLog \in 0..MaxDate /\ \A i \in Entries(r.messages) : i \in DOMAIN date
    BY DEF BaseInv, ReportsInv, Report, TasksInv, DbType
  <2>2. task[r.task].prev \in 0..MaxDate
    BY <2>1, StateFields
  <2>3. \A i \in DOMAIN date : date[i] \in 1..MaxDate
    BY SeqTypes DEF BaseInv, LogInv, LogType
  <2>4. dateLog' \in 0..MaxDate
    <3>1. CASE r.messages = <<>>
      BY <2>1, <3>1, Stored
    <3>2. CASE r.messages # <<>>
      <4>1. PICK e \in Entries(r.messages) : dateLog' = date[e]
        BY <3>2, Stored
      <4> QED
        BY <2>1, <2>3, <4>1, Constants
    <3> QED
      BY <3>1, <3>2
  <2> QED
    BY <2>1, <2>2, <2>3, <2>4 DEF SetReport, LaneInv, BaseInv, DbType
<1>2. \A i \in Entries(r.messages) : date[i] <= dateLog'
  <2>1. \A i \in Entries(r.messages) : r.messages # <<>>
    BY DEF Entries
  <2> QED
    BY <2>1, Stored
<1>3. /\ Cardinality(Due(x)) \in Nat /\ Cardinality(Sent(x)) \in Nat /\ Again(x) \in {0, 1}
      /\ IsFiniteSet(Sent(x)) /\ Again(x)' \in {0, 1}
  BY WaysFinite DEF Again
<1>4. Due(x)' = Due(x)
  BY <1>1 DEF Due
<1>5. ASSUME NEW i \in Entries(r.messages), date[i] = x PROVE Again(x)' = 0
  BY <1>1, <1>2, <1>5 DEF Again
<1>6. CASE reports' = reports /\ extras' = extras + 1
  <2>1. Sent(x)' = Sent(x)
    BY <1>1, <1>6 DEF Sent
  <2>2. Ways(x)' <= Ways(x) + (extras' - extras)
    BY <1>1, <1>3, <1>4, <1>6, <2>1 DEF Ways
  <2>3. ASSUME NEW i \in Entries(r.messages), date[i] = x
        PROVE  Ways(x)' + 1 <= Ways(x) + (extras' - extras)
    BY <1>1, <1>3, <1>4, <1>5, <1>6, <2>1, <2>3 DEF Ways
  <2> QED
    BY <2>2, <2>3
<1>7. CASE reports' = reports \ {r} /\ extras' = extras /\ p < x
  <2>1. r \in Sent(x) /\ Sent(x)' = Sent(x) \ {r}
    BY <1>1, <1>7 DEF Sent
  <2>2. Cardinality(Sent(x)') \in Nat /\ Cardinality(Sent(x)') = Cardinality(Sent(x)) - 1
    BY <1>3, <2>1, OneLess
  <2>3. Ways(x)' <= Ways(x) + (extras' - extras)
    BY <1>1, <1>3, <1>4, <1>7, <2>2 DEF Ways
  <2>4. ASSUME NEW i \in Entries(r.messages), date[i] = x
        PROVE  Ways(x)' + 1 <= Ways(x) + (extras' - extras)
    BY <1>1, <1>3, <1>4, <1>5, <1>7, <2>2, <2>4 DEF Ways
  <2> QED
    BY <2>3, <2>4
<1>8. CASE reports' = reports \ {r} /\ extras' = extras /\ ~(p < x)
  <2>1. r \notin Sent(x) /\ Sent(x)' = Sent(x)
    BY <1>1, <1>8 DEF Sent
  <2>2. \A i \in Entries(r.messages) : date[i] # x
    BY <1>1, <1>8
  <2>3. ASSUME ~(dateLog < x) PROVE Again(x)' = 0
    <3>1. CASE r.messages = <<>>
      BY <2>3, <3>1, Stored DEF Again
    <3>2. CASE r.messages # <<>>
      <4>1. PICK e \in Entries(r.messages) : dateLog' = date[e]
        BY <3>2, Stored
      <4>2. ~(dateLog' < x)
        BY <1>1, <1>8, <4>1
      <4> QED
        BY <4>2 DEF Again
    <3> QED
      BY <3>1, <3>2
  <2>4. ASSUME Held(x) PROVE Again(x)' = 0
    <3>1. PICK j \in Task : Started(task[j]) /\ task[j].guid = open /\ task[j].prev < x
      <4>1. \A k \in Due(x) : k \in Task /\ Started(task[k]) /\ task[k].prev < x
        BY DEF Due, Runs, Started
      <4>2. \A y \in Sent(x) : /\ y.task \in Task /\ Started(task[y.task])
                               /\ task[y.task].prev < x
        BY DEF Sent, BaseInv, ReportsInv, Report, LaneInv
      <4> QED
        BY <2>4, <4>1, <4>2 DEF Held
    <3>2. open # task[r.task].guid
      <4>1. task[task[j].guid].prev = task[j].prev /\ task[task[r.task].guid].prev = p
        BY <1>1, <3>1 DEF LaneInv
      <4> QED
        BY <1>8, <3>1, <4>1
    <3>3. open' = open
      BY <3>2 DEF SetReport
    <3>4. Held(x)'
      BY <1>1, <1>4, <2>1, <2>4, <3>3 DEF Held
    <3> QED
      BY <3>4 DEF Again
  <2>5. Again(x)' <= Again(x)
    BY <1>3, <2>3, <2>4 DEF Again
  <2>6. Ways(x)' <= Ways(x) + (extras' - extras)
    BY <1>1, <1>3, <1>4, <1>8, <2>1, <2>5 DEF Ways
  <2> QED
    BY <2>2, <2>6
<1> QED
  BY <1>6, <1>7, <1>8 DEF SetReport

LEMMA OtherWays ==
  ASSUME BaseInv, LaneInv, IsFiniteSet(reports), [Next]_vars,
         \A r \in reports : ~SetReport(r), NEW x \in 1..MaxDate
  PROVE  Ways(x)' <= Ways(x) + (extras' - extras) /\ stored' = stored
<1>1. extras \in Nat /\ task \in [Task -> State] /\ Ways(x) \in Int
  BY WaysFinite DEF BaseInv, DbType, TasksInv, Ways
<1>2. ASSUME \A k \in Task : Runs(task'[k]) <=> Runs(task[k]),
             UNCHANGED <<reports, open, dateLog, extras>>
      PROVE  Ways(x)' <= Ways(x) + (extras' - extras)
  BY <1>1, <1>2, Quiet
<1>3. CASE UNCHANGED <<task, reports, db>>
  BY <1>2, <1>3 DEF db
<1>4. ASSUME NEW k \in Task, Works(k) PROVE Ways(x)' <= Ways(x) + (extras' - extras)
  <2>1. \A j \in Task : Runs(task'[j]) <=> Runs(task[j])
    BY <1>4, WorkKeeps
  <2> QED
    BY <1>2, <1>4, <2>1, WorkKeeps DEF db
<1>5. ASSUME NEW k \in Task, Prepare(k) \/ Interrupt(k) \/ Enumerate(k)
      PROVE  Ways(x)' <= Ways(x) + (extras' - extras)
  <2>1. CASE Prepare(k)
    <3>1. \A j \in Task : Runs(task'[j]) <=> Runs(task[j])
      BY <1>1, <2>1 DEF Prepare, Fresh, Runs, State
    <3> QED
      BY <1>2, <2>1, <3>1 DEF Prepare, db
  <2>2. CASE Interrupt(k)
    <3>1. \A j \in Task : Runs(task'[j]) <=> Runs(task[j])
      BY <1>1, <2>2 DEF Interrupt, Runs, State
    <3> QED
      BY <1>2, <2>2, <3>1 DEF Interrupt, db
  <2>3. CASE Enumerate(k)
    <3>1. \A j \in Task : Runs(task'[j]) <=> Runs(task[j])
      BY <1>1, <2>3 DEF Enumerate, Runs, State
    <3> QED
      BY <1>2, <2>3, <3>1 DEF Enumerate, db
  <2> QED
    BY <1>5, <2>1, <2>2, <2>3
<1>6. ASSUME NEW k \in Task, KillReports(k) PROVE Ways(x)' <= Ways(x) + (extras' - extras)
  <2>1. CASE task[k].seen = Len(task[k].messages)
    BY <1>6, <2>1, KillWays DEF KillReports
  <2>2. CASE task[k].seen # Len(task[k].messages)
    <3>1. task' = [task EXCEPT ![k].killer = "threw"]
      BY <1>6, <2>2 DEF KillReports
    <3>2. \A j \in Task : task'[j].pc = task[j].pc
      BY <1>1, <3>1 DEF State
    <3> QED
      BY <1>2, <1>6, <2>2, <3>2 DEF KillReports, Runs
  <2> QED
    BY <2>1, <2>2
<1>7. Ways(x)' <= Ways(x) + (extras' - extras)
  BY <1>3, <1>4, <1>5, <1>6, CommandWays, RepeatWays, GetReportWays, AnswerWays
     DEF Next, Collects, Works, Log, Write, vars
<1>8. stored' = stored
  BY DEF Next, Collects, Log, Write, Prepare, Command, Repeat, Open, ReadBlock, TakeLine,
         LinesTaken, Conclude, GetOperationReport, Throws, Interrupt, Enumerate,
         KillReports, AnswerLost, db, vars
<1> QED
  BY <1>7, <1>8

LEMMA StoreStep == BaseInv /\ LaneInv /\ StoreInv /\ [Next]_vars => StoreInv'
<1> SUFFICES ASSUME BaseInv, LaneInv, StoreInv, [Next]_vars PROVE StoreInv'
  OBVIOUS
<1>1. BaseInv' /\ IsFiniteSet(reports) /\ IsFiniteSet(reports')
  BY BaseStep, FiniteStep DEF StoreInv
<1>2. /\ extras \in Nat /\ extras' \in Nat
      /\ \A x : Ways(x) \in Int /\ Ways(x)' \in Int
  <2>1. extras \in Nat /\ extras' \in Nat
    BY <1>1 DEF BaseInv, DbType
  <2>2. \A x : Ways(x) \in Int
    BY <1>1, WaysFinite DEF Ways
  <2>3. ASSUME NEW x PROVE Ways(x)' \in Int
    <3>1. /\ IsFiniteSet(Task) /\ Due(x)' \subseteq Task /\ Sent(x)' \subseteq reports'
      BY Constants, FS_Interval DEF Task, Due, Sent
    <3>2. Cardinality(Due(x)') \in Nat /\ Cardinality(Sent(x)') \in Nat
      BY <1>1, <3>1, FS_Subset, FS_CardinalityType
    <3>3. Again(x)' \in {0, 1}
      BY DEF Again
    <3> QED
      BY <3>2, <3>3 DEF Ways
  <2> QED
    BY <2>1, <2>2, <2>3
<1>3. ASSUME NEW x \in 1..MaxDate
      PROVE  /\ Ways(x)' <= Ways(x) + (extras' - extras)
             /\ \A r \in reports : SetReport(r) => \A i \in Entries(r.messages) :
                  date[i] = x => Ways(x)' + 1 <= Ways(x) + (extras' - extras)
  BY <1>1, OtherWays, ReportWays
<1>4. \A x \in 1..MaxDate : Ways(x)' <= 1 + extras'
  BY <1>2, <1>3 DEF StoreInv
<1>5. /\ date \in Seq(1..MaxDate) /\ date' \in Seq(1..MaxDate) /\ Len(date') <= MaxEntry
      /\ stored \in [Entry -> Nat] /\ stored' \in [Entry -> Nat]
      /\ \A i \in DOMAIN date : date[i] \in 1..MaxDate
      /\ \A i \in DOMAIN date' : date'[i] \in 1..MaxDate /\ i \in Entry
      /\ \A i \in DOMAIN date : i \in DOMAIN date' /\ date'[i] = date[i]
  <2>1. /\ date \in Seq(1..MaxDate) /\ date' \in Seq(1..MaxDate) /\ Len(date') <= MaxEntry
        /\ stored \in [Entry -> Nat] /\ stored' \in [Entry -> Nat]
    BY <1>1 DEF BaseInv, LogInv, LogType, DbType
  <2>2. /\ \A i \in DOMAIN date : date[i] \in 1..MaxDate
        /\ \A i \in DOMAIN date' : date'[i] \in 1..MaxDate
        /\ DOMAIN date' = 1..Len(date') /\ Len(date') \in Nat
    BY <2>1, SeqTypes
  <2>3. \A i \in DOMAIN date' : i \in Entry
    BY <2>1, <2>2, Constants DEF Entry
  <2> QED
    BY <2>1, <2>2, <2>3, DatesStay
<1>6. ASSUME NEW r \in reports, SetReport(r)
      PROVE  /\ \A x \in 1..MaxDate : \A i \in DOMAIN date' :
                  date'[i] = x => stored'[i] + Ways(x)' <= 1 + extras'
             /\ \A i \in Entry : stored'[i] > 0 => i \in DOMAIN date'
  <2>1. date' = date
    BY <1>6 DEF SetReport, log
  <2>2. ASSUME NEW i \in Entry
        PROVE  /\ stored[i] \in Nat /\ stored'[i] \in Nat
               /\ i \in Entries(r.messages) => stored'[i] = stored[i] + 1
               /\ i \notin Entries(r.messages) => stored'[i] = stored[i]
    <3>1. LET n == stored'[i] - stored[i]
          IN /\ stored[i] \in Nat /\ stored'[i] \in Nat /\ n \in {0, 1}
             /\ n = 1 <=> i \in Entries(r.messages)
      BY <1>6, Stored
    <3> QED
      BY <3>1
  <2>3. \A i \in Entries(r.messages) : i \in DOMAIN date
    BY <1>6, Stored
  <2>4. ASSUME NEW x \in 1..MaxDate, NEW i \in DOMAIN date', date'[i] = x
        PROVE  stored'[i] + Ways(x)' <= 1 + extras'
    <3>1. date[i] = x /\ i \in Entry /\ i \in DOMAIN date
      BY <1>5, <2>1, <2>4
    <3>2. stored[i] + Ways(x) <= 1 + extras
      BY <3>1 DEF StoreInv
    <3>3. Ways(x) \in Int /\ Ways(x)' \in Int
      BY <1>2
    <3>4. CASE i \in Entries(r.messages)
      <4>1. Ways(x)' + 1 <= Ways(x) + (extras' - extras)
        BY <1>3, <1>6, <3>1, <3>4
      <4>2. stored[i] \in Nat /\ stored'[i] = stored[i] + 1
        BY <2>2, <3>1, <3>4
      <4> QED
        BY <1>2, <3>2, <3>3, <4>1, <4>2
    <3>5. CASE i \notin Entries(r.messages)
      <4>1. Ways(x)' <= Ways(x) + (extras' - extras)
        BY <1>3
      <4>2. stored[i] \in Nat /\ stored'[i] = stored[i]
        BY <2>2, <3>1, <3>5
      <4> QED
        BY <1>2, <3>2, <3>3, <4>1, <4>2
    <3> QED
      BY <3>4, <3>5
  <2>5. ASSUME NEW i \in Entry, stored'[i] > 0 PROVE i \in DOMAIN date'
    BY <1>5, <2>2, <2>3, <2>5 DEF StoreInv
  <2> QED
    BY <2>4, <2>5
<1>7. ASSUME \A r \in reports : ~SetReport(r)
      PROVE  /\ \A x \in 1..MaxDate : \A i \in DOMAIN date' :
                  date'[i] = x => stored'[i] + Ways(x)' <= 1 + extras'
             /\ \A i \in Entry : stored'[i] > 0 => i \in DOMAIN date'
  <2>1. stored' = stored
    <3>1. 1 \in 1..MaxDate
      BY Constants
    <3> QED
      BY <1>1, <1>7, <3>1, OtherWays
  <2>2. ASSUME NEW x \in 1..MaxDate, NEW i \in DOMAIN date', date'[i] = x
        PROVE  stored'[i] + Ways(x)' <= 1 + extras'
    <3>1. stored[i] \in Nat /\ i \in Entry /\ Ways(x) \in Int /\ Ways(x)' \in Int
      BY <1>2, <1>5
    <3>2. CASE i \in DOMAIN date
      <4>1. stored[i] + Ways(x) <= 1 + extras
        BY <1>5, <2>2, <3>2 DEF StoreInv
      <4>2. Ways(x)' <= Ways(x) + (extras' - extras)
        BY <1>3
      <4> QED
        BY <1>2, <2>1, <3>1, <4>1, <4>2
    <3>3. CASE i \notin DOMAIN date
      <4>1. stored[i] = 0
        BY <3>1, <3>3 DEF StoreInv
      <4>2. Ways(x)' <= 1 + extras'
        BY <1>4
      <4> QED
        BY <1>2, <2>1, <3>1, <4>1, <4>2
    <3> QED
      BY <3>2, <3>3
  <2> QED
    BY <1>5, <2>1, <2>2 DEF StoreInv
<1> QED
  BY <1>1, <1>4, <1>6, <1>7 DEF StoreInv

\* No entry is stored more than once for the collection that brings it and once
\* for each thing that disturbed the one-by-one of command and report: a command
\* that came twice or from a second caller, a report handled again or made by
\* KillTask too, a command answered for in place of its report; without them no
\* entry is stored that is newer than the date (MlgCollectDataHandler.cs:52-67,
\* RemoteServiceProxy.cs:60-75, RemoteServicesManager.cs:208-231).
THEOREM EntriesStoredOnce == Spec => []StoredOnce
<1>1. Init => StoreInv
  <2> SUFFICES ASSUME Init PROVE StoreInv
    OBVIOUS
  <2>1. \A x : Due(x) = {} /\ Sent(x) = {}
    BY DEF Init, NoTask, Due, Sent, Runs
  <2>2. Cardinality({}) = 0 /\ IsFiniteSet(reports)
    BY FS_EmptySet DEF Init
  <2>3. \A x : Ways(x) <= 1
    BY <2>1, <2>2 DEF Ways, Again
  <2>4. date = <<>> /\ extras = 0 /\ \A i \in Entry : stored[i] = 0
    BY DEF Init
  <2> QED
    BY <2>2, <2>3, <2>4 DEF StoreInv
<1>2. BaseInv /\ StoreInv => StoredOnce
  <2> SUFFICES ASSUME BaseInv, StoreInv, NEW i \in DOMAIN date
               PROVE  /\ stored[i] <= 1 + extras
                      /\ extras = 0 /\ stored[i] = 1 => date[i] <= dateLog
    BY DEF StoredOnce
  <2> DEFINE x == date[i]
  <2>1. i \in Entry /\ x \in 1..MaxDate
    <3>1. Len(date) <= MaxEntry /\ date \in Seq(1..MaxDate)
      BY DEF BaseInv, LogInv, LogType
    <3>2. DOMAIN date = 1..Len(date) /\ Len(date) \in Nat /\ date[i] \in 1..MaxDate
      BY <3>1, SeqTypes
    <3> QED
      BY <3>1, <3>2, Constants DEF Entry
  <2>2. stored[i] \in Nat /\ extras \in Nat /\ dateLog \in Int
    <3>1. dateLog \in 0..MaxDate
      BY DEF BaseInv, DbType
    <3> QED
      BY <2>1, <3>1 DEF BaseInv, DbType
  <2>3. stored[i] + Ways(x) <= 1 + extras
    BY <2>1 DEF StoreInv
  <2> HIDE DEF x
  <2>4. /\ IsFiniteSet(Due(x)) /\ IsFiniteSet(Sent(x))
        /\ Cardinality(Due(x)) \in Nat /\ Cardinality(Sent(x)) \in Nat
        /\ Again(x) \in {0, 1}
    BY WaysFinite DEF StoreInv
  <2>5. stored[i] <= 1 + extras
    BY <2>2, <2>3, <2>4 DEF Ways
  <2>6. ASSUME extras = 0, stored[i] = 1 PROVE x <= dateLog
    <3>1. Cardinality(Due(x)) = 0 /\ Cardinality(Sent(x)) = 0 /\ Again(x) = 0
      BY <2>2, <2>3, <2>4, <2>6 DEF Ways
    <3>2. Due(x) = {} /\ Sent(x) = {}
      BY <2>4, <3>1, FS_EmptySet
    <3>3. ~Held(x)
      BY <3>2 DEF Held
    <3>4. ~(dateLog < x)
      BY <3>1, <3>3 DEF Again
    <3> QED
      BY <2>1, <2>2, <3>4
  <2> QED
    BY <2>5, <2>6 DEF x
<1> QED
  BY <1>1, <1>2, StoreStep, BaseAlways, LaneAlways, PTL DEF Spec
-----------------------------------------------------------------------------
(***************************************************************************)
(* No gap.                                                                 *)
(***************************************************************************)
Had == {i \in Entry : stored[i] > 0}

\* H holds an entry of date x, if there is one, and the first of every second
\* up to it.
Covered(x, d, H) ==
  /\ x > 0 => \E j \in DOMAIN d : d[j] = x /\ j \in H
  /\ \A i \in DOMAIN d : d[i] <= x => \E j \in 1..i : d[j] = d[i] /\ j \in H

Covers(m, d, H) == m # <<>> => Covered(d[m[1].entry], d, H \cup Entries(m))

Undisturbed == \A k \in Task : ~task[k].isInterrupt /\ ~task[k].failed

GapInv ==
  Undisturbed =>
    /\ Covered(dateLog, date, Had)
    /\ \A k \in Task : Covered(task[k].prev, date, Had)
    /\ \A r \in reports : Covers(r.messages, date, Had)

\* Entries made later are not older, and what is stored stays.
LEMMA CoveredKept ==
  ASSUME NEW d \in Seq(1..MaxDate), NEW d2 \in Seq(1..MaxDate),
         \A i, j \in DOMAIN d2 : i < j => d2[i] <= d2[j],
         \A i \in DOMAIN d : i \in DOMAIN d2 /\ d2[i] = d[i],
         NEW x \in Nat, NEW H, NEW H2, H \subseteq H2, Covered(x, d, H)
  PROVE  Covered(x, d2, H2)
<1>1. /\ DOMAIN d = 1..Len(d) /\ DOMAIN d2 = 1..Len(d2)
      /\ Len(d) \in Nat /\ Len(d2) \in Nat
      /\ \A i \in DOMAIN d2 : d2[i] \in 1..MaxDate
  BY SeqTypes
<1>2. ASSUME x > 0 PROVE \E j \in DOMAIN d : d2[j] = x /\ j \in H2 /\ j \in DOMAIN d2
  <2>1. PICK j \in DOMAIN d : d[j] = x /\ j \in H
    BY <1>2 DEF Covered
  <2> QED
    BY <2>1
<1>3. ASSUME NEW i \in DOMAIN d2, d2[i] <= x
      PROVE  \E j \in 1..i : d2[j] = d2[i] /\ j \in H2
  <2>1. CASE i \in DOMAIN d
    <3>1. PICK j \in 1..i : d[j] = d[i] /\ j \in H
      BY <1>3, <2>1 DEF Covered
    <3>2. j \in DOMAIN d
      BY <1>1, <2>1
    <3> QED
      BY <2>1, <3>1, <3>2
  <2>2. CASE i \notin DOMAIN d
    <3>1. d2[i] \in Nat /\ d2[i] >= 1 /\ x > 0
      BY <1>1, <1>3
    <3>2. PICK j \in DOMAIN d : d2[j] = x /\ j \in H2 /\ j \in DOMAIN d2
      BY <1>2, <3>1
    <3>3. j < i /\ j \in 1..i
      BY <1>1, <1>3, <2>2, <3>2
    <3>4. d2[j] <= d2[i]
      BY <1>3, <3>2, <3>3
    <3>5. d2[j] = d2[i]
      BY <1>3, <3>1, <3>2, <3>4
    <3> QED
      BY <3>2, <3>3, <3>5
  <2> QED
    BY <2>1, <2>2
<1> QED
  BY <1>2, <1>3 DEF Covered

\* A collection that was not disturbed covers what is not newer than its newest
\* entry: what is older than that is in the file it has read.
LEMMA ReportCovers ==
  ASSUME BaseInv, GapInv, Undisturbed, NEW k \in Task, task[k].pc = "report"
  PROVE  Covers(task[k].messages, date, Had)
<1> DEFINE t == task[k]
           m == t.messages
           e == m[1].entry
           H == Had \cup Entries(m)
<1>1. /\ t \in State /\ Descending(m) /\ t.size <= Len(file)
      /\ Entries(m) = {i \in DOMAIN date : Has(file, t.size, i) /\ date[i] > t.prev}
      /\ Covered(t.prev, date, Had)
  BY DEF BaseInv, TasksInv, TaskOK, MessagesOK, ReportOK, Undisturbed, GapInv
<1>2. /\ date \in Seq(1..MaxDate) /\ file \in Seq(Token) /\ Len(file) \in Nat
      /\ \A i, j \in DOMAIN date : i < j => date[i] <= date[j]
      /\ NoHole(file)
  BY DEF BaseInv, LogInv, LogType, Monotone, FileInv
<1>3. /\ DOMAIN date = 1..Len(date) /\ Len(date) \in Nat
      /\ \A i \in DOMAIN date : date[i] \in 1..MaxDate
  BY <1>2, SeqTypes
<1>4. t.size \in Nat /\ t.prev \in Nat /\ m \in Seq(Message)
  <2>1. t.size \in Nat /\ t.prev \in 0..MaxDate /\ m \in Seq(Message)
    BY <1>1, StateFields
  <2> QED
    BY <2>1
<1> SUFFICES ASSUME m # <<>> PROVE Covered(date[e], date, H)
  BY DEF Covers
<1> HIDE DEF t
<1>5. e \in Entries(m)
  <2>1. 1 \in DOMAIN m
    BY <1>4
  <2> QED
    BY <2>1 DEF Entries
<1>6. e \in DOMAIN date /\ Has(file, t.size, e) /\ e \in H
  BY <1>1, <1>5
<1> HIDE DEF m, e, H
<1>7. ASSUME NEW i \in DOMAIN date, i < e PROVE Has(file, t.size, i)
  <2>1. PICK q \in 1..t.size : file[q] = <<"tail", e>>
    BY <1>6 DEF Has
  <2>2. q \in 1..Len(file) /\ Data(file[q]) /\ file[q][2] = e
    BY <1>1, <1>2, <1>4, <2>1 DEF Data
  <2>3. i \in 1..(file[q][2] - 1)
    BY <1>3, <1>6, <1>7, <2>2
  <2>4. PICK p \in 1..q : file[p] = <<"tail", i>>
    BY <1>2, <2>2, <2>3 DEF NoHole
  <2>5. p \in 1..t.size
    BY <1>4, <2>4
  <2> QED
    BY <2>4, <2>5 DEF Has
<1>8. ASSUME NEW i \in DOMAIN date, date[i] <= date[e]
      PROVE  \E j \in 1..i : date[j] = date[i] /\ j \in H
  <2>1. CASE date[i] <= t.prev
    <3>1. PICK j \in 1..i : date[j] = date[i] /\ j \in Had
      BY <1>1, <2>1 DEF Covered
    <3> QED
      BY <3>1 DEF H
  <2>2. CASE date[i] > t.prev /\ i <= e
    <3>1. Has(file, t.size, i)
      BY <1>3, <1>6, <1>7, <2>2
    <3>2. i \in H /\ i \in 1..i
      BY <1>1, <1>3, <2>2, <3>1 DEF H, m
    <3> QED
      BY <3>2
  <2>3. CASE e < i
    <3>1. date[e] <= date[i] /\ e \in 1..i
      BY <1>2, <1>3, <1>6, <2>3
    <3>2. date[e] = date[i]
      BY <1>3, <1>6, <1>8, <3>1
    <3> QED
      BY <1>6, <3>1, <3>2
  <2>4. date[i] <= t.prev \/ date[i] > t.prev
    BY <1>3, <1>4
  <2>5. i <= e \/ e < i
    BY <1>3, <1>6
  <2> QED
    BY <2>1, <2>2, <2>3, <2>4, <2>5
<1> QED
  BY <1>6, <1>8 DEF Covered

LEMMA PrevIs ==
  ASSUME BaseInv, [Next]_vars, NEW k \in Task
  PROVE  task'[k].prev = dateLog \/ \E o \in Task : task'[k].prev = task[o].prev
<1>1. task \in [Task -> State] /\ task[k] \in State
  BY DEF BaseInv, TasksInv
<1>2. Goes(k, task[k], task'[k])
  BY AllGo
<1>3. CASE Started(task[k]) \/ task[k].pc = "prepared"
  BY <1>2, <1>3 DEF Goes
<1>4. CASE Prepare(k)
  BY <1>1, <1>4 DEF Prepare, State
<1>5. CASE Repeat(k)
  <2>1. PICK o \in Task : task' = [task EXCEPT ![k].pc = "start",
                                     ![k].guid = task[o].guid, ![k].prev = task[o].prev]
    BY <1>5 DEF Repeat
  <2> QED
    BY <1>1, <2>1 DEF State
<1>6. CASE task'[k].pc = "none"
  BY <1>2, <1>6 DEF Goes
<1> QED
  BY <1>2, <1>3, <1>4, <1>5, <1>6 DEF Goes, Started, Command

LEMMA GapStep == BaseInv /\ LaneInv /\ GapInv /\ [Next]_vars => GapInv'
<1> SUFFICES ASSUME BaseInv, LaneInv, GapInv, [Next]_vars, Undisturbed' PROVE GapInv'
  BY DEF GapInv
<1>1. Undisturbed
  BY AllGo DEF Undisturbed, Goes
<1>2. BaseInv'
  BY BaseStep
<1>3. /\ Covered(dateLog, date, Had)
      /\ \A k \in Task : Covered(task[k].prev, date, Had)
      /\ \A r \in reports : Covers(r.messages, date, Had)
  BY <1>1 DEF GapInv
<1>4. /\ date \in Seq(1..MaxDate) /\ date' \in Seq(1..MaxDate)
      /\ \A i, j \in DOMAIN date' : i < j => date'[i] <= date'[j]
      /\ \A i \in DOMAIN date : i \in DOMAIN date' /\ date'[i] = date[i]
  BY <1>2, DatesStay DEF BaseInv, LogInv, LogType, Monotone
<1>5. Had \subseteq Had'
  <2>1. ASSUME NEW r \in reports, SetReport(r) PROVE Had \subseteq Had'
    BY <2>1, Stored DEF Had
  <2>2. CASE UNCHANGED stored
    BY <2>2 DEF Had
  <2> QED
    BY <2>1, <2>2
       DEF Next, Collects, Log, Write, Prepare, Command, Repeat, Open, ReadBlock,
           TakeLine, LinesTaken, Conclude, GetOperationReport, Throws, Interrupt,
           Enumerate, KillReports, AnswerLost, db, vars
<1>6. ASSUME NEW x \in Nat, NEW H, NEW H2, H \subseteq H2, Covered(x, date, H)
      PROVE  Covered(x, date', H2)
  BY <1>4, <1>6, CoveredKept
<1>7. dateLog \in Nat /\ \A k \in Task : task[k].prev \in Nat
  <2>1. dateLog \in 0..MaxDate /\ \A k \in Task : task[k] \in State
    BY DEF BaseInv, DbType, TasksInv
  <2>2. \A k \in Task : task[k].prev \in 0..MaxDate
    BY <2>1, StateFields
  <2> QED
    BY <2>1, <2>2
<1>8. Covered(dateLog, date', Had')
  BY <1>3, <1>5, <1>6, <1>7
<1>9. ASSUME NEW k \in Task PROVE Covered(task'[k].prev, date', Had')
  <2>1. \A o \in Task : Covered(task[o].prev, date', Had')
    BY <1>3, <1>5, <1>6, <1>7
  <2> QED
    BY <1>8, <2>1, PrevIs
<1>10. ASSUME NEW m \in Seq(Message), \A i \in Entries(m) : i \in DOMAIN date,
              Covers(m, date, Had), m # <<>>
       PROVE  Covered(date'[m[1].entry], date', Had' \cup Entries(m))
  <2> DEFINE e == m[1].entry
  <2>1. e \in DOMAIN date
    <3>1. 1 \in DOMAIN m
      BY <1>10
    <3> QED
      BY <1>10, <3>1 DEF Entries
  <2>2. date'[e] = date[e] /\ date[e] \in Nat
    <3>1. date[e] \in 1..MaxDate
      BY <1>4, <2>1, SeqTypes
    <3> QED
      BY <1>4, <2>1, <3>1
  <2>3. Covered(date[e], date, Had \cup Entries(m))
    BY <1>10 DEF Covers
  <2>4. Had \cup Entries(m) \subseteq Had' \cup Entries(m)
    BY <1>5
  <2> HIDE DEF e
  <2>5. Covered(date[e], date', Had' \cup Entries(m))
    BY <1>6, <2>2, <2>3, <2>4
  <2>6. Covered(date'[e], date', Had' \cup Entries(m))
    BY <2>2, <2>5
  <2> QED
    BY <2>6 DEF e
<1>11. \A r \in reports : Covers(r.messages, date', Had')
  <2>1. ASSUME NEW r \in reports PROVE Covers(r.messages, date', Had')
    <3>1. r.messages \in Seq(Message) /\ \A i \in Entries(r.messages) : i \in DOMAIN date
      BY DEF BaseInv, ReportsInv, Report
    <3> QED
      BY <1>3, <1>10, <3>1 DEF Covers
  <2> QED
    BY <2>1
<1>12. \A r \in reports' : Covers(r.messages, date', Had')
  <2>1. CASE reports' \subseteq reports
    BY <1>11, <2>1
  <2>2. ASSUME NEW k \in Task, GetOperationReport(k)
        PROVE  \A r \in reports' : Covers(r.messages, date', Had')
    <3> DEFINE x == [task |-> k, killed |-> FALSE, messages |-> task[k].messages]
               m == task[k].messages
    <3>1. reports' = reports \cup {x} /\ x.messages = m
      BY <2>2 DEF GetOperationReport, Reports
    <3>2. Covers(m, date, Had)
      BY <1>1, <2>2, ReportCovers DEF GetOperationReport
    <3>3. m \in Seq(Message) /\ \A i \in Entries(m) : i \in DOMAIN date
      <4>1. task[k] \in State /\ MessagesOK(task[k], date)
        BY DEF BaseInv, TasksInv, TaskOK
      <4> QED
        BY <4>1, StateFields DEF MessagesOK
    <3> HIDE DEF m, x
    <3>4. Covers(m, date', Had')
      BY <1>10, <3>2, <3>3 DEF Covers
    <3> QED
      BY <1>11, <3>1, <3>4
  <2>3. ASSUME NEW k \in Task, KillReports(k) PROVE FALSE
    BY <1>1, <2>3 DEF LaneInv, KillReports, Undisturbed
  <2>4. ASSUME NEW r \in reports, SetReport(r) PROVE reports' \subseteq reports
    BY <2>4 DEF SetReport
  <2> QED
    BY <2>1, <2>2, <2>3, <2>4
       DEF Next, Collects, Log, Write, Prepare, Command, Repeat, Open, ReadBlock,
           TakeLine, LinesTaken, Conclude, Throws, Interrupt, Enumerate, AnswerLost, vars
<1>13. Covered(dateLog', date', Had')
  <2>1. CASE UNCHANGED dateLog
    BY <1>8, <2>1
  <2>2. ASSUME NEW r \in reports, SetReport(r) PROVE Covered(dateLog', date', Had')
    <3> DEFINE m == r.messages
    <3>1. /\ m \in Seq(Message) /\ \A i \in Entries(m) : i \in DOMAIN date
          /\ Covers(m, date, Had) /\ date' = date
      BY <1>3, <2>2, Stored DEF SetReport, log
    <3>2. CASE m = <<>>
      BY <1>8, <2>2, <3>2, Stored
    <3>3. CASE m # <<>>
      <4>1. dateLog' = date[m[1].entry]
        BY <2>2, <3>3, Stored
      <4>2. Covered(date'[m[1].entry], date', Had' \cup Entries(m))
        BY <1>10, <3>1, <3>3
      <4>3. Entries(m) \subseteq Had'
        <5>1. ASSUME NEW i \in Entries(m) PROVE i \in Entry /\ stored'[i] > 0
          <6>1. i \in Entry
            <7>1. i \in DOMAIN date /\ Len(date) <= MaxEntry
              BY <3>1 DEF BaseInv, LogInv, LogType
            <7>2. DOMAIN date = 1..Len(date) /\ Len(date) \in Nat
              BY <1>4, SeqTypes
            <7> QED
              BY <7>1, <7>2, Constants DEF Entry
          <6>2. /\ stored[i] \in Nat /\ stored'[i] \in Nat
                /\ stored'[i] - stored[i] = 1
            BY <2>2, <5>1, <6>1, Stored
          <6> QED
            BY <6>1, <6>2
        <5> QED
          BY <5>1 DEF Had
      <4>4. Had' \cup Entries(m) = Had'
        BY <4>3
      <4> HIDE DEF m
      <4> QED
        BY <3>1, <4>1, <4>2, <4>4
    <3> QED
      BY <3>2, <3>3
  <2> QED
    BY <2>1, <2>2
       DEF Next, Collects, Log, Write, Prepare, Command, Repeat, Open, ReadBlock,
           TakeLine, LinesTaken, Conclude, GetOperationReport, Throws, Interrupt,
           Enumerate, KillReports, AnswerLost, db, vars
<1> QED
  BY <1>9, <1>12, <1>13 DEF GapInv

\* As long as no collection was interrupted or has failed, the database has
\* every entry up to the date of the collection, but for those that followed
\* another within the same second (MlgCollectDataHandler.cs:63-64,
\* MlgCollectStrategy.cs:102-105).
THEOREM NothingIsMissed == Spec => []NoGap
<1>1. Init => GapInv
  <2> SUFFICES ASSUME Init PROVE GapInv
    OBVIOUS
  <2>1. \A x \in {0} : Covered(x, date, Had)
    BY DEF Init, Covered
  <2>2. dateLog = 0 /\ reports = {} /\ \A k \in Task : task[k].prev = 0
    BY DEF Init, NoTask
  <2> QED
    BY <2>1, <2>2 DEF GapInv
<1>2. BaseInv /\ GapInv => NoGap
  <2> SUFFICES ASSUME BaseInv, GapInv, Undisturbed,
                      NEW i \in DOMAIN date, date[i] <= dateLog
               PROVE  \/ stored[i] > 0
                      \/ \E j \in 1..i-1 : date[j] = date[i] /\ stored[j] > 0
    BY DEF NoGap, Undisturbed
  <2>1. PICK j \in 1..i : date[j] = date[i] /\ j \in Had
    BY DEF GapInv, Covered
  <2>2. DOMAIN date = 1..Len(date)
    BY SeqTypes DEF BaseInv, LogInv, LogType
  <2>3. j = i \/ j \in 1..i-1
    BY <2>2
  <2> QED
    BY <2>1, <2>3 DEF Had
<1> QED
  BY <1>1, <1>2, GapStep, BaseAlways, LaneAlways, PTL DEF Spec
=============================================================================
