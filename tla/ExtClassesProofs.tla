--------------------------- MODULE ExtClassesProofs ---------------------------
(***************************************************************************)
(* The extension search is exact for every table the daemon can load and   *)
(* every extension, and so is the class it gives.                          *)
(***************************************************************************)
EXTENDS ExtClasses, SequenceTheorems, TLAPS

Loaded == phase \in {"ready", "searching", "answered"}

Sorted ==
    Loaded => \A i, j \in 0 .. count - 1 : i < j => Tables[table][i].word < Tables[table][j].word

\* The most entries that can be left after each round.
Left == [r \in 0 .. Rounds |->
    CASE r = 0 -> 512 [] r = 1 -> 256 [] r = 2 -> 128 [] r = 3 -> 64 [] r = 4 -> 32
      [] r = 5 -> 16 [] r = 6 -> 8 [] r = 7 -> 4 [] r = 8 -> 2 [] OTHER -> 1]

\* The window base .. base + n - 1 lies in the table, what is above it is
\* greater than the key, and its first entry is not unless it is the first of
\* the table.
Window ==
    phase = "searching" =>
        /\ n > 0 /\ base + n <= count
        /\ n <= Left[round]
        /\ base = 0 \/ Tables[table][base].word <= key
        /\ \A j \in 0 .. count - 1 : j >= base + n => key < Tables[table][j].word

SInv == TypeOK /\ Sorted /\ Window

-----------------------------------------------------------------------------
\* The word of an extension is a number.
LEMMA WordType == \A e \in Exts : e # <<>> => Word(Tail(e)) \in Int
<1> SUFFICES ASSUME NEW e \in Exts, e # <<>> PROVE Word(Tail(e)) \in Int
  OBVIOUS
<1> DEFINE s == Tail(e)
<1>1. s \in Seq(Char)
  BY ExtsAssumption
<1>2. \A c \in Char : Or20(c) \in Digits \cup Lower
  BY DEF Char, Or20, Digits, Lower, Upper, Control
<1>3. Rank \in [Digits \cup Lower -> 1 .. 3]
  BY DEF Rank
<1>4. \A i \in 1 .. 8 : Byte(s, i) \in Int
  <2> SUFFICES ASSUME NEW i \in 1 .. 8 PROVE Byte(s, i) \in Int
    OBVIOUS
  <2>1. CASE i <= Len(s)
    <3>1. s[i] \in Char
      BY <1>1, <2>1
    <3> QED
      BY <2>1, <3>1, <1>2, <1>3 DEF Byte
  <2>2. CASE ~(i <= Len(s))
    BY <2>2 DEF Byte
  <2> QED
    BY <2>1, <2>2
<1> HIDE DEF s
<1>5. /\ Byte(s, 1) \in Int /\ Byte(s, 2) \in Int /\ Byte(s, 3) \in Int /\ Byte(s, 4) \in Int
      /\ Byte(s, 5) \in Int /\ Byte(s, 6) \in Int /\ Byte(s, 7) \in Int /\ Byte(s, 8) \in Int
  BY <1>4
<1>6. Word(s) \in Int
  <2> DEFINE a == Byte(s, 1)  b == Byte(s, 2)  c == Byte(s, 3)  d == Byte(s, 4)
             f == Byte(s, 5)  g == Byte(s, 6)  h == Byte(s, 7)  i == Byte(s, 8)
  <2>1. Word(s) = 16384 * a + 4096 * b + 1024 * c + 256 * d + 64 * f + 16 * g + 4 * h + i
    BY DEF Word
  <2> HIDE DEF a, b, c, d, f, g, h, i
  <2>2. 16384 * a + 4096 * b + 1024 * c + 256 * d + 64 * f + 16 * g + 4 * h + i \in Int
    <3>1. /\ a \in Int /\ b \in Int /\ c \in Int /\ d \in Int
          /\ f \in Int /\ g \in Int /\ h \in Int /\ i \in Int
      BY <1>5 DEF a, b, c, d, f, g, h, i
    <3> QED
      BY <3>1
  <2> QED
    BY <2>1, <2>2
<1> QED
  BY <1>6 DEF s

LEMMA TableType == \A t \in Orders, i \in Index : Tables[t][i] \in Entry
  BY TablesAssumption DEF Orders

\* A round leaves at most half of what could be left before it, rounded up.
LEMMA LeftHalves ==
    ASSUME NEW r \in 0 .. Rounds - 1, NEW m \in Nat, m <= Left[r]
    PROVE  m - m \div 2 <= Left[r + 1] \/ m = 0
  BY DEF Left, Rounds

LEMMA InitSInv == Init => SInv
<1> SUFFICES ASSUME Init PROVE SInv
  OBVIOUS
<1>1. TypeOK
  BY BlankAssumption DEF Init, TypeOK, Orders, MaxEntries, Index, Rounds
<1>2. Sorted /\ Window
  BY DEF Init, Sorted, Window, Loaded
<1> QED
  BY <1>1, <1>2 DEF SInv

-----------------------------------------------------------------------------
LEMMA LoadSInv == SInv /\ Load => SInv'
<1> SUFFICES ASSUME SInv, Load PROVE SInv'
  OBVIOUS
<1> DEFINE l == Listings[file]
<1>1. Len(l) \in Nat
  BY ListingsAssumption DEF SInv, TypeOK, Files
<1>2. CASE Accepts(l)
  <2>1. /\ phase' = "ready" /\ count' = Len(l)
        /\ table' \in Orders /\ Arranges(Tables[table'], l)
    BY <1>2, Zenon DEF Load
  <2>2. count' \in 0 .. MaxEntries
    <3>1. Len(l) <= MaxEntries
      BY <1>2, Zenon DEF Accepts
    <3>2. ASSUME NEW m \in Nat, m <= MaxEntries PROVE m \in 0 .. MaxEntries
      BY <3>2 DEF MaxEntries
    <3> QED
      BY <1>1, <2>1, <3>1, <3>2, Zenon
  <2>3. TypeOK'
    BY <2>1, <2>2 DEF SInv, TypeOK, Load
  <2>4. Sorted'
    BY <2>1 DEF Sorted, Arranges
  <2>5. Window'
    BY <2>1 DEF Window
  <2> QED
    BY <2>3, <2>4, <2>5 DEF SInv
<1>3. CASE ~Accepts(l)
  BY <1>3 DEF SInv, TypeOK, Sorted, Window, Loaded, Load
<1> QED
  BY <1>2, <1>3

LEMMA ClassifySInv == SInv /\ (\E e \in Exts : Classify(e)) => SInv'
<1> SUFFICES ASSUME SInv, NEW e \in Exts, Classify(e) PROVE SInv'
  OBVIOUS
<1>1. Sorted'
  BY DEF SInv, Sorted, Loaded, Classify
<1>2. CASE phase' = "answered"
  <2>1. TypeOK'
    BY <1>2 DEF SInv, TypeOK, Classify
  <2> QED
    BY <1>1, <1>2, <2>1 DEF SInv, Window
<1>3. CASE phase' # "answered"
  <2>1. /\ e # <<>> /\ count # 0
        /\ phase' = "searching" /\ key' = Word(Tail(e))
        /\ n' = count /\ base' = 0 /\ round' = 0
        /\ UNCHANGED <<result, file, table, count>>
    BY <1>3 DEF Classify
  <2>2. key' \in Int
    BY <2>1, WordType
  <2>3. TypeOK'
    BY <2>1, <2>2 DEF SInv, TypeOK, Index, MaxEntries, Rounds
  <2>4. Left[0] = 512
    BY DEF Left, Rounds
  <2>5. Window'
    BY <2>1, <2>4 DEF SInv, TypeOK, Window, MaxEntries
  <2> QED
    BY <1>1, <2>3, <2>5 DEF SInv
<1> QED
  BY <1>2, <1>3

\* One round keeps the window: the middle entry splits it.
LEMMA HalveSInv == SInv /\ Halve => SInv'
<1> SUFFICES ASSUME SInv, Halve PROVE SInv'
  OBVIOUS
<1> DEFINE half == n \div 2
           w(j) == Tables[table][j].word
           k == Tables[table][(base + half) % MaxEntries].word
<1>1. /\ n \in 1 .. 512 /\ base \in 0 .. 511 /\ count \in 0 .. 512 /\ base + n <= count
      /\ key \in Int /\ round \in 0 .. Rounds - 1 /\ n <= Left[round]
      /\ base = 0 \/ w(base) <= key
      /\ \A j \in 0 .. count - 1 : j >= base + n => key < w(j)
  BY DEF SInv, TypeOK, Window, Halve, MaxEntries, Index, Rounds
<1>2. half \in 0 .. n - 1 /\ half <= n - half
  BY <1>1
<1>3. (base + half) % MaxEntries = base + half /\ base + half \in 0 .. count - 1
  BY <1>1, <1>2 DEF MaxEntries
<1>4. k = w(base + half)
  BY <1>3
<1>5. \A j \in 0 .. count - 1 : w(j) \in Int
  <2> SUFFICES ASSUME NEW j \in 0 .. count - 1 PROVE w(j) \in Int
    OBVIOUS
  <2>3. count \in 0 .. 512
    BY <1>1
  <2> HIDE DEF half, k, w
  <2>1. j \in Index
    BY <2>3 DEF Index, MaxEntries
  <2> USE DEF w
  <2>2. Tables[table][j] \in Entry
    BY <2>1, TableType DEF SInv, TypeOK
  <2> QED
    BY <2>2 DEF Entry
<1>6. \A i, j \in 0 .. count - 1 : i < j => w(i) < w(j)
  BY DEF SInv, Sorted, Loaded, Halve
<1>7. /\ base' = (IF key < k THEN base ELSE base + half)
      /\ n' = n - half /\ round' = round + 1
      /\ UNCHANGED <<phase, file, table, count, key, result>>
  BY DEF Halve
<1>8. n' \in 1 .. 512 /\ n' <= Left[round']
  <2>1. n - half <= Left[round + 1]
    BY <1>1, LeftHalves
  <2> QED
    BY <1>1, <1>2, <1>7, <2>1
<1>9. base' \in 0 .. 511 /\ base' + n' <= count
  BY <1>1, <1>2, <1>7
<1>10. base' = 0 \/ w(base') <= key
  <2>1. CASE key < k
    BY <1>1, <1>7, <2>1
  <2>2. CASE ~(key < k)
    <3>1. w(base + half) <= key
      BY <1>1, <1>3, <1>4, <1>5, <2>2
    <3> QED
      BY <1>7, <2>2, <3>1
  <2> QED
    BY <2>1, <2>2
<1>11. ASSUME NEW j \in 0 .. count - 1, j >= base' + n' PROVE key < w(j)
  <2>1. CASE key < k
    <3>1. j >= base + half
      BY <1>1, <1>2, <1>7, <1>11, <2>1
    <3>2. w(base + half) <= w(j)
      <4>1. CASE j = base + half
        BY <4>1, <1>5
      <4>2. CASE j > base + half
        BY <4>2, <1>3, <1>5, <1>6
      <4> QED
        BY <3>1, <4>1, <4>2, <1>1, <1>2
    <3>3. w(j) \in Int /\ w(base + half) \in Int
      BY <1>3, <1>5
    <3> HIDE DEF k, w
    <3> QED
      BY <1>1, <1>4, <2>1, <3>2, <3>3
  <2>2. CASE ~(key < k)
    <3>1. j >= base + n
      BY <1>1, <1>2, <1>7, <1>11, <2>2
    <3> QED
      BY <1>1, <3>1
  <2> QED
    BY <2>1, <2>2
<1>12. TypeOK'
  BY <1>1, <1>7, <1>8, <1>9 DEF SInv, TypeOK, MaxEntries, Index, Rounds
<1>13. Sorted'
  BY <1>7 DEF SInv, Sorted, Loaded
<1>14. Window'
  BY <1>7, <1>8, <1>9, <1>10, <1>11 DEF Window
<1> QED
  BY <1>12, <1>13, <1>14 DEF SInv

LEMMA AnswerSInv == SInv /\ Answer => SInv'
<1> SUFFICES ASSUME SInv, Answer PROVE SInv'
  OBVIOUS
<1>1. base % MaxEntries \in Index
  BY DEF SInv, TypeOK, Index, MaxEntries
<1>2. Tables[table][base % MaxEntries].nc \in Classes \cup {Other}
  BY <1>1, TableType DEF SInv, TypeOK, Entry
<1>3. TypeOK'
  BY <1>2 DEF SInv, TypeOK, Answer
<1> QED
  BY <1>3 DEF SInv, Sorted, Window, Loaded, Answer

LEMMA UseSInv == SInv /\ Use => SInv'
<1> SUFFICES ASSUME SInv, Use PROVE SInv'
  OBVIOUS
<1>1. TypeOK'
  BY DEF SInv, TypeOK, Use, MaxEntries, Index, Rounds
<1> QED
  BY <1>1 DEF SInv, Sorted, Window, Loaded, Use

LEMMA StepSInv == SInv /\ [Next]_vars => SInv'
<1> SUFFICES ASSUME SInv, [Next]_vars PROVE SInv'
  OBVIOUS
<1>1. CASE Load
  BY <1>1, LoadSInv
<1>2. CASE \E e \in Exts : Classify(e)
  BY <1>2, ClassifySInv
<1>3. CASE Halve
  BY <1>3, HalveSInv
<1>4. CASE Answer
  BY <1>4, AnswerSInv
<1>5. CASE Use
  BY <1>5, UseSInv
<1>6. CASE UNCHANGED vars
  BY <1>6 DEF SInv, TypeOK, Sorted, Window, Loaded, vars
<1> QED
  BY <1>1, <1>2, <1>3, <1>4, <1>5, <1>6 DEF Next

\* With one entry left, the window's first entry is the only candidate.
LEMMA SInvExact == SInv => SearchExact
<1> SUFFICES ASSUME SInv, phase = "searching", round = Rounds
             PROVE  /\ n = 1 /\ base < count
                    /\ \A j \in 0 .. count - 1 : Tables[table][j].word = key => j = base
  BY DEF SearchExact
<1>1. Left[Rounds] = 1
  BY DEF Left, Rounds
<1>2. /\ n = 1 /\ base \in 0 .. count - 1 /\ count \in 0 .. 512 /\ key \in Int
      /\ base = 0 \/ Tables[table][base].word <= key
      /\ \A j \in 0 .. count - 1 : j >= base + 1 => key < Tables[table][j].word
  <2>1. n = 1
    <3>1. n \in 0 .. 512
      BY DEF SInv, TypeOK, MaxEntries
    <3>2. n > 0 /\ n <= Left[Rounds]
      BY DEF SInv, Window
    <3> QED
      BY <1>1, <3>1, <3>2
  <2>2. base \in 0 .. count - 1 /\ count \in 0 .. 512 /\ key \in Int
    <3>1. base \in 0 .. 511 /\ count \in 0 .. 512 /\ key \in Int
      BY DEF SInv, TypeOK, MaxEntries, Index
    <3>2. base + n <= count
      BY DEF SInv, Window
    <3> QED
      BY <2>1, <3>1, <3>2
  <2> QED
    BY <2>1, <2>2 DEF SInv, Window
<1>3. ASSUME NEW j \in 0 .. count - 1, Tables[table][j].word = key PROVE j = base
  <2>1. ~(j >= base + 1)
    BY <1>2, <1>3
  <2>2. CASE j < base
    <3>1. Tables[table][j].word < Tables[table][base].word
      BY <1>2, <2>2 DEF SInv, Sorted, Loaded
    <3>2. Tables[table][base].word \in Int
      BY <1>2, TableType DEF SInv, TypeOK, Entry, Index, MaxEntries
    <3> QED
      BY <1>2, <1>3, <2>2, <3>1, <3>2
  <2> QED
    BY <1>2, <2>1, <2>2
<1> QED
  BY <1>2, <1>3

-----------------------------------------------------------------------------
\* For every listing the daemon loads and every extension, ten rounds leave
\* exactly the one entry that can have the key (mon_files.bpf.c:303-304).
THEOREM SearchCorrect == Spec => []SearchExact
<1>1. Spec => []SInv
  BY InitSInv, StepSInv, PTL DEF Spec
<1> QED
  BY <1>1, SInvExact, PTL

\* The search's variables keep their types: base stays in the table and no round is
\* one too many, whatever the listing and the extension.
THEOREM TypeCorrect == Spec => []TypeOK
<1>1. SInv => TypeOK
  BY DEF SInv
<1> QED
  BY InitSInv, StepSInv, <1>1, PTL DEF Spec

-----------------------------------------------------------------------------
(***************************************************************************)
(* From words back to extensions: a word tells the eight ranks, and the    *)
(* ranks tell the letters and digits up to case.                           *)
(***************************************************************************)

Plain == Digits \cup Upper \cup Lower
Name8(s) == s \in Seq(Char) /\ Len(s) <= 8 /\ \A i \in 1 .. Len(s) : s[i] \in Plain

\* The last digit of a number in base 4.
LEMMA LastDigit ==
    ASSUME NEW x \in Int, NEW y \in Int, NEW a \in 0 .. 3, NEW b \in 0 .. 3, 4 * x + a = 4 * y + b
    PROVE  x = y /\ a = b
<1>1. 4 * (x - y) = b - a
  OBVIOUS
<1>2. b - a \in -3 .. 3
  OBVIOUS
<1>3. PICK d : d \in Int /\ d = x - y
  OBVIOUS
<1>4. 4 * d \in -3 .. 3
  BY <1>1, <1>2, <1>3
<1>5. d = 0
  BY <1>3, <1>4
<1> QED
  BY <1>1, <1>3, <1>5

\* A byte of a name: 0 behind its end, the rank of its character otherwise.
LEMMA ByteOf ==
    ASSUME NEW s, Name8(s), NEW i \in 1 .. 8
    PROVE  /\ Byte(s, i) \in 0 .. 3
           /\ Byte(s, i) = 0 <=> i > Len(s)
           /\ i <= Len(s) => Byte(s, i) = Rank[Lowercase(s[i])]
<1>1. \A c \in Plain : Or20(c) = Lowercase(c) /\ Lowercase(c) \in Digits \cup Lower
  BY DEF Plain, Or20, Lowercase, Digits, Lower, Upper, Control
<1>2. Rank \in [Digits \cup Lower -> 1 .. 3]
  BY DEF Rank
<1>3. Len(s) \in Nat
  BY DEF Name8
<1>4. CASE i <= Len(s)
  <2>1. s[i] \in Plain
    BY <1>3, <1>4 DEF Name8
  <2>2. Byte(s, i) = Rank[Lowercase(s[i])] /\ Rank[Lowercase(s[i])] \in 1 .. 3
    BY <1>1, <1>2, <1>4, <2>1 DEF Byte
  <2> QED
    BY <1>3, <1>4, <2>2
<1>5. CASE i > Len(s)
  BY <1>3, <1>5 DEF Byte
<1> QED
  BY <1>3, <1>4, <1>5

\* Characters of one rank are one letter or digit.
LEMMA RankTells ==
    ASSUME NEW c \in Plain, NEW d \in Plain, Rank[Lowercase(c)] = Rank[Lowercase(d)]
    PROVE  Lowercase(c) = Lowercase(d)
<1>1. Lowercase(c) \in {48, 97, 98} /\ Lowercase(d) \in {48, 97, 98}
  BY DEF Plain, Lowercase, Digits, Lower, Upper
<1>2. Rank[48] = 1 /\ Rank[97] = 2 /\ Rank[98] = 3
  BY DEF Rank, Digits, Lower
<1> QED
  BY <1>1, <1>2

\* The number with these digits in base 4.
Pack(a1, a2, a3, a4, a5, a6, a7, a8) ==
    16384 * a1 + 4096 * a2 + 1024 * a3 + 256 * a4 + 64 * a5 + 16 * a6 + 4 * a7 + a8

LEMMA WordPacks ==
    ASSUME NEW s
    PROVE  Word(s) = Pack(Byte(s, 1), Byte(s, 2), Byte(s, 3), Byte(s, 4),
                          Byte(s, 5), Byte(s, 6), Byte(s, 7), Byte(s, 8))
  BY DEF Word, Pack

\* A word's bytes and its stages, one more digit each.
LEMMA WordStages ==
    ASSUME NEW s, Name8(s)
    PROVE  \E c \in [1 .. 8 -> 0 .. 3], p \in [1 .. 8 -> Int] :
              /\ \A i \in 1 .. 8 : c[i] = Byte(s, i)
              /\ p[1] = c[1] /\ \A i \in 2 .. 8 : p[i] = 4 * p[i - 1] + c[i]
              /\ Word(s) = p[8]
<1>1. PICK c1 \in 0 .. 3 : c1 = Byte(s, 1)
  BY ByteOf
<1>2. PICK c2 \in 0 .. 3 : c2 = Byte(s, 2)
  BY ByteOf
<1>3. PICK c3 \in 0 .. 3 : c3 = Byte(s, 3)
  BY ByteOf
<1>4. PICK c4 \in 0 .. 3 : c4 = Byte(s, 4)
  BY ByteOf
<1>5. PICK c5 \in 0 .. 3 : c5 = Byte(s, 5)
  BY ByteOf
<1>6. PICK c6 \in 0 .. 3 : c6 = Byte(s, 6)
  BY ByteOf
<1>7. PICK c7 \in 0 .. 3 : c7 = Byte(s, 7)
  BY ByteOf
<1>8. PICK c8 \in 0 .. 3 : c8 = Byte(s, 8)
  BY ByteOf
<1>9. PICK p1 \in Int : p1 = c1
  OBVIOUS
<1>10. PICK p2 \in Int : p2 = 4 * p1 + c2
  OBVIOUS
<1>11. PICK p3 \in Int : p3 = 4 * p2 + c3
  OBVIOUS
<1>12. PICK p4 \in Int : p4 = 4 * p3 + c4
  OBVIOUS
<1>13. PICK p5 \in Int : p5 = 4 * p4 + c5
  OBVIOUS
<1>14. PICK p6 \in Int : p6 = 4 * p5 + c6
  OBVIOUS
<1>15. PICK p7 \in Int : p7 = 4 * p6 + c7
  OBVIOUS
<1>16. PICK p8 \in Int : p8 = 4 * p7 + c8
  OBVIOUS
<1>17. Word(s) = Pack(c1, c2, c3, c4, c5, c6, c7, c8)
  BY <1>1, <1>2, <1>3, <1>4, <1>5, <1>6, <1>7, <1>8, WordPacks, Zenon
<1>18. Pack(c1, c2, c3, c4, c5, c6, c7, c8) = p8
  BY <1>9, <1>10, <1>11, <1>12, <1>13, <1>14, <1>15, <1>16 DEF Pack
<1>19. PICK c : c = [i \in 1 .. 8 |->
           CASE i = 1 -> c1 [] i = 2 -> c2 [] i = 3 -> c3 [] i = 4 -> c4
             [] i = 5 -> c5 [] i = 6 -> c6 [] i = 7 -> c7 [] OTHER -> c8]
  OBVIOUS
<1>20. PICK p : p = [i \in 1 .. 8 |->
           CASE i = 1 -> p1 [] i = 2 -> p2 [] i = 3 -> p3 [] i = 4 -> p4
             [] i = 5 -> p5 [] i = 6 -> p6 [] i = 7 -> p7 [] OTHER -> p8]
  OBVIOUS
<1>21. c \in [1 .. 8 -> 0 .. 3] /\ p \in [1 .. 8 -> Int]
  BY <1>19, <1>20
<1>22. /\ c[1] = c1 /\ c[2] = c2 /\ c[3] = c3 /\ c[4] = c4
       /\ c[5] = c5 /\ c[6] = c6 /\ c[7] = c7 /\ c[8] = c8
  BY <1>19
<1>23. /\ p[1] = p1 /\ p[2] = p2 /\ p[3] = p3 /\ p[4] = p4
       /\ p[5] = p5 /\ p[6] = p6 /\ p[7] = p7 /\ p[8] = p8
  BY <1>20
<1>24. ASSUME NEW i \in 1 .. 8 PROVE c[i] = Byte(s, i)
  <2>1. i = 1 \/ i = 2 \/ i = 3 \/ i = 4 \/ i = 5 \/ i = 6 \/ i = 7 \/ i = 8
    OBVIOUS
  <2> QED
    BY <2>1, <1>1, <1>2, <1>3, <1>4, <1>5, <1>6, <1>7, <1>8, <1>22
<1>25. ASSUME NEW i \in 2 .. 8 PROVE p[i] = 4 * p[i - 1] + c[i]
  <2>1. i = 2 \/ i = 3 \/ i = 4 \/ i = 5 \/ i = 6 \/ i = 7 \/ i = 8
    OBVIOUS
  <2>2. CASE i = 2
    BY <2>2, <1>10, <1>22, <1>23
  <2>3. CASE i = 3
    BY <2>3, <1>11, <1>22, <1>23
  <2>4. CASE i = 4
    BY <2>4, <1>12, <1>22, <1>23
  <2>5. CASE i = 5
    BY <2>5, <1>13, <1>22, <1>23
  <2>6. CASE i = 6
    BY <2>6, <1>14, <1>22, <1>23
  <2>7. CASE i = 7
    BY <2>7, <1>15, <1>22, <1>23
  <2>8. CASE i = 8
    BY <2>8, <1>16, <1>22, <1>23
  <2> QED
    BY <2>1, <2>2, <2>3, <2>4, <2>5, <2>6, <2>7, <2>8
<1> QED
  BY <1>9, <1>17, <1>18, <1>21, <1>22, <1>23, <1>24, <1>25

\* Equal words have equal bytes.
LEMMA WordTells ==
    ASSUME NEW s, NEW t, Name8(s), Name8(t), Word(s) = Word(t)
    PROVE  \A i \in 1 .. 8 : Byte(s, i) = Byte(t, i)
<1>1. PICK c \in [1 .. 8 -> 0 .. 3], p \in [1 .. 8 -> Int] :
         /\ \A i \in 1 .. 8 : c[i] = Byte(s, i)
         /\ p[1] = c[1] /\ \A i \in 2 .. 8 : p[i] = 4 * p[i - 1] + c[i]
         /\ Word(s) = p[8]
  BY WordStages
<1>2. PICK d \in [1 .. 8 -> 0 .. 3], q \in [1 .. 8 -> Int] :
         /\ \A i \in 1 .. 8 : d[i] = Byte(t, i)
         /\ q[1] = d[1] /\ \A i \in 2 .. 8 : q[i] = 4 * q[i - 1] + d[i]
         /\ Word(t) = q[8]
  BY WordStages
<1>3. ASSUME NEW i \in 2 .. 8, p[i] = q[i] PROVE p[i - 1] = q[i - 1] /\ c[i] = d[i]
  <2>1. 4 * p[i - 1] + c[i] = 4 * q[i - 1] + d[i]
    <3>1. p[i] = 4 * p[i - 1] + c[i]
      BY <1>1
    <3>2. q[i] = 4 * q[i - 1] + d[i]
      BY <1>2
    <3> QED
      BY <1>3, <3>1, <3>2
  <2>2. i - 1 \in 1 .. 8 /\ i \in 1 .. 8
    OBVIOUS
  <2>3. PICK x \in Int : x = p[i - 1]
    BY <2>2
  <2>4. PICK y \in Int : y = q[i - 1]
    BY <2>2
  <2>5. PICK a \in 0 .. 3 : a = c[i]
    BY <2>2
  <2>6. PICK b \in 0 .. 3 : b = d[i]
    BY <2>2
  <2>7. 4 * x + a = 4 * y + b
    BY <2>1, <2>3, <2>4, <2>5, <2>6
  <2>8. x = y /\ a = b
    BY <2>7, LastDigit
  <2> QED
    BY <2>3, <2>4, <2>5, <2>6, <2>8
<1>4. p[8] = q[8]
  BY <1>1, <1>2
<1>5. p[7] = q[7] /\ c[8] = d[8]
  BY <1>3, <1>4
<1>6. p[6] = q[6] /\ c[7] = d[7]
  BY <1>3, <1>5
<1>7. p[5] = q[5] /\ c[6] = d[6]
  BY <1>3, <1>6
<1>8. p[4] = q[4] /\ c[5] = d[5]
  BY <1>3, <1>7
<1>9. p[3] = q[3] /\ c[4] = d[4]
  BY <1>3, <1>8
<1>10. p[2] = q[2] /\ c[3] = d[3]
  BY <1>3, <1>9
<1>11. p[1] = q[1] /\ c[2] = d[2]
  BY <1>3, <1>10
<1>12. ASSUME NEW i \in 1 .. 8 PROVE c[i] = d[i]
  <2>1. i = 1 \/ i = 2 \/ i = 3 \/ i = 4 \/ i = 5 \/ i = 6 \/ i = 7 \/ i = 8
    OBVIOUS
  <2> QED
    BY <2>1, <1>1, <1>2, <1>5, <1>6, <1>7, <1>8, <1>9, <1>10, <1>11
<1> QED
  BY <1>1, <1>2, <1>12

LEMMA NameShape ==
    ASSUME NEW s, Name8(s)
    PROVE  /\ s \in Seq(Char) /\ Len(s) \in Nat /\ Len(s) <= 8
           /\ DOMAIN s = 1 .. Len(s)
           /\ \A i \in 1 .. Len(s) : s[i] \in Plain
<1>1. s \in Seq(Char) /\ Len(s) <= 8 /\ \A i \in 1 .. Len(s) : s[i] \in Plain
  BY DEF Name8
<1>2. Len(s) \in Nat /\ DOMAIN s = 1 .. Len(s)
  BY <1>1, LenProperties
<1> QED
  BY <1>1, <1>2

\* Two lengths up to eight with the same numbers behind them are one length.
LEMMA SameEnd ==
    ASSUME NEW m \in Nat, NEW k \in Nat, m <= 8, k <= 8,
           \A i \in 1 .. 8 : i > m <=> i > k
    PROVE  m = k
<1>1. ~(m < k)
  <2>1. SUFFICES ASSUME m < k PROVE FALSE
    OBVIOUS
  <2>2. k \in 1 .. 8
    BY <2>1
  <2>3. k > m <=> k > k
    BY <2>2
  <2> QED
    BY <2>1, <2>3
<1>2. ~(k < m)
  <2>1. SUFFICES ASSUME k < m PROVE FALSE
    OBVIOUS
  <2>2. m \in 1 .. 8
    BY <2>1
  <2>3. m > m <=> m > k
    BY <2>2
  <2> QED
    BY <2>1, <2>3
<1> QED
  BY <1>1, <1>2

\* An initial segment tells its length.
LEMMA SameSegment ==
    ASSUME NEW m \in Nat, NEW k \in Nat, 1 .. m = 1 .. k PROVE m = k
<1>1. ~(m < k)
  <2>1. SUFFICES ASSUME m < k PROVE FALSE
    OBVIOUS
  <2>2. k \in 1 .. k /\ k \notin 1 .. m
    BY <2>1
  <2> QED
    BY <2>2
<1>2. ~(k < m)
  <2>1. SUFFICES ASSUME k < m PROVE FALSE
    OBVIOUS
  <2>2. m \in 1 .. m /\ m \notin 1 .. k
    BY <2>1
  <2> QED
    BY <2>2
<1> QED
  BY <1>1, <1>2

\* A word tells its extension up to letter case.
LEMMA WordGivesFold ==
    ASSUME NEW s, NEW t, Name8(s), Name8(t), Word(s) = Word(t) PROVE Fold(s) = Fold(t)
<1>1. PICK m \in Nat : m = Len(s) /\ m <= 8 /\ DOMAIN s = 1 .. m /\ \A i \in 1 .. m : s[i] \in Plain
  BY NameShape
<1>2. PICK k \in Nat : k = Len(t) /\ k <= 8 /\ DOMAIN t = 1 .. k /\ \A i \in 1 .. k : t[i] \in Plain
  BY NameShape
<1>3. \A i \in 1 .. 8 : Byte(s, i) = Byte(t, i)
  BY WordTells
<1>4. \A i \in 1 .. 8 : /\ Byte(s, i) = 0 <=> i > m
                        /\ i <= m => Byte(s, i) = Rank[Lowercase(s[i])]
  BY <1>1, ByteOf
<1>5. \A i \in 1 .. 8 : /\ Byte(t, i) = 0 <=> i > k
                        /\ i <= k => Byte(t, i) = Rank[Lowercase(t[i])]
  BY <1>2, ByteOf
<1>6. m = k
  <2>1. \A i \in 1 .. 8 : i > m <=> i > k
    <3> SUFFICES ASSUME NEW i \in 1 .. 8 PROVE i > m <=> i > k
      OBVIOUS
    <3> QED
      BY <1>3, <1>4, <1>5
  <2>2. m <= 8 /\ k <= 8
    BY <1>1, <1>2
  <2> QED
    BY <2>1, <2>2, SameEnd
<1>7. ASSUME NEW i \in 1 .. m PROVE Lowercase(s[i]) = Lowercase(t[i])
  <2>1. i \in 1 .. 8 /\ i <= m /\ i <= k
    BY <1>1, <1>6
  <2>2. Rank[Lowercase(s[i])] = Rank[Lowercase(t[i])]
    BY <1>3, <1>4, <1>5, <2>1
  <2>3. s[i] \in Plain /\ t[i] \in Plain
    BY <1>1, <1>2, <1>6
  <2> QED
    BY <2>2, <2>3, RankTells
<1>8. DOMAIN s = 1 .. m /\ DOMAIN t = 1 .. m
  BY <1>1, <1>2, <1>6
<1> QED
  BY <1>7, <1>8 DEF Fold

\* Extensions equal up to letter case have one word.
LEMMA FoldGivesWord ==
    ASSUME NEW s, NEW t, Name8(s), Name8(t), Fold(s) = Fold(t) PROVE Word(s) = Word(t)
<1>1. PICK m \in Nat : m = Len(s) /\ m <= 8 /\ DOMAIN s = 1 .. m
  BY NameShape
<1>2. PICK k \in Nat : k = Len(t) /\ k <= 8 /\ DOMAIN t = 1 .. k
  BY NameShape
<1>3. DOMAIN Fold(s) = DOMAIN s /\ DOMAIN Fold(t) = DOMAIN t
  BY DEF Fold
<1>4. m = k
  <2>1. 1 .. m = 1 .. k
    BY <1>1, <1>2, <1>3
  <2> QED
    BY <2>1, SameSegment
<1>5. ASSUME NEW i \in 1 .. m PROVE Lowercase(s[i]) = Lowercase(t[i])
  <2>1. i \in DOMAIN s /\ i \in DOMAIN t
    BY <1>1, <1>2, <1>4
  <2>2. Fold(s)[i] = Lowercase(s[i]) /\ Fold(t)[i] = Lowercase(t[i])
    BY <2>1 DEF Fold
  <2> QED
    BY <2>2
<1>6. ASSUME NEW i \in 1 .. 8 PROVE Byte(s, i) = Byte(t, i)
  <2>1. CASE i <= m
    <3>1. i \in 1 .. m
      BY <2>1
    <3>2. Byte(s, i) = Rank[Lowercase(s[i])]
      BY <1>1, <2>1, ByteOf
    <3>3. Byte(t, i) = Rank[Lowercase(t[i])]
      BY <1>2, <1>4, <2>1, ByteOf
    <3> QED
      BY <1>5, <3>1, <3>2, <3>3
  <2>2. CASE i > m
    <3>1. Byte(s, i) = 0
      BY <1>1, <2>2, ByteOf
    <3>2. Byte(t, i) = 0
      BY <1>2, <1>4, <2>2, ByteOf
    <3> QED
      BY <3>1, <3>2
  <2> QED
    BY <2>1, <2>2
<1>7. /\ Byte(s, 1) = Byte(t, 1) /\ Byte(s, 2) = Byte(t, 2) /\ Byte(s, 3) = Byte(t, 3)
      /\ Byte(s, 4) = Byte(t, 4) /\ Byte(s, 5) = Byte(t, 5) /\ Byte(s, 6) = Byte(t, 6)
      /\ Byte(s, 7) = Byte(t, 7) /\ Byte(s, 8) = Byte(t, 8)
  BY <1>6
<1> QED
  BY <1>7, WordPacks, Zenon

-----------------------------------------------------------------------------
(***************************************************************************)
(* The class: the table holds the accepted listing, the key is the word of *)
(* the extension, and so the one candidate is the listed one.              *)
(***************************************************************************)

\* ListedAs and the answer, for a listing.
Has(l, e, nc) == \E i \in DOMAIN l : Fold(l[i].ext) = Fold(Tail(e)) /\ l[i].nc = nc
Right(l, e, r) ==
    (\A i \in 2 .. Len(e) : e[i] \notin Control) =>
        IF Len(e) > 1 /\ \E nc \in Classes : Has(l, e, nc) THEN Has(l, e, r) ELSE r = Other

Holds(l, t, c) == Accepts(l) /\ Arranges(t, l) /\ c = Len(l)
Filled == Loaded => Holds(Listings[file], Tables[table], count)
Keys(e, k) == e \in Exts /\ Len(e) \in 2 .. 9 /\ k = Word(Tail(e))
Keyed == phase = "searching" => Keys(ext, key)
Correct == phase = "answered" => Right(Listings[file], ext, result)

CInv == SInv /\ Filled /\ Keyed /\ Correct

\* What an extension of two characters or more is.
LEMMA ExtShape ==
    ASSUME NEW e \in Exts, e # <<>>
    PROVE  /\ Len(e) \in Nat /\ Tail(e) \in Seq(Char) /\ Len(Tail(e)) = Len(e) - 1
           /\ \A i \in 1 .. Len(e) - 1 : Tail(e)[i] = e[i + 1]
<1>1. e \in Seq(Char \cup {Dot}) /\ Tail(e) \in Seq(Char)
  BY ExtsAssumption
<1>2. Len(e) \in Nat
  BY <1>1, LenProperties
<1>3. Len(Tail(e)) = Len(e) - 1 /\ \A i \in 1 .. Len(Tail(e)) : Tail(e)[i] = e[i + 1]
  BY <1>1, HeadTailProperties
<1> QED
  BY <1>1, <1>2, <1>3

\* Without control characters, an extension the search takes is a name.
LEMMA TailName ==
    ASSUME NEW e \in Exts, Len(e) \in 2 .. 9, \A i \in 2 .. Len(e) : e[i] \notin Control
    PROVE  Name8(Tail(e))
<1>1. e # <<>>
  <2> SUFFICES ASSUME e = <<>> PROVE FALSE
    OBVIOUS
  <2>1. Len(e) = 0
    OBVIOUS
  <2>2. 0 \notin 2 .. 9 /\ ~(0 > 9)
    OBVIOUS
  <2> QED
    BY <2>1, <2>2, Zenon
<1>2. /\ Tail(e) \in Seq(Char) /\ Len(Tail(e)) = Len(e) - 1
      /\ \A i \in 1 .. Len(e) - 1 : Tail(e)[i] = e[i + 1]
  BY <1>1, ExtShape
<1>3. ASSUME NEW i \in 1 .. Len(Tail(e)) PROVE Tail(e)[i] \in Plain
  <2>1. i \in 1 .. Len(e) - 1 /\ i + 1 \in 2 .. Len(e)
    BY <1>2
  <2>2. Tail(e)[i] \notin Control
    BY <1>2, <2>1
  <2>3. Tail(e)[i] \in Char
    BY <1>2
  <2> QED
    BY <2>2, <2>3 DEF Char, Plain
<1>4. Len(Tail(e)) <= 8
  BY <1>2
<1> QED
  BY <1>2, <1>3, <1>4 DEF Name8

\* The extensions of an accepted listing are names.
LEMMA EntryName ==
    ASSUME NEW l \in Seq(Listed), Accepts(l), NEW i \in DOMAIN l
    PROVE  Name8(l[i].ext) /\ l[i].nc \in Classes
<1>1. l[i] \in Listed
  OBVIOUS
<1>2. l[i].ext \in Seq(Char) /\ l[i].nc \in Classes
  BY <1>1 DEF Listed
<1>3. PICK s \in Seq(Char) : s = l[i].ext
  BY <1>2
<1>4. Len(s) \in 1 .. 8 /\ \A k \in DOMAIN s : Lowercase(s[k]) \in Lower \cup Digits
  BY <1>3 DEF Accepts
<1>5. DOMAIN s = 1 .. Len(s)
  BY LenProperties
<1>6. ASSUME NEW k \in 1 .. Len(s) PROVE s[k] \in Plain
  <2>1. s[k] \in Char /\ Lowercase(s[k]) \in Lower \cup Digits
    BY <1>4, <1>5
  <2> QED
    BY <2>1 DEF Char, Plain, Lowercase, Lower, Digits, Upper, Control
<1>7. Len(s) <= 8
  <2>1. PICK m : m = Len(s)
    OBVIOUS
  <2>2. m \in 1 .. 8
    BY <1>4, <2>1
  <2>3. m <= 8
    BY <2>2
  <2> QED
    BY <2>1, <2>3
<1>8. \A k \in 1 .. Len(s) : s[k] \in Plain
  BY <1>6
<1>9. Name8(s)
  BY <1>7, <1>8, Zenon DEF Name8
<1> QED
  BY <1>2, <1>3, <1>9

\* An extension of more than eight characters is not listed.
LEMMA LongUnlisted ==
    ASSUME NEW l \in Seq(Listed), Accepts(l), NEW e \in Exts, Len(e) > 9, NEW nc
    PROVE  ~Has(l, e, nc)
<1> SUFFICES ASSUME NEW i \in DOMAIN l, Fold(l[i].ext) = Fold(Tail(e)) PROVE FALSE
  BY DEF Has
<1>1. e # <<>>
  <2> SUFFICES ASSUME e = <<>> PROVE FALSE
    OBVIOUS
  <2>1. Len(e) = 0
    OBVIOUS
  <2>2. 0 \notin 2 .. 9 /\ ~(0 > 9)
    OBVIOUS
  <2> QED
    BY <2>1, <2>2, Zenon
<1>2. Tail(e) \in Seq(Char) /\ Len(Tail(e)) = Len(e) - 1 /\ Len(e) \in Nat
  BY <1>1, ExtShape
<1>3. PICK m \in Nat : m = Len(l[i].ext) /\ m <= 8 /\ DOMAIN l[i].ext = 1 .. m
  <2>1. Name8(l[i].ext)
    BY EntryName
  <2> QED
    BY <2>1, NameShape
<1>4. PICK k \in Nat : k = Len(Tail(e)) /\ k > 8 /\ DOMAIN Tail(e) = 1 .. k
  <2>1. Len(Tail(e)) \in Nat /\ DOMAIN Tail(e) = 1 .. Len(Tail(e))
    BY <1>2, LenProperties
  <2>2. Len(Tail(e)) > 8
    BY <1>2
  <2> QED
    BY <2>1, <2>2
<1>5. 1 .. m = 1 .. k
  <2>1. DOMAIN Fold(l[i].ext) = DOMAIN l[i].ext /\ DOMAIN Fold(Tail(e)) = DOMAIN Tail(e)
    BY DEF Fold
  <2> QED
    BY <1>3, <1>4, <2>1
<1> QED
  BY <1>3, <1>4, <1>5, SameSegment

\* The entry with the word of an extension is the listed one; no such entry,
\* no listing.
LEMMA FoundIsListed ==
    ASSUME NEW l \in Seq(Listed), NEW t, NEW c \in Nat, Holds(l, t, c), NEW e, NEW k, Keys(e, k),
           NEW b \in 0 .. c - 1, \A j \in 0 .. c - 1 : t[j].word = k => j = b
    PROVE  Right(l, e, IF t[b].word = k THEN t[b].nc ELSE Other)
<1> SUFFICES ASSUME \A i \in 2 .. Len(e) : e[i] \notin Control
             PROVE  IF Len(e) > 1 /\ \E nc \in Classes : Has(l, e, nc)
                    THEN Has(l, e, IF t[b].word = k THEN t[b].nc ELSE Other)
                    ELSE (IF t[b].word = k THEN t[b].nc ELSE Other) = Other
  BY Zenon DEF Right
<1>1. /\ Accepts(l) /\ c = Len(l)
      /\ {t[i] : i \in 0 .. c - 1} = {[word |-> Word(l[i].ext), nc |-> l[i].nc] : i \in DOMAIN l}
  BY DEF Holds, Arranges
<1>2. Name8(Tail(e)) /\ Len(e) > 1
  BY TailName DEF Keys
<1>3. \A i \in DOMAIN l : Name8(l[i].ext) /\ l[i].nc \in Classes
  BY <1>1, EntryName
<1>4. \A i \in DOMAIN l : Word(l[i].ext) = k <=> Fold(l[i].ext) = Fold(Tail(e))
  BY <1>2, <1>3, WordGivesFold, FoldGivesWord DEF Keys
<1>5. CASE t[b].word = k
  <2>1. PICK i \in DOMAIN l : t[b] = [word |-> Word(l[i].ext), nc |-> l[i].nc]
    BY <1>1
  <2>2. t[b].word = Word(l[i].ext) /\ t[b].nc = l[i].nc
    BY <2>1
  <2>3. Fold(l[i].ext) = Fold(Tail(e)) /\ l[i].nc \in Classes
    BY <1>3, <1>4, <1>5, <2>2
  <2>4. Has(l, e, t[b].nc) /\ t[b].nc \in Classes
    BY <2>2, <2>3 DEF Has
  <2> QED
    BY <1>2, <1>5, <2>4
<1>6. CASE t[b].word # k
  <2>1. ASSUME NEW nc, Has(l, e, nc) PROVE FALSE
    <3>1. PICK i \in DOMAIN l : Fold(l[i].ext) = Fold(Tail(e))
      BY <2>1 DEF Has
    <3>2. Word(l[i].ext) = k
      BY <1>4, <3>1
    <3>3. PICK j \in 0 .. c - 1 : t[j] = [word |-> Word(l[i].ext), nc |-> l[i].nc]
      BY <1>1
    <3>4. t[j].word = k
      BY <3>2, <3>3
    <3> QED
      BY <1>6, <3>4
  <2> QED
    BY <1>6, <2>1
<1> QED
  BY <1>5, <1>6

-----------------------------------------------------------------------------
LEMMA InitCInv == Init => CInv
  BY InitSInv DEF Init, CInv, Filled, Loaded, Keyed, Correct

LEMMA LoadCInv == CInv /\ Load => CInv'
<1> SUFFICES ASSUME CInv, Load PROVE CInv'
  OBVIOUS
<1>1. SInv'
  BY LoadSInv DEF CInv
<1>2. CASE Accepts(Listings[file])
  <2>1. /\ phase' = "ready" /\ count' = Len(Listings[file]) /\ file' = file
        /\ Arranges(Tables[table'], Listings[file])
    BY <1>2, Zenon DEF Load
  <2>2. Filled'
    BY <1>2, <2>1 DEF Filled, Holds
  <2> QED
    BY <1>1, <2>1, <2>2 DEF CInv, Keyed, Correct
<1>3. CASE ~Accepts(Listings[file])
  <2>1. phase' = "refused"
    BY <1>3 DEF Load
  <2> QED
    BY <1>1, <2>1 DEF CInv, Filled, Loaded, Keyed, Correct
<1> QED
  BY <1>2, <1>3

LEMMA ClassifyCInv == CInv /\ (\E e \in Exts : Classify(e)) => CInv'
<1> SUFFICES ASSUME CInv, NEW e \in Exts, Classify(e) PROVE CInv'
  OBVIOUS
<1>1. SInv'
  BY ClassifySInv DEF CInv
<1>2. Filled'
  BY DEF CInv, Filled, Loaded, Classify
<1>3. PICK l : l = Listings[file]
  OBVIOUS
<1>4. l \in Seq(Listed) /\ Accepts(l) /\ count = Len(l) /\ count <= MaxEntries
  BY <1>3, ListingsAssumption DEF CInv, SInv, TypeOK, Files, Filled, Loaded, Holds, Classify
<1>5. CASE e = <<>> \/ Len(e) = 1 \/ Len(e) > 9 \/ count = 0
  <2>1. phase' = "answered" /\ result' = Other /\ ext' = e /\ file' = file
    BY <1>5 DEF Classify
  <2>2. ASSUME Len(e) > 1, NEW nc, Has(l, e, nc) PROVE FALSE
    <3>1. e # <<>>
      <4> SUFFICES ASSUME e = <<>> PROVE FALSE
        OBVIOUS
      <4>1. Len(e) = 0
        OBVIOUS
      <4>2. ~(0 > 1)
        OBVIOUS
      <4> QED
        BY <2>2, <4>1, <4>2, Zenon
    <3>2. Len(e) # 1
      <4>1. ~(1 > 1)
        OBVIOUS
      <4> QED
        BY <2>2, <4>1, Zenon
    <3>3. ~(Len(e) > 9)
      BY <1>4, <2>2, LongUnlisted
    <3>4. count # 0
      BY <1>4, <2>2 DEF Has
    <3> QED
      BY <1>5, <3>1, <3>2, <3>3, <3>4
  <2>3. Right(l, e, Other)
    BY <2>2, Zenon DEF Right
  <2>4. Correct'
    BY <1>3, <2>1, <2>3 DEF Correct
  <2> QED
    BY <1>1, <1>2, <2>1, <2>4 DEF CInv, Keyed
<1>6. CASE ~(e = <<>> \/ Len(e) = 1 \/ Len(e) > 9 \/ count = 0)
  <2>1. phase' = "searching" /\ key' = Word(Tail(e)) /\ ext' = e
    <3>1. ~(count > MaxEntries)
      <4>1. count \in 0 .. MaxEntries
        BY DEF CInv, SInv, TypeOK
      <4>2. PICK c \in 0 .. 512 : c = count
        BY <4>1 DEF MaxEntries
      <4> QED
        BY <4>2 DEF MaxEntries
    <3> QED
      BY <1>6, <3>1, Zenon DEF Classify
  <2>2. Len(e) \in 2 .. 9
    <3>1. Len(e) \in Nat /\ Len(e) # 0 /\ Len(e) # 1 /\ ~(Len(e) > 9)
      BY <1>6, ExtsAssumption, EmptySeq
    <3>2. PICK m \in Nat : m = Len(e)
      BY <3>1
    <3>3. m # 0 /\ m # 1 /\ ~(m > 9)
      BY <3>1, <3>2, Zenon
    <3>4. m \in 2 .. 9
      BY <3>3
    <3> QED
      BY <3>2, <3>4
  <2> QED
    BY <1>1, <1>2, <2>1, <2>2 DEF CInv, Keyed, Keys, Correct
<1> QED
  BY <1>5, <1>6

LEMMA AnswerCInv == CInv /\ Answer => CInv'
<1> SUFFICES ASSUME CInv, Answer PROVE CInv'
  OBVIOUS
<1>1. SInv'
  BY AnswerSInv DEF CInv
<1>2. Filled'
  BY DEF CInv, Filled, Loaded, Answer
<1>3. PICK l, t : l = Listings[file] /\ t = Tables[table]
  OBVIOUS
<1>4. /\ l \in Seq(Listed) /\ Holds(l, t, count) /\ count \in Nat
      /\ Keys(ext, key)
  BY <1>3, ListingsAssumption
     DEF CInv, SInv, TypeOK, Files, MaxEntries, Filled, Loaded, Keyed, Answer
<1>5. base \in 0 .. count - 1 /\ base % MaxEntries = base
  <2>1. base < count
    BY SInvExact DEF CInv, SearchExact, Answer
  <2>2. base \in 0 .. 511 /\ count \in Nat
    BY DEF CInv, SInv, TypeOK, Index, MaxEntries
  <2> QED
    BY <2>1, <2>2 DEF MaxEntries
<1>6. \A j \in 0 .. count - 1 : t[j].word = key => j = base
  BY <1>3, SInvExact DEF CInv, SearchExact, Answer
<1>7. Right(l, ext, IF t[base].word = key THEN t[base].nc ELSE Other)
  BY <1>4, <1>5, <1>6, FoundIsListed
<1>8. /\ result' = (IF t[base].word = key THEN t[base].nc ELSE Other)
      /\ phase' = "answered" /\ ext' = ext /\ file' = file
  BY <1>3, <1>5 DEF Answer
<1>9. Correct'
  BY <1>3, <1>7, <1>8 DEF Correct
<1> QED
  BY <1>1, <1>2, <1>8, <1>9 DEF CInv, Keyed

LEMMA StepCInv == CInv /\ [Next]_vars => CInv'
<1> SUFFICES ASSUME CInv, [Next]_vars PROVE CInv'
  OBVIOUS
<1>1. CASE Load
  BY <1>1, LoadCInv
<1>2. CASE \E e \in Exts : Classify(e)
  BY <1>2, ClassifyCInv
<1>3. CASE Halve
  <2>1. SInv'
    BY <1>3, HalveSInv DEF CInv
  <2>2. UNCHANGED <<phase, file, table, count, ext, key, result>>
    BY <1>3 DEF Halve
  <2> QED
    BY <1>3, <2>1, <2>2 DEF CInv, Filled, Loaded, Keyed, Correct, Halve
<1>4. CASE Answer
  BY <1>4, AnswerCInv
<1>5. CASE Use
  <2>1. SInv'
    BY <1>5, UseSInv DEF CInv
  <2> QED
    BY <1>5, <2>1 DEF CInv, Filled, Loaded, Keyed, Correct, Use
<1>6. CASE UNCHANGED vars
  <2>1. SInv'
    BY <1>6, StepSInv DEF CInv
  <2> QED
    BY <1>6, <2>1 DEF CInv, Filled, Loaded, Keyed, Correct, vars
<1> QED
  BY <1>1, <1>2, <1>3, <1>4, <1>5, <1>6 DEF Next

LEMMA CorrectIsListed == Correct => ClassListed
  BY DEF Correct, Right, Has, ClassListed, ListedAs

\* Whatever listing the daemon accepts and however its sort arranges it, an
\* extension of letters and digits gets the class it is listed under, up to
\* case, and OTHER if it is not listed (bpf.rs:73-77, mon_files.bpf.c:324-326).
THEOREM ClassCorrect == Spec => []ClassListed
<1>1. Spec => []CInv
  BY InitCInv, StepCInv, PTL DEF Spec
<1>2. CInv => ClassListed
  BY CorrectIsListed DEF CInv
<1> QED
  BY <1>1, <1>2, PTL

=============================================================================
