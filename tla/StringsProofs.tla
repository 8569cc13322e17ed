---------------------------- MODULE StringsProofs -----------------------------
(***************************************************************************)
(* Proofs about Strings, Headers and Statements, for any characters, texts, *)
(* templates, delimiters, lines, columns and values: TextsAreRewritten,     *)
(* HeadersAreRead and StatementsSayTheValues.                               *)
(*                                                                          *)
(* find goes from one place to the next, so both functions are read as two  *)
(* kinds of cut.  Where a place is first in a text, the text before it is   *)
(* settled, and the rest is rewritten as if it were alone (SplitAt,         *)
(* ReplacedAt); where no place begins in a text, it stays (ReplacedBehind). *)
(*                                                                          *)
(* Headers need the cuts only for a text that is built of known pieces: its *)
(* lines.  A text that is split is any text, and so is one with templates:  *)
(* there it is by induction over its length (TextInduction) that the first  *)
(* key is replaced and then the rest.  For templates that are applied one   *)
(* after the other that is true only because no value has a character of a  *)
(* key (Apart): no key can come about where two texts meet (Origin).        *)
(*                                                                          *)
(* An insert statement is put together with marks that are taken out again  *)
(* (Cleans), and the characters of these come about where texts meet: that  *)
(* %e%%b% is found in front of no text but one that begins with %b%         *)
(* (MarkStays) is what keeps values and commas in their places.  The text   *)
(* that is left is split as a reader would (RowsAreRead, QuotedAreRead).    *)
(***************************************************************************)
EXTENDS AlgorithmsProofs

(* Texts one behind the other, from the left or from the right. *)
Assoc(a, b, c) == (a \o b) \o c = a \o (b \o c)

LEMMA Associates ==
  ASSUME NEW T, NEW a \in Seq(T), NEW b \in Seq(T), NEW c \in Seq(T)
  PROVE  Assoc(a, b, c)
  BY ConcatAssociative DEF Assoc

(* A place of p is one where its characters are. *)
LEMMA FoundChars ==
  ASSUME NEW T, NEW s \in Seq(T), NEW p \in Seq(T), p # <<>>, NEW i \in 1..Len(s) + 1, NEW j
  PROVE  j \in Found(s, p, i) <=>
           j \in i..Len(s) + 1 - Len(p) /\ \A k \in 1..Len(p) : s[j + k - 1] = p[k]
  <1>1. Len(p) \in Nat \ {0} /\ Len(s) \in Nat
    OBVIOUS
  <1>2. ASSUME j \in i..Len(s) + 1 - Len(p)
        PROVE  Matches(s, p, j) <=> \A k \in 1..Len(p) : s[j + k - 1] = p[k]
    <2> DEFINE part == SubSeq(s, j, j + Len(p) - 1)
    <2>1. /\ j \in Int /\ j + Len(p) - 1 \in Int
          /\ \A k \in j..j + Len(p) - 1 : s[k] \in T
          /\ j <= j + Len(p) - 1 /\ (j + Len(p) - 1) - j + 1 = Len(p)
      BY <1>1, <1>2
    <2>2. /\ part \in Seq(T) /\ Len(part) = Len(p)
          /\ \A k \in 1..Len(p) : part[k] = s[j + k - 1]
      <3>1. /\ part \in Seq(T)
            /\ Len(part) = IF j <= j + Len(p) - 1 THEN (j + Len(p) - 1) - j + 1 ELSE 0
            /\ \A k \in 1..(j + Len(p) - 1) - j + 1 : part[k] = s[j + k - 1]
        BY <2>1, SubSeqProperties
      <3> HIDE DEF part
      <3>. QED  BY <2>1, <3>1
    <2>3. part = p <=> \A k \in 1..Len(p) : part[k] = p[k]
      <3> HIDE DEF part
      <3>. QED  BY <2>2, SeqEqual
    <2>. QED  BY <2>2, <2>3 DEF Matches
  <1>. QED  BY <1>2 DEF Found

(* A text is what is before a place and what is from it on. *)
LEMMA CutAt ==
  ASSUME NEW T, NEW s \in Seq(T), NEW m \in 1..Len(s) + 1
  PROVE  /\ SubSeq(s, 1, m - 1) \in Seq(T) /\ Len(SubSeq(s, 1, m - 1)) = m - 1
         /\ \A i \in 1..m - 1 : SubSeq(s, 1, m - 1)[i] = s[i]
         /\ Rest(s, m) \in Seq(T) /\ Len(Rest(s, m)) = Len(s) + 1 - m
         /\ \A i \in 1..Len(s) + 1 - m : Rest(s, m)[i] = s[m + i - 1]
         /\ s = SubSeq(s, 1, m - 1) \o Rest(s, m)
  <1>1. Len(s) \in Nat /\ m \in Int /\ m - 1 \in Int /\ 1 \in Int
    OBVIOUS
  <1>2. /\ SubSeq(s, 1, m - 1) \in Seq(T) /\ Len(SubSeq(s, 1, m - 1)) = m - 1
        /\ \A i \in 1..m - 1 : SubSeq(s, 1, m - 1)[i] = s[i]
    OBVIOUS
  <1>3. /\ Rest(s, m) \in Seq(T) /\ Len(Rest(s, m)) = Len(s) + 1 - m
        /\ \A i \in 1..Len(s) + 1 - m : Rest(s, m)[i] = s[m + i - 1]
    BY DEF Rest
  <1> DEFINE u == SubSeq(s, 1, m - 1)
             r == Rest(s, m)
  <1> HIDE DEF u, r
  <1>4. /\ u \in Seq(T) /\ Len(u) = m - 1 /\ \A i \in 1..m - 1 : u[i] = s[i]
        /\ r \in Seq(T) /\ Len(r) = Len(s) + 1 - m
        /\ \A i \in 1..Len(s) + 1 - m : r[i] = s[m + i - 1]
    BY <1>2, <1>3 DEF u, r
  <1>5. s = u \o r
    <2>1. /\ u \o r \in Seq(T) /\ Len(u \o r) = Len(u) + Len(r)
          /\ \A i \in 1..Len(u) + Len(r) : (u \o r)[i] = IF i <= Len(u) THEN u[i] ELSE r[i - Len(u)]
      BY <1>4, ConcatProperties
    <2>2. \A i \in 1..Len(s) : (u \o r)[i] = s[i]
      <3> SUFFICES ASSUME NEW i \in 1..Len(s) PROVE (u \o r)[i] = s[i]
        OBVIOUS
      <3>1. CASE i <= m - 1
        BY <1>1, <1>4, <2>1, <3>1
      <3>2. CASE ~(i <= m - 1)
        <4>1. i - (m - 1) \in 1..Len(s) + 1 - m /\ m + (i - (m - 1)) - 1 = i
          BY <1>1, <3>2
        <4>2. r[i - (m - 1)] = s[i]
          BY <1>4, <4>1
        <4>. QED  BY <1>1, <1>4, <2>1, <3>2, <4>2
      <3>. QED  BY <3>1, <3>2
    <2>3. Len(u \o r) = Len(s)
      BY <1>1, <1>4, <2>1
    <2>. QED  BY <2>1, <2>2, <2>3, SeqEqual
  <1>. QED  BY <1>2, <1>3, <1>5 DEF u, r

(* The parts of two texts one behind the other. *)
LEMMA CutBetween ==
  ASSUME NEW T, NEW u \in Seq(T), NEW x \in Seq(T)
  PROVE  /\ u \o x \in Seq(T) /\ Len(u \o x) = Len(u) + Len(x)
         /\ \A i \in 1..Len(u) : (u \o x)[i] = u[i]
         /\ \A i \in 1..Len(x) : (u \o x)[Len(u) + i] = x[i]
         /\ SubSeq(u \o x, 1, Len(u)) = u
         /\ Rest(u \o x, Len(u) + 1) = x
  <1>1. /\ u \o x \in Seq(T) /\ Len(u \o x) = Len(u) + Len(x)
        /\ \A i \in 1..Len(u) : (u \o x)[i] = u[i]
        /\ \A i \in 1..Len(x) : (u \o x)[Len(u) + i] = x[i]
        /\ Len(u) \in Nat /\ Len(x) \in Nat
    OBVIOUS
  <1> DEFINE s == u \o x
             m == Len(u) + 1
  <1>2. s \in Seq(T) /\ m \in 1..Len(s) + 1
    BY <1>1
  <1>3. /\ SubSeq(s, 1, m - 1) \in Seq(T) /\ Len(SubSeq(s, 1, m - 1)) = m - 1
        /\ \A i \in 1..m - 1 : SubSeq(s, 1, m - 1)[i] = s[i]
        /\ Rest(s, m) \in Seq(T) /\ Len(Rest(s, m)) = Len(s) + 1 - m
        /\ \A i \in 1..Len(s) + 1 - m : Rest(s, m)[i] = s[m + i - 1]
    <2> HIDE DEF s, m
    <2>. QED  BY <1>2, CutAt
  <1>4. m - 1 = Len(u) /\ Len(s) + 1 - m = Len(x) /\ \A i \in 1..Len(x) : m + i - 1 = Len(u) + i
    BY <1>1
  <1> DEFINE a == SubSeq(s, 1, m - 1)
             b == Rest(s, m)
  <1>5. a = u
    <2>1. a \in Seq(T) /\ Len(a) = Len(u) /\ \A i \in 1..Len(a) : a[i] = u[i]
      BY <1>1, <1>3, <1>4
    <2> HIDE DEF a
    <2>. QED  BY <2>1, SeqEqual
  <1>6. b = x
    <2>1. b \in Seq(T) /\ Len(b) = Len(x) /\ \A i \in 1..Len(b) : b[i] = x[i]
      BY <1>1, <1>3, <1>4
    <2> HIDE DEF b
    <2>. QED  BY <2>1, SeqEqual
  <1>. QED  BY <1>1, <1>4, <1>5, <1>6

(* Places in a text that begins at q in another. *)
LEMMA FoundBehind ==
  ASSUME NEW T, NEW s \in Seq(T), NEW p \in Seq(T), p # <<>>, NEW q \in 1..Len(s) + 1,
         NEW i \in 1..Len(s) + 2 - q
  PROVE  /\ i \in 1..Len(Rest(s, q)) + 1 /\ q + i - 1 \in 1..Len(s) + 1
         /\ \A j \in Int : j \in Found(Rest(s, q), p, i) <=> q + j - 1 \in Found(s, p, q + i - 1)
  <1> DEFINE r == Rest(s, q)
  <1>1. r \in Seq(T) /\ Len(r) = Len(s) + 1 - q /\ \A k \in 1..Len(s) + 1 - q : r[k] = s[q + k - 1]
    BY CutAt
  <1> HIDE DEF r
  <1>2. Len(s) \in Nat /\ Len(p) \in Nat \ {0} /\ i \in 1..Len(r) + 1 /\ q + i - 1 \in 1..Len(s) + 1
    BY <1>1
  <1>20. \A j : j \in Found(r, p, i) <=>
                  j \in i..Len(r) + 1 - Len(p) /\ \A k \in 1..Len(p) : r[j + k - 1] = p[k]
    <2>1. r \in Seq(T) /\ i \in 1..Len(r) + 1
      BY <1>1, <1>2
    <2>. QED  BY <2>1, FoundChars
  <1>3. ASSUME NEW j \in Int PROVE j \in Found(r, p, i) <=> q + j - 1 \in Found(s, p, q + i - 1)
    <2>1. j \in Found(r, p, i) <=>
            j \in i..Len(r) + 1 - Len(p) /\ \A k \in 1..Len(p) : r[j + k - 1] = p[k]
      BY <1>20
    <2> DEFINE h == q + j - 1
    <2>2. h \in Found(s, p, q + i - 1) <=>
            h \in q + i - 1..Len(s) + 1 - Len(p) /\ \A k \in 1..Len(p) : s[h + k - 1] = p[k]
      <3> HIDE DEF h
      <3>. QED  BY <1>2, FoundChars, SMTT(30)
    <2>3. j \in i..Len(r) + 1 - Len(p) <=> h \in q + i - 1..Len(s) + 1 - Len(p)
      BY <1>1, <1>2
    <2>4. ASSUME j \in i..Len(r) + 1 - Len(p), NEW k \in 1..Len(p) PROVE r[j + k - 1] = s[h + k - 1]
      <3>1. j + k - 1 \in 1..Len(s) + 1 - q /\ q + (j + k - 1) - 1 = h + k - 1
        BY <1>1, <1>2, <2>4
      <3>. QED  BY <1>1, <3>1
    <2>. QED  BY <2>1, <2>2, <2>3, <2>4
  <1>. QED  BY <1>2, <1>3 DEF r

(* From a cursor on, the rest of a text has the same places, and the same   *)
(* parts between them, as the text.                                         *)
SameParts(r, s, p, q, i) ==
  LET h == q + i - 1
      some == Found(r, p, i)
      same == Found(s, p, h)
  IN /\ some = {} <=> same = {}
     /\ Rest(r, i) = Rest(s, h)
     /\ some # {} => /\ Min(some) + Len(p) \in i+1..Len(r) + 1
                     /\ Min(same) + Len(p) = q + (Min(some) + Len(p)) - 1
                     /\ SubSeq(r, i, Min(some) - 1) = SubSeq(s, h, Min(same) - 1)

LEMMA RestHasSameParts ==
  ASSUME NEW T, NEW s \in Seq(T), NEW d \in Seq(T), d # <<>>, NEW q \in 1..Len(s) + 1,
         NEW i \in 1..Len(Rest(s, q)) + 1
  PROVE  SameParts(Rest(s, q), s, d, q, i)
  <1> DEFINE r == Rest(s, q)
  <1>1. r \in Seq(T) /\ Len(r) = Len(s) + 1 - q /\ \A k \in 1..Len(s) + 1 - q : r[k] = s[q + k - 1]
    BY CutAt
  <1> HIDE DEF r
  <1>3. Len(r) \in Nat /\ Len(s) \in Nat /\ Len(d) \in Nat \ {0} /\ i \in 1..Len(r) + 1
    BY <1>1 DEF r
  <1> DEFINE h == q + i - 1
             few1 == Found(r, d, i)
             res1 == Found(s, d, h)
  <1>21. h \in 1..Len(s) + 1 /\ \A j \in Int : j \in few1 <=> q + j - 1 \in res1
    <2>1. i \in 1..Len(s) + 2 - q
      BY <1>1, <1>3
    <2>. QED  BY <2>1, FoundBehind DEF r
  <1>22. few1 \subseteq Int /\ res1 \subseteq Int
    BY <1>1, <1>3 DEF Found
  <1>4. few1 = {} <=> res1 = {}
    <2>1. ASSUME NEW x \in res1 PROVE few1 # {}
      <3>1. x - q + 1 \in Int /\ q + (x - q + 1) - 1 = x
        BY <1>22
      <3>. QED  BY <1>21, <3>1
    <2>2. few1 # {} => res1 # {}
      BY <1>21, <1>22
    <2>. QED  BY <2>1, <2>2
  <1>5. Rest(r, i) = Rest(s, h)
    <2>1. /\ Rest(r, i) \in Seq(T) /\ Len(Rest(r, i)) = Len(r) + 1 - i
          /\ \A k \in 1..Len(r) + 1 - i : Rest(r, i)[k] = r[i + k - 1]
      <3>1. r \in Seq(T) /\ i \in 1..Len(r) + 1
        BY <1>1, <1>3
      <3>. QED  BY <3>1, CutAt
    <2>2. /\ Rest(s, h) \in Seq(T) /\ Len(Rest(s, h)) = Len(s) + 1 - h
          /\ \A k \in 1..Len(s) + 1 - h : Rest(s, h)[k] = s[h + k - 1]
      <3> HIDE DEF h
      <3>. QED  BY <1>21, CutAt
    <2>3. /\ Len(r) + 1 - i = Len(s) + 1 - h
          /\ \A k \in 1..Len(r) + 1 - i : /\ i + k - 1 \in 1..Len(s) + 1 - q
                                          /\ q + (i + k - 1) - 1 = h + k - 1
      BY <1>1, <1>3
    <2>4. \A k \in 1..Len(r) + 1 - i : Rest(r, i)[k] = Rest(s, h)[k]
      BY <1>1, <2>1, <2>2, <2>3
    <2> DEFINE a == Rest(r, i)
               b == Rest(s, h)
    <2> HIDE DEF a, b
    <2>5. a \in Seq(T) /\ b \in Seq(T) /\ Len(a) = Len(b) /\ \A k \in 1..Len(a) : a[k] = b[k]
      BY <2>1, <2>2, <2>3, <2>4 DEF a, b
    <2>6. a = b
      BY <2>5, SeqEqual
    <2>. QED  BY <2>6 DEF a, b
  <1> SUFFICES SameParts(r, s, d, q, i)
    BY DEF r
  <1>6. CASE few1 # {}
    <2>1. /\ Min(few1) \in few1 /\ Min(few1) \in i..Len(r)
          /\ \A j \in few1 : Min(few1) <= j
          /\ Min(few1) + Len(d) \in i+1..Len(r) + 1
      BY <1>1, <1>3, <1>6, FoundPlaces
    <2>2. res1 # {} /\ q + Min(few1) - 1 \in res1
      BY <1>21, <1>22, <2>1
    <2>3. Min(res1) \in res1 /\ \A j \in res1 : Min(res1) <= j
      <3> HIDE DEF h
      <3>. QED  BY <1>21, <2>2, FoundPlaces
    <2>4. Min(res1) = q + Min(few1) - 1
      <3>1. Min(res1) - q + 1 \in few1
        <4>1. Min(res1) - q + 1 \in Int /\ q + (Min(res1) - q + 1) - 1 = Min(res1)
          BY <1>22, <2>3
        <4>. QED  BY <1>21, <2>3, <4>1
      <3>2. Min(few1) <= Min(res1) - q + 1 /\ Min(res1) <= q + Min(few1) - 1
        BY <2>1, <2>2, <2>3, <3>1
      <3>3. Min(few1) \in Int /\ Min(res1) \in Int
        BY <1>22, <2>1, <2>3
      <3> HIDE DEF few1, res1
      <3>. QED  BY <3>2, <3>3, SMTT(30)
    <2>6. SubSeq(r, i, Min(few1) - 1) = SubSeq(s, h, Min(res1) - 1)
      <3> DEFINE m == Min(few1)
                 k == Min(res1)
      <3> HIDE DEF few1, res1
      <3>1. m \in i..Len(r) /\ k = q + m - 1 /\ m \in Int /\ i \in Int
        BY <2>1, <2>4
      <3> HIDE DEF m, k
      <3>2. /\ h \in Int /\ k \in Int /\ (k - 1) - h + 1 = (m - 1) - i + 1
            /\ (i <= m - 1 <=> h <= k - 1)
            /\ \A x \in i..m - 1 : x \in 1..Len(r)
            /\ \A x \in h..k - 1 : x \in 1..Len(s)
        BY <1>3, <1>1, <3>1
      <3>20. (\A x \in i..m - 1 : r[x] \in T) /\ \A x \in h..k - 1 : s[x] \in T
        BY <1>1, <3>2, SMTT(30)
      <3> DEFINE a == SubSeq(r, i, m - 1)
                 b == SubSeq(s, h, k - 1)
      <3>3. /\ a \in Seq(T) /\ Len(a) = IF i <= m - 1 THEN (m - 1) - i + 1 ELSE 0
            /\ \A x \in 1..(m - 1) - i + 1 : a[x] = r[i + x - 1]
        BY <3>1, <3>20, SubSeqProperties
      <3>4. /\ b \in Seq(T) /\ Len(b) = IF h <= k - 1 THEN (k - 1) - h + 1 ELSE 0
            /\ \A x \in 1..(k - 1) - h + 1 : b[x] = s[h + x - 1]
        <4> HIDE DEF h
        <4>1. h \in Int /\ k - 1 \in Int /\ \A x \in h..k - 1 : s[x] \in T
          BY <3>2, <3>20
        <4>. QED  BY <4>1, SubSeqProperties, SMTT(30)
      <3>5. \A x \in 1..(m - 1) - i + 1 : /\ i + x - 1 \in 1..Len(s) + 1 - q
                                          /\ q + (i + x - 1) - 1 = h + x - 1
        BY <1>1, <1>3, <3>1
      <3> HIDE DEF a, b, h
      <3>50. \A x \in 1..(m - 1) - i + 1 : r[i + x - 1] = s[h + x - 1]
        BY <1>1, <3>5
      <3>51. Len(a) = Len(b) /\ \A x \in 1..Len(a) : x \in 1..(m - 1) - i + 1
        BY <3>1, <3>2, <3>3, <3>4, SMTT(30)
      <3>6. Len(a) = Len(b) /\ \A x \in 1..Len(a) : a[x] = b[x]
        BY <3>2, <3>3, <3>4, <3>50, <3>51
      <3>7. a = b
        BY <3>3, <3>4, <3>6, SeqEqual
      <3>. QED  BY <3>7 DEF a, b, m, k
    <2>7. Min(res1) + Len(d) = q + (Min(few1) + Len(d)) - 1
      <3>1. Min(few1) \in Int
        BY <1>22, <2>1
      <3> HIDE DEF few1, res1
      <3>. QED  BY <1>3, <2>4, <3>1
    <2>. QED  BY <1>4, <1>5, <1>6, <2>1, <2>6, <2>7 DEF SameParts
  <1>7. CASE few1 = {}
    BY <1>4, <1>5, <1>7 DEF SameParts
  <1>. QED  BY <1>6, <1>7

(* The pieces from a cursor on are those of what is left of the text. *)
LEMMA SplitRest ==
  ASSUME NEW T, NEW s \in Seq(T), NEW d \in Seq(T), d # <<>>, NEW q \in 1..Len(s) + 1,
         NEW res, Pieces(s, d, res)
  PROVE  res[q] = Split(Rest(s, q), d)
  <1> DEFINE r == Rest(s, q)
             n == Len(r) + 1
  <1>1. r \in Seq(T) /\ n \in Nat /\ n = Len(s) + 2 - q /\ n >= 1 /\ Len(s) \in Nat
    <2>1. r \in Seq(T) /\ Len(r) = Len(s) + 1 - q
      BY CutAt
    <2>. QED  BY <2>1
  <1> HIDE DEF r
  <1>2. PICK few \in [1..n -> Seq(Seq(T))] : Pieces(r, d, few) /\ Split(r, d) = few[1]
    BY <1>1, SplitRuns
  <1> DEFINE S == {i \in 1..n : few[i] = res[q + i - 1]}
  <1>3. ASSUME NEW i \in 1..n, \A j \in i+1..n : j \in S PROVE i \in S
    <2> DEFINE h == q + i - 1
               some == Found(r, d, i)
               same == Found(s, d, h)
    <2>1. h \in 1..Len(s) + 1
      BY <1>1
    <2>2. SameParts(r, s, d, q, i)
      BY <1>1, RestHasSameParts DEF r
    <2>3. /\ few[i] = IF some = {} THEN <<Rest(r, i)>>
                      ELSE <<SubSeq(r, i, Min(some) - 1)>> \o few[Min(some) + Len(d)]
          /\ res[h] = IF same = {} THEN <<Rest(s, h)>>
                      ELSE <<SubSeq(s, h, Min(same) - 1)>> \o res[Min(same) + Len(d)]
      BY <1>2, <2>1 DEF Pieces
    <2>4. some # {} => few[Min(some) + Len(d)] = res[Min(same) + Len(d)]
      BY <1>3, <2>2 DEF SameParts
    <2>5. few[i] = res[h]
      BY <2>2, <2>3, <2>4 DEF SameParts
    <2>. QED  BY <2>5
  <1>4. 1 \in S => few[1] = res[q]
    BY <1>1
  <1> HIDE DEF S
  <1>5. 1 \in S
    <2>1. \A i \in 1..n : i \in S
      <3> HIDE DEF n
      <3>. QED  BY <1>1, <1>3, Descent
    <2>. QED  BY <1>1, <2>1
  <1>. QED  BY <1>2, <1>4, <1>5 DEF r

(* A text without the delimiter is one piece. *)
LEMMA SplitNone ==
  ASSUME NEW T, NEW s \in Seq(T), NEW d \in Seq(T), d # <<>>, Found(s, d, 1) = {}
  PROVE  Split(s, d) = <<s>>
  <1>1. PICK res \in [1..Len(s) + 1 -> Seq(Seq(T))] : Pieces(s, d, res) /\ Split(s, d) = res[1]
    BY SplitRuns
  <1>2. 1 \in 1..Len(s) + 1
    OBVIOUS
  <1>3. res[1] = <<Rest(s, 1)>>
    BY <1>1, <1>2 DEF Pieces
  <1>4. Rest(s, 1) = s
    BY SubSeqFull DEF Rest
  <1>. QED  BY <1>1, <1>3, <1>4

(* No place of p begins in u where x comes behind it. *)
Free(u, x, p) == \A j \in Found(u \o x, p, 1) : j > Len(u)

(* Where a pattern is first, if no place is before. *)
LEMMA FirstAt ==
  ASSUME NEW T, NEW u \in Seq(T), NEW x \in Seq(T), NEW d \in Seq(T), d # <<>>,
         Free(u, d \o x, d)
  PROVE  LET s == u \o (d \o x)
             m == Len(u) + 1
         IN /\ s \in Seq(T) /\ Found(s, d, 1) # {} /\ Min(Found(s, d, 1)) = m
            /\ SubSeq(s, 1, m - 1) = u /\ m + Len(d) \in 1..Len(s) + 1 /\ Rest(s, m + Len(d)) = x
  <1> DEFINE s == u \o (d \o x)
             m == Len(u) + 1
  <1>1. s \in Seq(T) /\ Len(u) \in Nat /\ Len(d) \in Nat \ {0} /\ Len(x) \in Nat /\ m \in Nat
        /\ d \o x \in Seq(T)
    OBVIOUS
  <1>2. /\ Len(s) = Len(u) + Len(d) + Len(x)
        /\ SubSeq(s, 1, m - 1) = u /\ Rest(s, m + Len(d)) = x
        /\ \A k \in 1..Len(d) : s[m + k - 1] = d[k]
    <2>1. /\ Len(s) = Len(u) + Len(d \o x) /\ SubSeq(s, 1, Len(u)) = u
          /\ \A k \in 1..Len(d \o x) : s[Len(u) + k] = (d \o x)[k]
      BY <1>1, CutBetween
    <2>2. Len(d \o x) = Len(d) + Len(x) /\ \A k \in 1..Len(d) : (d \o x)[k] = d[k]
      BY CutBetween
    <2>3. s = (u \o d) \o x /\ u \o d \in Seq(T) /\ Len(u \o d) = Len(u) + Len(d)
      BY ConcatAssociative
    <2>4. Rest(s, Len(u) + Len(d) + 1) = x
      <3> HIDE DEF s
      <3>1. Rest((u \o d) \o x, Len(u \o d) + 1) = x
        BY <2>3, CutBetween
      <3>. QED  BY <2>3, <3>1
    <2>5. m - 1 = Len(u) /\ m + Len(d) = Len(u) + Len(d) + 1
          /\ \A k \in 1..Len(d) : m + k - 1 = Len(u) + k /\ k \in 1..Len(d \o x)
      BY <1>1, <2>2
    <2> HIDE DEF s, m
    <2>. QED  BY <1>1, <2>1, <2>2, <2>4, <2>5
  <1>3. m \in Found(s, d, 1) /\ 1 \in 1..Len(s) + 1 /\ m + Len(d) \in 1..Len(s) + 1
    <2>1. m \in 1..Len(s) + 1 - Len(d) /\ 1 \in 1..Len(s) + 1 /\ m + Len(d) \in 1..Len(s) + 1
      BY <1>1, <1>2
    <2> HIDE DEF s, m
    <2>. QED  BY <1>1, <1>2, <2>1, FoundChars
  <1>4. Min(Found(s, d, 1)) = m
    <2> DEFINE l == Min(Found(s, d, 1))
    <2>1. l \in Found(s, d, 1) /\ l <= m /\ l \in Int
      <3> HIDE DEF s, m
      <3>. QED  BY <1>1, <1>3, FoundPlaces
    <2>2. l > Len(u)
      BY <2>1 DEF Free
    <2> HIDE DEF l
    <2>3. l = m
      BY <1>1, <2>1, <2>2
    <2>. QED  BY <2>3 DEF l
  <1>. QED  BY <1>1, <1>2, <1>3, <1>4

(* The pieces of a text are texts. *)
LEMMA SplitTyped ==
  ASSUME NEW T, NEW s \in Seq(T), NEW d \in Seq(T), d # <<>>
  PROVE  Split(s, d) \in Seq(Seq(T))
  <1>1. PICK res \in [1..Len(s) + 1 -> Seq(Seq(T))] : Split(s, d) = res[1]
    BY SplitRuns
  <1>2. 1 \in 1..Len(s) + 1
    OBVIOUS
  <1>. QED  BY <1>1, <1>2

(* A text is cut where the delimiter is first. *)
SplitsAt(u, d, x) == Split(u \o (d \o x), d) = <<u>> \o Split(x, d)

LEMMA SplitAt ==
  ASSUME NEW T, NEW u \in Seq(T), NEW x \in Seq(T), NEW d \in Seq(T), d # <<>>,
         Free(u, d \o x, d)
  PROVE  SplitsAt(u, d, x)
  <1> DEFINE s == u \o (d \o x)
             m == Len(u) + 1
  <1>1. /\ s \in Seq(T) /\ Found(s, d, 1) # {} /\ Min(Found(s, d, 1)) = m
        /\ SubSeq(s, 1, m - 1) = u /\ m + Len(d) \in 1..Len(s) + 1 /\ Rest(s, m + Len(d)) = x
    BY FirstAt
  <1> HIDE DEF s, m
  <1>2. PICK res \in [1..Len(s) + 1 -> Seq(Seq(T))] : Pieces(s, d, res) /\ Split(s, d) = res[1]
    BY <1>1, SplitRuns
  <1>3. 1 \in 1..Len(s) + 1
    BY <1>1
  <1>4. res[1] = <<u>> \o res[m + Len(d)]
    BY <1>1, <1>2, <1>3 DEF Pieces
  <1>5. res[m + Len(d)] = Split(x, d)
    BY <1>1, <1>2, SplitRest
  <1>6. Split(s, d) = <<u>> \o Split(x, d)
    BY <1>2, <1>4, <1>5
  <1>. QED  BY <1>6 DEF s, SplitsAt

-----------------------------------------------------------------------------
(* string_replace_all. *)

(* What is appended from each cursor on. *)
Replacing(s, f, t, buf) ==
  \A pos \in 1..Len(s) + 1 :
    buf[pos] = IF Found(s, f, pos) = {} THEN Rest(s, pos)
               ELSE SubSeq(s, pos, Min(Found(s, f, pos)) - 1) \o t
                      \o buf[Min(Found(s, f, pos)) + Len(f)]

(* Every place of a text has what is appended from there on, and what       *)
(* string_replace_all gives is that of the first.                           *)
LEMMA ReplaceRuns ==
  ASSUME NEW T, NEW s \in Seq(T), NEW f \in Seq(T), f # <<>>, NEW t \in Seq(T)
  PROVE  \E buf \in [1..Len(s) + 1 -> Seq(T)] :
            Replacing(s, f, t, buf) /\ StringReplaceAll(s, f, t) = buf[1]
  <1> DEFINE n == Len(s) + 1
             A == Seq(T)
             Stops == {pos \in 1..n : Found(s, f, pos) = {}}
             base == [pos \in 1..n |-> Rest(s, pos)]
             next == [pos \in 1..n |-> Min(Found(s, f, pos)) + Len(f)]
             step == [pos \in 1..n |->
                        [x \in A |-> SubSeq(s, pos, Min(Found(s, f, pos)) - 1) \o t \o x]]
             body(buf) == [pos \in 1..n |->
                             IF Found(s, f, pos) = {} THEN Rest(s, pos)
                             ELSE SubSeq(s, pos, Min(Found(s, f, pos)) - 1) \o t
                                    \o buf[Min(Found(s, f, pos)) + Len(f)]]
             chosen == CHOOSE buf : buf = body(buf)
  <1>1. n \in Nat
    OBVIOUS
  <1>2. \A i \in 1..n : base[i] \in A
    BY DEF Rest
  <1>3. ASSUME NEW i \in 1..n, i \notin Stops
        PROVE  next[i] \in i+1..n /\ \A x \in A : step[i][x] \in A
    <2>1. /\ Min(Found(s, f, i)) + Len(f) \in i+1..n
          /\ Min(Found(s, f, i)) - 1 \in Int
      BY <1>3, FoundPlaces
    <2>2. SubSeq(s, i, Min(Found(s, f, i)) - 1) \in Seq(T)
      BY <1>3, FoundPlaces, SMTT(30)
    <2>. QED  BY <2>1, <2>2
  <1>4. PICK g \in [1..n -> A] : Recurs(g, n, Stops, base, next, step)
    <2>1. Descends(n, A, Stops, base, next, step)
      BY <1>2, <1>3 DEF Descends
    <2> HIDE DEF Stops, base, next, step, n, A, body, chosen
    <2>. QED  BY <1>1, <2>1, DescentExists
  <1>5. g = body(g)
    <2>1. ASSUME NEW i \in 1..n, i \notin Stops PROVE g[i] = body(g)[i]
      <3>1. g[next[i]] \in A
        BY <1>3, <2>1
      <3>. QED  BY <1>4, <2>1, <3>1 DEF Recurs
    <2>2. \A i \in Stops : g[i] = body(g)[i]
      BY <1>4 DEF Recurs
    <2>. QED  BY <2>1, <2>2
  <1>6. chosen = body(chosen)
    BY <1>5
  <1>7. StringReplaceAll(s, f, t) = chosen[1]
    BY DEF StringReplaceAll
  <1> HIDE DEF chosen
  <1>8. \A i \in 1..n : chosen[i] = body(chosen)[i]
    BY <1>6
  <1>9. Replacing(s, f, t, chosen)
    BY <1>8 DEF Replacing
  <1>10. chosen \in [1..n -> A]
    <2> DEFINE S == {i \in 1..n : chosen[i] \in A}
    <2>1. ASSUME NEW k \in 1..n, \A j \in k+1..n : j \in S PROVE k \in S
      <3>1. CASE k \in Stops
        BY <3>1, <1>2, <1>8
      <3>2. CASE k \notin Stops
        <4>1. chosen[next[k]] \in A
          BY <1>3, <2>1, <3>2
        <4>2. chosen[k] = step[k][chosen[next[k]]]
          BY <4>1, <1>8, <3>2
        <4>. QED  BY <1>3, <3>2, <4>1, <4>2
      <3>. QED  BY <3>1, <3>2
    <2>2. \A i \in 1..n : i \in S => chosen[i] \in A
      OBVIOUS
    <2> HIDE DEF S
    <2>3. \A i \in 1..n : i \in S
      BY <1>1, <2>1, Descent
    <2>4. \A i \in 1..n : chosen[i] \in A
      BY <2>2, <2>3
    <2>. QED  BY <1>6, <2>4
  <1>. QED  BY <1>7, <1>9, <1>10

(* What is appended from a cursor on is what is made of the rest of the     *)
(* text.                                                                    *)
LEMMA ReplaceRest ==
  ASSUME NEW T, NEW s \in Seq(T), NEW f \in Seq(T), f # <<>>, NEW t \in Seq(T),
         NEW q \in 1..Len(s) + 1, NEW buf, Replacing(s, f, t, buf)
  PROVE  buf[q] = StringReplaceAll(Rest(s, q), f, t)
  <1> DEFINE r == Rest(s, q)
             n == Len(r) + 1
  <1>1. r \in Seq(T) /\ n \in Nat /\ n = Len(s) + 2 - q /\ n >= 1 /\ Len(s) \in Nat
    <2>1. r \in Seq(T) /\ Len(r) = Len(s) + 1 - q
      BY CutAt
    <2>. QED  BY <2>1
  <1> HIDE DEF r
  <1>2. PICK few \in [1..n -> Seq(T)] : Replacing(r, f, t, few) /\ StringReplaceAll(r, f, t) = few[1]
    BY <1>1, ReplaceRuns
  <1> DEFINE S == {i \in 1..n : few[i] = buf[q + i - 1]}
  <1>3. ASSUME NEW i \in 1..n, \A j \in i+1..n : j \in S PROVE i \in S
    <2> DEFINE h == q + i - 1
               some == Found(r, f, i)
               same == Found(s, f, h)
    <2>1. h \in 1..Len(s) + 1
      BY <1>1
    <2>2. SameParts(r, s, f, q, i)
      BY <1>1, RestHasSameParts DEF r
    <2>3. /\ few[i] = IF some = {} THEN Rest(r, i)
                      ELSE SubSeq(r, i, Min(some) - 1) \o t \o few[Min(some) + Len(f)]
          /\ buf[h] = IF same = {} THEN Rest(s, h)
                      ELSE SubSeq(s, h, Min(same) - 1) \o t \o buf[Min(same) + Len(f)]
      BY <1>2, <2>1 DEF Replacing
    <2>4. some # {} => few[Min(some) + Len(f)] = buf[Min(same) + Len(f)]
      BY <1>3, <2>2 DEF SameParts
    <2>5. few[i] = buf[h]
      BY <2>2, <2>3, <2>4 DEF SameParts
    <2>. QED  BY <2>5
  <1>4. 1 \in S => few[1] = buf[q]
    BY <1>1
  <1> HIDE DEF S
  <1>5. 1 \in S
    <2>1. \A i \in 1..n : i \in S
      <3> HIDE DEF n
      <3>. QED  BY <1>1, <1>3, Descent
    <2>. QED  BY <1>1, <2>1
  <1>. QED  BY <1>2, <1>4, <1>5 DEF r

(* A replaced text is a text; one without what is replaced stays. *)
LEMMA ReplaceNone ==
  ASSUME NEW T, NEW s \in Seq(T), NEW f \in Seq(T), f # <<>>, NEW t \in Seq(T)
  PROVE  /\ StringReplaceAll(s, f, t) \in Seq(T)
         /\ Found(s, f, 1) = {} => StringReplaceAll(s, f, t) = s
  <1>1. PICK buf \in [1..Len(s) + 1 -> Seq(T)] :
          Replacing(s, f, t, buf) /\ StringReplaceAll(s, f, t) = buf[1]
    BY ReplaceRuns
  <1>2. 1 \in 1..Len(s) + 1
    OBVIOUS
  <1>3. Found(s, f, 1) = {} => buf[1] = Rest(s, 1)
    BY <1>1, <1>2 DEF Replacing
  <1>4. Rest(s, 1) = s
    BY SubSeqFull DEF Rest
  <1>. QED  BY <1>1, <1>2, <1>3, <1>4

(* What is first is replaced, and then the rest of the text. *)
ReplacesAt(u, f, x, t) ==
  StringReplaceAll(u \o (f \o x), f, t) = u \o (t \o StringReplaceAll(x, f, t))

LEMMA ReplacedAt ==
  ASSUME NEW T, NEW u \in Seq(T), NEW x \in Seq(T), NEW f \in Seq(T), f # <<>>, NEW t \in Seq(T),
         Free(u, f \o x, f)
  PROVE  ReplacesAt(u, f, x, t)
  <1> DEFINE s == u \o (f \o x)
             m == Len(u) + 1
  <1>1. /\ s \in Seq(T) /\ Found(s, f, 1) # {} /\ Min(Found(s, f, 1)) = m
        /\ SubSeq(s, 1, m - 1) = u /\ m + Len(f) \in 1..Len(s) + 1 /\ Rest(s, m + Len(f)) = x
    BY FirstAt
  <1> HIDE DEF s, m
  <1>2. PICK buf \in [1..Len(s) + 1 -> Seq(T)] :
          Replacing(s, f, t, buf) /\ StringReplaceAll(s, f, t) = buf[1]
    BY <1>1, ReplaceRuns
  <1>3. 1 \in 1..Len(s) + 1
    BY <1>1
  <1>4. buf[1] = u \o t \o buf[m + Len(f)]
    BY <1>1, <1>2, <1>3 DEF Replacing
  <1>5. buf[m + Len(f)] = StringReplaceAll(x, f, t) /\ buf[m + Len(f)] \in Seq(T)
    BY <1>1, <1>2, ReplaceRest
  <1>6. StringReplaceAll(s, f, t) = u \o (t \o StringReplaceAll(x, f, t))
    <2>1. Assoc(u, t, buf[m + Len(f)])
      BY <1>5, Associates
    <2>. QED  BY <1>2, <1>4, <1>5, <2>1, Zenon DEF Assoc
  <1>. QED  BY <1>6 DEF s, ReplacesAt

-----------------------------------------------------------------------------
(* Places. *)

(* The places behind a text are those of what comes behind it, and those    *)
(* that end in a text are its own.                                          *)
LEMMA FoundInParts ==
  ASSUME NEW T, NEW u \in Seq(T), NEW x \in Seq(T), NEW p \in Seq(T), p # <<>>, NEW j \in Int, j >= 1
  PROVE  /\ Len(u) + j \in Found(u \o x, p, 1) <=> j \in Found(x, p, 1)
         /\ j + Len(p) <= Len(u) + 1 => (j \in Found(u \o x, p, 1) <=> j \in Found(u, p, 1))
         /\ u \o x \in Seq(T) /\ Len(u \o x) = Len(u) + Len(x) /\ Len(u) \in Nat /\ Len(x) \in Nat
  <1> DEFINE s == u \o x
             l == Len(u)
  <1>1. /\ s \in Seq(T) /\ Len(s) = l + Len(x) /\ l \in Nat /\ Len(x) \in Nat
        /\ Len(p) \in Nat \ {0}
        /\ \A i \in 1..l : s[i] = u[i]
        /\ \A i \in 1..Len(x) : s[l + i] = x[i]
    BY CutBetween
  <1> HIDE DEF s, l
  <1>2. /\ 1 \in 1..Len(s) + 1 /\ 1 \in 1..Len(x) + 1 /\ 1 \in 1..Len(u) + 1
    BY <1>1
  <1>6. \A i : i \in Found(s, p, 1) <=>
          i \in 1..Len(s) + 1 - Len(p) /\ \A k \in 1..Len(p) : s[i + k - 1] = p[k]
    <2>1. s \in Seq(T) /\ 1 \in 1..Len(s) + 1
      BY <1>1, <1>2
    <2>. QED  BY <2>1, FoundChars
  <1>3. l + j \in Found(s, p, 1) <=>
          l + j \in 1..Len(s) + 1 - Len(p) /\ \A k \in 1..Len(p) : s[l + j + k - 1] = p[k]
    <2> DEFINE i == l + j
    <2> HIDE DEF i
    <2>. QED  BY <1>6 DEF i
  <1>4. \A i : i \in Found(x, p, 1) <=>
          i \in 1..Len(x) + 1 - Len(p) /\ \A k \in 1..Len(p) : x[i + k - 1] = p[k]
    BY <1>2, FoundChars
  <1>5. \A i : i \in Found(u, p, 1) <=>
          i \in 1..Len(u) + 1 - Len(p) /\ \A k \in 1..Len(p) : u[i + k - 1] = p[k]
    BY <1>2, FoundChars
  <1>7. l + j \in Found(s, p, 1) <=> j \in Found(x, p, 1)
    <2>1. l + j \in 1..Len(s) + 1 - Len(p) <=> j \in 1..Len(x) + 1 - Len(p)
      BY <1>1
    <2>2. ASSUME j \in 1..Len(x) + 1 - Len(p), NEW k \in 1..Len(p)
          PROVE  s[l + j + k - 1] = x[j + k - 1]
      <3>1. j + k - 1 \in 1..Len(x) /\ l + (j + k - 1) = l + j + k - 1
        BY <1>1, <2>2
      <3>. QED  BY <1>1, <3>1
    <2>3. j \in Found(x, p, 1) <=>
            j \in 1..Len(x) + 1 - Len(p) /\ \A k \in 1..Len(p) : x[j + k - 1] = p[k]
      BY <1>4
    <2>4. ASSUME j \in 1..Len(x) + 1 - Len(p)
          PROVE  (\A k \in 1..Len(p) : s[l + j + k - 1] = p[k])
                   <=> \A k \in 1..Len(p) : x[j + k - 1] = p[k]
      BY <2>2, <2>4
    <2>. QED  BY <1>3, <2>1, <2>3, <2>4
  <1>8. ASSUME j + Len(p) <= l + 1 PROVE j \in Found(s, p, 1) <=> j \in Found(u, p, 1)
    <2>1. j \in 1..Len(s) + 1 - Len(p) /\ j \in 1..Len(u) + 1 - Len(p)
      BY <1>1, <1>8 DEF l
    <2>2. ASSUME NEW k \in 1..Len(p) PROVE s[j + k - 1] = u[j + k - 1]
      <3>1. j + k - 1 \in 1..l
        BY <1>1, <1>8
      <3>. QED  BY <1>1, <3>1
    <2>. QED  BY <1>5, <1>6, <2>1, <2>2
  <1>. QED  BY <1>1, <1>7, <1>8 DEF s, l

(* A place is a number from 1 on. *)
LEMMA FoundNumbers ==
  ASSUME NEW T, NEW s \in Seq(T), NEW p \in Seq(T), p # <<>>
  PROVE  \A j \in Found(s, p, 1) : j \in Int /\ j >= 1 /\ j + Len(p) <= Len(s) + 1
  <1>1. Len(p) \in Nat \ {0} /\ Len(s) \in Nat
    OBVIOUS
  <1>. QED  BY <1>1 DEF Found

(* A text with p in it is what is before the first, p, and the rest. *)
LEMMA FirstCut ==
  ASSUME NEW T, NEW s \in Seq(T), NEW p \in Seq(T), p # <<>>, Found(s, p, 1) # {}
  PROVE  \E a, b \in Seq(T) : /\ s = a \o (p \o b) /\ Free(a, p \o b, p)
                              /\ Len(a) + 1 = Min(Found(s, p, 1)) /\ Len(b) < Len(s)
  <1> DEFINE m == Min(Found(s, p, 1))
  <1>1. /\ m \in Found(s, p, 1) /\ \A j \in Found(s, p, 1) : m <= j
        /\ m \in 1..Len(s) /\ Matches(s, p, m) /\ m + Len(p) \in 2..Len(s) + 1
    <2>1. 1 \in 1..Len(s) + 1 /\ 1 + 1 = 2
      OBVIOUS
    <2>. QED  BY <2>1, FoundPlaces
  <1> HIDE DEF m
  <1>2. Len(p) \in Nat \ {0} /\ Len(s) \in Nat
    OBVIOUS
  <1> DEFINE a == SubSeq(s, 1, m - 1)
             y == Rest(s, m)
             b == Rest(s, m + Len(p))
  <1>3. /\ a \in Seq(T) /\ Len(a) = m - 1 /\ y \in Seq(T) /\ Len(y) = Len(s) + 1 - m /\ s = a \o y
        /\ \A i \in 1..Len(s) + 1 - m : y[i] = s[m + i - 1]
    <2>1. m \in 1..Len(s) + 1
      BY <1>1, <1>2
    <2>2. /\ SubSeq(s, 1, m - 1) \in Seq(T) /\ Len(SubSeq(s, 1, m - 1)) = m - 1
          /\ Rest(s, m) \in Seq(T) /\ Len(Rest(s, m)) = Len(s) + 1 - m
          /\ \A i \in 1..Len(s) + 1 - m : Rest(s, m)[i] = s[m + i - 1]
          /\ s = SubSeq(s, 1, m - 1) \o Rest(s, m)
      BY <2>1, CutAt
    <2>. QED  BY <2>2
  <1>4. b \in Seq(T) /\ Len(b) = Len(s) + 1 - (m + Len(p))
        /\ \A i \in 1..Len(s) + 1 - (m + Len(p)) : b[i] = s[m + Len(p) + i - 1]
    <2>1. m + Len(p) \in 1..Len(s) + 1
      BY <1>1
    <2> DEFINE e == m + Len(p)
    <2> HIDE DEF e
    <2>2. Rest(s, e) \in Seq(T) /\ Len(Rest(s, e)) = Len(s) + 1 - e
          /\ \A i \in 1..Len(s) + 1 - e : Rest(s, e)[i] = s[e + i - 1]
      BY <2>1, CutAt DEF e
    <2>. QED  BY <2>2 DEF e
  <1>5. y = p \o b
    <2>1. p \o b \in Seq(T) /\ Len(p \o b) = Len(p) + Len(b)
          /\ (\A i \in 1..Len(p) : (p \o b)[i] = p[i])
          /\ \A i \in 1..Len(b) : (p \o b)[Len(p) + i] = b[i]
      <3>1. b \in Seq(T)
        BY <1>4
      <3> HIDE DEF b
      <3>. QED  BY <3>1, CutBetween
    <2>2. \A k \in 1..Len(p) : s[m + k - 1] = p[k]
      <3>1. 1 \in 1..Len(s) + 1
        BY <1>2
      <3>. QED  BY <1>1, <3>1, FoundChars, SMTT(30)
    <2> DEFINE z == p \o b
    <2> HIDE DEF y, z, b
    <2>3. Len(y) = Len(z)
      BY <1>1, <1>2, <1>3, <1>4, <2>1 DEF z
    <2>4. ASSUME NEW i \in 1..Len(y) PROVE y[i] = z[i]
      <3>1. CASE i <= Len(p)
        <4>1. i \in 1..Len(p) /\ i \in 1..Len(s) + 1 - m
          BY <1>2, <1>3, <3>1
        <4>. QED  BY <1>3, <2>1, <2>2, <4>1 DEF z
      <3>2. CASE ~(i <= Len(p))
        <4> DEFINE k == i - Len(p)
        <4>1. /\ i \in 1..Len(s) + 1 - m /\ k \in 1..Len(s) + 1 - (m + Len(p)) /\ k \in 1..Len(b)
              /\ Len(p) + k = i /\ m + Len(p) + k - 1 = m + i - 1
          BY <1>1, <1>2, <1>3, <1>4, <3>2
        <4> HIDE DEF k
        <4>2. y[i] = s[m + i - 1] /\ b[k] = s[m + i - 1] /\ z[i] = b[k]
          BY <1>3, <1>4, <2>1, <4>1 DEF z
        <4>. QED  BY <4>2
      <3>. QED  BY <3>1, <3>2
    <2>5. y \in Seq(T) /\ z \in Seq(T)
      BY <1>3, <2>1 DEF z
    <2>6. y = z
      BY <2>3, <2>4, <2>5, SeqEqual
    <2>. QED  BY <2>6 DEF z
  <1>6. Free(a, p \o b, p)
    <2>1. \A j \in Found(s, p, 1) : j > m - 1
      <3>1. \A j \in Found(s, p, 1) : j \in Int
        BY FoundNumbers
      <3>. QED  BY <1>1, <3>1
    <2> HIDE DEF a, b, y
    <2>. QED  BY <1>3, <1>5, <2>1 DEF Free
  <1>7. Len(a) + 1 = m /\ Len(b) < Len(s)
    BY <1>1, <1>2, <1>3, <1>4
  <1> HIDE DEF a, b, y
  <1>8. a \in Seq(T) /\ b \in Seq(T) /\ s = a \o (p \o b)
    BY <1>3, <1>4, <1>5
  <1>. QED  BY <1>6, <1>7, <1>8 DEF m

(* Where no place begins in u, u stays and what comes behind is replaced. *)
ReplacesBehind(u, x, f, t) == StringReplaceAll(u \o x, f, t) = u \o StringReplaceAll(x, f, t)

LEMMA ReplacedBehind ==
  ASSUME NEW T, NEW u \in Seq(T), NEW x \in Seq(T), NEW f \in Seq(T), f # <<>>, NEW t \in Seq(T),
         Free(u, x, f)
  PROVE  ReplacesBehind(u, x, f, t)
  <1>1. \A j \in Found(u \o x, f, 1) : j \in Int /\ j - Len(u) \in Int /\ j - Len(u) >= 1
                                        /\ j = Len(u) + (j - Len(u))
    <2>1. u \o x \in Seq(T) /\ Len(u) \in Nat
      OBVIOUS
    <2>2. \A j \in Found(u \o x, f, 1) : j \in Int /\ j > Len(u)
      BY <2>1, FoundNumbers DEF Free
    <2>. QED  BY <2>1, <2>2
  <1>2. \A j \in Int : j >= 1 => (Len(u) + j \in Found(u \o x, f, 1) <=> j \in Found(x, f, 1))
    BY FoundInParts
  <1>3. \A j \in Found(u \o x, f, 1) : j - Len(u) \in Found(x, f, 1)
    BY <1>1, <1>2
  <1>4. CASE Found(x, f, 1) = {}
    <2>1. Found(u \o x, f, 1) = {}
      BY <1>3, <1>4
    <2>2. u \o x \in Seq(T)
      OBVIOUS
    <2>3. StringReplaceAll(u \o x, f, t) = u \o x
      BY <2>1, <2>2, ReplaceNone
    <2>4. StringReplaceAll(x, f, t) = x
      BY <1>4, ReplaceNone
    <2>. QED  BY <2>3, <2>4 DEF ReplacesBehind
  <1>5. CASE Found(x, f, 1) # {}
    <2>1. PICK a, b \in Seq(T) : x = a \o (f \o b) /\ Free(a, f \o b, f)
      BY <1>5, FirstCut
    <2>2. ReplacesAt(a, f, b, t)
      BY <2>1, ReplacedAt
    <2>3. /\ u \o a \in Seq(T) /\ f \o b \in Seq(T) /\ Len(u \o a) = Len(u) + Len(a)
          /\ Len(u) \in Nat /\ Len(a) \in Nat
      OBVIOUS
    <2>4. Assoc(u, a, f \o b)
      BY <2>3, Associates
    <2>5. u \o x = (u \o a) \o (f \o b)
      BY <2>1, <2>4, Zenon DEF Assoc
    <2>6. Free(u \o a, f \o b, f)
      <3>1. \A j \in Found(u \o x, f, 1) : j > Len(u) + Len(a)
        <4> SUFFICES ASSUME NEW j \in Found(u \o x, f, 1) PROVE j > Len(u) + Len(a)
          OBVIOUS
        <4>1. j - Len(u) \in Found(a \o (f \o b), f, 1)
          BY <1>3, <2>1
        <4>2. j - Len(u) > Len(a)
          BY <4>1, <2>1 DEF Free
        <4>. QED  BY <1>1, <2>3, <4>2
      <3>. QED  BY <2>3, <2>5, <3>1, Zenon DEF Free
    <2>7. ReplacesAt(u \o a, f, b, t)
      BY <2>3, <2>6, ReplacedAt
    <2> DEFINE y == StringReplaceAll(b, f, t)
    <2>8. t \o y \in Seq(T)
      <3>1. y \in Seq(T)
        BY ReplaceNone
      <3>. QED  BY <3>1
    <2>9. Assoc(u, a, t \o y)
      BY <2>8, Associates
    <2>. QED  BY <2>1, <2>2, <2>5, <2>7, <2>9, Zenon DEF ReplacesBehind, ReplacesAt, Assoc
  <1>. QED  BY <1>4, <1>5

(* A text without a character, and one without the first character of p,    *)
(* where no place of p begins.                                              *)
Without(c, u) == \A i \in 1..Len(u) : u[i] # c

LEMMA FreeWithout ==
  ASSUME NEW T, NEW u \in Seq(T), NEW x \in Seq(T), NEW p \in Seq(T), p # <<>>,
         Without(p[1], u)
  PROVE  Free(u, x, p)
  <1> DEFINE s == u \o x
  <1>1. s \in Seq(T) /\ Len(u) \in Nat /\ Len(p) \in Nat \ {0} /\ Len(s) \in Nat
    OBVIOUS
  <1>2. \A i \in 1..Len(u) : s[i] = u[i]
    BY CutBetween
  <1> SUFFICES ASSUME NEW j \in Found(s, p, 1), ~(j > Len(u)) PROVE FALSE
    BY DEF Free
  <1> HIDE DEF s
  <1>3. j \in Int /\ j >= 1
    BY <1>1, FoundNumbers
  <1>4. 1 \in 1..Len(p) /\ 1 \in 1..Len(s) + 1 /\ j + 1 - 1 = j /\ j \in 1..Len(u)
    BY <1>1, <1>3
  <1>5. \A k \in 1..Len(p) : s[j + k - 1] = p[k]
    BY <1>1, <1>4, FoundChars, SMTT(30)
  <1>6. s[j] = p[1]
    BY <1>4, <1>5
  <1>. QED  BY <1>2, <1>4, <1>6 DEF Without

-----------------------------------------------------------------------------
(* What is made of parts of a text, whatever comes behind them. *)

(* Where u is in a text, w is made of it. *)
Becomes(T, f, t, u, w) ==
  \A x \in Seq(T) : StringReplaceAll(u \o x, f, t) = w \o StringReplaceAll(x, f, t)

(* A text without the first character of what is replaced stays. *)
LEMMA PlainStays ==
  ASSUME NEW T, NEW f \in Seq(T), f # <<>>, NEW t \in Seq(T), NEW u \in Seq(T),
         Without(f[1], u)
  PROVE  Becomes(T, f, t, u, u)
  <1>1. ASSUME NEW x \in Seq(T) PROVE ReplacesBehind(u, x, f, t)
    <2>1. Free(u, x, f)
      BY FreeWithout
    <2>. QED  BY <2>1, ReplacedBehind
  <1>. QED  BY <1>1, Zenon DEF Becomes, ReplacesBehind

(* What is replaced is. *)
LEMMA PatternGoes ==
  ASSUME NEW T, NEW f \in Seq(T), f # <<>>, NEW t \in Seq(T)
  PROVE  Becomes(T, f, t, f, t)
  <1>1. ASSUME NEW x \in Seq(T)
        PROVE  StringReplaceAll(f \o x, f, t) = t \o StringReplaceAll(x, f, t)
    <2> DEFINE y == StringReplaceAll(x, f, t)
    <2>1. <<>> \in Seq(T) /\ Len(<<>>) = 0 /\ f \o x \in Seq(T)
      BY EmptySeq
    <2>2. y \in Seq(T)
      BY ReplaceNone
    <2> HIDE DEF y
    <2>3. t \o y \in Seq(T)
      BY <2>2
    <2>4. <<>> \o (f \o x) = f \o x /\ <<>> \o (t \o y) = t \o y
      BY <2>1, <2>3, ConcatEmptySeq
    <2>5. Free(<<>>, f \o x, f)
      <3>1. \A j \in Found(f \o x, f, 1) : j \in Int /\ j >= 1
        BY <2>1, FoundNumbers
      <3>2. \A j \in Found(f \o x, f, 1) : j > Len(<<>>)
        BY <2>1, <3>1
      <3>. QED  BY <2>4, <3>2, Zenon DEF Free
    <2>6. ReplacesAt(<<>>, f, x, t)
      BY <2>1, <2>5, ReplacedAt
    <2>. QED  BY <2>4, <2>6, Zenon DEF ReplacesAt, y
  <1>. QED  BY <1>1, Zenon DEF Becomes

(* Of two parts, one behind the other, both are made. *)
LEMMA BecomeBoth ==
  ASSUME NEW T, NEW f \in Seq(T), f # <<>>, NEW t \in Seq(T),
         NEW u \in Seq(T), NEW w \in Seq(T), Becomes(T, f, t, u, w),
         NEW v \in Seq(T), NEW z \in Seq(T), Becomes(T, f, t, v, z)
  PROVE  Becomes(T, f, t, u \o v, w \o z)
  <1>1. ASSUME NEW x \in Seq(T)
        PROVE  StringReplaceAll((u \o v) \o x, f, t) = (w \o z) \o StringReplaceAll(x, f, t)
    <2>1. v \o x \in Seq(T) /\ StringReplaceAll(x, f, t) \in Seq(T)
      BY ReplaceNone
    <2>2. Assoc(u, v, x) /\ Assoc(w, z, StringReplaceAll(x, f, t))
      BY <2>1, Associates
    <2>. QED  BY <2>1, <2>2, Zenon DEF Becomes, Assoc
  <1>. QED  BY <1>1, Zenon DEF Becomes

(* At the end of a text nothing comes behind. *)
LEMMA BecomesAtEnd ==
  ASSUME NEW T, NEW f \in Seq(T), f # <<>>, NEW t \in Seq(T),
         NEW u \in Seq(T), NEW w \in Seq(T), Becomes(T, f, t, u, w)
  PROVE  StringReplaceAll(u, f, t) = w
  <1>1. <<>> \in Seq(T) /\ Len(<<>>) = 0 /\ u \o <<>> = u /\ w \o <<>> = w
    BY EmptySeq, ConcatEmptySeq
  <1>2. Found(<<>>, f, 1) = {}
    <2>1. Len(f) \in Nat \ {0}
      OBVIOUS
    <2>2. \A j \in Found(<<>>, f, 1) : j \in Int /\ j >= 1 /\ j + Len(f) <= Len(<<>>) + 1
      BY <1>1, FoundNumbers
    <2>. QED  BY <1>1, <2>1, <2>2
  <1>3. StringReplaceAll(<<>>, f, t) = <<>>
    BY <1>1, <1>2, ReplaceNone
  <1>4. StringReplaceAll(u \o <<>>, f, t) = w \o StringReplaceAll(<<>>, f, t)
    BY <1>1 DEF Becomes
  <1>. QED  BY <1>1, <1>3, <1>4

-----------------------------------------------------------------------------
(* Flattened sequences, piece by piece. *)

(* Where its pieces are says what a flattened sequence is. *)
LEMMA PlacedSame ==
  ASSUME NEW T, NEW n \in Nat, NEW seqs, \A k \in 1..n : seqs[k] \in Seq(T),
         NEW one \in Seq(T), NEW two \in Seq(T),
         NEW at, Placed(at, n, seqs, one), NEW to, Placed(to, n, seqs, two)
  PROVE  one = two
  <1> DEFINE S == {k \in 0..n : at[k] = to[k] /\ \A i \in 1..at[k] : one[i] = two[i]}
  <1>1. 0 \in S
    BY DEF Placed
  <1>2. ASSUME NEW k \in 0..n-1, k \in S PROVE k + 1 \in S
    <2> DEFINE m == k + 1
    <2>1. m \in 1..n /\ m - 1 = k /\ k \in 0..n /\ m \in 0..n
      OBVIOUS
    <2> HIDE DEF m
    <2>2. /\ at[m] = at[k] + Len(seqs[m]) /\ to[m] = to[k] + Len(seqs[m])
          /\ \A i \in 1..Len(seqs[m]) : one[at[k] + i] = seqs[m][i] /\ two[to[k] + i] = seqs[m][i]
          /\ at[k] \in Nat /\ at[m] \in Nat
      BY <2>1 DEF Placed
    <2>3. Len(seqs[m]) \in Nat
      BY <2>1
    <2>4. at[k] = to[k] /\ \A i \in 1..at[k] : one[i] = two[i]
      BY <1>2
    <2> DEFINE a == at[k]
               l == Len(seqs[m])
    <2> HIDE DEF a, l
    <2>5. ASSUME NEW i \in 1..a + l PROVE one[i] = two[i]
      <3>1. CASE i <= a
        BY <2>2, <2>3, <2>4, <3>1 DEF a
      <3>2. CASE ~(i <= a)
        <4>1. i - a \in 1..l /\ a + (i - a) = i
          BY <2>2, <2>3, <3>2 DEF a, l
        <4>2. \A h \in 1..l : one[a + h] = two[a + h]
          BY <2>2, <2>4 DEF a, l
        <4>. QED  BY <4>1, <4>2
      <3>. QED  BY <3>1, <3>2
    <2>6. at[m] = to[m] /\ \A i \in 1..at[m] : one[i] = two[i]
      BY <2>2, <2>4, <2>5 DEF a, l
    <2>. QED  BY <2>1, <2>6 DEF m
  <1>3. n \in S => at[n] = to[n] /\ \A i \in 1..at[n] : one[i] = two[i]
    OBVIOUS
  <1> HIDE DEF S
  <1>4. n \in S
    <2>1. \A k \in 0..n : k \in S
      BY <1>1, <1>2, Induction
    <2>. QED  BY <2>1
  <1>5. at[n] = Len(one) /\ to[n] = Len(two)
    BY DEF Placed
  <1>. QED  BY <1>3, <1>4, <1>5, SeqEqual

(* What the first k pieces are together. *)
Flat(seqs, k) == FlattenSeq(SubSeq(seqs, 1, k))

LEMMA FlatSteps ==
  ASSUME NEW T, NEW seqs \in Seq(Seq(T))
  PROVE  /\ Flat(seqs, 0) = <<>> /\ Flat(seqs, Len(seqs)) = FlattenSeq(seqs)
         /\ FlattenSeq(seqs) \in Seq(T)
         /\ \A k \in 0..Len(seqs) : Flat(seqs, k) \in Seq(T)
         /\ \A k \in 0..Len(seqs) - 1 : Flat(seqs, k + 1) = Flat(seqs, k) \o seqs[k + 1]
  <1>1. FlattenSeq(<<>>) = <<>>
    BY DEF FlattenSeq
  <1>2. SubSeq(seqs, 1, 0) = <<>> /\ SubSeq(seqs, 1, Len(seqs)) = seqs
    BY SubSeqEmpty, SubSeqFull
  <1>3. ASSUME NEW k \in 0..Len(seqs)
        PROVE  /\ Flat(seqs, k) \in Seq(T)
               /\ \E at : Placed(at, k, seqs, Flat(seqs, k))
    <2> DEFINE few == SubSeq(seqs, 1, k)
    <2>1. few \in Seq(Seq(T)) /\ Len(few) = k /\ \A i \in 1..k : few[i] = seqs[i]
      OBVIOUS
    <2> HIDE DEF few
    <2>2. FlattenSeq(few) \in Seq(T) /\ \E at : Placed(at, Len(few), few, FlattenSeq(few))
      BY <2>1, FlattenRuns
    <2>3. PICK at : Placed(at, k, few, FlattenSeq(few))
      BY <2>1, <2>2
    <2>4. Placed(at, k, seqs, FlattenSeq(few))
      <3>1. \A i \in 1..k : few[i] = seqs[i]
        BY <2>1
      <3> DEFINE flat == FlattenSeq(few)
      <3> HIDE DEF flat
      <3>2. /\ at \in [0..k -> Nat] /\ at[0] = 0 /\ at[k] = Len(flat)
            /\ \A i \in 1..k : at[i] = at[i-1] + Len(few[i]) /\ at[i] <= Len(flat)
            /\ \A i \in 1..k : \A j \in 1..Len(few[i]) : flat[at[i-1] + j] = few[i][j]
        BY <2>3 DEF Placed, flat
      <3>3. \A i \in 1..k : at[i] = at[i-1] + Len(seqs[i]) /\ at[i] <= Len(flat)
        BY <3>1, <3>2
      <3>4. ASSUME NEW i \in 1..k, NEW j \in 1..Len(seqs[i]) PROVE flat[at[i-1] + j] = seqs[i][j]
        <4>1. few[i] = seqs[i]
          BY <3>1
        <4>. QED  BY <3>2, <4>1, Zenon
      <3>. QED  BY <3>2, <3>3, <3>4 DEF Placed, flat
    <2>. QED  BY <2>2, <2>4 DEF Flat, few
  <1>4. ASSUME NEW k \in 0..Len(seqs) - 1
        PROVE  Flat(seqs, k + 1) = Flat(seqs, k) \o seqs[k + 1]
    <2>1. k \in Nat /\ k \in 0..Len(seqs) /\ k + 1 \in 0..Len(seqs) /\ k + 1 \in Nat
          /\ k + 1 \in 1..Len(seqs) /\ \A i \in 1..k + 1 : i \in 1..Len(seqs)
      OBVIOUS
    <2>2. \A i \in 1..k + 1 : seqs[i] \in Seq(T)
      BY <2>1
    <2> DEFINE one == Flat(seqs, k + 1)
               two == Flat(seqs, k)
    <2> HIDE DEF one, two
    <2>3. PICK at : Placed(at, k + 1, seqs, one)
      BY <1>3, <2>1 DEF one
    <2>4. PICK from : Placed(from, k, seqs, two)
      BY <1>3, <2>1 DEF two
    <2>5. one \in Seq(T) /\ two \in Seq(T)
      BY <1>3, <2>1 DEF one, two
    <2>6. seqs[k + 1] \in Seq(T)
      BY <2>1
    <2>7. PICK to : Placed(to, k + 1, seqs, two \o seqs[k + 1])
      BY <2>1, <2>4, <2>5, <2>6, PlacedAppend
    <2>8. two \o seqs[k + 1] \in Seq(T)
      BY <2>5, <2>6
    <2> DEFINE n == k + 1
               both == two \o seqs[k + 1]
    <2>9. /\ n \in Nat /\ one \in Seq(T) /\ both \in Seq(T) /\ \A i \in 1..n : seqs[i] \in Seq(T)
          /\ Placed(at, n, seqs, one) /\ Placed(to, n, seqs, both)
      BY <2>1, <2>2, <2>3, <2>5, <2>7, <2>8
    <2> HIDE DEF n, both
    <2>10. one = both
      BY <2>9, PlacedSame
    <2>. QED  BY <2>10 DEF one, two, both
  <1>5. Flat(seqs, 0) = <<>> /\ Flat(seqs, Len(seqs)) = FlattenSeq(seqs)
    BY <1>1, <1>2 DEF Flat
  <1>. QED  BY <1>3, <1>4, <1>5, FlattenRuns

(* Flattening both parts of a sequence. *)
LEMMA FlattenBoth ==
  ASSUME NEW T, NEW one \in Seq(Seq(T)), NEW two \in Seq(Seq(T))
  PROVE  FlattenSeq(one \o two) = FlattenSeq(one) \o FlattenSeq(two)
  <1> DEFINE all == one \o two
             l == Len(one)
             n == Len(two)
  <1>1. /\ all \in Seq(Seq(T)) /\ Len(all) = l + n /\ l \in Nat /\ n \in Nat
        /\ (\A i \in 1..n : all[l + i] = two[i])
        /\ SubSeq(all, 1, l) = one
    BY CutBetween
  <1> HIDE DEF all, l, n
  <1>2. /\ Flat(two, 0) = <<>> /\ Flat(two, n) = FlattenSeq(two) /\ FlattenSeq(one) \in Seq(T)
        /\ \A k \in 0..n : Flat(two, k) \in Seq(T)
        /\ \A k \in 0..n-1 : Flat(two, k + 1) = Flat(two, k) \o two[k + 1]
    BY FlatSteps DEF n
  <1>3. /\ Flat(all, l + n) = FlattenSeq(all)
        /\ \A k \in 0..l + n : Flat(all, k) \in Seq(T)
        /\ \A k \in 0..l + n - 1 : Flat(all, k + 1) = Flat(all, k) \o all[k + 1]
    <2>1. /\ Flat(all, Len(all)) = FlattenSeq(all)
          /\ \A k \in 0..Len(all) : Flat(all, k) \in Seq(T)
          /\ \A k \in 0..Len(all) - 1 : Flat(all, k + 1) = Flat(all, k) \o all[k + 1]
      BY <1>1, FlatSteps
    <2>2. Len(all) = l + n
      BY <1>1
    <2>3. Flat(all, l + n) = FlattenSeq(all)
      BY <2>1, <2>2, Zenon
    <2>4. \A k \in 0..l + n : Flat(all, k) \in Seq(T)
      BY <2>1, <2>2, Zenon
    <2>5. \A k \in 0..l + n - 1 : Flat(all, k + 1) = Flat(all, k) \o all[k + 1]
      <3> SUFFICES ASSUME NEW k \in 0..l + n - 1 PROVE Flat(all, k + 1) = Flat(all, k) \o all[k + 1]
        OBVIOUS
      <3>1. k \in 0..Len(all) - 1
        <4>1. l \in Nat /\ n \in Nat
          BY <1>1
        <4>. QED  BY <2>2, <4>1
      <3>. QED  BY <2>1, <3>1, Zenon
    <2>. QED  BY <2>3, <2>4, <2>5
  <1> DEFINE S == {k \in 0..n : Flat(all, l + k) = FlattenSeq(one) \o Flat(two, k)}
  <1>4. 0 \in S
    <2>1. Flat(all, l + 0) = FlattenSeq(one)
      <3>1. l + 0 = l /\ SubSeq(all, 1, l) = one
        BY <1>1
      <3>. QED  BY <3>1, Zenon DEF Flat
    <2>2. FlattenSeq(one) \o <<>> = FlattenSeq(one)
      BY <1>2, ConcatEmptySeq
    <2>. QED  BY <1>1, <1>2, <2>1, <2>2
  <1>5. ASSUME NEW k \in 0..n-1, k \in S PROVE k + 1 \in S
    <2>1. /\ l + k \in 0..l + n - 1 /\ (l + k) + 1 = l + (k + 1) /\ k + 1 \in 1..n /\ k \in 0..n
          /\ k + 1 \in 0..n
      BY <1>1
    <2>2. Flat(all, l + (k + 1)) = Flat(all, l + k) \o two[k + 1]
      <3>1. Flat(all, (l + k) + 1) = Flat(all, l + k) \o all[(l + k) + 1]
        BY <1>3, <2>1
      <3>2. all[l + (k + 1)] = two[k + 1]
        BY <1>1, <2>1
      <3>. QED  BY <2>1, <3>1, <3>2
    <2>3. Flat(all, l + k) = FlattenSeq(one) \o Flat(two, k)
      BY <1>5
    <2>4. Assoc(FlattenSeq(one), Flat(two, k), two[k + 1])
      <3>1. two[k + 1] \in Seq(T)
        BY <2>1 DEF n
      <3>2. Flat(two, k) \in Seq(T) /\ FlattenSeq(one) \in Seq(T)
        BY <1>2, <2>1
      <3>. QED  BY <3>1, <3>2, Associates
    <2>5. Flat(two, k + 1) = Flat(two, k) \o two[k + 1]
      BY <1>2
    <2>6. Flat(all, l + (k + 1)) = FlattenSeq(one) \o Flat(two, k + 1)
      BY <2>2, <2>3, <2>4, <2>5, Zenon DEF Assoc
    <2>. QED  BY <2>1, <2>6
  <1>6. n \in S => Flat(all, l + n) = FlattenSeq(one) \o Flat(two, n)
    OBVIOUS
  <1> HIDE DEF S
  <1>7. n \in S
    <2>1. \A k \in 0..n : k \in S
      BY <1>1, <1>4, <1>5, Induction
    <2>. QED  BY <1>1, <2>1
  <1>. QED  BY <1>2, <1>3, <1>6, <1>7 DEF all

(* A sequence of one text is that text, and none is none. *)
LEMMA FlattenOne ==
  ASSUME NEW T, NEW a \in Seq(T)
  PROVE  FlattenSeq(<<a>>) = a /\ FlattenSeq(<<>>) = <<>> /\ <<a>> \in Seq(Seq(T))
  <1>1. <<a>> \in Seq(Seq(T)) /\ Len(<<a>>) = 1 /\ <<a>>[1] = a
    OBVIOUS
  <1>2. Flat(<<a>>, 0) = <<>> /\ Flat(<<a>>, 1) = FlattenSeq(<<a>>)
        /\ Flat(<<a>>, 0 + 1) = Flat(<<a>>, 0) \o <<a>>[0 + 1]
    <2> DEFINE as == <<a>>
    <2> HIDE DEF as
    <2>1. as \in Seq(Seq(T)) /\ Len(as) = 1
      BY <1>1 DEF as
    <2>2. /\ Flat(as, 0) = <<>> /\ Flat(as, Len(as)) = FlattenSeq(as)
          /\ \A k \in 0..Len(as) - 1 : Flat(as, k + 1) = Flat(as, k) \o as[k + 1]
      BY <2>1, FlatSteps
    <2>. QED  BY <2>1, <2>2 DEF as
  <1>3. <<>> \o a = a
    BY ConcatEmptySeq
  <1>4. FlattenSeq(<<>>) = <<>>
    BY DEF FlattenSeq
  <1>. QED  BY <1>1, <1>2, <1>3, <1>4

(* What is made of a flattened sequence is made of each piece. *)
LEMMA BecomeFlattened ==
  ASSUME NEW T, NEW f \in Seq(T), f # <<>>, NEW t \in Seq(T),
         NEW us \in Seq(Seq(T)), NEW ws \in Seq(Seq(T)), Len(us) = Len(ws),
         \A k \in 1..Len(us) : Becomes(T, f, t, us[k], ws[k])
  PROVE  Becomes(T, f, t, FlattenSeq(us), FlattenSeq(ws))
  <1> DEFINE n == Len(us)
             S == {k \in 0..n : Becomes(T, f, t, Flat(us, k), Flat(ws, k))}
  <1>1. n \in Nat /\ (\A k \in 1..n : us[k] \in Seq(T) /\ ws[k] \in Seq(T))
    OBVIOUS
  <1>2. /\ Flat(us, 0) = <<>> /\ Flat(us, n) = FlattenSeq(us)
        /\ \A k \in 0..n : Flat(us, k) \in Seq(T)
        /\ \A k \in 0..n-1 : Flat(us, k + 1) = Flat(us, k) \o us[k + 1]
    BY FlatSteps
  <1>3. /\ Flat(ws, 0) = <<>> /\ Flat(ws, n) = FlattenSeq(ws)
        /\ \A k \in 0..n : Flat(ws, k) \in Seq(T)
        /\ \A k \in 0..n-1 : Flat(ws, k + 1) = Flat(ws, k) \o ws[k + 1]
    BY FlatSteps
  <1>4. 0 \in S
    <2>1. <<>> \in Seq(T) /\ Without(f[1], <<>>)
      BY EmptySeq DEF Without
    <2>2. Becomes(T, f, t, <<>>, <<>>)
      BY <2>1, PlainStays
    <2>. QED  BY <1>1, <1>2, <1>3, <2>2
  <1>5. ASSUME NEW k \in 0..n-1, k \in S PROVE k + 1 \in S
    <2>1. k + 1 \in 1..n /\ k \in 0..n /\ k + 1 \in 0..n
      OBVIOUS
    <2>2. Becomes(T, f, t, Flat(us, k), Flat(ws, k)) /\ Becomes(T, f, t, us[k + 1], ws[k + 1])
      BY <1>5, <2>1
    <2>3. Flat(us, k) \in Seq(T) /\ Flat(ws, k) \in Seq(T) /\ us[k + 1] \in Seq(T) /\ ws[k + 1] \in Seq(T)
      BY <1>1, <1>2, <1>3, <2>1
    <2> HIDE DEF S, n
    <2>4. Becomes(T, f, t, Flat(us, k) \o us[k + 1], Flat(ws, k) \o ws[k + 1])
      BY <2>2, <2>3, BecomeBoth
    <2>5. Becomes(T, f, t, Flat(us, k + 1), Flat(ws, k + 1))
      BY <1>2, <1>3, <2>4
    <2>. QED  BY <2>1, <2>5 DEF S
  <1>6. n \in S => Becomes(T, f, t, Flat(us, n), Flat(ws, n))
    OBVIOUS
  <1> HIDE DEF S, n
  <1>7. n \in S
    <2>1. \A k \in 0..n : k \in S
      BY <1>1, <1>4, <1>5, Induction
    <2>. QED  BY <1>1, <2>1
  <1>. QED  BY <1>2, <1>3, <1>6, <1>7

-----------------------------------------------------------------------------
(* string_split of texts with delimiters between them. *)

(* Texts with d between them. *)
Between(d, as) == FlattenSeq([k \in 1..Len(as) |-> IF k = 1 THEN as[k] ELSE d \o as[k]])

(* The pieces of the first k texts and what comes behind. *)
SplitsTo(bs, as, d, k, x) ==
  Split(Flat(bs, k) \o x, d) = SubSeq(as, 1, k - 1) \o Split(as[k] \o x, d)

(* Texts without the first character of the delimiter come back. *)
AllWithout(c, as) == \A k \in 1..Len(as) : Without(c, as[k])

(* Of the first k texts, the last. *)
LEMMA LastOfFirst ==
  ASSUME NEW T, NEW s \in Seq(T), NEW k \in 1..Len(s)
  PROVE  SubSeq(s, 1, k) = SubSeq(s, 1, k - 1) \o <<s[k]>> /\ SubSeq(s, 1, k - 1) \in Seq(T)
  <1>1. 1 \in 1..Len(s) /\ k \in 1..Len(s)
    OBVIOUS
  <1>2. SubSeq(s, 1, k) = SubSeq(s, 1, k - 1) \o <<s[k]>>
    BY <1>1, SubSeqRecursiveSecond
  <1>. QED  BY <1>1, <1>2

(* The texts behind the first, each with the delimiter in front. *)
Delimited(d, as) == [k \in 1..Len(as) |-> IF k = 1 THEN as[k] ELSE d \o as[k]]

LEMMA DelimitedTexts ==
  ASSUME NEW T, NEW d \in Seq(T), NEW as \in Seq(Seq(T)), as # <<>>
  PROVE  /\ Len(as) \in Nat \ {0} /\ \A k \in 1..Len(as) : as[k] \in Seq(T)
         /\ Delimited(d, as) \in Seq(Seq(T)) /\ Len(Delimited(d, as)) = Len(as)
         /\ Delimited(d, as)[1] = as[1]
         /\ \A k \in 1..Len(as) : k # 1 => Delimited(d, as)[k] = d \o as[k]
  <1> DEFINE n == Len(as)
  <1>1. n \in Nat /\ n # 0
    BY EmptySeq
  <1>2. ASSUME NEW k \in 1..n PROVE as[k] \in Seq(T)
    BY ElementOfSeq
  <1> HIDE DEF n
  <1>3. ASSUME NEW k \in 1..n PROVE (IF k = 1 THEN as[k] ELSE d \o as[k]) \in Seq(T)
    <2> DEFINE a == as[k]
    <2>1. a \in Seq(T)
      BY <1>2
    <2> HIDE DEF a
    <2>2. d \o a \in Seq(T)
      BY <2>1
    <2>. QED  BY <2>1, <2>2 DEF a
  <1> DEFINE b(k) == IF k = 1 THEN as[k] ELSE d \o as[k]
             bs == [k \in 1..n |-> b(k)]
  <1>4. bs \in Seq(Seq(T)) /\ Len(bs) = n
    <2>1. \A k \in 1..n : b(k) \in Seq(T)
      BY <1>3
    <2> HIDE DEF b
    <2>. QED  BY <1>1, <2>1
  <1>5. 1 \in 1..n
    BY <1>1
  <1>6. bs[1] = as[1] /\ \A k \in 1..n : k # 1 => bs[k] = d \o as[k]
    BY <1>5
  <1> HIDE DEF bs
  <1>. QED  BY <1>1, <1>2, <1>4, <1>6 DEF n, bs, Delimited

(* Texts without the first character of the delimiter come back when what is*)
(* made of them is split.                                                   *)
LEMMA SplitBetween ==
  ASSUME NEW T, NEW d \in Seq(T), d # <<>>, NEW as \in Seq(Seq(T)), as # <<>>,
         AllWithout(d[1], as)
  PROVE  Split(Between(d, as), d) = as
  <1> DEFINE n == Len(as)
             bs == Delimited(d, as)
             S == {k \in 0..n : k = 0 \/ \A x \in Seq(T) : SplitsTo(bs, as, d, k, x)}
  <1>0. /\ n \in Nat \ {0} /\ \A k \in 1..n : as[k] \in Seq(T)
        /\ bs \in Seq(Seq(T)) /\ Len(bs) = n
        /\ bs[1] = as[1] /\ \A k \in 1..n : k # 1 => bs[k] = d \o as[k]
    BY DelimitedTexts, ZenonT(30)
  <1> HIDE DEF n, bs
  <1>1. n \in Nat \ {0} /\ \A k \in 1..n : as[k] \in Seq(T)
    BY <1>0
  <1>2. /\ bs \in Seq(Seq(T)) /\ Len(bs) = n
        /\ bs[1] = as[1] /\ \A k \in 1..n : k # 1 => bs[k] = d \o as[k]
    BY <1>0
  <1>3. /\ Flat(bs, 0) = <<>> /\ Flat(bs, n) = FlattenSeq(bs)
        /\ \A k \in 0..n : Flat(bs, k) \in Seq(T)
        /\ \A k \in 0..n-1 : Flat(bs, k + 1) = Flat(bs, k) \o bs[k + 1]
    <2>1. /\ Flat(bs, 0) = <<>> /\ Flat(bs, Len(bs)) = FlattenSeq(bs)
          /\ \A k \in 0..Len(bs) : Flat(bs, k) \in Seq(T)
          /\ \A k \in 0..Len(bs) - 1 : Flat(bs, k + 1) = Flat(bs, k) \o bs[k + 1]
      BY <1>2, FlatSteps
    <2>. QED  BY <1>2, <2>1
  <1>4. 0 \in S
    BY <1>1
  <1>5. ASSUME NEW k \in 0..n-1, k \in S PROVE k + 1 \in S
    <2>1. k + 1 \in 1..n /\ k \in 0..n /\ k + 1 \in 0..n /\ (k + 1) - 1 = k
      BY <1>1
    <2>2. CASE k = 0
      <3> DEFINE a == as[1]
      <3>1. Flat(bs, 1) = <<>> \o a /\ a \in Seq(T)
        <4>1. 0 \in 0..n-1 /\ 0 + 1 = 1 /\ 1 \in 1..n
          BY <1>1
        <4>. QED  BY <1>1, <1>2, <1>3, <4>1
      <3> HIDE DEF a
      <3>2. <<>> \o a = a /\ SubSeq(as, 1, 1 - 1) = <<>>
        BY <3>1, ConcatEmptySeq, SubSeqEmpty
      <3>3. ASSUME NEW x \in Seq(T) PROVE SplitsTo(bs, as, d, 1, x)
        <4>1. a \o x \in Seq(T)
          BY <3>1
        <4>2. Split(a \o x, d) \in Seq(Seq(T))
          BY <4>1, SplitTyped
        <4>3. <<>> \o Split(a \o x, d) = Split(a \o x, d)
          BY <4>2, ConcatEmptySeq
        <4>. QED  BY <3>1, <3>2, <4>3, Zenon DEF SplitsTo, a
      <3>4. \A x \in Seq(T) : SplitsTo(bs, as, d, k + 1, x)
        <4>1. k + 1 = 1
          BY <2>2
        <4>. QED  BY <3>3, <4>1, Zenon
      <3>. QED  BY <2>1, <3>4
    <2>3. CASE k # 0
      <3>1. ASSUME NEW x \in Seq(T) PROVE SplitsTo(bs, as, d, k + 1, x)
        <4> DEFINE a == as[k]
                   e == as[k + 1]
                   y == e \o x
                   r == SubSeq(as, 1, k - 1)
        <4>1. k \in 1..n /\ k + 1 # 1
          BY <2>1, <2>3
        <4>2. /\ a \in Seq(T) /\ e \in Seq(T)
              /\ bs[k + 1] = d \o e /\ Flat(bs, k) \in Seq(T)
          BY <1>1, <1>2, <1>3, <2>1, <4>1
        <4>3. Flat(bs, k + 1) = Flat(bs, k) \o (d \o e)
          BY <1>3, <4>2
        <4>4. Without(d[1], a)
          BY <4>1 DEF n, AllWithout
        <4>5. r \in Seq(Seq(T)) /\ <<a>> \in Seq(Seq(T)) /\ SubSeq(as, 1, k) = r \o <<a>>
          <5>1. k \in 1..Len(as)
            BY <4>1, Zenon DEF n
          <5>2. SubSeq(as, 1, k) = r \o <<a>> /\ r \in Seq(Seq(T))
            BY <5>1, LastOfFirst, Zenon DEF a, r
          <5>3. <<a>> \in Seq(Seq(T))
            BY <4>2, FlattenOne
          <5>. QED  BY <5>2, <5>3
        <4> HIDE DEF a, e, r
        <4>6. y \in Seq(T) /\ d \o e \in Seq(T)
          BY <4>2
        <4>7. Assoc(d, e, x) /\ Assoc(Flat(bs, k), d \o e, x)
          BY <4>2, <4>6, Associates
        <4>8. Flat(bs, k + 1) \o x = Flat(bs, k) \o (d \o y)
          BY <4>3, <4>7, Zenon DEF Assoc
        <4> HIDE DEF y
        <4>9. d \o y \in Seq(T)
          BY <4>6
        <4>10. Split(Flat(bs, k) \o (d \o y), d) = r \o Split(a \o (d \o y), d)
          <5>1. SplitsTo(bs, as, d, k, d \o y)
            BY <1>5, <2>3, <4>9
          <5>. QED  BY <5>1, Zenon DEF a, r, SplitsTo
        <4>11. SplitsAt(a, d, y)
          <5>1. Free(a, d \o y, d)
            BY <4>2, <4>4, <4>9, FreeWithout
          <5>. QED  BY <4>2, <4>6, <5>1, SplitAt
        <4>12. Assoc(r, <<a>>, Split(y, d))
          <5>1. Split(y, d) \in Seq(Seq(T))
            BY <4>6, SplitTyped
          <5>. QED  BY <4>5, <5>1, Associates
        <4>13. Split(Flat(bs, k + 1) \o x, d) = SubSeq(as, 1, k) \o Split(y, d)
          BY <4>5, <4>8, <4>10, <4>11, <4>12, Zenon DEF SplitsAt, Assoc
        <4>. QED  BY <2>1, <4>13, Zenon DEF e, y, SplitsTo
      <3>. QED  BY <2>1, <3>1
    <2>. QED  BY <2>2, <2>3
  <1>6. n \in S => SplitsTo(bs, as, d, n, <<>>)
    <2>1. n # 0 /\ <<>> \in Seq(T)
      BY <1>1
    <2>. QED  BY <2>1
  <1> HIDE DEF S
  <1>7. n \in S
    <2>1. n \in Nat /\ n \in 0..n
      BY <1>1
    <2>2. \A k \in 0..n : k \in S
      BY <2>1, <1>4, <1>5, Induction
    <2>. QED  BY <2>1, <2>2
  <1>8. SplitsTo(bs, as, d, n, <<>>)
    BY <1>6, <1>7
  <1> DEFINE z == as[n]
             w == Flat(bs, n)
  <1>9. n \in 1..n /\ w \in Seq(T) /\ z \in Seq(T)
    <2>1. n \in 1..n /\ n \in 0..n
      BY <1>1
    <2>. QED  BY <1>1, <1>3, <2>1, Zenon
  <1>10. Without(d[1], z)
    BY <1>9 DEF n, AllWithout
  <1>11. SubSeq(as, 1, n - 1) \o <<z>> = as
    <2>1. n \in 1..Len(as) /\ n = Len(as)
      BY <1>9, Zenon DEF n
    <2>2. SubSeq(as, 1, n) = SubSeq(as, 1, n - 1) \o <<as[n]>>
      BY <2>1, LastOfFirst, Zenon
    <2>3. SubSeq(as, 1, n) = as
      BY <2>1, SubSeqFull
    <2>. QED  BY <2>2, <2>3, Zenon DEF z
  <1> HIDE DEF z, w
  <1>12. w \o <<>> = w /\ z \o <<>> = z
    BY <1>9, ConcatEmptySeq
  <1>13. Split(z, d) = <<z>>
    <2>1. Found(z, d, 1) = {}
      <3> SUFFICES ASSUME NEW j \in Found(z, d, 1) PROVE FALSE
        OBVIOUS
      <3>1. Len(d) \in Nat \ {0} /\ Len(z) \in Nat /\ 1 \in 1..Len(z) + 1
        BY <1>9
      <3>2. j \in 1..Len(z) + 1 - Len(d) /\ \A i \in 1..Len(d) : z[j + i - 1] = d[i]
        BY <1>9, <3>1, FoundChars
      <3>3. j \in 1..Len(z) /\ 1 \in 1..Len(d) /\ j + 1 - 1 = j
        BY <3>1, <3>2
      <3>. QED  BY <1>10, <3>2, <3>3 DEF Without
    <2>. QED  BY <1>9, <2>1, SplitNone
  <1>14. w = Between(d, as)
    BY <1>3, Zenon DEF w, bs, n, Between, Delimited
  <1>. QED  BY <1>8, <1>11, <1>12, <1>13, <1>14, Zenon DEF w, z, SplitsTo
-----------------------------------------------------------------------------
(* What a text is cut into, whatever comes behind it. *)

(* Where u is at the front of a text, its pieces are as. *)
Cuts(T, d, u, as) == \A x \in Seq(T) : Split(u \o x, d) = as \o Split(x, d)

(* Nothing is not cut. *)
LEMMA CutsNothing ==
  ASSUME NEW T, NEW d \in Seq(T), d # <<>>
  PROVE  Cuts(T, d, <<>>, <<>>)
  <1>1. ASSUME NEW x \in Seq(T) PROVE Split(<<>> \o x, d) = <<>> \o Split(x, d)
    <2>1. <<>> \o x = x
      BY ConcatEmptySeq
    <2>2. <<>> \o Split(x, d) = Split(x, d)
      BY SplitTyped, ConcatEmptySeq
    <2>. QED  BY <2>1, <2>2, Zenon
  <1>. QED  BY <1>1, Zenon DEF Cuts

(* A text without the first character of the delimiter, and the delimiter. *)
LEMMA CutsPiece ==
  ASSUME NEW T, NEW d \in Seq(T), d # <<>>, NEW a \in Seq(T), Without(d[1], a)
  PROVE  Cuts(T, d, a \o d, <<a>>)
  <1>1. ASSUME NEW x \in Seq(T) PROVE Split((a \o d) \o x, d) = <<a>> \o Split(x, d)
    <2>1. d \o x \in Seq(T)
      OBVIOUS
    <2>2. Free(a, d \o x, d)
      BY <2>1, FreeWithout
    <2>3. SplitsAt(a, d, x)
      BY <2>2, SplitAt
    <2>4. Assoc(a, d, x)
      BY Associates
    <2>. QED  BY <2>3, <2>4, Zenon DEF SplitsAt, Assoc
  <1>. QED  BY <1>1, Zenon DEF Cuts

(* Of two texts, one behind the other, both are cut. *)
LEMMA CutsBoth ==
  ASSUME NEW T, NEW d \in Seq(T), d # <<>>,
         NEW u \in Seq(T), NEW as \in Seq(Seq(T)), Cuts(T, d, u, as),
         NEW v \in Seq(T), NEW bs \in Seq(Seq(T)), Cuts(T, d, v, bs)
  PROVE  Cuts(T, d, u \o v, as \o bs)
  <1>1. ASSUME NEW x \in Seq(T) PROVE Split((u \o v) \o x, d) = (as \o bs) \o Split(x, d)
    <2>1. v \o x \in Seq(T)
      OBVIOUS
    <2>2. Split(x, d) \in Seq(Seq(T))
      BY SplitTyped
    <2>3. Assoc(u, v, x)
      BY Associates
    <2>4. Assoc(as, bs, Split(x, d))
      BY <2>2, Associates
    <2>. QED  BY <2>1, <2>3, <2>4, Zenon DEF Cuts, Assoc
  <1>. QED  BY <1>1, Zenon DEF Cuts

(* At the end of a text the last piece comes behind. *)
LEMMA CutsAtEnd ==
  ASSUME NEW T, NEW d \in Seq(T), d # <<>>,
         NEW u \in Seq(T), NEW as \in Seq(Seq(T)), Cuts(T, d, u, as),
         NEW z \in Seq(T), Without(d[1], z)
  PROVE  Split(u \o z, d) = as \o <<z>>
  <1>1. Found(z, d, 1) = {}
    <2> SUFFICES ASSUME NEW j \in Found(z, d, 1) PROVE FALSE
      OBVIOUS
    <2>1. Len(d) \in Nat \ {0} /\ Len(z) \in Nat /\ 1 \in 1..Len(z) + 1
      OBVIOUS
    <2>2. j \in 1..Len(z) + 1 - Len(d) /\ \A i \in 1..Len(d) : z[j + i - 1] = d[i]
      BY <2>1, FoundChars
    <2>3. j \in 1..Len(z) /\ 1 \in 1..Len(d) /\ j + 1 - 1 = j
      BY <2>1, <2>2
    <2>. QED  BY <2>2, <2>3 DEF Without
  <1>2. Split(z, d) = <<z>>
    BY <1>1, SplitNone
  <1>. QED  BY <1>2, Zenon DEF Cuts

(* Texts that end with the delimiter each. *)
Ended(d, as) == [k \in 1..Len(as) |-> as[k] \o d]

LEMMA CutsEnded ==
  ASSUME NEW T, NEW d \in Seq(T), d # <<>>, NEW as \in Seq(Seq(T)), AllWithout(d[1], as)
  PROVE  /\ Ended(d, as) \in Seq(Seq(T))
         /\ Cuts(T, d, FlattenSeq(Ended(d, as)), as)
  <1> DEFINE n == Len(as)
             us == Ended(d, as)
             S == {k \in 0..n : Cuts(T, d, Flat(us, k), SubSeq(as, 1, k))}
  <1>1. n \in Nat
    BY LenProperties
  <1>2. ASSUME NEW k \in 1..n PROVE as[k] \in Seq(T) /\ as[k] \o d \in Seq(T)
    <2>1. as[k] \in Seq(T)
      BY ElementOfSeq
    <2>. QED  BY <2>1, ConcatProperties
  <1>3. us \in Seq(Seq(T)) /\ Len(us) = n /\ \A k \in 1..n : us[k] = as[k] \o d
    <2> HIDE DEF n
    <2> DEFINE e(k) == as[k] \o d
    <2>1. \A k \in 1..n : e(k) \in Seq(T)
      BY <1>2
    <2> HIDE DEF e
    <2>2. [k \in 1..n |-> e(k)] \in Seq(Seq(T)) /\ Len([k \in 1..n |-> e(k)]) = n
      BY <1>1, <2>1
    <2>3. us = [k \in 1..n |-> e(k)]
      BY DEF e, Ended, n
    <2>. QED  BY <2>2, <2>3 DEF e
  <1>4. /\ Flat(us, 0) = <<>> /\ Flat(us, n) = FlattenSeq(us)
        /\ \A k \in 0..n : Flat(us, k) \in Seq(T)
        /\ \A k \in 0..n-1 : Flat(us, k + 1) = Flat(us, k) \o us[k + 1]
    <2> HIDE DEF us
    <2>1. /\ Flat(us, 0) = <<>> /\ Flat(us, Len(us)) = FlattenSeq(us)
          /\ \A k \in 0..Len(us) : Flat(us, k) \in Seq(T)
          /\ \A k \in 0..Len(us) - 1 : Flat(us, k + 1) = Flat(us, k) \o us[k + 1]
      BY <1>3, FlatSteps
    <2> HIDE DEF n
    <2>. QED  BY <1>3, <2>1
  <1> HIDE DEF us
  <1>5. 0 \in S
    <2>1. SubSeq(as, 1, 0) = <<>>
      BY SubSeqEmpty
    <2>2. Cuts(T, d, <<>>, <<>>)
      BY CutsNothing
    <2>3. 0 \in 0..n
      <3> HIDE DEF n
      <3>. QED  BY <1>1
    <2>. QED  BY <1>4, <2>1, <2>2, <2>3, Zenon
  <1>6. ASSUME NEW k \in 0..n-1, k \in S PROVE k + 1 \in S
    <2>1. k + 1 \in 1..n /\ k \in 0..n /\ k + 1 \in 0..n /\ (k + 1) - 1 = k
      <3> HIDE DEF n, S
      <3>. QED  BY <1>1
    <2> DEFINE a == as[k + 1]
               r == SubSeq(as, 1, k)
               u == Flat(us, k)
    <2>2. a \in Seq(T) /\ a \o d \in Seq(T)
      BY <1>2, <2>1
    <2>3. u \in Seq(T) /\ Cuts(T, d, u, r)
      BY <1>4, <1>6, <2>1
    <2>4. SubSeq(as, 1, k + 1) = r \o <<a>> /\ r \in Seq(Seq(T))
      <3>1. SubSeq(as, 1, k + 1) = SubSeq(as, 1, (k + 1) - 1) \o <<as[k + 1]>>
            /\ SubSeq(as, 1, (k + 1) - 1) \in Seq(Seq(T))
        <4> DEFINE m == k + 1
        <4>1. m \in 1..Len(as)
          BY <2>1
        <4> HIDE DEF m
        <4>2. SubSeq(as, 1, m) = SubSeq(as, 1, m - 1) \o <<as[m]>> /\ SubSeq(as, 1, m - 1) \in Seq(Seq(T))
          BY <4>1, LastOfFirst
        <4>. QED  BY <4>2 DEF m
      <3>. QED  BY <2>1, <3>1, Zenon
    <2>5. Without(d[1], a)
      <3>1. k + 1 \in 1..Len(as)
        BY <2>1
      <3>. QED  BY <3>1, Zenon DEF AllWithout
    <2>6. Flat(us, k + 1) = u \o (a \o d)
      BY <1>3, <1>4, <2>1, Zenon
    <2> HIDE DEF a, r, u
    <2>7. Cuts(T, d, a \o d, <<a>>) /\ <<a>> \in Seq(Seq(T))
      BY <2>2, <2>5, CutsPiece, FlattenOne
    <2>8. Cuts(T, d, u \o (a \o d), r \o <<a>>)
      <3> DEFINE v == a \o d
                 bs == <<a>>
      <3>1. v \in Seq(T) /\ bs \in Seq(Seq(T)) /\ Cuts(T, d, v, bs)
        BY <2>2, <2>7
      <3> HIDE DEF v, bs
      <3>2. Cuts(T, d, u \o v, r \o bs)
        BY <2>3, <2>4, <3>1, CutsBoth
      <3>. QED  BY <3>2 DEF v, bs
    <2>9. Cuts(T, d, Flat(us, k + 1), SubSeq(as, 1, k + 1))
      BY <2>4, <2>6, <2>8, Zenon
    <2>. QED  BY <2>1, <2>9
  <1>7. n \in S => Cuts(T, d, Flat(us, n), SubSeq(as, 1, n))
    OBVIOUS
  <1>8. SubSeq(as, 1, n) = as
    BY SubSeqFull
  <1> HIDE DEF S, n
  <1>9. n \in S
    <2>1. n \in Nat /\ n \in 0..n
      BY <1>1
    <2>2. \A k \in 0..n : k \in S
      BY <2>1, <1>5, <1>6, Induction
    <2>. QED  BY <2>1, <2>2
  <1>10. Cuts(T, d, FlattenSeq(us), as)
    BY <1>4, <1>7, <1>8, <1>9, Zenon
  <1>. QED  BY <1>3, <1>10 DEF us

-----------------------------------------------------------------------------
(* The headers of an answer. *)

(* The line of a header, as it is sent. *)
LineText(line) == line.key \o <<":">> \o line.value
LineTexts(lines) == [i \in 1..Len(lines) |-> LineText(lines[i])]

(* Lines of headers over T. *)
Lined(T, lines) ==
  /\ {"s", Cr, Lf, ":"} \subseteq T
  /\ lines \in Seq([key : Seq(T), value : Seq(T)])
  /\ \A i \in 1..Len(lines) :
       /\ Without(Cr, lines[i].key) /\ Without(Lf, lines[i].key) /\ Without(":", lines[i].key)
       /\ Without(Cr, lines[i].value) /\ Without(Lf, lines[i].value)
       /\ lines[i].key # <<>> => lines[i].key[1] # " "

(* What ends and separates lines. *)
CrLf == <<Cr, Lf>>

LEMMA Marks ==
  ASSUME NEW T, NEW lines, Lined(T, lines)
  PROVE  /\ CrLf \in Seq(T) /\ CrLf # <<>> /\ CrLf[1] = Cr
         /\ <<Lf>> \in Seq(T) /\ <<Lf>> # <<>> /\ <<Lf>>[1] = Lf
         /\ <<"s">> \in Seq(T) /\ Without(Cr, <<"s">>) /\ Without(Lf, <<"s">>)
         /\ <<":">> \in Seq(T) /\ Without(Cr, <<":">>) /\ Without(Lf, <<":">>)
         /\ <<>> \in Seq(T) /\ Without(Lf, <<>>)
  <1>1. Cr \in T /\ Lf \in T /\ "s" \in T /\ ":" \in T
    BY DEF Lined
  <1>2. Cr # "s" /\ Lf # "s" /\ Cr # ":" /\ Lf # ":"
    BY DEF Cr, Lf
  <1> HIDE DEF Cr, Lf
  <1>3. CrLf \in Seq(T) /\ CrLf # <<>> /\ CrLf[1] = Cr
    BY <1>1 DEF CrLf
  <1>4. <<Lf>> \in Seq(T) /\ <<Lf>> # <<>> /\ <<Lf>>[1] = Lf
    BY <1>1
  <1>5. <<"s">> \in Seq(T) /\ Len(<<"s">>) = 1 /\ <<"s">>[1] = "s"
    BY <1>1
  <1>6. <<":">> \in Seq(T) /\ Len(<<":">>) = 1 /\ <<":">>[1] = ":"
    BY <1>1
  <1>7. /\ Without(Cr, <<"s">>) /\ Without(Lf, <<"s">>)
        /\ Without(Cr, <<":">>) /\ Without(Lf, <<":">>)
    BY <1>2, <1>5, <1>6 DEF Without
  <1>8. <<>> \in Seq(T) /\ Without(Lf, <<>>)
    BY EmptySeq DEF Without
  <1>. QED  BY <1>3, <1>4, <1>5, <1>6, <1>7, <1>8

(* A character that none of two texts has. *)
LEMMA WithoutBoth ==
  ASSUME NEW T, NEW c, NEW u \in Seq(T), NEW v \in Seq(T), Without(c, u), Without(c, v)
  PROVE  u \o v \in Seq(T) /\ Without(c, u \o v)
  <1>1. u \o v \in Seq(T)
    OBVIOUS
  <1>2. Len(u) \in Nat /\ Len(v) \in Nat /\ Len(u \o v) = Len(u) + Len(v)
    OBVIOUS
  <1>3. ASSUME NEW i \in 1..Len(u \o v) PROVE (u \o v)[i] # c
    <2>1. i \in 1..Len(u) + Len(v)
      BY <1>2
    <2>2. (u \o v)[i] = IF i <= Len(u) THEN u[i] ELSE v[i - Len(u)]
      BY <2>1, ConcatProperties
    <2>3. CASE i <= Len(u)
      BY <1>2, <2>1, <2>2, <2>3 DEF Without
    <2>4. CASE ~(i <= Len(u))
      <3>1. i - Len(u) \in 1..Len(v)
        BY <1>2, <2>1, <2>4
      <3>. QED  BY <2>2, <2>4, <3>1 DEF Without
    <2>. QED  BY <2>3, <2>4
  <1>. QED  BY <1>1, <1>3 DEF Without

(* The line of a header has no other line in it. *)
LEMMA LineTyped ==
  ASSUME NEW T, NEW lines, Lined(T, lines), NEW i \in 1..Len(lines)
  PROVE  /\ lines[i].key \in Seq(T) /\ lines[i].value \in Seq(T) /\ <<":">> \in Seq(T)
         /\ <<":">> \o lines[i].value \in Seq(T)
         /\ LineText(lines[i]) = lines[i].key \o (<<":">> \o lines[i].value)
         /\ LineText(lines[i]) \in Seq(T)
         /\ Without(Cr, LineText(lines[i])) /\ Without(Lf, LineText(lines[i]))
  <1> DEFINE k == lines[i].key
             v == lines[i].value
             c == <<":">>
  <1>1. lines[i] \in [key : Seq(T), value : Seq(T)]
    BY ElementOfSeq DEF Lined
  <1>2. k \in Seq(T) /\ v \in Seq(T)
    BY <1>1
  <1>3. c \in Seq(T) /\ Without(Cr, c) /\ Without(Lf, c)
    BY Marks
  <1>4. Without(Cr, k) /\ Without(Lf, k) /\ Without(Cr, v) /\ Without(Lf, v)
    BY DEF Lined
  <1>5. LineText(lines[i]) = (k \o c) \o v
    BY DEF LineText
  <1> HIDE DEF k, v, c
  <1>6. k \o c \in Seq(T) /\ c \o v \in Seq(T) /\ Without(Cr, k \o c) /\ Without(Lf, k \o c)
    BY <1>2, <1>3, <1>4, WithoutBoth
  <1>7. /\ (k \o c) \o v \in Seq(T)
        /\ Without(Cr, (k \o c) \o v) /\ Without(Lf, (k \o c) \o v)
    <2> DEFINE u == k \o c
    <2> HIDE DEF u
    <2>1. u \in Seq(T) /\ Without(Cr, u) /\ Without(Lf, u)
      BY <1>6 DEF u
    <2>2. u \o v \in Seq(T) /\ Without(Cr, u \o v) /\ Without(Lf, u \o v)
      BY <1>2, <1>4, <2>1, WithoutBoth
    <2>. QED  BY <2>2 DEF u
  <1>8. Assoc(k, c, v)
    BY <1>2, <1>3, Associates
  <1>. QED  BY <1>2, <1>3, <1>5, <1>6, <1>7, <1>8, Zenon DEF Assoc, k, v, c

(* The texts of the lines. *)
LEMMA LinesTyped ==
  ASSUME NEW T, NEW lines, Lined(T, lines)
  PROVE  /\ LineTexts(lines) \in Seq(Seq(T)) /\ Len(LineTexts(lines)) = Len(lines)
         /\ Len(lines) \in Nat /\ DOMAIN lines = 1..Len(lines)
         /\ \A i \in 1..Len(lines) : LineTexts(lines)[i] = LineText(lines[i])
         /\ AllWithout(Cr, LineTexts(lines)) /\ AllWithout(Lf, LineTexts(lines))
  <1> DEFINE n == Len(lines)
             t(i) == LineText(lines[i])
  <1>1. n \in Nat /\ DOMAIN lines = 1..n
    BY LenProperties DEF Lined
  <1>2. \A i \in 1..n : t(i) \in Seq(T) /\ Without(Cr, t(i)) /\ Without(Lf, t(i))
    BY LineTyped
  <1> HIDE DEF t
  <1>3. LineTexts(lines) = [i \in 1..n |-> t(i)]
    BY DEF LineTexts, t
  <1> HIDE DEF n
  <1>4. [i \in 1..n |-> t(i)] \in Seq(Seq(T)) /\ Len([i \in 1..n |-> t(i)]) = n
    BY <1>1, <1>2
  <1>5. AllWithout(Cr, LineTexts(lines)) /\ AllWithout(Lf, LineTexts(lines))
    BY <1>2, <1>3, <1>4 DEF AllWithout
  <1>. QED  BY <1>1, <1>3, <1>4, <1>5 DEF n, t

(* What is sent, and what it is made into. *)
Sent(lines) == <<"s">> \o CrLf \o FlattenSeq(Ended(CrLf, LineTexts(lines))) \o CrLf
Plain(lines) == <<"s">> \o <<Lf>> \o FlattenSeq(Ended(<<Lf>>, LineTexts(lines))) \o <<Lf>>

(* What libcurl passes on is the status line, the lines and an empty line. *)
LEMMA IsSent ==
  ASSUME NEW T, NEW lines, Lined(T, lines)
  PROVE  RawHeaders(lines) = Sent(lines)
  <1>1. /\ DOMAIN lines = 1..Len(lines) /\ Len(LineTexts(lines)) = Len(lines)
        /\ \A i \in 1..Len(lines) : LineTexts(lines)[i] = LineText(lines[i])
    BY LinesTyped
  <1>2. [i \in DOMAIN lines |-> lines[i].key \o <<":">> \o lines[i].value \o <<Cr, Lf>>]
          = Ended(CrLf, LineTexts(lines))
    BY <1>1 DEF Ended, CrLf, LineText
  <1>. QED  BY <1>2, Zenon DEF RawHeaders, Sent, CrLf

(* Each line that ends with CrLf becomes one that ends with Lf. *)
LEMMA LinesBecome ==
  ASSUME NEW T, NEW lines, Lined(T, lines)
  PROVE  /\ FlattenSeq(Ended(CrLf, LineTexts(lines))) \in Seq(T)
         /\ FlattenSeq(Ended(<<Lf>>, LineTexts(lines))) \in Seq(T)
         /\ Becomes(T, CrLf, <<Lf>>, FlattenSeq(Ended(CrLf, LineTexts(lines))),
                    FlattenSeq(Ended(<<Lf>>, LineTexts(lines))))
  <1> DEFINE f == CrLf
             t == <<Lf>>
             as == LineTexts(lines)
             n == Len(as)
  <1>1. f \in Seq(T) /\ f # <<>> /\ f[1] = Cr /\ t \in Seq(T) /\ t # <<>> /\ t[1] = Lf
    BY Marks
  <1>2. as \in Seq(Seq(T)) /\ AllWithout(Cr, as) /\ AllWithout(Lf, as)
    BY LinesTyped
  <1> HIDE DEF f, t, as
  <1>3. Ended(f, as) \in Seq(Seq(T)) /\ Ended(t, as) \in Seq(Seq(T))
    BY <1>1, <1>2, CutsEnded
  <1>4. n \in Nat /\ \A k \in 1..n : as[k] \in Seq(T)
    BY <1>2, ElementOfSeq, LenProperties
  <1>5. /\ Len(Ended(f, as)) = n /\ Len(Ended(t, as)) = n
        /\ \A k \in 1..n : Ended(f, as)[k] = as[k] \o f /\ Ended(t, as)[k] = as[k] \o t
    <2> HIDE DEF n
    <2> DEFINE u(k) == as[k] \o f
               w(k) == as[k] \o t
    <2> HIDE DEF u, w
    <2>1. Ended(f, as) = [k \in 1..n |-> u(k)] /\ Ended(t, as) = [k \in 1..n |-> w(k)]
      BY Zenon DEF Ended, n, u, w
    <2>2. n \in Nat
      BY <1>4
    <2>3. /\ Len(Ended(f, as)) = n /\ Len(Ended(t, as)) = n
          /\ \A k \in 1..n : Ended(f, as)[k] = u(k) /\ Ended(t, as)[k] = w(k)
      BY <2>1, <2>2
    <2>. QED  BY <2>3, Zenon DEF u, w
  <1>6. ASSUME NEW k \in 1..n PROVE Becomes(T, f, t, Ended(f, as)[k], Ended(t, as)[k])
    <2> DEFINE a == as[k]
    <2>1. a \in Seq(T) /\ Without(Cr, a)
      BY <1>2, <1>4 DEF AllWithout
    <2> HIDE DEF a
    <2>2. Becomes(T, f, t, a, a)
      BY <1>1, <2>1, PlainStays
    <2>3. Becomes(T, f, t, f, t)
      BY <1>1, PatternGoes
    <2>4. Becomes(T, f, t, a \o f, a \o t)
      BY <1>1, <2>1, <2>2, <2>3, BecomeBoth
    <2>. QED  BY <1>5, <2>4 DEF a
  <1>7. Becomes(T, f, t, FlattenSeq(Ended(f, as)), FlattenSeq(Ended(t, as)))
    <2> DEFINE us == Ended(f, as)
               ws == Ended(t, as)
    <2>1. us \in Seq(Seq(T)) /\ ws \in Seq(Seq(T)) /\ Len(us) = Len(ws)
      BY <1>3, <1>5
    <2>2. \A k \in 1..Len(us) : Becomes(T, f, t, us[k], ws[k])
      BY <1>5, <1>6
    <2> HIDE DEF us, ws
    <2>3. Becomes(T, f, t, FlattenSeq(us), FlattenSeq(ws))
      BY <1>1, <2>1, <2>2, BecomeFlattened
    <2>. QED  BY <2>3 DEF us, ws
  <1>8. FlattenSeq(Ended(f, as)) \in Seq(T) /\ FlattenSeq(Ended(t, as)) \in Seq(T)
    BY <1>3, FlattenRuns
  <1>. QED  BY <1>7, <1>8 DEF f, t, as

(* What is sent becomes plain lines. *)
LEMMA SentBecomes ==
  ASSUME NEW T, NEW lines, Lined(T, lines)
  PROVE  /\ Sent(lines) \in Seq(T) /\ Plain(lines) \in Seq(T)
         /\ Becomes(T, CrLf, <<Lf>>, Sent(lines), Plain(lines))
  <1> DEFINE f == CrLf
             t == <<Lf>>
             s == <<"s">>
             x == FlattenSeq(Ended(f, LineTexts(lines)))
             y == FlattenSeq(Ended(t, LineTexts(lines)))
  <1>1. f \in Seq(T) /\ f # <<>> /\ f[1] = Cr /\ t \in Seq(T) /\ s \in Seq(T) /\ Without(Cr, s)
    BY Marks
  <1>2. x \in Seq(T) /\ y \in Seq(T) /\ Becomes(T, f, t, x, y)
    BY LinesBecome
  <1>3. Sent(lines) = ((s \o f) \o x) \o f /\ Plain(lines) = ((s \o t) \o y) \o t
    BY Zenon DEF Sent, Plain
  <1> HIDE DEF f, t, s, x, y
  <1>4. Becomes(T, f, t, s, s) /\ Becomes(T, f, t, f, t)
    BY <1>1, PlainStays, PatternGoes
  <1> DEFINE a == s \o f
             b == s \o t
  <1>5. a \in Seq(T) /\ b \in Seq(T)
    BY <1>1, ConcatProperties
  <1>6. Becomes(T, f, t, a, b)
    BY <1>1, <1>4, BecomeBoth
  <1> HIDE DEF a, b
  <1> DEFINE c == a \o x
             d == b \o y
  <1>7. c \in Seq(T) /\ d \in Seq(T)
    BY <1>2, <1>5, ConcatProperties
  <1>8. Becomes(T, f, t, c, d)
    BY <1>1, <1>2, <1>5, <1>6, BecomeBoth
  <1> HIDE DEF c, d
  <1>9. c \o f \in Seq(T) /\ d \o t \in Seq(T)
    BY <1>1, <1>7, ConcatProperties
  <1>10. Becomes(T, f, t, c \o f, d \o t)
    BY <1>1, <1>4, <1>7, <1>8, BecomeBoth
  <1>. QED  BY <1>3, <1>9, <1>10, Zenon DEF a, b, c, d, f, t

(* Plain lines are cut into the status line, the headers and an empty line. *)
HeaderCut(lines) == (<< <<"s">> >> \o LineTexts(lines)) \o << <<>> >>

LEMMA PlainIsCut ==
  ASSUME NEW T, NEW lines, Lined(T, lines)
  PROVE  HeaderCut(lines) \in Seq(Seq(T)) /\ Cuts(T, <<Lf>>, Plain(lines), HeaderCut(lines))
  <1> DEFINE t == <<Lf>>
             s == <<"s">>
             as == LineTexts(lines)
             y == FlattenSeq(Ended(t, as))
             none == <<>>
  <1>1. t \in Seq(T) /\ t # <<>> /\ t[1] = Lf /\ s \in Seq(T) /\ Without(Lf, s)
        /\ none \in Seq(T) /\ Without(Lf, none)
    BY Marks
  <1>2. as \in Seq(Seq(T)) /\ AllWithout(Lf, as)
    BY LinesTyped
  <1>3. Plain(lines) = ((s \o t) \o y) \o t /\ HeaderCut(lines) = (<<s>> \o as) \o <<none>>
    BY Zenon DEF Plain, HeaderCut
  <1> HIDE DEF t, s, as
  <1>4. y \in Seq(T) /\ Cuts(T, t, y, as)
    <2>1. Ended(t, as) \in Seq(Seq(T)) /\ Cuts(T, t, y, as)
      BY <1>1, <1>2, CutsEnded
    <2>. QED  BY <2>1, FlattenRuns
  <1> HIDE DEF y
  <1>5. <<s>> \in Seq(Seq(T)) /\ <<none>> \in Seq(Seq(T))
    BY <1>1, FlattenOne
  <1>6. Cuts(T, t, s \o t, <<s>>)
    BY <1>1, CutsPiece
  <1>7. Cuts(T, t, t, <<none>>)
    <2>1. none \o t = t
      BY <1>1, ConcatEmptySeq
    <2> HIDE DEF none
    <2>2. Cuts(T, t, none \o t, <<none>>)
      BY <1>1, CutsPiece
    <2>. QED  BY <2>1, <2>2
  <1> DEFINE a == s \o t
             as1 == <<s>>
             e == <<none>>
  <1>8. a \in Seq(T)
    BY <1>1, ConcatProperties
  <1> HIDE DEF none
  <1>9. as1 \in Seq(Seq(T)) /\ e \in Seq(Seq(T)) /\ Cuts(T, t, a, as1) /\ Cuts(T, t, t, e)
    BY <1>5, <1>6, <1>7
  <1> HIDE DEF a, as1, e
  <1> DEFINE b == a \o y
             bs == as1 \o as
  <1>10. b \in Seq(T) /\ bs \in Seq(Seq(T))
    <2>1. b \in Seq(T)
      BY <1>4, <1>8, ConcatProperties
    <2>2. bs \in Seq(Seq(T))
      BY <1>2, <1>9, ConcatProperties
    <2>. QED  BY <2>1, <2>2
  <1>11. Cuts(T, t, b, bs)
    BY <1>1, <1>2, <1>4, <1>8, <1>9, CutsBoth
  <1> HIDE DEF b, bs
  <1>12. Cuts(T, t, b \o t, bs \o e)
    BY <1>1, <1>9, <1>10, <1>11, CutsBoth
  <1>13. bs \o e \in Seq(Seq(T))
    BY <1>9, <1>10, ConcatProperties
  <1>. QED  BY <1>3, <1>12, <1>13, Zenon DEF a, as1, b, bs, e, t

(* A value without the spaces at its front. *)
Trim(s) == SubSeq(s, Min({i \in 1..Len(s) + 1 : i = Len(s) + 1 \/ s[i] # Blank}), Len(s))

LEMMA IsTrimmed ==
  ASSUME NEW T, NEW s \in Seq(T)
  PROVE  RemoveWhiteSpaceAtFront(s) = Trim(s)
  <1> DEFINE n == Len(s)
             all == {i \in 1..n + 1 : i = n + 1 \/ s[i] # Blank}
             few == {i \in DOMAIN s : s[i] # " "}
  <1>1. n \in Nat /\ DOMAIN s = 1..n
    BY LenProperties
  <1>2. Blank = " "
    BY DEF Blank
  <1> HIDE DEF n
  <1>3. all = few \cup {n + 1} /\ few \subseteq 1..n
    <2>1. few = {i \in 1..n : s[i] # Blank}
      BY <1>1, <1>2, Zenon
    <2> HIDE DEF few
    <2>2. \A i \in 1..n + 1 : i \in 1..n \/ i = n + 1
      BY <1>1
    <2>3. n + 1 \in 1..n + 1 /\ \A i \in 1..n : i \in 1..n + 1
      BY <1>1
    <2>4. \A i : i \in all <=> i \in few \/ i = n + 1
      BY <2>1, <2>2, <2>3, Zenon
    <2> HIDE DEF all
    <2>. QED  BY <2>1, <2>4, Zenon
  <1> HIDE DEF all, few
  <1>4. Min(all) \in all /\ \A i \in all : Min(all) <= i
    <2>1. all \in SUBSET Nat /\ all # {}
      BY <1>1, <1>3
    <2>. QED  BY <2>1, LeastNatural
  <1>5. CASE few = {}
    <2>1. Min(all) = n + 1
      BY <1>3, <1>4, <1>5
    <2>2. SubSeq(s, n + 1, n) = <<>>
      BY <1>1, SubSeqEmpty
    <2>. QED  BY <1>5, <2>1, <2>2, Zenon DEF RemoveWhiteSpaceAtFront, Trim, all, few, n
  <1>6. CASE few # {}
    <2>1. Min(few) \in few /\ \A i \in few : Min(few) <= i
      <3>1. few \in SUBSET Nat
        BY <1>1, <1>3
      <3>. QED  BY <1>6, <3>1, LeastNatural
    <2>2. Min(few) = Min(all)
      <3> DEFINE a == Min(few)
                 b == Min(all)
      <3>1. a \in 1..n /\ b \in all /\ a \in all /\ a \in few
        BY <1>3, <1>4, <2>1
      <3>2. b <= a
        BY <1>4, <3>1
      <3>3. b \in few \/ b = n + 1
        BY <1>3, <3>1
      <3>4. b \in few
        <4> HIDE DEF a, b
        <4>. QED  BY <1>1, <3>1, <3>2, <3>3
      <3>5. a <= b
        BY <2>1, <3>4
      <3>6. b \in 1..n
        BY <1>3, <3>4
      <3> HIDE DEF a, b
      <3>7. a = b
        BY <1>1, <3>1, <3>2, <3>5, <3>6
      <3>. QED  BY <3>7 DEF a, b
    <2>. QED  BY <1>6, <2>2, Zenon DEF RemoveWhiteSpaceAtFront, Rest, Trim, all, few, n
  <1>. QED  BY <1>5, <1>6

(* A text that does not begin with a space. *)
Unspaced(s) == s # <<>> => s[1] # " "

LEMMA NotTrimmed ==
  ASSUME NEW T, NEW s \in Seq(T), Unspaced(s)
  PROVE  RemoveWhiteSpaceAtFront(s) = s
  <1> DEFINE n == Len(s)
             all == {i \in 1..n + 1 : i = n + 1 \/ s[i] # Blank}
  <1>1. n \in Nat /\ (s = <<>> => n = 0)
    BY EmptySeq, LenProperties
  <1>2. s # <<>> => s[1] # Blank
    BY Zenon DEF Blank, Unspaced
  <1> HIDE DEF n
  <1>3. n \in Nat
    BY <1>1
  <1>4. 1 \in 1..n + 1 /\ \A i \in 1..n + 1 : i \in Nat /\ 1 <= i
    BY <1>3
  <1>5. 1 \in all
    <2>1. CASE s = <<>>
      <3>1. 1 = n + 1
        BY <1>1, <2>1
      <3>. QED  BY <1>4, <3>1, Zenon
    <2>2. CASE s # <<>>
      BY <1>2, <1>4, <2>2, Zenon
    <2>. QED  BY <2>1, <2>2, Zenon
  <1>6. \A i \in all : i \in Nat /\ 1 <= i
    BY <1>4, Zenon
  <1> HIDE DEF all
  <1>7. Min(all) \in all /\ Min(all) <= 1
    <2>1. all \in SUBSET Nat /\ all # {}
      BY <1>5, <1>6
    <2>. QED  BY <1>5, <2>1, LeastNatural
  <1>8. Min(all) = 1
    <2> DEFINE m == Min(all)
    <2>1. m \in Nat /\ 1 <= m /\ m <= 1
      BY <1>6, <1>7, Zenon
    <2> HIDE DEF m
    <2>2. m = 1
      BY <2>1
    <2>. QED  BY <2>2 DEF m
  <1>9. SubSeq(s, 1, n) = s
    BY SubSeqFull DEF n
  <1>. QED  BY <1>8, <1>9, IsTrimmed, Zenon DEF Trim, all, n

(* A header is parsed as it was made. *)
LEMMA HeaderIsParsed ==
  ASSUME NEW T, NEW lines, Lined(T, lines), NEW i \in 1..Len(lines)
  PROVE  /\ Found(LineText(lines[i]), <<":">>, 1) # {}
         /\ ParseHeader(LineText(lines[i]), <<":">>)
              = [key |-> lines[i].key, value |-> Trim(lines[i].value)]
  <1> DEFINE k == lines[i].key
             v == lines[i].value
             d == <<":">>
             s == LineText(lines[i])
             m == Len(k) + 1
  <1>1. k \in Seq(T) /\ v \in Seq(T) /\ d \in Seq(T) /\ d \o v \in Seq(T) /\ s = k \o (d \o v)
    BY LineTyped
  <1>2. Without(":", k) /\ Unspaced(k)
    BY DEF Lined, Unspaced
  <1>3. d # <<>> /\ d[1] = ":"
    OBVIOUS
  <1> HIDE DEF k, v, d, s
  <1>4. Free(k, d \o v, d)
    BY <1>1, <1>2, <1>3, FreeWithout
  <1>5. /\ Found(s, d, 1) # {} /\ Min(Found(s, d, 1)) = m
        /\ SubSeq(s, 1, m - 1) = k /\ Rest(s, m + Len(d)) = v
    <2>1. k \in Seq(T) /\ v \in Seq(T) /\ d \in Seq(T) /\ d # <<>>
      BY <1>1, <1>3
    <2> DEFINE y == k \o (d \o v)
    <2>2. /\ Found(y, d, 1) # {} /\ Min(Found(y, d, 1)) = m
          /\ SubSeq(y, 1, m - 1) = k /\ Rest(y, m + Len(d)) = v
      BY <1>4, <2>1, FirstAt
    <2>3. s = y
      BY <1>1
    <2> HIDE DEF y, m
    <2>. QED  BY <2>2, <2>3, Zenon
  <1>6. RemoveWhiteSpaceAtFront(k) = k /\ RemoveWhiteSpaceAtFront(v) = Trim(v)
    BY <1>1, <1>2, NotTrimmed, IsTrimmed
  <1>7. ParseHeader(s, d) = [key |-> k, value |-> Trim(v)]
    BY <1>5, <1>6, Zenon DEF ParseHeader
  <1>. QED  BY <1>5, <1>7 DEF k, v, d, s

(* What is left of texts without the last, and of those without the first. *)
LEMMA FrontOf ==
  ASSUME NEW T, NEW w \in Seq(T), NEW z \in T
  PROVE  Front(w \o <<z>>) = w
  <1> DEFINE s == w \o <<z>>
  <1>1. <<z>> \in Seq(T) /\ Len(<<z>>) = 1 /\ Len(w) \in Nat
    OBVIOUS
  <1>2. Len(s) = Len(w) + 1 /\ SubSeq(s, 1, Len(w)) = w
    BY <1>1, CutBetween
  <1> HIDE DEF s
  <1>3. Len(s) - 1 = Len(w)
    BY <1>1, <1>2
  <1>. QED  BY <1>2, <1>3 DEF Front, s

(* Without the first and the last is what was between. *)
LEMMA MiddleOf ==
  ASSUME NEW T, NEW as \in Seq(T), NEW a \in T, NEW b \in T
  PROVE  LET s == (<<a>> \o as) \o <<b>>
         IN s # <<>> /\ SubSeq(s, 2, Len(s) - 1) = as
  <1> DEFINE e == <<a>>
             f == <<b>>
             u == e \o as
             s == u \o f
  <1>1. e \in Seq(T) /\ Len(e) = 1 /\ f \in Seq(T) /\ Len(f) = 1
    OBVIOUS
  <1>2. u \in Seq(T) /\ Len(u) = Len(e) + Len(as) /\ Rest(u, Len(e) + 1) = as
    BY <1>1, CutBetween, ZenonT(30)
  <1>3. Len(as) \in Nat
    BY LenProperties
  <1> HIDE DEF u, e, f
  <1>4. Len(s) = Len(u) + Len(f) /\ s \in Seq(T) /\ \A i \in 1..Len(u) : s[i] = u[i]
    <2>1. u \in Seq(T) /\ f \in Seq(T)
      BY <1>1, <1>2
    <2>. QED  BY <2>1, CutBetween
  <1> HIDE DEF s
  <1>5. Len(u) \in Nat /\ Len(s) - 1 = Len(u) /\ 2 = Len(e) + 1 /\ Len(s) # 0
    <2> DEFINE l == Len(u)
               n == Len(s)
               o == Len(as)
    <2>1. l = 1 + o /\ n = l + 1 /\ o \in Nat
      BY <1>1, <1>2, <1>3, <1>4, Zenon
    <2> HIDE DEF l, n, o
    <2>2. l \in Nat /\ n - 1 = l /\ n # 0 /\ 2 = 1 + 1
      BY <2>1
    <2>. QED  BY <1>1, <2>2, Zenon DEF l, n
  <1>6. s # <<>>
    <2>1. Len(<<>>) = 0
      BY EmptySeq
    <2>. QED  BY <1>5, <2>1, Zenon
  <1>7. SubSeq(s, 2, Len(u)) = SubSeq(u, 2, Len(u))
    <2>1. \A i \in 2..Len(u) : i \in 1..Len(u)
      BY <1>5
    <2>2. 2 \in Int /\ Len(u) \in Int
      BY <1>5
    <2>. QED  BY <1>4, <2>1, <2>2
  <1>8. SubSeq(s, 2, Len(s) - 1) = as
    BY <1>2, <1>5, <1>7, Zenon DEF Rest
  <1>. QED  BY <1>6, <1>8 DEF e, f, u, s

(* What Response makes of the lines it has got. *)
HeaderPairs(headers) == [i \in DOMAIN headers |-> ParseHeader(headers[i], <<":">>)]
HeaderMap(pairs) ==
  [key \in {pairs[i].key : i \in DOMAIN pairs} |->
     pairs[Max({i \in DOMAIN pairs : pairs[i].key = key})].value]
HeadersAnswer(headers) ==
  IF \E i \in DOMAIN headers : Found(headers[i], <<":">>, 1) = {}
  THEN [ends |-> "terminate"]
  ELSE [ends |-> "well", headers |-> HeaderMap(HeaderPairs(headers))]
Answer(lines) ==
  IF lines = <<>> THEN [ends |-> "undefined"]
  ELSE HeadersAnswer(SubSeq(lines, 2, Len(lines) - 1))

(* The lines of what becomes u, and of what is cut into as. *)
LEMMA GotLines ==
  ASSUME NEW T, NEW f \in Seq(T), f # <<>>, NEW t \in Seq(T), t # <<>>,
         NEW raw \in Seq(T), NEW u \in Seq(T), Becomes(T, f, t, raw, u),
         NEW as \in Seq(Seq(T)), Cuts(T, t, u, as)
  PROVE  GetLines(StringReplaceAll(raw, f, t), t) = as
  <1>1. StringReplaceAll(raw, f, t) = u
    BY BecomesAtEnd
  <1> DEFINE none == <<>>
             all == as \o <<none>>
  <1>2. none \in Seq(T) /\ u \o none = u /\ Without(t[1], none)
    BY EmptySeq, ConcatEmptySeq DEF Without
  <1> HIDE DEF none
  <1>3. Split(u \o none, t) = all
    <2>1. \A z \in Seq(T) : Without(t[1], z) => Split(u \o z, t) = as \o <<z>>
      BY CutsAtEnd, ZenonT(30)
    <2>. QED  BY <1>2, <2>1
  <1>4. Front(all) = as
    <2> DEFINE A == Seq(T)
    <2>1. as \in Seq(A) /\ none \in A
      BY <1>2
    <2> HIDE DEF A
    <2>. QED  BY <2>1, FrontOf
  <1>. QED  BY <1>1, <1>2, <1>3, <1>4, Zenon DEF GetLines

(* With line feeds alone, the lines of a response are its headers and what is*)
(* around them.                                                             *)
LEMMA ResponseLines ==
  ASSUME NEW T, NEW f \in Seq(T), f = CrLf, NEW t \in Seq(T), t = <<Lf>>,
         NEW raw \in Seq(T), NEW u \in Seq(T), Becomes(T, f, t, raw, u),
         NEW as \in Seq(Seq(T)), Cuts(T, t, u, as)
  PROVE  Response(raw) = Answer(as)
  <1>1. f # <<>> /\ t # <<>>
    BY DEF CrLf
  <1>2. GetLines(StringReplaceAll(raw, f, t), t) = as
    BY <1>1, GotLines
  <1>3. GetLines(StringReplaceAll(raw, <<Cr, Lf>>, <<Lf>>), <<Lf>>) = as
    BY <1>2, Zenon DEF CrLf
  <1>4. Response(raw) = Answer(GetLines(StringReplaceAll(raw, <<Cr, Lf>>, <<Lf>>), <<Lf>>))
    BY Zenon DEF Response, Answer, HeadersAnswer, HeaderMap, HeaderPairs
  <1>. QED  BY <1>3, <1>4, Zenon

(* The headers of lines that are read are those that were sent. *)
LEMMA LinesAnswer ==
  ASSUME NEW T, NEW lines, Lined(T, lines)
  PROVE  HeadersSaid(lines, Answer(HeaderCut(lines)))
  <1> DEFINE as == LineTexts(lines)
             n == Len(lines)
             all == HeaderCut(lines)
             pairs == [i \in 1..n |-> ParseHeader(as[i], <<":">>)]
             Same(k) == {i \in 1..n : lines[i].key = k}
  <1>1. n \in Nat /\ DOMAIN lines = 1..n /\ as \in Seq(Seq(T)) /\ Len(as) = n
        /\ \A i \in 1..n : as[i] = LineText(lines[i])
    BY LinesTyped
  <1>2. DOMAIN as = 1..n
    BY <1>1, LenProperties
  <1>3. all # <<>> /\ SubSeq(all, 2, Len(all) - 1) = as
    <2> DEFINE A == Seq(T)
               s == <<"s">>
               none == <<>>
    <2>1. s \in A /\ none \in A /\ as \in Seq(A)
      BY <1>1, Marks
    <2>2. all = (<<s>> \o as) \o <<none>>
      BY Zenon DEF HeaderCut
    <2> HIDE DEF A, s, none, as
    <2>3. LET w == (<<s>> \o as) \o <<none>> IN w # <<>> /\ SubSeq(w, 2, Len(w) - 1) = as
      BY <2>1, MiddleOf
    <2>. QED  BY <2>2, <2>3, Zenon
  <1> HIDE DEF all
  <1>4. \A i \in 1..n : /\ Found(as[i], <<":">>, 1) # {}
                        /\ pairs[i] = [key |-> lines[i].key, value |-> Trim(lines[i].value)]
    <2>1. ASSUME NEW i \in 1..n
          PROVE  /\ Found(as[i], <<":">>, 1) # {}
                 /\ pairs[i] = [key |-> lines[i].key, value |-> Trim(lines[i].value)]
      <3>1. as[i] = LineText(lines[i])
        BY <1>1
      <3>2. /\ Found(LineText(lines[i]), <<":">>, 1) # {}
            /\ ParseHeader(LineText(lines[i]), <<":">>)
                 = [key |-> lines[i].key, value |-> Trim(lines[i].value)]
        BY HeaderIsParsed
      <3>3. pairs[i] = ParseHeader(as[i], <<":">>)
        OBVIOUS
      <3>. QED  BY <3>1, <3>2, <3>3, Zenon
    <2>. QED  BY <2>1
  <1>5. \A i \in 1..n : pairs[i].key = lines[i].key /\ pairs[i].value = Trim(lines[i].value)
    <2> SUFFICES ASSUME NEW i \in 1..n
                 PROVE  pairs[i].key = lines[i].key /\ pairs[i].value = Trim(lines[i].value)
      OBVIOUS
    <2> DEFINE p == pairs[i]
               k == lines[i].key
               v == Trim(lines[i].value)
    <2>1. p = [key |-> k, value |-> v]
      BY <1>4, Zenon
    <2> HIDE DEF p, k, v
    <2>2. p.key = k /\ p.value = v
      BY <2>1
    <2>. QED  BY <2>2 DEF p, k, v
  <1>6. DOMAIN pairs = 1..n
    OBVIOUS
  <1> DEFINE found == {pairs[i].key : i \in DOMAIN pairs}
             last(k) == Max({i \in DOMAIN pairs : pairs[i].key = k})
             headers == [k \in found |-> pairs[last(k)].value]
  <1>7. Answer(all) = [ends |-> "well", headers |-> headers]
    <2>1. pairs = [i \in DOMAIN as |-> ParseHeader(as[i], <<":">>)]
      BY <1>2, Zenon
    <2>2. ~\E i \in DOMAIN as : Found(as[i], <<":">>, 1) = {}
      BY <1>2, <1>4, Zenon
    <2> HIDE DEF pairs, as
    <2>3. pairs = HeaderPairs(as)
      BY <2>1, Zenon DEF HeaderPairs
    <2>4. HeadersAnswer(as) = [ends |-> "well", headers |-> HeaderMap(pairs)]
      BY <2>2, <2>3, Zenon DEF HeadersAnswer
    <2>5. headers = HeaderMap(pairs)
      BY Zenon DEF HeaderMap
    <2>. QED  BY <1>3, <2>4, <2>5, Zenon DEF Answer
  <1> HIDE DEF pairs
  <1>8. found = {lines[i].key : i \in 1..n} /\ \A k : last(k) = Max(Same(k))
    <2>1. found = {lines[i].key : i \in 1..n}
      BY <1>5, <1>6
    <2>2. \A k : {i \in DOMAIN pairs : pairs[i].key = k} = Same(k)
      BY <1>5, <1>6
    <2>. QED  BY <2>1, <2>2, Zenon
  <1>9. ASSUME NEW i \in 1..n
        PROVE  headers[lines[i].key] = Trim(lines[Max(Same(lines[i].key))].value)
    <2> DEFINE k == lines[i].key
    <2>1. i \in Same(k) /\ Same(k) \in SUBSET (1..n)
      OBVIOUS
    <2>2. Max(Same(k)) \in 1..n
      <3> DEFINE s == Same(k)
      <3>1. s \in SUBSET (1..n) /\ s # {}
        BY <2>1
      <3> HIDE DEF s
      <3>2. Max(s) \in s
        BY <1>1, <3>1, MaxIn
      <3>. QED  BY <3>1, <3>2 DEF s
    <2>3. k \in found
      BY <1>8
    <2> HIDE DEF k, Same, found
    <2>4. headers[k] = pairs[last(k)].value
      BY <2>3
    <2>. QED  BY <1>5, <1>8, <2>2, <2>4, Zenon DEF k
  <1>10. HeadersSaid(lines, [ends |-> "well", headers |-> headers])
    <2> DEFINE answer == [ends |-> "well", headers |-> headers]
    <2>1. answer.ends = "well" /\ answer.headers = headers
      OBVIOUS
    <2>2. DOMAIN headers = found
      OBVIOUS
    <2> HIDE DEF answer, headers, found
    <2>3. DOMAIN answer.headers = {lines[i].key : i \in DOMAIN lines}
      BY <1>1, <1>8, <2>1, <2>2, Zenon
    <2>4. \A i \in DOMAIN lines :
             answer.headers[lines[i].key] = Trim(lines[Max(Same(lines[i].key))].value)
      BY <1>1, <1>9, <2>1, Zenon
    <2>5. \A i : Same(lines[i].key) = {j \in DOMAIN lines : lines[j].key = lines[i].key}
      BY <1>1, Zenon
    <2> HIDE DEF Same
    <2>6. HeadersSaid(lines, answer)
      BY <2>1, <2>3, <2>4, <2>5, Zenon DEF HeadersSaid, Trim
    <2>. QED  BY <2>6 DEF answer
  <1>. QED  BY <1>7, <1>10 DEF all

(* Behind an interim answer the empty line is not a header. *)
LEMMA InterimAnswer ==
  ASSUME NEW T, NEW lines, Lined(T, lines)
  PROVE  Answer(HeaderCut(<<>>) \o HeaderCut(lines)).ends = "terminate"
  <1> DEFINE A == Seq(T)
             s == <<"s">>
             none == <<>>
             a == HeaderCut(<<>>)
             b == HeaderCut(lines)
             all == a \o b
             headers == SubSeq(all, 2, Len(all) - 1)
  <1>1. s \in A /\ none \in A
    BY Marks
  <1>2. b \in Seq(A) /\ Len(b) >= 1 /\ Len(b) \in Nat
    <2>1. b \in Seq(A)
      BY PlainIsCut
    <2>2. b # <<>>
      <3>1. b = (<<s>> \o LineTexts(lines)) \o <<none>> /\ LineTexts(lines) \in Seq(A)
        BY LinesTyped, Zenon DEF HeaderCut
      <3> HIDE DEF A, s, none, b
      <3>2. LET w == (<<s>> \o LineTexts(lines)) \o <<none>> IN w # <<>>
        BY <1>1, <3>1, MiddleOf
      <3>. QED  BY <3>1, <3>2, Zenon
    <2> HIDE DEF A, b
    <2>3. Len(b) \in Nat \ {0}
      BY <2>1, <2>2, EmptySeq
    <2>. QED  BY <2>1, <2>3
  <1>3. a = <<s>> \o <<none>>
    <2>1. LineTexts(<<>>) = <<>>
      BY EmptySeq DEF LineTexts
    <2>2. a = (<<s>> \o <<>>) \o <<none>>
      BY <2>1, Zenon DEF HeaderCut
    <2> HIDE DEF s, none, A
    <2>3. <<s>> \in Seq(A)
      BY <1>1
    <2>4. <<s>> \o <<>> = <<s>>
      BY <2>3, ConcatEmptySeq
    <2>. QED  BY <2>2, <2>4, Zenon
  <1> HIDE DEF A, s, b
  <1>4. a \in Seq(A) /\ Len(a) = 2 /\ a[2] = none
    <2> DEFINE u == <<s>>
               v == <<none>>
    <2> HIDE DEF a, none
    <2>1. u \in Seq(A) /\ Len(u) = 1 /\ v \in Seq(A) /\ Len(v) = 1 /\ v[1] = none
      BY <1>1
    <2>2. a = u \o v
      BY <1>3
    <2> HIDE DEF u, v
    <2>3. u \in Seq(A) /\ v \in Seq(A)
      BY <2>1
    <2>4. a \in Seq(A) /\ Len(a) = Len(u) + Len(v) /\ \A i \in 1..Len(v) : a[Len(u) + i] = v[i]
      BY <2>2, <2>3, CutBetween
    <2>5. 1 \in 1..Len(v) /\ Len(u) + 1 = 2 /\ Len(u) + Len(v) = 2
      BY <2>1
    <2>. QED  BY <2>1, <2>4, <2>5
  <1> HIDE DEF a, none
  <1>5. /\ all \in Seq(A) /\ Len(all) = Len(a) + Len(b)
        /\ \A i \in 1..Len(a) : all[i] = a[i]
    <2>1. a \in Seq(A) /\ b \in Seq(A)
      BY <1>2, <1>4
    <2>. QED  BY <2>1, CutBetween
  <1> HIDE DEF all
  <1>6. Len(all) - 1 >= 2 /\ Len(all) - 1 \in Int /\ all[2] = none
    <2>1. 2 \in 1..Len(a)
      BY <1>4
    <2>2. all[2] = none
      BY <1>4, <1>5, <2>1
    <2> DEFINE l == Len(b)
               m == Len(all)
    <2>3. l \in Nat /\ l >= 1 /\ m = 2 + l
      BY <1>2, <1>4, <1>5
    <2> HIDE DEF l, m
    <2>4. m - 1 >= 2 /\ m - 1 \in Int
      BY <2>3
    <2>. QED  BY <2>2, <2>4 DEF m
  <1>7. 1 \in DOMAIN headers /\ headers[1] = none
    <2> DEFINE m == Len(all) - 1
    <2>1. m >= 2 /\ m \in Int /\ \A i \in 2..m : all[i] \in A
      <3>1. \A i \in 2..Len(all) - 1 : i \in 1..Len(all)
        BY <1>6
      <3>. QED  BY <1>5, <1>6, <3>1
    <2> HIDE DEF m
    <2>2. /\ SubSeq(all, 2, m) \in Seq(A)
          /\ Len(SubSeq(all, 2, m)) = IF 2 <= m THEN m - 2 + 1 ELSE 0
          /\ \A i \in 1..m - 2 + 1 : SubSeq(all, 2, m)[i] = all[2 + i - 1]
      BY <2>1, SubSeqProperties
    <2> DEFINE h == SubSeq(all, 2, m)
    <2> HIDE DEF h
    <2>3. h \in Seq(A) /\ Len(h) = m - 1 /\ 1 \in 1..m - 1
      BY <2>1, <2>2 DEF h
    <2>4. 1 \in DOMAIN h
      BY <2>3, LenProperties
    <2>5. h[1] = all[2]
      BY <2>1, <2>2 DEF h
    <2>. QED  BY <1>6, <2>4, <2>5 DEF h, m
  <1>8. Found(headers[1], <<":">>, 1) = {}
    <2>1. none \in Seq({":"}) /\ Len(none) = 0 /\ <<":">> \in Seq({":"}) /\ Len(<<":">>) = 1
      BY EmptySeq DEF none
    <2>2. Len(none) + 1 - Len(<<":">>) = 0
      BY <2>1
    <2>3. Found(none, <<":">>, 1) = {}
      BY <2>2 DEF Found
    <2>. QED  BY <1>7, <2>3, Zenon
  <1>9. all # <<>>
    <2>1. Len(all) # 0 /\ Len(<<>>) = 0
      BY <1>6, EmptySeq
    <2>. QED  BY <2>1, Zenon
  <1>10. Answer(all) = [ends |-> "terminate"]
    <2>1. \E i \in DOMAIN headers : Found(headers[i], <<":">>, 1) = {}
      BY <1>7, <1>8, Zenon
    <2>. QED  BY <1>9, <2>1, Zenon DEF Answer, HeadersAnswer
  <1>. QED  BY <1>10 DEF all, a, b

(* Headers are read as they were sent. *)
LEMMA WholeIsRead ==
  ASSUME NEW T, NEW lines, Lined(T, lines)
  PROVE  /\ HeadersSaid(lines, Response(RawHeaders(lines)))
         /\ Response(RawHeaders(<<>>) \o RawHeaders(lines)).ends = "terminate"
  <1> DEFINE f == CrLf
             t == <<Lf>>
             x == Sent(lines)
             u == Plain(lines)
             as == HeaderCut(lines)
             none == <<>>
             y == Sent(none)
             v == Plain(none)
             bs == HeaderCut(none)
  <1>1. f \in Seq(T) /\ t \in Seq(T) /\ f # <<>> /\ t # <<>>
    BY Marks
  <1>2. Lined(T, none)
    <2>1. none \in Seq([key : Seq(T), value : Seq(T)]) /\ Len(none) = 0
      BY EmptySeq
    <2>2. {"s", Cr, Lf, ":"} \subseteq T
      BY Zenon DEF Lined
    <2> HIDE DEF none
    <2>3. \A i \in 1..Len(none) : FALSE
      BY <2>1
    <2>. QED  BY <2>1, <2>2, <2>3, Zenon DEF Lined
  <1>3. RawHeaders(lines) = x /\ RawHeaders(none) = y
    <2> HIDE DEF none
    <2>. QED  BY <1>2, IsSent
  <1> HIDE DEF none
  <1>4. /\ x \in Seq(T) /\ u \in Seq(T) /\ Becomes(T, f, t, x, u)
        /\ y \in Seq(T) /\ v \in Seq(T) /\ Becomes(T, f, t, y, v)
    BY <1>2, SentBecomes
  <1>5. /\ as \in Seq(Seq(T)) /\ Cuts(T, t, u, as)
        /\ bs \in Seq(Seq(T)) /\ Cuts(T, t, v, bs)
    BY <1>2, PlainIsCut
  <1>6. HeadersSaid(lines, Answer(as)) /\ Answer(bs \o as).ends = "terminate"
    BY LinesAnswer, InterimAnswer DEF none
  <1>7. f = CrLf /\ t = <<Lf>>
    OBVIOUS
  <1> HIDE DEF f, t, x, u, as, y, v, bs
  <1>8. Response(x) = Answer(as)
    BY <1>1, <1>4, <1>5, <1>7, ResponseLines
  <1>9. Response(y \o x) = Answer(bs \o as)
    <2> DEFINE z == y \o x
               w == v \o u
               cs == bs \o as
    <2>1. z \in Seq(T) /\ w \in Seq(T)
      BY <1>4, ConcatProperties
    <2>2. cs \in Seq(Seq(T))
      BY <1>5, ConcatProperties
    <2>3. Becomes(T, f, t, z, w)
      BY <1>1, <1>4, BecomeBoth
    <2>4. Cuts(T, t, w, cs)
      BY <1>1, <1>4, <1>5, CutsBoth
    <2> HIDE DEF z, w, cs
    <2>5. Response(z) = Answer(cs)
      BY <1>1, <1>7, <2>1, <2>2, <2>3, <2>4, ResponseLines
    <2>. QED  BY <2>5 DEF z, cs
  <1>. QED  BY <1>3, <1>6, <1>8, <1>9, Zenon DEF none

(* The headers of an answer are read as they were sent, however many and    *)
(* whatever they say; those behind an interim answer end the program.       *)
THEOREM HeadersCorrect == Spec => []HeadersAreRead
  <1>1. Init => HeadersAreRead
    BY DEF Init, HeadersAreRead
  <1>2. ASSUME HeadersAreRead, [Next]_vars PROVE HeadersAreRead'
    <2>1. CASE Receive
      <3>1. PICK lines \in HeaderLines, interim \in BOOLEAN :
              Called("response", [lines |-> lines, interim |-> interim],
                     Response((IF interim THEN RawHeaders(<<>>) ELSE <<>>) \o RawHeaders(lines)))
        BY <2>1 DEF Receive
      <3> DEFINE chars == UNION {ToSet(lines[i].key) \cup ToSet(lines[i].value) : i \in DOMAIN lines}
                 T == chars \cup {"s", Cr, Lf, ":"}
      <3>2. Lined(T, lines)
        <4>1. /\ lines \in Seq([key : Seq(chars), value : Seq(chars)]) /\ {Cr, Lf} \cap chars = {}
              /\ \A i \in DOMAIN lines : /\ ":" \notin ToSet(lines[i].key)
                                         /\ lines[i].key # <<>> => lines[i].key[1] # " "
          BY AlgorithmsAssumption
        <4> HIDE DEF chars
        <4>2. DOMAIN lines = 1..Len(lines) /\ Len(lines) \in Nat
          BY <4>1, LenProperties
        <4>3. \A a \in Seq(chars) : a \in Seq(T)
          BY SeqMonotonic
        <4> HIDE DEF T
        <4>4. ASSUME NEW i \in 1..Len(lines)
              PROVE  /\ lines[i] \in [key : Seq(chars), value : Seq(chars)]
                     /\ lines[i] \in [key : Seq(T), value : Seq(T)]
          <5>1. lines[i] \in [key : Seq(chars), value : Seq(chars)]
            BY <4>1, ElementOfSeq
          <5>. QED  BY <4>3, <5>1
        <4>5. lines \in Seq([key : Seq(T), value : Seq(T)])
          <5> DEFINE A == [key : Seq(T), value : Seq(T)]
          <5>1. \A i \in 1..Len(lines) : lines[i] \in A
            BY <4>4
          <5>2. lines = [i \in 1..Len(lines) |-> lines[i]]
            BY <4>1, LenProperties
          <5> HIDE DEF A
          <5>3. lines \in Seq(A)
            BY <4>2, <5>1, <5>2
          <5>. QED  BY <5>3 DEF A
        <4>6. ASSUME NEW s \in Seq(chars), NEW c, c \notin ToSet(s) PROVE Without(c, s)
          BY <4>6, LenProperties DEF ToSet, Without
        <4>7. ASSUME NEW s \in Seq(chars), NEW c \in {Cr, Lf} PROVE Without(c, s)
          BY <4>1, <4>7, ElementOfSeq DEF Without
        <4>8. ASSUME NEW i \in 1..Len(lines)
              PROVE /\ Without(Cr, lines[i].key) /\ Without(Lf, lines[i].key) /\ Without(":", lines[i].key)
                    /\ Without(Cr, lines[i].value) /\ Without(Lf, lines[i].value)
                    /\ lines[i].key # <<>> => lines[i].key[1] # " "
          <5>1. lines[i].key \in Seq(chars) /\ lines[i].value \in Seq(chars)
            BY <4>4
          <5>2. ":" \notin ToSet(lines[i].key) /\ (lines[i].key # <<>> => lines[i].key[1] # " ")
            BY <4>1, <4>2, Zenon
          <5>3. Cr \in {Cr, Lf} /\ Lf \in {Cr, Lf}
            OBVIOUS
          <5>. QED  BY <4>6, <4>7, <5>1, <5>2, <5>3, Zenon
        <4>. QED  BY <4>5, <4>8 DEF Lined, T
      <3> HIDE DEF T
      <3>3. /\ HeadersSaid(lines, Response(RawHeaders(lines)))
            /\ Response(RawHeaders(<<>>) \o RawHeaders(lines)).ends = "terminate"
        BY <3>2, WholeIsRead
      <3>4. <<>> \o RawHeaders(lines) = RawHeaders(lines)
        <4>1. RawHeaders(lines) \in Seq(T)
          BY <3>2, IsSent, SentBecomes
        <4>. QED  BY <4>1, ConcatEmptySeq
      <3>5. given'.lines = lines /\ given'.interim = interim
            /\ result' = Response((IF interim THEN RawHeaders(<<>>) ELSE <<>>) \o RawHeaders(lines))
        BY <3>1 DEF Called
      <3>6. CASE interim
        BY <3>3, <3>5, <3>6, Zenon DEF HeadersAreRead
      <3>7. CASE ~interim
        BY <3>3, <3>4, <3>5, <3>7, Zenon DEF HeadersAreRead
      <3>. QED  BY <3>6, <3>7
    <2>2. CASE ~Receive /\ Next
      <3>1. call' # "response"
        BY <2>2 DEF Next, Called, StringReplaceAllTemplates, StringSplit, Execute,
           OpenArguments,
             OpenIn, SearchPath, ReceiveNothing, ComputeCrc, ParseLine, CombineAndParse, WriteList,
             InsertJsonInto, ReadImage, LookForSection
      <3>. QED  BY <3>1 DEF HeadersAreRead
    <2>3. CASE UNCHANGED vars
      BY <1>2, <2>3 DEF vars, HeadersAreRead
    <2>. QED  BY <1>2, <2>1, <2>2, <2>3
  <1>. QED  BY <1>1, <1>2, PTL DEF Spec

-----------------------------------------------------------------------------
(* The first text of several, and those behind it. *)
Leads(a, as, s) ==
  /\ s = <<a>> \o as /\ s # <<>> /\ Len(s) = Len(as) + 1 /\ Len(as) \in Nat
  /\ s[1] = a /\ \A i \in 1..Len(as) : s[i + 1] = as[i]

LEMMA FirstOf ==
  ASSUME NEW T, NEW as \in Seq(T), NEW a \in T
  PROVE  <<a>> \o as \in Seq(T) /\ Leads(a, as, <<a>> \o as)
  <1> DEFINE e == <<a>>
             s == e \o as
  <1>1. e \in Seq(T) /\ Len(e) = 1 /\ e[1] = a
    OBVIOUS
  <1>2. Len(as) \in Nat
    BY LenProperties
  <1> HIDE DEF e
  <1>3. e \in Seq(T)
    BY <1>1
  <1>4. /\ s \in Seq(T) /\ Len(s) = Len(e) + Len(as)
        /\ \A i \in 1..Len(e) : s[i] = e[i]
        /\ \A i \in 1..Len(as) : s[Len(e) + i] = as[i]
    BY <1>3, CutBetween, ZenonT(30)
  <1> HIDE DEF s
  <1> DEFINE n == Len(as)
  <1>5. /\ Len(s) = 1 + n /\ \A i \in 1..1 : s[i] = e[i]
        /\ \A i \in 1..n : s[1 + i] = as[i]
    BY <1>1, <1>4, Zenon
  <1>6. n \in Nat
    BY <1>2
  <1> HIDE DEF n
  <1>7. Len(s) = n + 1 /\ Len(s) # 0 /\ 1 \in 1..1 /\ \A i \in 1..n : 1 + i = i + 1
    BY <1>5, <1>6
  <1>8. s # <<>>
    <2>1. Len(<<>>) = 0
      BY EmptySeq
    <2>. QED  BY <1>7, <2>1, Zenon
  <1>9. s[1] = a /\ \A i \in 1..n : s[i + 1] = as[i]
    BY <1>1, <1>5, <1>7, Zenon
  <1>. QED  BY <1>2, <1>4, <1>7, <1>8, <1>9, Zenon DEF n, e, s, Leads

(* Texts behind another, with the delimiter in between. *)
LEMMA BetweenBehind ==
  ASSUME NEW T, NEW d \in Seq(T), NEW u \in Seq(T), NEW as \in Seq(Seq(T)), as # <<>>
  PROVE  Between(d, <<u>> \o as) = u \o (d \o Between(d, as))
  <1> DEFINE n == Len(as)
             all == <<u>> \o as
             bs == Delimited(d, as)
             cs == Delimited(d, all)
             S == {k \in 0..n : k = 0 \/ Flat(cs, k + 1) = u \o (d \o Flat(bs, k))}
  <1>0. /\ all \in Seq(Seq(T)) /\ all # <<>> /\ Len(all) = n + 1
        /\ all[1] = u /\ \A i \in 1..n : all[i + 1] = as[i]
    <2> DEFINE A == Seq(T)
    <2>1. as \in Seq(A) /\ u \in A
      OBVIOUS
    <2> HIDE DEF A
    <2>2. <<u>> \o as \in Seq(A) /\ Leads(u, as, <<u>> \o as)
      BY <2>1, FirstOf
    <2>. QED  BY <2>2, Zenon DEF A, Leads
  <1>1. /\ n \in Nat \ {0} /\ \A k \in 1..n : as[k] \in Seq(T)
        /\ bs \in Seq(Seq(T)) /\ Len(bs) = n
        /\ bs[1] = as[1] /\ \A k \in 1..n : k # 1 => bs[k] = d \o as[k]
    BY DelimitedTexts, ZenonT(30)
  <1> HIDE DEF all, n
  <1>2. /\ cs \in Seq(Seq(T)) /\ Len(cs) = n + 1
        /\ cs[1] = u /\ \A k \in 1..n + 1 : k # 1 => cs[k] = d \o all[k]
    <2>1. /\ cs \in Seq(Seq(T)) /\ Len(cs) = Len(all)
          /\ cs[1] = all[1] /\ \A k \in 1..Len(all) : k # 1 => cs[k] = d \o all[k]
      <3>1. all \in Seq(Seq(T)) /\ all # <<>>
        BY <1>0
      <3>. QED  BY <3>1, DelimitedTexts, SMTT(30)
    <2>. QED  BY <1>0, <2>1, Zenon
  <1> HIDE DEF bs, cs
  <1>3. n \in Nat \ {0}
    BY <1>1
  <1>4. \A k \in 1..n : cs[k + 1] = d \o as[k]
    <2> SUFFICES ASSUME NEW k \in 1..n PROVE cs[k + 1] = d \o as[k]
      OBVIOUS
    <2>1. k + 1 \in 1..n + 1 /\ k + 1 # 1
      BY <1>3
    <2>. QED  BY <1>0, <1>2, <2>1, Zenon
  <1>5. /\ Flat(bs, 0) = <<>> /\ Flat(bs, n) = FlattenSeq(bs)
        /\ \A k \in 0..n : Flat(bs, k) \in Seq(T)
        /\ \A k \in 0..n-1 : Flat(bs, k + 1) = Flat(bs, k) \o bs[k + 1]
    <2>1. bs \in Seq(Seq(T))
      BY <1>1
    <2>2. /\ Flat(bs, 0) = <<>> /\ Flat(bs, Len(bs)) = FlattenSeq(bs)
          /\ \A k \in 0..Len(bs) : Flat(bs, k) \in Seq(T)
          /\ \A k \in 0..Len(bs) - 1 : Flat(bs, k + 1) = Flat(bs, k) \o bs[k + 1]
      BY <2>1, FlatSteps
    <2>. QED  BY <1>1, <2>2, Zenon
  <1>6. /\ Flat(cs, 0) = <<>> /\ Flat(cs, n + 1) = FlattenSeq(cs)
        /\ \A k \in 0..n : Flat(cs, k + 1) = Flat(cs, k) \o cs[k + 1]
    <2>1. cs \in Seq(Seq(T))
      BY <1>2
    <2>2. /\ Flat(cs, 0) = <<>> /\ Flat(cs, Len(cs)) = FlattenSeq(cs)
          /\ \A k \in 0..Len(cs) - 1 : Flat(cs, k + 1) = Flat(cs, k) \o cs[k + 1]
      BY <2>1, FlatSteps
    <2>3. \A m : m = n + 1 => 0..m - 1 = 0..n
      BY <1>3
    <2>. QED  BY <1>2, <2>2, <2>3, Zenon
  <1>7. 0 \in S
    BY <1>3
  <1>8. ASSUME NEW k \in 0..n-1, k \in S PROVE k + 1 \in S
    <2>1. /\ k + 1 \in 1..n /\ k \in 0..n /\ k + 1 \in 0..n
      BY <1>3
    <2> DEFINE a == as[k + 1]
               f == Flat(bs, k)
    <2>2. a \in Seq(T) /\ f \in Seq(T) /\ <<>> \in Seq(T)
      <3>1. <<>> \in Seq(T)
        BY EmptySeq
      <3>. QED  BY <1>1, <1>5, <2>1, <3>1, Zenon
    <2>3. Flat(cs, (k + 1) + 1) = Flat(cs, k + 1) \o (d \o a)
      BY <1>4, <1>6, <2>1, Zenon
    <2>4. CASE k = 0
      <3>1. 0 \in 0..n-1 /\ 0 \in 0..n /\ 0 + 1 = 1 /\ 1 \in 1..n
        BY <1>3
      <3>2. Flat(cs, 1) = <<>> \o u
        BY <1>2, <1>6, <3>1, Zenon
      <3>3. <<>> \o u = u
        BY ConcatEmptySeq
      <3>4. Flat(bs, 1) = <<>> \o as[1]
        BY <1>1, <1>5, <3>1, Zenon
      <3>5. as[1] \in Seq(T)
        BY <1>1, <3>1, Zenon
      <3>6. <<>> \o as[1] = as[1]
        BY <3>5, ConcatEmptySeq
      <3>7. Flat(cs, 1 + 1) = u \o (d \o Flat(bs, 1))
        BY <2>3, <2>4, <3>1, <3>2, <3>3, <3>4, <3>6, Zenon
      <3>. QED  BY <2>1, <2>4, <3>1, <3>7, Zenon
    <2>5. CASE k # 0
      <3>1. Flat(cs, k + 1) = u \o (d \o f)
        BY <1>8, <2>5
      <3>2. Flat(bs, k + 1) = f \o (d \o a)
        <4>1. k + 1 # 1
          BY <2>1, <2>5
        <4>. QED  BY <1>1, <1>5, <2>1, <4>1, Zenon
      <3> HIDE DEF a, f
      <3> DEFINE e == d \o a
      <3>3. e \in Seq(T) /\ d \o f \in Seq(T) /\ f \in Seq(T)
        BY <2>2, ConcatProperties
      <3> HIDE DEF e
      <3>4. Assoc(u, d \o f, e)
        BY <3>3, Associates
      <3>5. Assoc(d, f, e)
        BY <3>3, Associates
      <3>6. Flat(cs, (k + 1) + 1) = u \o (d \o Flat(bs, k + 1))
        BY <2>3, <3>1, <3>2, <3>4, <3>5, Zenon DEF Assoc, e
      <3>. QED  BY <2>1, <3>6, Zenon
    <2>. QED  BY <2>4, <2>5, Zenon
  <1>9. n \in S => n = 0 \/ Flat(cs, n + 1) = u \o (d \o Flat(bs, n))
    BY Zenon
  <1> HIDE DEF S
  <1>10. n \in S
    <2>1. n \in Nat /\ n \in 0..n
      BY <1>3
    <2>2. \A k \in 0..n : k \in S
      BY <2>1, <1>7, <1>8, Induction
    <2>. QED  BY <2>1, <2>2
  <1>11. Flat(cs, n + 1) = u \o (d \o Flat(bs, n))
    BY <1>3, <1>9, <1>10
  <1>. QED  BY <1>5, <1>6, <1>11, Zenon DEF bs, cs, n, all, Between, Delimited

(* The pieces of a text are what is between the delimiters. *)
OnlyAtEnd(a, d) == Found(a \o d, d, 1) \subseteq {Len(a) + 1}
IsCut(s, d, r) ==
  /\ Between(d, r) = s /\ r # <<>>
  /\ \A k \in 1..Len(r) : /\ k < Len(r) => OnlyAtEnd(r[k], d)
                          /\ k = Len(r) => Found(r[k], d, 1) = {}

(* Without the delimiter, the text is the only piece. *)
LEMMA CutNone ==
  ASSUME NEW T, NEW s \in Seq(T), NEW d \in Seq(T), d # <<>>, Found(s, d, 1) = {}
  PROVE  IsCut(s, d, Split(s, d))
  <1> DEFINE r == <<s>>
  <1>1. Split(s, d) = r
    BY SplitNone
  <1>2. Len(r) = 1 /\ r[1] = s /\ r # <<>>
    OBVIOUS
  <1>3. Between(d, r) = s
    <2>1. FlattenSeq(<<s>>) = s
      BY FlattenOne
    <2>2. [k \in 1..Len(r) |-> IF k = 1 THEN r[k] ELSE d \o r[k]] = <<s>>
      BY <1>2
    <2>. QED  BY <2>1, <2>2, Zenon DEF Between
  <1>4. ASSUME NEW k \in 1..1 PROVE k = 1 /\ ~(k < 1)
    OBVIOUS
  <1> HIDE DEF r
  <1>5. IsCut(s, d, r)
    BY <1>2, <1>3, <1>4, Zenon DEF IsCut
  <1>. QED  BY <1>1, <1>5

(* A place that is no longer than the text behind which nothing begins. *)
LEMMA FreeAtEnd ==
  ASSUME NEW T, NEW u \in Seq(T), NEW x \in Seq(T), NEW d \in Seq(T), d # <<>>,
         Free(u, d \o x, d)
  PROVE  OnlyAtEnd(u, d)
  <1> DEFINE a == u \o d
             s == u \o (d \o x)
  <1>1. a \in Seq(T) /\ Len(a) = Len(u) + Len(d)
    BY ConcatProperties
  <1>2. d \o x \in Seq(T)
    BY ConcatProperties
  <1>3. Assoc(u, d, x)
    BY Associates
  <1>4. s = a \o x
    BY <1>3, Zenon DEF Assoc
  <1> HIDE DEF a, s
  <1>5. /\ s \in Seq(T) /\ Len(s) = Len(a) + Len(x)
        /\ \A i \in 1..Len(a) : s[i] = a[i]
    <2>1. a \in Seq(T)
      BY <1>1
    <2>2. /\ a \o x \in Seq(T) /\ Len(a \o x) = Len(a) + Len(x)
          /\ \A i \in 1..Len(a) : (a \o x)[i] = a[i]
      BY <2>1, CutBetween
    <2>. QED  BY <1>4, <2>2, Zenon
  <1>6. Len(u) \in Nat /\ Len(d) \in Nat \ {0} /\ Len(x) \in Nat /\ Len(a) \in Nat
    <2>1. Len(u) \in Nat /\ Len(d) \in Nat /\ Len(x) \in Nat /\ Len(a) \in Nat
      BY <1>1, LenProperties
    <2>. QED  BY <2>1, EmptySeq
  <1> SUFFICES ASSUME NEW j \in Found(a, d, 1) PROVE j = Len(u) + 1
    BY DEF OnlyAtEnd, a
  <1>7. 1 \in 1..Len(a) + 1 /\ 1 \in 1..Len(s) + 1
    BY <1>5, <1>6
  <1>8. j \in 1..Len(a) + 1 - Len(d) /\ \A k \in 1..Len(d) : a[j + k - 1] = d[k]
    BY <1>1, <1>7, FoundChars, SMTT(30)
  <1>9. j \in 1..Len(s) + 1 - Len(d) /\ \A k \in 1..Len(d) : j + k - 1 \in 1..Len(a)
    BY <1>5, <1>6, <1>8
  <1>10. \A k \in 1..Len(d) : s[j + k - 1] = d[k]
    BY <1>5, <1>8, <1>9
  <1>11. j \in Found(s, d, 1)
    BY <1>5, <1>7, <1>9, <1>10, FoundChars
  <1>12. j > Len(u)
    BY <1>11, Zenon DEF Free, s
  <1>. QED  BY <1>1, <1>6, <1>8, <1>12

(* The first piece, and then those of the rest. *)
LEMMA CutFirst ==
  ASSUME NEW T, NEW u \in Seq(T), NEW x \in Seq(T), NEW d \in Seq(T), d # <<>>,
         Free(u, d \o x, d), IsCut(x, d, Split(x, d))
  PROVE  IsCut(u \o (d \o x), d, Split(u \o (d \o x), d))
  <1> DEFINE as == Split(x, d)
             all == <<u>> \o as
             n == Len(as)
  <1>1. Split(u \o (d \o x), d) = all
    <2>1. SplitsAt(u, d, x)
      BY SplitAt
    <2>. QED  BY <2>1, Zenon DEF SplitsAt
  <1>2. as \in Seq(Seq(T))
    BY SplitTyped
  <1> HIDE DEF as
  <1>3. /\ all # <<>> /\ Len(all) = n + 1 /\ n \in Nat
        /\ all[1] = u /\ \A i \in 1..n : all[i + 1] = as[i]
    <2> DEFINE A == Seq(T)
    <2>1. as \in Seq(A) /\ u \in A
      BY <1>2
    <2> HIDE DEF A
    <2>2. <<u>> \o as \in Seq(A) /\ Leads(u, as, <<u>> \o as)
      BY <2>1, FirstOf
    <2>. QED  BY <2>2, Zenon DEF A, Leads
  <1>4. /\ Between(d, as) = x /\ as # <<>>
        /\ \A k \in 1..n : /\ k < n => OnlyAtEnd(as[k], d)
                           /\ k = n => Found(as[k], d, 1) = {}
    BY Zenon DEF IsCut, as
  <1>5. Between(d, all) = u \o (d \o x)
    BY <1>2, <1>4, BetweenBehind
  <1>6. OnlyAtEnd(u, d)
    BY FreeAtEnd
  <1>7. n # 0
    <2>1. Len(as) # 0
      BY <1>2, <1>4, EmptySeq
    <2>. QED  BY <2>1
  <1> HIDE DEF all, n
  <1>8. ASSUME NEW k \in 1..n + 1
        PROVE  /\ k < n + 1 => OnlyAtEnd(all[k], d)
               /\ k = n + 1 => Found(all[k], d, 1) = {}
    <2>1. CASE k = 1
      <3>1. k # n + 1 /\ all[k] = u
        BY <1>3, <1>7, <2>1
      <3>. QED  BY <1>6, <3>1, Zenon
    <2>2. CASE k # 1
      <3> DEFINE i == k - 1
      <3>1. i \in 1..n /\ i + 1 = k /\ (k < n + 1 <=> i < n) /\ (k = n + 1 <=> i = n)
        BY <1>3, <2>2
      <3> HIDE DEF i
      <3>2. all[k] = as[i]
        BY <1>3, <3>1, Zenon
      <3>. QED  BY <1>4, <3>1, <3>2, Zenon
    <2>. QED  BY <2>1, <2>2
  <1>9. IsCut(u \o (d \o x), d, all)
    BY <1>3, <1>5, <1>8, Zenon DEF IsCut
  <1>. QED  BY <1>1, <1>9, Zenon

(* A split text is cut, whatever the text and the delimiter: by induction over*)
(* what is left behind the cursor.                                          *)
LEMMA SplitIsCut ==
  ASSUME NEW T, NEW s \in Seq(T), NEW d \in Seq(T), d # <<>>
  PROVE  IsCut(s, d, Split(s, d))
  <1> DEFINE Good(x) == IsCut(x, d, Split(x, d))
             n == Len(s)
             S == {k \in 0..n : \A x \in Seq(T) : Len(x) <= k => Good(x)}
  <1>1. n \in Nat /\ Len(d) \in Nat \ {0}
    <2>1. Len(d) # 0
      BY EmptySeq
    <2>. QED  BY <2>1, LenProperties
  <1>2. ASSUME NEW x \in Seq(T), \A y \in Seq(T) : Len(y) < Len(x) => Good(y) PROVE Good(x)
    <2>1. CASE Found(x, d, 1) = {}
      <3> HIDE DEF n, S
      <3>. QED  BY <2>1, CutNone
    <2>2. CASE Found(x, d, 1) # {}
      <3>1. PICK u, y \in Seq(T) : x = u \o (d \o y) /\ Free(u, d \o y, d)
        BY <2>2, FirstCut
      <3>2. Len(y) < Len(x)
        <4>1. d \o y \in Seq(T) /\ Len(d \o y) = Len(d) + Len(y)
          BY ConcatProperties
        <4>2. Len(x) = Len(u) + Len(d \o y)
          BY <3>1, <4>1, ConcatProperties
        <4>3. Len(u) \in Nat /\ Len(y) \in Nat
          BY LenProperties
        <4> HIDE DEF n, S
        <4>. QED  BY <1>1, <4>1, <4>2, <4>3
      <3>3. Good(y)
        BY <1>2, <3>2
      <3> HIDE DEF n, S
      <3>4. Good(u \o (d \o y))
        BY <3>1, <3>3, CutFirst
      <3>. QED  BY <3>1, <3>4
    <2>. QED  BY <2>1, <2>2
  <1> HIDE DEF Good, n
  <1>3. 0 \in S
    <2>1. ASSUME NEW x \in Seq(T), Len(x) <= 0 PROVE Good(x)
      <3>1. \A y \in Seq(T) : ~(Len(y) < Len(x))
        BY <2>1, LenProperties
      <3>. QED  BY <1>2, <3>1
    <2>2. 0 \in 0..n
      BY <1>1
    <2>. QED  BY <2>1, <2>2
  <1>4. ASSUME NEW k \in 0..n-1, k \in S PROVE k + 1 \in S
    <2>1. ASSUME NEW x \in Seq(T), Len(x) <= k + 1 PROVE Good(x)
      <3>1. ASSUME NEW y \in Seq(T), Len(y) < Len(x) PROVE Good(y)
        <4>1. Len(y) <= k
          <5>1. Len(x) \in Nat /\ Len(y) \in Nat
            BY LenProperties
          <5> HIDE DEF S
          <5>. QED  BY <1>1, <2>1, <3>1, <5>1
        <4>. QED  BY <1>4, <4>1
      <3>. QED  BY <1>2, <3>1
    <2>2. k + 1 \in 0..n
      <3> HIDE DEF S
      <3>. QED  BY <1>1
    <2>. QED  BY <2>1, <2>2
  <1>5. n \in S => Good(s)
    <2>1. n \in S => (Len(s) <= n => Good(s))
      OBVIOUS
    <2>2. Len(s) <= n
      BY <1>1 DEF n
    <2>. QED  BY <2>1, <2>2
  <1> HIDE DEF S
  <1>6. n \in S
    <2>1. n \in Nat /\ n \in 0..n
      BY <1>1
    <2>2. \A k \in 0..n : k \in S
      BY <2>1, <1>3, <1>4, Induction
    <2>. QED  BY <2>1, <2>2
  <1>. QED  BY <1>5, <1>6 DEF Good

-----------------------------------------------------------------------------
(* Templates over T. *)
PairsOver(T, pairs) ==
  /\ pairs \in Seq([from : Seq(T), to : Seq(T)])
  /\ \A k \in 1..Len(pairs) : pairs[k].from # <<>>

LEMMA PairTyped ==
  ASSUME NEW T, NEW pairs, PairsOver(T, pairs)
  PROVE  /\ Len(pairs) \in Nat /\ DOMAIN pairs = 1..Len(pairs)
         /\ \A k \in 1..Len(pairs) : /\ pairs[k].from \in Seq(T) /\ pairs[k].from # <<>>
                                     /\ pairs[k].to \in Seq(T)
  <1> DEFINE A == [from : Seq(T), to : Seq(T)]
  <1>1. pairs \in Seq(A) /\ \A k \in 1..Len(pairs) : pairs[k].from # <<>>
    BY DEF PairsOver
  <1> HIDE DEF A
  <1>2. Len(pairs) \in Nat /\ DOMAIN pairs = 1..Len(pairs) /\ \A k \in 1..Len(pairs) : pairs[k] \in A
    BY <1>1, LenProperties, ElementOfSeq
  <1>3. \A p \in A : p.from \in Seq(T) /\ p.to \in Seq(T)
    BY DEF A
  <1>. QED  BY <1>1, <1>2, <1>3, Zenon

(* The text after each template. *)
Traced(h, s, pairs) ==
  /\ h[0] = s
  /\ \A k \in 1..Len(pairs) : h[k] = StringReplaceAll(h[k-1], pairs[k].from, pairs[k].to)

(* The fold over the templates goes from text to text. *)
LEMMA ReplaceTrace ==
  ASSUME NEW T, NEW s \in Seq(T), NEW pairs, PairsOver(T, pairs)
  PROVE  \E h \in [0..Len(pairs) -> Seq(T)] :
            Traced(h, s, pairs) /\ ReplaceTemplates(s, pairs) = h[Len(pairs)]
  <1> DEFINE n == Len(pairs)
             A == Seq(T)
             Next1(x, k) == StringReplaceAll(x, pairs[k].from, pairs[k].to)
             step == [k \in 1..n |-> [x \in A |-> Next1(x, k)]]
             body(g) == [d \in SUBSET (DOMAIN pairs) |->
                           IF d = {} THEN s ELSE Next1(g[d \ {Max(d)}], Max(d))]
             chosen == CHOOSE g : g = body(g)
  <1>0. DOMAIN pairs = 1..n /\ n \in Nat
    BY PairTyped
  <1>1. n \in Nat /\ s \in A
    BY <1>0
  <1>7. ReplaceTemplates(s, pairs) = chosen[(DOMAIN pairs)]
    BY DEF ReplaceTemplates, FoldLeft, MapThenFoldSet
  <1>20. \A k \in 1..n : \A x \in A : Next1(x, k) \in A
    BY PairTyped, ReplaceNone
  <1> HIDE DEF Next1, n, A
  <1>2. step \in [1..n -> [A -> A]]
    BY <1>20
  <1>3. PICK g \in [SUBSET (1..n) -> A] : Folds(g, n, s, step)
    <2> HIDE DEF step
    <2>. QED  BY <1>1, <1>2, FoldExists
  <1>4. ASSUME NEW d \in SUBSET (1..n) PROVE g[d] = body(g)[d]
    <2>1. CASE d = {}
      BY <1>0, <1>3, <2>1 DEF Folds
    <2>2. CASE d # {}
      <3>1. Max(d) \in 1..n /\ d \ {Max(d)} \in SUBSET (1..n)
        BY <1>1, <2>2, MaxIn
      <3>2. g[d \ {Max(d)}] \in A /\ g[d] = step[Max(d)][g[d \ {Max(d)}]]
        BY <1>3, <2>2, <3>1 DEF Folds
      <3>. QED  BY <1>0, <2>2, <3>1, <3>2
    <2>. QED  BY <2>1, <2>2
  <1>5. g = body(g)
    BY <1>0, <1>4
  <1>6. chosen = body(chosen)
    BY <1>5
  <1> HIDE DEF chosen
  <1>8. \A d \in SUBSET (1..n) : chosen[d] = body(chosen)[d]
    BY <1>0, <1>6
  <1>9. chosen[{}] = s
    BY <1>0, <1>8
  <1>10. ASSUME NEW k \in 1..n PROVE chosen[1..k] = Next1(chosen[1..k-1], k)
    <2>1. 1..k \in SUBSET (1..n) /\ 1..k # {} /\ Max(1..k) = k /\ (1..k) \ {k} = 1..k-1
      BY <1>1, FoldSteps
    <2>. QED  BY <1>0, <1>8, <2>1
  <1>11. \A k \in 1..n : chosen[1..k-1] \in A => chosen[1..k] = step[k][chosen[1..k-1]]
    BY <1>10
  <1>15. Follows(chosen, n, A, s, step)
    BY <1>9, <1>11 DEF Follows
  <1>12. PICK h \in [0..n -> A] : Traces(h, n, s, step) /\ chosen[1..n] = h[n]
    <2>1. HasTrace(chosen, n, A, s, step)
      <3> HIDE DEF step
      <3>. QED  BY <1>1, <1>2, <1>15, FoldTrace
    <2>. QED  BY <2>1 DEF HasTrace
  <1>13. \A k \in 1..n : k - 1 \in 0..n /\ h[k] = step[k][h[k-1]]
    BY <1>1, <1>12 DEF Traces
  <1>14. \A k \in 1..n : h[k] = Next1(h[k-1], k)
    BY <1>12, <1>13
  <1>16. Traced(h, s, pairs)
    BY <1>12, <1>14, Zenon DEF Traced, Traces, Next1, n
  <1>. QED  BY <1>0, <1>7, <1>12, <1>16, Zenon DEF n, A

-----------------------------------------------------------------------------

(* Characters of p. *)
Of(w, p) == \A i \in 1..Len(w) : \E k \in 1..Len(p) : w[i] = p[k]

(* A place that begins in u goes with the characters behind u it needs. *)
BeginsIn(u, x, p, j) == j \in Found(u \o x, p, 1) /\ j <= Len(u)
Needs(T, u, x, p, j, w, z) ==
  x = w \o z /\ Of(w, p) /\ \A y \in Seq(T) : j \in Found(u \o (w \o y), p, 1)
NeedsSome(T, u, x, p, j) == \E w, z \in Seq(T) : Needs(T, u, x, p, j, w, z)

(* There are such characters. *)
LEMMA PlaceMoves ==
  ASSUME NEW T, NEW u \in Seq(T), NEW x \in Seq(T), NEW p \in Seq(T), p # <<>>,
         NEW j, BeginsIn(u, x, p, j)
  PROVE  NeedsSome(T, u, x, p, j)
  <1> DEFINE s == u \o x
             n == Len(u)
             m == Len(p)
  <1>1. /\ s \in Seq(T) /\ Len(s) = n + Len(x)
        /\ \A i \in 1..Len(x) : s[n + i] = x[i]
    BY CutBetween
  <1>2. n \in Nat /\ m \in Nat \ {0} /\ Len(x) \in Nat
    <2>1. m # 0
      BY EmptySeq
    <2>. QED  BY <2>1, LenProperties
  <1> HIDE DEF s
  <1>3. j \in 1..Len(s) + 1 - m /\ \A k \in 1..m : s[j + k - 1] = p[k]
    <2>1. 1 \in 1..Len(s) + 1 /\ j \in Found(s, p, 1)
      BY <1>1, <1>2 DEF s, BeginsIn
    <2>2. j \in 1..Len(s) + 1 - Len(p) /\ \A k \in 1..Len(p) : s[j + k - 1] = p[k]
      BY <1>1, <2>1, FoundChars, SMTT(30)
    <2>. QED  BY <2>2
  <1>20. j <= n
    BY Zenon DEF BeginsIn
  <1> HIDE DEF n, m
  <1> DEFINE l == IF j + m <= n + 1 THEN 0 ELSE j + m - 1 - n
  <1>4. l \in 0..Len(x) /\ j + m <= n + l + 1 /\ l + 1 \in 1..Len(x) + 1 /\ j \in Int /\ j >= 1
        /\ l = (l + 1) - 1
    BY <1>1, <1>2, <1>3
  <1>5. \A i \in 1..l : \E k \in 1..m : x[i] = p[k]
    <2> SUFFICES ASSUME NEW i \in 1..l PROVE \E k \in 1..m : x[i] = p[k]
      OBVIOUS
    <2> DEFINE k == n + i - j + 1
    <2>1. k \in 1..m /\ j + k - 1 = n + i /\ i \in 1..Len(x)
      BY <1>2, <1>3, <1>4, <1>20
    <2> HIDE DEF k
    <2>. QED  BY <1>1, <1>3, <2>1
  <1> HIDE DEF l
  <1> DEFINE w == SubSeq(x, 1, (l + 1) - 1)
             z == Rest(x, l + 1)
  <1>6. /\ w \in Seq(T) /\ Len(w) = l /\ z \in Seq(T) /\ x = w \o z
        /\ \A i \in 1..l : w[i] = x[i]
    <2> DEFINE q == l + 1
    <2>1. q \in 1..Len(x) + 1 /\ q - 1 = l
      BY <1>4
    <2> HIDE DEF q
    <2>2. /\ SubSeq(x, 1, q - 1) \in Seq(T) /\ Len(SubSeq(x, 1, q - 1)) = q - 1
          /\ \A i \in 1..q - 1 : SubSeq(x, 1, q - 1)[i] = x[i]
          /\ Rest(x, q) \in Seq(T)
          /\ x = SubSeq(x, 1, q - 1) \o Rest(x, q)
      BY <2>1, CutAt
    <2>. QED  BY <2>1, <2>2, Zenon DEF q
  <1> HIDE DEF w, z
  <1>7. Of(w, p)
    BY <1>5, <1>6, Zenon DEF Of, m
  <1> DEFINE v == u \o w
  <1>8. v \in Seq(T) /\ Len(v) = n + l
    BY <1>6, ConcatProperties DEF n
  <1> HIDE DEF v
  <1>9. ASSUME NEW y \in Seq(T)
        PROVE  /\ u \o (w \o y) = v \o y
               /\ j \in Found(v \o y, p, 1) <=> j \in Found(v, p, 1)
    <2>1. Assoc(u, w, y)
      BY <1>6, Associates
    <2>2. j + Len(p) <= Len(v) + 1
      BY <1>4, <1>8 DEF m
    <2>3. j \in Int /\ j >= 1 /\ v \in Seq(T)
      BY <1>4, <1>8
    <2>4. j \in Found(v \o y, p, 1) <=> j \in Found(v, p, 1)
      BY <2>2, <2>3, FoundInParts
    <2>. QED  BY <2>1, <2>4, Zenon DEF Assoc, v
  <1>10. j \in Found(u \o (w \o z), p, 1)
    BY <1>6, Zenon DEF BeginsIn
  <1>11. \A y \in Seq(T) : j \in Found(u \o (w \o y), p, 1)
    BY <1>6, <1>9, <1>10, Zenon
  <1>. QED  BY <1>6, <1>7, <1>11, Zenon DEF Needs, NeedsSome

(* A text with two fronts: the longer one begins with the shorter. *)
Fronts(a, e, w, z) == a \o e = w \o z /\ Len(w) <= Len(a)
Begins(T, a, w) == \E v \in Seq(T) : a = w \o v

LEMMA ShorterFront ==
  ASSUME NEW T, NEW a \in Seq(T), NEW e \in Seq(T), NEW w \in Seq(T), NEW z \in Seq(T),
         Fronts(a, e, w, z)
  PROVE  Begins(T, a, w)
  <1>0. a \o e = w \o z /\ Len(w) <= Len(a)
    BY DEF Fronts
  <1>1. /\ \A i \in 1..Len(a) : (a \o e)[i] = a[i]
        /\ \A i \in 1..Len(w) : (w \o z)[i] = w[i]
        /\ Len(w) \in Nat /\ Len(a) \in Nat
    BY <1>0, CutBetween, LenProperties
  <1> DEFINE m == Len(w) + 1
             b == SubSeq(a, 1, m - 1)
             v == Rest(a, m)
  <1>2. m \in 1..Len(a) + 1 /\ m - 1 = Len(w)
    BY <1>0, <1>1
  <1> HIDE DEF m
  <1>3. /\ b \in Seq(T) /\ Len(b) = m - 1 /\ \A i \in 1..m - 1 : b[i] = a[i]
        /\ v \in Seq(T) /\ a = b \o v
    BY <1>2, CutAt
  <1> HIDE DEF b, v
  <1>4. b = w
    <2>1. \A i \in 1..Len(w) : i \in 1..Len(a)
      BY <1>0, <1>1
    <2>2. Len(b) = Len(w) /\ \A i \in 1..Len(b) : b[i] = w[i]
      BY <1>0, <1>1, <1>2, <1>3, <2>1, Zenon
    <2>3. b \in Seq(T)
      BY <1>3
    <2>. QED  BY <2>2, <2>3, SeqEqual
  <1>. QED  BY <1>3, <1>4, Zenon DEF Begins

(* What is at the front of a replaced text, without the first character of  *)
(* what was put in, was there before.                                       *)
ReplacedTo(x, f, t, w, z) == StringReplaceAll(x, f, t) = w \o z /\ Without(t[1], w)

(* By induction over the pieces between the places. *)
LEMMA ReplacedFront ==
  ASSUME NEW T, NEW x \in Seq(T), NEW f \in Seq(T), f # <<>>, NEW t \in Seq(T), t # <<>>,
         NEW w \in Seq(T), NEW z \in Seq(T), ReplacedTo(x, f, t, w, z)
  PROVE  Begins(T, x, w)
  <1>0. StringReplaceAll(x, f, t) = w \o z /\ Without(t[1], w)
    BY Zenon DEF ReplacedTo
  <1>1. CASE Found(x, f, 1) = {}
    BY <1>0, <1>1, ReplaceNone, Zenon DEF Begins
  <1>2. CASE Found(x, f, 1) # {}
    <2>1. PICK a, b \in Seq(T) : x = a \o (f \o b) /\ Free(a, f \o b, f)
      BY <1>2, FirstCut
    <2> DEFINE c == StringReplaceAll(b, f, t)
               d == t \o c
               e == f \o b
    <2>2. c \in Seq(T)
      BY ReplaceNone
    <2>3. a \o d = w \o z
      <3>1. ReplacesAt(a, f, b, t)
        BY <2>1, ReplacedAt
      <3>. QED  BY <1>0, <2>1, <3>1, Zenon DEF ReplacesAt
    <2> HIDE DEF c
    <2>4. d \in Seq(T) /\ e \in Seq(T)
      BY <2>2, ConcatProperties
    <2>5. 1 \in 1..Len(t) /\ Len(t) \in Nat /\ Len(a) \in Nat /\ Len(w) \in Nat
      <3>1. Len(t) \in Nat \ {0}
        BY EmptySeq
      <3>. QED  BY <3>1, LenProperties
    <2>6. d[1] = t[1] /\ 1 \in 1..Len(d)
      <3>1. /\ Len(d) = Len(t) + Len(c)
            /\ \A i \in 1..Len(t) : d[i] = t[i]
        BY <2>2, CutBetween
      <3>2. Len(c) \in Nat
        BY <2>2, LenProperties
      <3> HIDE DEF d
      <3>. QED  BY <2>5, <3>1, <3>2
    <2> HIDE DEF d, e
    <2>7. Len(w) <= Len(a)
      <3> SUFFICES ASSUME ~(Len(w) <= Len(a)) PROVE FALSE
        OBVIOUS
      <3> DEFINE i == Len(a) + 1
      <3>1. i \in 1..Len(w)
        BY <2>5
      <3>2. (a \o d)[i] = d[1]
        BY <2>4, <2>6, CutBetween
      <3>3. (w \o z)[i] = w[i]
        <4> HIDE DEF i
        <4>. QED  BY <3>1, CutBetween
      <3>4. w[i] # t[1]
        BY <1>0, <3>1, Zenon DEF Without
      <3>. QED  BY <2>3, <2>6, <3>2, <3>3, <3>4, Zenon
    <2>11. d \in Seq(T)
      BY <2>4
    <2>13. Fronts(a, d, w, z)
      BY <2>3, <2>7, Zenon DEF Fronts
    <2>12. Begins(T, a, w)
      BY <2>11, <2>13, ShorterFront
    <2>8. PICK v \in Seq(T) : a = w \o v
      BY <2>12, Zenon DEF Begins
    <2>9. Assoc(w, v, e)
      BY <2>4, Associates
    <2>10. v \o e \in Seq(T)
      BY <2>4, ConcatProperties
    <2>. QED  BY <2>1, <2>8, <2>9, <2>10, Zenon DEF Assoc, e, Begins
  <1>. QED  BY <1>1, <1>2

(* No value has a character of a key. *)
Apart(pairs) ==
  \A k, l \in 1..Len(pairs) :
     /\ pairs[k].to # <<>>
     /\ \A i \in 1..Len(pairs[k].to), j \in 1..Len(pairs[l].from) : pairs[k].to[i] # pairs[l].from[j]

(* A text in which no value begins. *)
Foreign(w, pairs) == \A l \in 1..Len(pairs) : Without(pairs[l].to[1], w)

(* Where x begins with such a text, so does r. *)
Origin(T, x, r, pairs) ==
  \A w, z \in Seq(T) : x = w \o z /\ Foreign(w, pairs) => Begins(T, r, w)

(* No value begins in the characters of a key. *)
LEMMA OfIsForeign ==
  ASSUME NEW T, NEW pairs, PairsOver(T, pairs), Apart(pairs), NEW l \in 1..Len(pairs),
         NEW w \in Seq(T), Of(w, pairs[l].from)
  PROVE  Foreign(w, pairs)
  <1> SUFFICES ASSUME NEW k \in 1..Len(pairs), NEW i \in 1..Len(w) PROVE w[i] # pairs[k].to[1]
    BY Zenon DEF Foreign, Without
  <1>1. PICK j \in 1..Len(pairs[l].from) : w[i] = pairs[l].from[j]
    BY Zenon DEF Of
  <1> DEFINE t == pairs[k].to
  <1>2. t \in Seq(T) /\ t # <<>>
    BY PairTyped, Zenon DEF Apart
  <1>3. 1 \in 1..Len(t)
    <2> HIDE DEF t
    <2>1. Len(t) \in Nat /\ Len(t) # 0
      BY <1>2, EmptySeq, LenProperties
    <2>. QED  BY <2>1
  <1>4. t[1] # pairs[l].from[j]
    BY <1>3, Zenon DEF Apart
  <1>. QED  BY <1>1, <1>4

(* One replacement keeps where a text comes from. *)
LEMMA OriginStep ==
  ASSUME NEW T, NEW pairs, PairsOver(T, pairs), Apart(pairs), NEW l \in 1..Len(pairs),
         NEW x \in Seq(T), NEW r \in Seq(T), Origin(T, x, r, pairs)
  PROVE  Origin(T, StringReplaceAll(x, pairs[l].from, pairs[l].to), r, pairs)
  <1> DEFINE f == pairs[l].from
             t == pairs[l].to
  <1>1. f \in Seq(T) /\ f # <<>> /\ t \in Seq(T) /\ t # <<>>
    BY PairTyped, Zenon DEF Apart
  <1> SUFFICES ASSUME NEW w \in Seq(T), NEW z \in Seq(T), StringReplaceAll(x, f, t) = w \o z,
                      Foreign(w, pairs)
               PROVE  Begins(T, r, w)
    BY Zenon DEF Origin
  <1>2. Without(t[1], w)
    BY Zenon DEF Foreign
  <1> HIDE DEF f, t
  <1>4. ReplacedTo(x, f, t, w, z)
    BY <1>2, Zenon DEF ReplacedTo
  <1>3. Begins(T, x, w)
    BY <1>1, <1>4, ReplacedFront
  <1>. QED  BY <1>3, Zenon DEF Origin, Begins

(* After every template. *)
LEMMA TracedFrom ==
  ASSUME NEW T, NEW pairs, PairsOver(T, pairs), Apart(pairs), NEW r \in Seq(T),
         NEW h \in [0..Len(pairs) -> Seq(T)], Traced(h, r, pairs)
  PROVE  \A j \in 0..Len(pairs) : Origin(T, h[j], r, pairs)
  <1> DEFINE n == Len(pairs)
             S == {j \in 0..n : Origin(T, h[j], r, pairs)}
  <1>1. n \in Nat
    BY PairTyped
  <1>2. 0 \in S
    <2>1. h[0] = r
      BY Zenon DEF Traced
    <2>2. Origin(T, r, r, pairs)
      BY Zenon DEF Origin, Begins
    <2>. QED  BY <1>1, <2>1, <2>2
  <1>3. ASSUME NEW k \in 0..n-1, k \in S PROVE k + 1 \in S
    <2>1. k + 1 \in 1..n /\ k + 1 \in 0..n /\ (k + 1) - 1 = k /\ k \in 0..n
      BY <1>1
    <2>2. h[k + 1] = StringReplaceAll(h[k], pairs[k + 1].from, pairs[k + 1].to)
      BY <2>1, Zenon DEF Traced, n
    <2>3. h[k] \in Seq(T) /\ Origin(T, h[k], r, pairs)
      BY <1>3, <2>1
    <2> DEFINE l == k + 1
    <2>4. l \in 1..Len(pairs)
      BY <2>1
    <2> HIDE DEF l
    <2>5. Origin(T, StringReplaceAll(h[k], pairs[l].from, pairs[l].to), r, pairs)
      BY <2>3, <2>4, OriginStep
    <2>6. Origin(T, h[k + 1], r, pairs)
      BY <2>2, <2>5, Zenon DEF l
    <2>. QED  BY <2>1, <2>6
  <1> HIDE DEF S
  <1>4. \A k \in 0..n : k \in S
    BY <1>1, <1>2, <1>3, Induction
  <1>. QED  BY <1>4 DEF S

(* A place of a key in v is there with r behind v as well. *)
LEMMA PlacesStay ==
  ASSUME NEW T, NEW pairs, PairsOver(T, pairs), Apart(pairs), NEW l \in 1..Len(pairs),
         NEW v \in Seq(T), NEW x \in Seq(T), NEW r \in Seq(T), Origin(T, x, r, pairs),
         Free(v, r, pairs[l].from)
  PROVE  Free(v, x, pairs[l].from)
  <1> DEFINE p == pairs[l].from
  <1>1. p \in Seq(T) /\ p # <<>>
    BY PairTyped, Zenon
  <1> SUFFICES ASSUME NEW j \in Found(v \o x, p, 1), ~(j > Len(v)) PROVE FALSE
    BY Zenon DEF Free
  <1> HIDE DEF p
  <1>2. j <= Len(v)
    <2>1. v \o x \in Seq(T) /\ Len(v) \in Nat
      BY ConcatProperties, LenProperties
    <2>2. j \in Int
      BY <1>1, <2>1, FoundNumbers
    <2>. QED  BY <2>1, <2>2
  <1>8. BeginsIn(v, x, p, j)
    BY <1>2, Zenon DEF BeginsIn
  <1>9. NeedsSome(T, v, x, p, j)
    BY <1>1, <1>8, PlaceMoves
  <1>3. PICK w, z \in Seq(T) : /\ x = w \o z /\ Of(w, p)
                               /\ \A y \in Seq(T) : j \in Found(v \o (w \o y), p, 1)
    BY <1>9, Zenon DEF NeedsSome, Needs
  <1>4. Foreign(w, pairs)
    BY <1>3, OfIsForeign DEF p
  <1>5. Begins(T, r, w)
    BY <1>3, <1>4, Zenon DEF Origin
  <1>6. PICK y \in Seq(T) : r = w \o y
    BY <1>5, Zenon DEF Begins
  <1>7. j \in Found(v \o r, p, 1)
    BY <1>3, <1>6, Zenon
  <1>. QED  BY <1>7, Zenon DEF Free, p

(* No place reaches into a text that has no character of the pattern. *)
LEMMA FreeBehindValue ==
  ASSUME NEW T, NEW u \in Seq(T), NEW t \in Seq(T), t # <<>>, NEW x \in Seq(T), NEW y \in Seq(T),
         NEW p \in Seq(T), p # <<>>, \A i \in 1..Len(t), k \in 1..Len(p) : t[i] # p[k],
         Free(u, y, p)
  PROVE  Free(u \o t, x, p)
  <1> DEFINE a == u \o t
  <1> SUFFICES Free(a, x, p)
    OBVIOUS
  <1> DEFINE s == a \o x
             n == Len(u)
             l == Len(t)
             m == Len(p)
  <1>1. /\ a \in Seq(T) /\ Len(a) = n + l /\ \A i \in 1..l : a[n + i] = t[i]
        /\ \A i \in 1..n : a[i] = u[i]
    BY CutBetween
  <1>2. n \in Nat /\ l \in Nat \ {0} /\ m \in Nat \ {0}
    <2>1. l # 0 /\ m # 0
      BY EmptySeq
    <2>. QED  BY <2>1, LenProperties
  <1> HIDE DEF a
  <1>3. s \in Seq(T) /\ Len(s) = Len(a) + Len(x) /\ \A i \in 1..Len(a) : s[i] = a[i]
    <2>1. a \in Seq(T)
      BY <1>1
    <2> HIDE DEF n, l, m
    <2>. QED  BY <2>1, CutBetween
  <1> HIDE DEF s
  <1>9. n + l \in Nat /\ Len(x) \in Nat
    BY <1>2, LenProperties
  <1> SUFFICES ASSUME NEW j \in Found(s, p, 1), ~(j > n + l) PROVE FALSE
    BY <1>1, Zenon DEF Free, s
  <1>4. j \in Int /\ j >= 1 /\ \A k \in 1..m : s[j + k - 1] = p[k]
    <2>1. 1 \in 1..Len(s) + 1
      BY <1>1, <1>3, <1>9
    <2> HIDE DEF n, l, m
    <2>3. s \in Seq(T)
      BY <1>3
    <2>2. j \in 1..Len(s) + 1 - Len(p) /\ \A k \in 1..Len(p) : s[j + k - 1] = p[k]
      BY <2>1, <2>3, FoundChars
    <2>4. j \in Int /\ j >= 1
      <3>1. Len(p) \in Nat /\ Len(s) \in Nat
        BY <2>3, LenProperties
      <3>. QED  BY <2>2, <3>1
    <2>. QED  BY <2>2, <2>4, Zenon DEF m
  <1>5. \A i \in 1..l, k \in 1..m : t[i] # p[k]
    OBVIOUS
  <1>6. \A i \in 1..l : s[n + i] = t[i]
    <2> HIDE DEF n, l
    <2> SUFFICES ASSUME NEW i \in 1..l PROVE s[n + i] = t[i]
      OBVIOUS
    <2>1. n + i \in 1..Len(a)
      BY <1>1, <1>2
    <2>. QED  BY <1>1, <1>3, <2>1, Zenon
  <1>7. CASE j + m <= n + 1
    <2>1. j \in Found(a, p, 1)
      <3>1. j + Len(p) <= Len(a) + 1
        BY <1>1, <1>2, <1>4, <1>7
      <3>2. j \in Found(a \o x, p, 1)
        BY DEF s
      <3>. QED  BY <1>1, <1>4, <3>1, <3>2, FoundInParts
    <2>2. j \in Found(u, p, 1)
      <3>1. j + Len(p) <= Len(u) + 1
        BY <1>7
      <3>. QED  BY <1>4, <2>1, <3>1, FoundInParts DEF a
    <2>3. j \in Found(u \o y, p, 1)
      <3>1. j + Len(p) <= Len(u) + 1
        BY <1>7
      <3>. QED  BY <1>4, <2>2, <3>1, FoundInParts
    <2>4. j > n
      BY <2>3, Zenon DEF Free
    <2> HIDE DEF n, l, m
    <2>. QED  BY <1>2, <1>4, <1>7, <2>4
  <1>8. CASE ~(j + m <= n + 1)
    <2> HIDE DEF n, l, m
    <2>1. CASE j <= n
      <3> DEFINE k == n + 1 - j + 1
      <3>1. k \in 1..m /\ j + k - 1 = n + 1 /\ 1 \in 1..l
        BY <1>2, <1>4, <1>8, <2>1
      <3> HIDE DEF k
      <3>2. s[n + 1] = p[k]
        BY <1>4, <3>1, Zenon
      <3>3. s[n + 1] = t[1]
        BY <1>6, <3>1, Zenon
      <3>. QED  BY <1>5, <3>1, <3>2, <3>3, Zenon
    <2>2. CASE ~(j <= n)
      <3> DEFINE i == j - n
      <3>1. i \in 1..l /\ n + i = j /\ 1 \in 1..m /\ j + 1 - 1 = j
        BY <1>2, <1>4, <2>2
      <3> HIDE DEF i
      <3>2. s[j] = p[1]
        BY <1>4, <3>1
      <3>3. s[j] = t[i]
        BY <1>6, <3>1
      <3>. QED  BY <1>5, <3>1, <3>2, <3>3
    <2>. QED  BY <2>1, <2>2
  <1>. QED  BY <1>7, <1>8

(* Key k is first behind u, and no other key begins in it.                  *)
AloneAt(u, k, r, pairs) ==
  \A l \in 1..Len(pairs) : /\ Free(u, pairs[k].from \o r, pairs[l].from)
                           /\ l # k => Free(u \o pairs[k].from, r, pairs[l].from)

(* Key k is replaced by its value and the rest of the text as it would be.  *)
TemplatesAt(u, k, r, pairs) ==
  ReplaceTemplates(u \o (pairs[k].from \o r), pairs) = u \o (pairs[k].to \o ReplaceTemplates(r, pairs))

(* What is made of the place after j templates: the key, and from k on its value. *)
Kept(k, j, pairs) == IF j < k THEN pairs[k].from ELSE pairs[k].to
PlaceAfter(u, k, j, y, x, pairs) == y = u \o (Kept(k, j, pairs) \o x)

(* One template makes the next of these texts, whether its key is the one at*)
(* the place or not.                                                        *)
LEMMA TemplateStep ==
  ASSUME NEW T, NEW pairs, PairsOver(T, pairs), Apart(pairs), NEW u \in Seq(T), NEW r \in Seq(T),
         NEW k \in 1..Len(pairs), AloneAt(u, k, r, pairs),
         NEW l \in 1..Len(pairs), NEW x \in Seq(T), Origin(T, x, r, pairs),
         NEW y \in Seq(T), PlaceAfter(u, k, l - 1, y, x, pairs)
  PROVE  PlaceAfter(u, k, l, StringReplaceAll(y, pairs[l].from, pairs[l].to),
                    StringReplaceAll(x, pairs[l].from, pairs[l].to), pairs)
  <1> DEFINE f == pairs[k].from
             t == pairs[k].to
             g == pairs[l].from
             v == pairs[l].to
             z == StringReplaceAll(x, g, v)
  <1>1. /\ f \in Seq(T) /\ f # <<>> /\ t \in Seq(T) /\ t # <<>>
        /\ g \in Seq(T) /\ g # <<>> /\ v \in Seq(T)
        /\ \A i \in 1..Len(t), j \in 1..Len(g) : t[i] # g[j]
    BY PairTyped, Zenon DEF Apart
  <1>2. z \in Seq(T)
    BY <1>1, ReplaceNone
  <1>3. Free(u, f \o r, g) /\ (l # k => Free(u \o f, r, g))
    BY Zenon DEF AloneAt
  <1>4. k \in Int /\ l \in Int
    OBVIOUS
  <1>5. u \o f \in Seq(T) /\ u \o t \in Seq(T)
    BY <1>1, ConcatProperties
  <1>6. Assoc(u, f, x) /\ Assoc(u, f, r) /\ Assoc(u, t, x) /\ Assoc(u, f, z) /\ Assoc(u, t, z)
    BY <1>1, <1>2, Associates
  <1>7. CASE l < k
    <2>1. Kept(k, l - 1, pairs) = f /\ Kept(k, l, pairs) = f /\ l # k
      <3>1. l - 1 < k /\ l # k
        BY <1>4, <1>7
      <3>. QED  BY <1>7, <3>1 DEF Kept
    <2>2. Free(u \o f, r, g)
      BY <1>3, <2>1
    <2>3. Free(u \o f, x, g)
      BY <1>5, <2>2, PlacesStay
    <2> HIDE DEF f, g, v, t, z
    <2>4. ReplacesBehind(u \o f, x, g, v)
      BY <1>1, <1>5, <2>3, ReplacedBehind
    <2>5. PlaceAfter(u, k, l, StringReplaceAll(y, g, v), z, pairs)
      BY <1>6, <2>1, <2>4, Zenon DEF PlaceAfter, Assoc, ReplacesBehind, z
    <2>. QED  BY <2>5 DEF f, g, v, t, z
  <1>8. CASE l = k
    <2>1. Kept(k, l - 1, pairs) = f /\ Kept(k, l, pairs) = t /\ g = f /\ v = t
      <3>1. l - 1 < k /\ ~(l < k)
        BY <1>4, <1>8
      <3>. QED  BY <1>8, <3>1 DEF Kept
    <2>2. Free(u, f \o x, f)
      <3> HIDE DEF f, g, v, t, z
      <3>1. \A j \in Found((u \o f) \o r, f, 1) : j > Len(u)
        BY <1>3, <1>6, <2>1, Zenon DEF Free, Assoc
      <3> SUFFICES ASSUME NEW j \in Found((u \o f) \o x, f, 1), ~(j > Len(u)) PROVE FALSE
        BY <1>6, Zenon DEF Free, Assoc
      <3>2. Len(u \o f) = Len(u) + Len(f) /\ Len(u) \in Nat /\ Len(f) \in Nat
        BY <1>1, ConcatProperties, LenProperties
      <3>3. j \in Int
        <4>1. (u \o f) \o x \in Seq(T)
          BY <1>5, ConcatProperties
        <4>. QED  BY <1>1, <4>1, FoundNumbers
      <3>4. j <= Len(u \o f)
        BY <3>2, <3>3
      <3>5. BeginsIn(u \o f, x, f, j)
        BY <3>4, Zenon DEF BeginsIn
      <3>6. NeedsSome(T, u \o f, x, f, j)
        BY <1>1, <1>5, <3>5, PlaceMoves
      <3>7. PICK w, e \in Seq(T) : /\ x = w \o e /\ Of(w, f)
                                   /\ \A q \in Seq(T) : j \in Found((u \o f) \o (w \o q), f, 1)
        BY <3>6, Zenon DEF NeedsSome, Needs
      <3>8. Foreign(w, pairs)
        BY <3>7, OfIsForeign DEF f
      <3>9. Begins(T, r, w)
        BY <3>7, <3>8, Zenon DEF Origin
      <3>10. j \in Found((u \o f) \o r, f, 1)
        BY <3>7, <3>9, Zenon DEF Begins
      <3>. QED  BY <3>1, <3>10
    <2> HIDE DEF f, g, v, t, z
    <2>3. ReplacesAt(u, f, x, t)
      BY <1>1, <2>2, ReplacedAt
    <2>4. PlaceAfter(u, k, l, StringReplaceAll(y, g, v), z, pairs)
      BY <2>1, <2>3, Zenon DEF PlaceAfter, ReplacesAt, z
    <2>. QED  BY <2>4 DEF f, g, v, t, z
  <1>9. CASE ~(l < k) /\ l # k
    <2>1. Kept(k, l - 1, pairs) = t /\ Kept(k, l, pairs) = t
      <3>1. ~(l - 1 < k)
        BY <1>4, <1>9
      <3>. QED  BY <1>9, <3>1 DEF Kept
    <2> HIDE DEF f, g, v, t, z
    <2>2. f \o r \in Seq(T) /\ Free(u, f \o r, g)
      BY <1>1, <1>3, ConcatProperties
    <2>3. Free(u \o t, x, g)
      <3> DEFINE q == f \o r
      <3>1. q \in Seq(T) /\ Free(u, q, g)
        BY <2>2
      <3> HIDE DEF q
      <3>. QED  BY <1>1, <3>1, FreeBehindValue
    <2>4. ReplacesBehind(u \o t, x, g, v)
      BY <1>1, <1>5, <2>3, ReplacedBehind
    <2>5. PlaceAfter(u, k, l, StringReplaceAll(y, g, v), z, pairs)
      BY <1>6, <2>1, <2>4, Zenon DEF PlaceAfter, Assoc, ReplacesBehind, z
    <2>. QED  BY <2>5 DEF f, g, v, t, z
  <1>. QED  BY <1>7, <1>8, <1>9

(* All templates, one after the other. *)
LEMMA TemplatesBehind ==
  ASSUME NEW T, NEW pairs, PairsOver(T, pairs), Apart(pairs), NEW u \in Seq(T), NEW r \in Seq(T),
         NEW k \in 1..Len(pairs), AloneAt(u, k, r, pairs)
  PROVE  TemplatesAt(u, k, r, pairs)
  <1> DEFINE n == Len(pairs)
             f == pairs[k].from
             s == u \o (f \o r)
  <1>1. n \in Nat /\ f \in Seq(T) /\ s \in Seq(T)
    <2>1. n \in Nat /\ f \in Seq(T)
      BY PairTyped, Zenon
    <2> HIDE DEF f
    <2>2. f \o r \in Seq(T)
      BY <2>1, ConcatProperties
    <2>. QED  BY <2>1, <2>2, ConcatProperties
  <1> HIDE DEF s
  <1>2. PICK g \in [0..n -> Seq(T)] : Traced(g, s, pairs) /\ ReplaceTemplates(s, pairs) = g[n]
    BY <1>1, ReplaceTrace
  <1>3. PICK h \in [0..n -> Seq(T)] : Traced(h, r, pairs) /\ ReplaceTemplates(r, pairs) = h[n]
    BY ReplaceTrace
  <1>4. \A j \in 0..n : Origin(T, h[j], r, pairs)
    BY <1>3, TracedFrom
  <1> DEFINE S == {j \in 0..n : PlaceAfter(u, k, j, g[j], h[j], pairs)}
  <1>5. 0 \in S
    <2>1. 0 < k /\ 0 \in 0..n
      BY <1>1
    <2>2. Kept(k, 0, pairs) = f
      BY <2>1 DEF Kept
    <2>3. g[0] = s /\ h[0] = r
      BY <1>2, <1>3, Zenon DEF Traced
    <2>4. PlaceAfter(u, k, 0, g[0], h[0], pairs)
      BY <2>2, <2>3, Zenon DEF PlaceAfter, s
    <2>. QED  BY <2>1, <2>4
  <1>6. ASSUME NEW j \in 0..n-1, j \in S PROVE j + 1 \in S
    <2> DEFINE l == j + 1
    <2>1. l \in 1..n /\ l \in 0..n /\ l - 1 = j /\ j \in 0..n
      BY <1>1
    <2> HIDE DEF l
    <2>2. /\ g[l] = StringReplaceAll(g[j], pairs[l].from, pairs[l].to)
          /\ h[l] = StringReplaceAll(h[j], pairs[l].from, pairs[l].to)
      BY <1>2, <1>3, <2>1, Zenon DEF Traced, n
    <2>3. g[j] \in Seq(T) /\ h[j] \in Seq(T)
      BY <2>1
    <2>4. Origin(T, h[j], r, pairs) /\ PlaceAfter(u, k, l - 1, g[j], h[j], pairs)
      BY <1>4, <1>6, <2>1
    <2>5. PlaceAfter(u, k, l, StringReplaceAll(g[j], pairs[l].from, pairs[l].to),
                     StringReplaceAll(h[j], pairs[l].from, pairs[l].to), pairs)
      <3> DEFINE x == h[j]
                 y == g[j]
      <3>1. x \in Seq(T) /\ y \in Seq(T) /\ Origin(T, x, r, pairs)
            /\ PlaceAfter(u, k, l - 1, y, x, pairs) /\ l \in 1..Len(pairs)
        BY <2>1, <2>3, <2>4
      <3> HIDE DEF x, y, n, S
      <3>2. PlaceAfter(u, k, l, StringReplaceAll(y, pairs[l].from, pairs[l].to),
                       StringReplaceAll(x, pairs[l].from, pairs[l].to), pairs)
        BY <3>1, TemplateStep
      <3>. QED  BY <3>2 DEF x, y
    <2>6. PlaceAfter(u, k, l, g[l], h[l], pairs)
      BY <2>2, <2>5, Zenon
    <2>. QED  BY <2>1, <2>6 DEF l
  <1>7. n \in S => PlaceAfter(u, k, n, g[n], h[n], pairs)
    BY Zenon
  <1> HIDE DEF S
  <1>8. n \in S
    <2>1. n \in Nat /\ n \in 0..n
      BY <1>1
    <2> HIDE DEF n
    <2>2. \A j \in 0..n : j \in S
      BY <2>1, <1>5, <1>6, Induction
    <2>. QED  BY <2>1, <2>2
  <1>9. Kept(k, n, pairs) = pairs[k].to
    <2>1. ~(n < k)
      BY <1>1
    <2>. QED  BY <2>1 DEF Kept
  <1>. QED  BY <1>2, <1>3, <1>7, <1>8, <1>9, Zenon DEF PlaceAfter, TemplatesAt, s

(* A single template, whatever it brings in. *)
LEMMA OneTemplate ==
  ASSUME NEW T, NEW pairs, PairsOver(T, pairs), Len(pairs) = 1, NEW s \in Seq(T)
  PROVE  ReplaceTemplates(s, pairs) = StringReplaceAll(s, pairs[1].from, pairs[1].to)
  <1>1. PICK h \in [0..1 -> Seq(T)] : Traced(h, s, pairs) /\ ReplaceTemplates(s, pairs) = h[1]
    BY ReplaceTrace
  <1>2. 1 \in 1..Len(pairs) /\ 1 - 1 = 0
    OBVIOUS
  <1>3. h[1] = StringReplaceAll(h[0], pairs[1].from, pairs[1].to)
    BY <1>1, <1>2, Zenon DEF Traced
  <1>. QED  BY <1>1, <1>3, Zenon DEF Traced

(* Without a key the text stays. *)
LEMMA TemplatesNone ==
  ASSUME NEW T, NEW pairs, PairsOver(T, pairs), NEW s \in Seq(T),
         \A l \in 1..Len(pairs) : Found(s, pairs[l].from, 1) = {}
  PROVE  ReplaceTemplates(s, pairs) = s
  <1> DEFINE n == Len(pairs)
  <1>1. n \in Nat
    BY PairTyped
  <1>2. PICK h \in [0..n -> Seq(T)] : Traced(h, s, pairs) /\ ReplaceTemplates(s, pairs) = h[n]
    BY ReplaceTrace
  <1> DEFINE S == {j \in 0..n : h[j] = s}
  <1>3. 0 \in S
    BY <1>1, <1>2 DEF Traced
  <1>4. ASSUME NEW j \in 0..n-1, j \in S PROVE j + 1 \in S
    <2> DEFINE l == j + 1
               f == pairs[l].from
               t == pairs[l].to
    <2>1. l \in 1..n /\ l \in 0..n /\ l - 1 = j
      BY <1>1
    <2> HIDE DEF l
    <2>2. h[l] = StringReplaceAll(h[j], f, t)
      BY <1>2, <2>1, Zenon DEF Traced, n
    <2>3. f \in Seq(T) /\ f # <<>> /\ t \in Seq(T) /\ Found(s, f, 1) = {}
      BY <2>1, PairTyped, Zenon
    <2> HIDE DEF f, t
    <2>4. StringReplaceAll(s, f, t) = s
      BY <2>3, ReplaceNone
    <2>5. h[j] = s
      BY <1>4
    <2>6. h[l] = s
      BY <2>2, <2>4, <2>5
    <2>. QED  BY <2>1, <2>6 DEF l
  <1>5. n \in S => h[n] = s
    OBVIOUS
  <1> HIDE DEF S
  <1>6. n \in S
    <2>1. n \in Nat /\ n \in 0..n
      BY <1>1
    <2> HIDE DEF n
    <2>2. \A j \in 0..n : j \in S
      BY <2>1, <1>3, <1>4, Induction
    <2>. QED  BY <2>1, <2>2
  <1>. QED  BY <1>2, <1>5, <1>6

-----------------------------------------------------------------------------
(* Steps from a base have values. *)
LEMMA TraceExists ==
  ASSUME NEW n \in Nat, NEW A, NEW base \in A, NEW step \in [1..n -> [A -> A]]
  PROVE  \E h \in [0..n -> A] : Traces(h, n, base, step)
  <1>1. PICK g \in [SUBSET (1..n) -> A] : Folds(g, n, base, step)
    BY FoldExists
  <1>2. g[{}] = base
    BY <1>1 DEF Folds
  <1>3. ASSUME NEW k \in 1..n PROVE g[1..k] = step[k][g[1..k-1]]
    <2>1. 1..k \in SUBSET (1..n) /\ 1..k # {} /\ Max(1..k) = k /\ (1..k) \ {k} = 1..k-1
      BY FoldSteps
    <2>. QED  BY <1>1, <2>1 DEF Folds
  <1>4. Follows(g, n, A, base, step)
    BY <1>2, <1>3 DEF Follows
  <1>5. HasTrace(g, n, A, base, step)
    BY <1>4, FoldTrace
  <1>. QED  BY <1>5 DEF HasTrace

(* The keys with a place at i. *)
At(s, pairs, i) == {k \in DOMAIN pairs : i \in Found(s, pairs[k].from, 1)}

LEMMA AtTyped ==
  ASSUME NEW T, NEW pairs, PairsOver(T, pairs), NEW s, NEW i, At(s, pairs, i) # {}
  PROVE  /\ Min(At(s, pairs, i)) \in At(s, pairs, i) /\ Min(At(s, pairs, i)) \in 1..Len(pairs)
         /\ \A k \in At(s, pairs, i) : Min(At(s, pairs, i)) <= k
         /\ Len(pairs[Min(At(s, pairs, i))].from) \in Nat \ {0}
  <1> DEFINE a == At(s, pairs, i)
             k == Min(a)
  <1>1. a \subseteq 1..Len(pairs) /\ 1..Len(pairs) \subseteq Nat /\ a # {}
    BY PairTyped DEF At
  <1> HIDE DEF a
  <1>2. a \in SUBSET Nat
    BY <1>1
  <1>3. k \in a /\ \A x \in a : k <= x
    BY <1>1, <1>2, LeastNatural
  <1> HIDE DEF k
  <1>4. k \in 1..Len(pairs)
    BY <1>1, <1>3
  <1> DEFINE f == pairs[k].from
  <1>5. f \in Seq(T) /\ f # <<>>
    BY <1>4, PairTyped, Zenon
  <1> HIDE DEF f
  <1>6. Len(f) \in Nat \ {0}
    <2>1. Len(f) \in Nat /\ Len(f) # 0
      BY <1>5, LenProperties, EmptySeq
    <2>. QED  BY <2>1
  <1>. QED  BY <1>3, <1>4, <1>6 DEF a, k, f

(* Up to where the text is replaced, at each place. *)
UntilAt(s, pairs, i, before) ==
  IF i > before /\ At(s, pairs, i) # {} THEN i + Len(pairs[Min(At(s, pairs, i))].from) - 1
  ELSE before
Until(s, pairs, until) ==
  until[0] = 0 /\ \A i \in 1..Len(s) : until[i] = UntilAt(s, pairs, i, until[i - 1])
MadeBy(s, pairs, until) ==
  [i \in 1..Len(s) |-> IF At(s, pairs, i) # {} /\ i > until[i - 1]
                       THEN Min(At(s, pairs, i)) ELSE 0]

(* The fold of Made goes from place to place. *)
LEMMA MadeRuns ==
  ASSUME NEW T, NEW pairs, PairsOver(T, pairs), NEW s \in Seq(T)
  PROVE  \E until \in [0..Len(s) -> Nat] : Until(s, pairs, until) /\ Made(s, pairs) = MadeBy(s, pairs, until)
  <1> DEFINE n == Len(s)
             step == [i \in 1..n |-> [x \in Nat |-> UntilAt(s, pairs, i, x)]]
             body(g) == [i \in 0..n |-> IF i = 0 THEN 0
                                        ELSE IF i > g[i - 1] /\ At(s, pairs, i) # {}
                                             THEN i + Len(pairs[Min(At(s, pairs, i))].from) - 1
                                             ELSE g[i - 1]]
             chosen == CHOOSE g : g = body(g)
  <1>1. n \in Nat /\ 0 \in Nat
    BY LenProperties
  <1>2. Made(s, pairs) = MadeBy(s, pairs, chosen)
    BY Zenon DEF Made, MadeBy, At
  <1> HIDE DEF n
  <1>3. \A i \in 1..n : \A x \in Nat : UntilAt(s, pairs, i, x) \in Nat
    <2> SUFFICES ASSUME NEW i \in 1..n, NEW x \in Nat PROVE UntilAt(s, pairs, i, x) \in Nat
      OBVIOUS
    <2> DEFINE l == Len(pairs[Min(At(s, pairs, i))].from)
    <2>1. At(s, pairs, i) # {} => l \in Nat \ {0}
      BY AtTyped
    <2> HIDE DEF l
    <2>2. UntilAt(s, pairs, i, x) = IF i > x /\ At(s, pairs, i) # {} THEN i + l - 1 ELSE x
      BY DEF UntilAt, l
    <2>3. At(s, pairs, i) # {} => i + l - 1 \in Nat
      BY <1>1, <2>1
    <2>. QED  BY <2>2, <2>3
  <1>4. step \in [1..n -> [Nat -> Nat]]
    BY <1>3
  <1>5. PICK h \in [0..n -> Nat] : Traces(h, n, 0, step)
    <2> HIDE DEF step
    <2>. QED  BY <1>1, <1>4, TraceExists
  <1>6. \A i \in 1..n : h[i] = UntilAt(s, pairs, i, h[i - 1])
    <2> SUFFICES ASSUME NEW i \in 1..n PROVE h[i] = UntilAt(s, pairs, i, h[i - 1])
      OBVIOUS
    <2>1. i - 1 \in 0..n
      BY <1>1
    <2>2. h[i - 1] \in Nat /\ h[i] = step[i][h[i-1]]
      BY <1>5, <2>1 DEF Traces
    <2>. QED  BY <2>2
  <1> HIDE DEF step
  <1>7. h = body(h)
    <2>1. \A i \in 0..n : i # 0 => i \in 1..n
      BY <1>1
    <2>2. \A i \in 0..n : h[i] = body(h)[i]
      <3> SUFFICES ASSUME NEW i \in 0..n PROVE h[i] = body(h)[i]
        OBVIOUS
      <3>1. CASE i = 0
        BY <1>5, <3>1 DEF Traces
      <3>2. CASE i # 0
        <4>1. i \in 1..n
          BY <2>1, <3>2
        <4>2. h[i] = UntilAt(s, pairs, i, h[i - 1])
          BY <1>6, <4>1
        <4>. QED  BY <3>2, <4>2, Zenon DEF UntilAt
      <3>. QED  BY <3>1, <3>2
    <2>. QED  BY <2>2
  <1>8. chosen = body(chosen)
    BY <1>7
  <1> HIDE DEF chosen
  <1>9. \A i \in 0..n : chosen[i] = body(chosen)[i]
    BY <1>8
  <1>10. chosen[0] = 0
    <2>1. 0 \in 0..n
      BY <1>1
    <2>. QED  BY <1>9, <2>1
  <1>11. ASSUME NEW i \in 1..n PROVE chosen[i] = UntilAt(s, pairs, i, chosen[i - 1])
    <2>1. i \in 0..n /\ i # 0
      BY <1>1
    <2>2. chosen[i] = body(chosen)[i]
      BY <1>9, <2>1
    <2>. QED  BY <2>1, <2>2, Zenon DEF UntilAt
  <1>12. DOMAIN chosen = 0..n /\ chosen = [i \in DOMAIN chosen |-> chosen[i]]
    BY <1>8
  <1>13. \A i \in 0..n : chosen[i] \in Nat
    <2> DEFINE S == {i \in 0..n : chosen[i] \in Nat}
    <2>1. 0 \in S
      BY <1>1, <1>10
    <2>2. ASSUME NEW i \in 0..n-1, i \in S PROVE i + 1 \in S
      <3>1. i + 1 \in 1..n /\ i + 1 \in 0..n /\ (i + 1) - 1 = i
        BY <1>1
      <3>2. chosen[i] \in Nat
        BY <2>2
      <3>3. chosen[i + 1] = UntilAt(s, pairs, i + 1, chosen[i])
        BY <1>11, <3>1
      <3>4. chosen[i + 1] \in Nat
        BY <1>3, <3>1, <3>2, <3>3
      <3>. QED  BY <3>1, <3>4
    <2> HIDE DEF S
    <2>3. \A i \in 0..n : i \in S
      BY <1>1, <2>1, <2>2, Induction
    <2>. QED  BY <2>3 DEF S
  <1>14. chosen \in [0..n -> Nat]
    BY <1>12, <1>13
  <1>15. Until(s, pairs, chosen)
    BY <1>10, <1>11, Zenon DEF Until, n
  <1>. QED  BY <1>2, <1>14, <1>15, Zenon DEF n

-----------------------------------------------------------------------------
(* The pieces of a text whose keys are replaced at once. *)

Covered(made, pairs, i) == \E j \in 1..i : made[j] # 0 /\ i < j + Len(pairs[made[j]].from)
OnceAt(s, pairs, made, i) ==
  IF made[i] # 0 THEN pairs[made[i]].to ELSE IF Covered(made, pairs, i) THEN <<>> ELSE <<s[i]>>
Onces(s, pairs, made) == [i \in 1..Len(s) |-> OnceAt(s, pairs, made, i)]

(* And that of AtOnce from piece to piece. *)
LEMMA OnceRuns ==
  ASSUME NEW T, NEW pairs, PairsOver(T, pairs), NEW s \in Seq(T)
  PROVE  /\ Made(s, pairs) \in [1..Len(s) -> 0..Len(pairs)]
         /\ AtOnce(s, pairs) = FlattenSeq(Onces(s, pairs, Made(s, pairs)))
         /\ Onces(s, pairs, Made(s, pairs)) \in Seq(Seq(T))
         /\ Len(Onces(s, pairs, Made(s, pairs))) = Len(s)
         /\ \A i \in 1..Len(s) :
               Onces(s, pairs, Made(s, pairs))[i] = OnceAt(s, pairs, Made(s, pairs), i)
  <1> DEFINE n == Len(s)
             made == Made(s, pairs)
             as == Onces(s, pairs, made)
  <1>1. n \in Nat /\ Len(pairs) \in Nat
    BY LenProperties, PairTyped
  <1>2. AtOnce(s, pairs) = FlattenSeq(as)
    BY Zenon DEF AtOnce, Onces, OnceAt, Covered
  <1>3. made \in [1..n -> 0..Len(pairs)]
    <2>1. PICK until \in [0..n -> Nat] : made = MadeBy(s, pairs, until)
      BY MadeRuns
    <2>2. ASSUME NEW i \in 1..n, At(s, pairs, i) # {} PROVE Min(At(s, pairs, i)) \in 0..Len(pairs)
      <3>1. Min(At(s, pairs, i)) \in 1..Len(pairs)
        BY <2>2, AtTyped
      <3>. QED  BY <1>1, <3>1
    <2> HIDE DEF made
    <2>3. 0 \in 0..Len(pairs)
      BY <1>1
    <2>. QED  BY <2>1, <2>2, <2>3 DEF MadeBy
  <1> HIDE DEF made
  <1>4. ASSUME NEW i \in 1..n PROVE OnceAt(s, pairs, made, i) \in Seq(T)
    <2>1. CASE made[i] # 0
      <3>1. made[i] \in 1..Len(pairs)
        BY <1>1, <1>3, <2>1
      <3>2. pairs[made[i]].to \in Seq(T)
        BY <3>1, PairTyped
      <3>. QED  BY <2>1, <3>2 DEF OnceAt
    <2>2. CASE ~(made[i] # 0)
      <3>1. s[i] \in T
        BY ElementOfSeq
      <3>2. <<s[i]>> \in Seq(T) /\ <<>> \in Seq(T)
        BY <3>1
      <3>. QED  BY <2>2, <3>2, Zenon DEF OnceAt
    <2>. QED  BY <2>1, <2>2
  <1> DEFINE b(i) == OnceAt(s, pairs, made, i)
             bs == [i \in 1..n |-> b(i)]
  <1>5. as \in Seq(Seq(T)) /\ Len(as) = n
    <2>1. \A i \in 1..n : b(i) \in Seq(T)
      BY <1>4
    <2>2. as = bs
      BY DEF Onces
    <2> HIDE DEF b, as, n
    <2>3. bs \in Seq(Seq(T)) /\ Len(bs) = n
      BY <1>1, <2>1
    <2>. QED  BY <2>2, <2>3, Zenon
  <1>6. \A i \in 1..n : as[i] = OnceAt(s, pairs, made, i)
    BY DEF Onces
  <1>. QED  BY <1>2, <1>3, <1>5, <1>6 DEF made

(* Without a key every piece is a character. *)
LEMMA OnceNone ==
  ASSUME NEW T, NEW pairs, PairsOver(T, pairs), NEW s \in Seq(T),
         \A l \in 1..Len(pairs) : Found(s, pairs[l].from, 1) = {}
  PROVE  AtOnce(s, pairs) = s
  <1> DEFINE n == Len(s)
             made == Made(s, pairs)
             as == Onces(s, pairs, made)
             at == [k \in 0..n |-> k]
  <1>1. n \in Nat /\ DOMAIN pairs = 1..Len(pairs)
    BY LenProperties, PairTyped
  <1>2. \A i : At(s, pairs, i) = {}
    BY <1>1 DEF At
  <1>3. \A i \in 1..n : made[i] = 0
    <2>1. PICK until \in [0..n -> Nat] : made = MadeBy(s, pairs, until)
      BY MadeRuns
    <2> HIDE DEF made
    <2>. QED  BY <1>2, <2>1 DEF MadeBy
  <1>4. /\ AtOnce(s, pairs) = FlattenSeq(as) /\ as \in Seq(Seq(T)) /\ Len(as) = n
        /\ \A i \in 1..n : as[i] = OnceAt(s, pairs, made, i)
    BY OnceRuns
  <1> HIDE DEF made, as
  <1>5. ASSUME NEW i \in 1..n PROVE as[i] = <<s[i]>>
    <2>1. \A j \in 1..i : j \in 1..n
      BY <1>1
    <2>2. ~Covered(made, pairs, i)
      BY <1>3, <2>1, Zenon DEF Covered
    <2>. QED  BY <1>3, <1>4, <2>2, Zenon DEF OnceAt
  <1>6. \A i \in 1..n : as[i] \in Seq(T) /\ Len(as[i]) = 1 /\ as[i][1] = s[i]
    <2> SUFFICES ASSUME NEW i \in 1..n PROVE as[i] \in Seq(T) /\ Len(as[i]) = 1 /\ as[i][1] = s[i]
      OBVIOUS
    <2>1. s[i] \in T
      BY ElementOfSeq
    <2> DEFINE c == s[i]
    <2>2. <<c>> \in Seq(T) /\ Len(<<c>>) = 1 /\ <<c>>[1] = c
      <3> HIDE DEF c
      <3>. QED  BY <2>1 DEF c
    <2>. QED  BY <1>5, <2>2, Zenon
  <1>7. Placed(at, n, as, s)
    <2>1. at \in [0..n -> Nat] /\ at[0] = 0 /\ at[n] = Len(s)
      BY <1>1
    <2>2. \A k \in 1..n : at[k] = at[k-1] + Len(as[k]) /\ at[k] <= Len(s)
      BY <1>1, <1>6
    <2>3. \A k \in 1..n : \A i \in 1..Len(as[k]) : s[at[k-1] + i] = as[k][i]
      <3> SUFFICES ASSUME NEW k \in 1..n, NEW i \in 1..Len(as[k]) PROVE s[at[k-1] + i] = as[k][i]
        OBVIOUS
      <3>1. i = 1 /\ at[k-1] + 1 = k
        BY <1>1, <1>6
      <3>. QED  BY <1>6, <3>1
    <2>. QED  BY <2>1, <2>2, <2>3 DEF Placed
  <1>8. FlattenSeq(as) \in Seq(T) /\ \E to : Placed(to, n, as, FlattenSeq(as))
    BY <1>4, FlattenRuns
  <1> DEFINE flat == FlattenSeq(as)
  <1> HIDE DEF flat, at, n
  <1>9. PICK to : Placed(to, n, as, flat)
    BY <1>8 DEF flat
  <1>10. \A i \in 1..n : as[i] \in Seq(T)
    BY <1>6
  <1>11. flat \in Seq(T)
    BY <1>8 DEF flat
  <1>12. flat = s
    BY <1>1, <1>7, <1>9, <1>10, <1>11, PlacedSame
  <1>. QED  BY <1>4, <1>12 DEF flat

(* Key k is the one to be replaced first, behind n characters, up to c, and *)
(* from there on s is r.                                                    *)
Shift(s, r, pairs, n, c, k) ==
  /\ n \in Nat /\ c \in Nat /\ n + 1 <= c /\ Len(s) = c + Len(r) /\ Len(r) \in Nat
  /\ k \in 1..Len(pairs) /\ Len(pairs[k].from) = c - n
  /\ \A i \in 1..n : At(s, pairs, i) = {}
  /\ At(s, pairs, n + 1) # {} /\ Min(At(s, pairs, n + 1)) = k
  /\ \A i \in 1..Len(r) : At(s, pairs, c + i) = At(r, pairs, i)

Earliest(u, k, r, pairs) ==
  \A l \in 1..Len(pairs) :
     /\ Free(u, pairs[k].from \o r, pairs[l].from)
     /\ l < k => Len(u) + 1 \notin Found(u \o (pairs[k].from \o r), pairs[l].from, 1)

(* The first key is such a key. *)
LEMMA ShiftAt ==
  ASSUME NEW T, NEW pairs, PairsOver(T, pairs), NEW u \in Seq(T), NEW r \in Seq(T),
         NEW k \in 1..Len(pairs), Earliest(u, k, r, pairs)
  PROVE  Shift(u \o (pairs[k].from \o r), r, pairs, Len(u), Len(u) + Len(pairs[k].from), k)
  <1> DEFINE f == pairs[k].from
             s == u \o (f \o r)
             n == Len(u)
             c == n + Len(f)
             v == u \o f
             x == f \o r
  <1>1. f \in Seq(T) /\ f # <<>> /\ DOMAIN pairs = 1..Len(pairs) /\ Len(pairs) \in Nat
    BY PairTyped, Zenon
  <1>2. \A l \in 1..Len(pairs) : pairs[l].from \in Seq(T) /\ pairs[l].from # <<>>
    BY PairTyped, Zenon
  <1>3. \A l \in 1..Len(pairs) : Free(u, x, pairs[l].from)
                                  /\ (l < k => n + 1 \notin Found(s, pairs[l].from, 1))
    BY Zenon DEF Earliest
  <1> HIDE DEF f
  <1>4. n \in Nat /\ Len(f) \in Nat \ {0} /\ Len(r) \in Nat
    <2>1. Len(f) \in Nat /\ Len(f) # 0
      BY <1>1, LenProperties, EmptySeq
    <2>. QED  BY <2>1, LenProperties
  <1>5. v \in Seq(T) /\ Len(v) = c /\ x \in Seq(T)
    BY <1>1, ConcatProperties
  <1>6. s = v \o r
    <2>1. Assoc(u, f, r)
      BY <1>1, Associates
    <2>. QED  BY <2>1, Zenon DEF Assoc
  <1> HIDE DEF v, x
  <1>7. Len(s) = c + Len(r) /\ s \in Seq(T)
    <2>1. Len(v \o r) = Len(v) + Len(r) /\ v \o r \in Seq(T)
      BY <1>5, ConcatProperties
    <2>. QED  BY <1>5, <1>6, <2>1, Zenon
  <1>8. \A l \in 1..Len(pairs) : \A j \in Int : j >= 1 =>
          (c + j \in Found(s, pairs[l].from, 1) <=> j \in Found(r, pairs[l].from, 1))
    <2> SUFFICES ASSUME NEW l \in 1..Len(pairs), NEW j \in Int, j >= 1
                 PROVE  c + j \in Found(s, pairs[l].from, 1) <=> j \in Found(r, pairs[l].from, 1)
      OBVIOUS
    <2> DEFINE p == pairs[l].from
    <2>1. p \in Seq(T) /\ p # <<>>
      BY <1>2
    <2> HIDE DEF p, s, c
    <2>2. Len(v) + j \in Found(v \o r, p, 1) <=> j \in Found(r, p, 1)
      BY <1>5, <2>1, FoundInParts
    <2>. QED  BY <1>5, <1>6, <2>2, Zenon DEF p
  <1>9. \A i \in 1..Len(r) : At(s, pairs, c + i) = At(r, pairs, i)
    <2> SUFFICES ASSUME NEW i \in 1..Len(r) PROVE At(s, pairs, c + i) = At(r, pairs, i)
      OBVIOUS
    <2>1. i \in Int /\ i >= 1
      BY <1>4
    <2> HIDE DEF s, c
    <2>2. \A l \in 1..Len(pairs) : c + i \in Found(s, pairs[l].from, 1) <=> i \in Found(r, pairs[l].from, 1)
      BY <1>8, <2>1
    <2>. QED  BY <1>1, <2>2, Zenon DEF At
  <1>10. \A i \in 1..n : At(s, pairs, i) = {}
    <2> SUFFICES ASSUME NEW i \in 1..n, NEW l \in At(s, pairs, i) PROVE FALSE
      BY Zenon
    <2>1. l \in 1..Len(pairs) /\ i \in Found(s, pairs[l].from, 1)
      BY <1>1, Zenon DEF At
    <2>2. i > n
      BY <1>3, <2>1, Zenon DEF Free, x
    <2> HIDE DEF n
    <2>. QED  BY <1>4, <2>2
  <1>11. k \in At(s, pairs, n + 1)
    <2>1. n + 1 \in Found(s, f, 1)
      <3> HIDE DEF s, n
      <3>1. \A j \in 1..Len(f) : (f \o r)[j] = f[j]
        BY <1>1, CutBetween
      <3>2. Len(x) = Len(f) + Len(r) /\ \A j \in 1..Len(f) : x[j] = f[j]
        <4>1. Len(f \o r) = Len(f) + Len(r)
          BY <1>1, ConcatProperties
        <4>. QED  BY <3>1, <4>1 DEF x
      <3>3. 1 \in Found(x, f, 1)
        <4>1. 1 \in 1..Len(x) + 1
          BY <1>4, <3>2
        <4>2. 1 \in 1..Len(x) + 1 - Len(f)
          BY <1>4, <3>2
        <4>3. \A j \in 1..Len(f) : 1 + j - 1 = j
          BY <1>4
        <4>4. \A j \in 1..Len(f) : x[1 + j - 1] = f[j]
          BY <3>2, <4>3
        <4>. QED  BY <1>1, <1>5, <4>1, <4>2, <4>4, FoundChars
      <3>4. 1 \in Int /\ 1 >= 1
        OBVIOUS
      <3>5. Len(u) + 1 \in Found(u \o x, f, 1) <=> 1 \in Found(x, f, 1)
        BY <1>1, <1>5, <3>4, FoundInParts
      <3>. QED  BY <3>3, <3>5, Zenon DEF n, s, x
    <2>. QED  BY <1>1, <2>1, Zenon DEF At, f
  <1>12. Min(At(s, pairs, n + 1)) = k
    <2> DEFINE a == At(s, pairs, n + 1)
               m == Min(a)
    <2>1. m \in a /\ m <= k /\ m \in 1..Len(pairs)
      <3> HIDE DEF s, n
      <3>1. a # {} /\ k \in a
        BY <1>11, Zenon
      <3>. QED  BY <3>1, AtTyped
    <2>2. n + 1 \in Found(s, pairs[m].from, 1)
      BY <2>1, Zenon DEF At
    <2> HIDE DEF a, m
    <2>3. ~(m < k)
      BY <1>3, <2>1, <2>2, Zenon
    <2>4. m = k
      <3> HIDE DEF s, n
      <3>. QED  BY <1>1, <2>1, <2>3
    <2>. QED  BY <2>4 DEF a, m
  <1>13. c \in Nat /\ n + 1 <= c /\ Len(f) = c - n
    BY <1>4
  <1>14. At(s, pairs, n + 1) # {}
    BY <1>11, Zenon
  <1>. QED  BY <1>4, <1>7, <1>9, <1>10, <1>12, <1>13, <1>14, Zenon DEF Shift, f, x

(* Up to where the text is replaced, likewise. *)
UntilShifted(r, until, some, n, c) ==
  /\ \A i \in 0..n : until[i] = 0
  /\ \A i \in n+1..c : until[i] = c
  /\ \A i \in 0..Len(r) : until[c + i] = c + some[i]

(* Behind the first key nothing is left of it. *)
LEMMA UntilShift ==
  ASSUME NEW T, NEW pairs, PairsOver(T, pairs),
         NEW s, NEW r, NEW n, NEW c, NEW k, Shift(s, r, pairs, n, c, k),
         NEW until, Until(s, pairs, until),
         NEW some \in [0..Len(r) -> Nat], Until(r, pairs, some)
  PROVE  UntilShifted(r, until, some, n, c)
  <1> DEFINE m == Len(r)
  <1>1. /\ n \in Nat /\ c \in Nat /\ n + 1 <= c /\ Len(s) = c + m /\ m \in Nat
        /\ Len(pairs[k].from) = c - n
    BY Zenon DEF Shift
  <1>2. /\ \A i \in 1..n : At(s, pairs, i) = {}
        /\ At(s, pairs, n + 1) # {} /\ Min(At(s, pairs, n + 1)) = k
        /\ \A i \in 1..m : At(s, pairs, c + i) = At(r, pairs, i)
    BY Zenon DEF Shift
  <1>3. /\ until[0] = 0 /\ some[0] = 0
        /\ \A i \in 1..c + m : until[i] = UntilAt(s, pairs, i, until[i - 1])
        /\ \A i \in 1..m : some[i] = UntilAt(r, pairs, i, some[i - 1])
    BY <1>1, Zenon DEF Until
  <1>4. \A i \in 0..m : some[i] \in Nat
    OBVIOUS
  <1> HIDE DEF m
  <1>5. \A i \in 0..n : until[i] = 0
    <2> DEFINE S == {i \in 0..n : until[i] = 0}
    <2>1. 0 \in S
      BY <1>1, <1>3
    <2>2. ASSUME NEW i \in 0..n-1, i \in S PROVE i + 1 \in S
      <3>1. i + 1 \in 1..n /\ i + 1 \in 0..n /\ (i + 1) - 1 = i /\ i + 1 \in 1..c + m
        BY <1>1
      <3>2. until[i + 1] = UntilAt(s, pairs, i + 1, until[i])
        BY <1>3, <3>1
      <3>3. until[i + 1] = until[i]
        BY <1>2, <3>1, <3>2, Zenon DEF UntilAt
      <3>4. until[i] = 0
        BY <2>2
      <3>. QED  BY <3>1, <3>3, <3>4
    <2>3. \A i \in S : until[i] = 0
      OBVIOUS
    <2> HIDE DEF S
    <2>4. \A i \in 0..n : i \in S
      BY <1>1, <2>1, <2>2, Induction
    <2>. QED  BY <2>3, <2>4
  <1>6. until[n + 1] = c
    <2>1. n + 1 \in 1..c + m /\ (n + 1) - 1 = n /\ n \in 0..n /\ n + 1 > 0
          /\ n + 1 + (c - n) - 1 = c
      BY <1>1
    <2>2. until[n + 1] = UntilAt(s, pairs, n + 1, until[n])
      BY <1>3, <2>1
    <2>3. until[n] = 0
      BY <1>5, <2>1
    <2>4. until[n + 1] = n + 1 + (c - n) - 1
      BY <1>1, <1>2, <2>1, <2>2, <2>3, Zenon DEF UntilAt
    <2>. QED  BY <2>1, <2>4
  <1>7. \A i \in n+1..c : until[i] = c
    <2> DEFINE l == c - (n + 1)
               S == {i \in 0..l : until[n + 1 + i] = c}
    <2>1. l \in Nat /\ 0 \in S
      BY <1>1, <1>6
    <2>2. ASSUME NEW i \in 0..l-1, i \in S PROVE i + 1 \in S
      <3> DEFINE j == n + 1 + (i + 1)
      <3>1. j \in 1..c + m /\ j - 1 = n + 1 + i /\ ~(j > c) /\ i + 1 \in 0..l
        BY <1>1
      <3>2. until[j] = UntilAt(s, pairs, j, until[j - 1])
        <4> HIDE DEF j
        <4>. QED  BY <1>3, <3>1
      <3>3. until[n + 1 + i] = c
        BY <2>2
      <3> HIDE DEF j, S
      <3>4. until[j] = c
        BY <3>1, <3>2, <3>3, Zenon DEF UntilAt
      <3>. QED  BY <3>1, <3>4 DEF S, j
    <2>3. \A i \in S : until[n + 1 + i] = c
      OBVIOUS
    <2> HIDE DEF S
    <2>4. \A i \in 0..l : i \in S
      <3> HIDE DEF l
      <3>. QED  BY <2>1, <2>2, Induction
    <2> SUFFICES ASSUME NEW i \in n+1..c PROVE until[i] = c
      OBVIOUS
    <2> DEFINE j == i - (n + 1)
    <2>5. j \in 0..l /\ n + 1 + j = i
      BY <1>1
    <2> HIDE DEF j, l
    <2>. QED  BY <2>3, <2>4, <2>5
  <1>8. \A i \in 0..m : until[c + i] = c + some[i]
    <2> DEFINE S == {i \in 0..m : until[c + i] = c + some[i]}
    <2>1. 0 \in S
      <3>1. c \in n+1..c /\ c + 0 = c /\ 0 \in 0..m
        BY <1>1
      <3>. QED  BY <1>3, <1>7, <3>1
    <2>2. ASSUME NEW i \in 0..m-1, i \in S PROVE i + 1 \in S
      <3> DEFINE j == i + 1
                 a == At(r, pairs, j)
                 l == Len(pairs[Min(a)].from)
      <3>1. j \in 1..m /\ j \in 0..m /\ j - 1 = i /\ c + j \in 1..c + m /\ (c + j) - 1 = c + i
            /\ i \in 0..m /\ c + j \in Nat
        BY <1>1
      <3> HIDE DEF j, a, l
      <3>2. until[c + j] = UntilAt(s, pairs, c + j, c + some[i])
        <4>1. until[c + i] = c + some[i]
          BY <2>2
        <4>. QED  BY <1>3, <3>1, <4>1
      <3>3. some[j] = UntilAt(r, pairs, j, some[i])
        BY <1>3, <3>1
      <3>4. some[i] \in Nat
        BY <1>4, <3>1
      <3>5. At(s, pairs, c + j) = a
        BY <1>2, <3>1 DEF a
      <3>6. c + j > c + some[i] <=> j > some[i]
        BY <1>1, <3>1, <3>4
      <3>7. UntilAt(s, pairs, c + j, c + some[i]) =
              IF j > some[i] /\ a # {} THEN c + j + l - 1 ELSE c + some[i]
        BY <3>5, <3>6, Zenon DEF UntilAt, l
      <3>8. some[j] = IF j > some[i] /\ a # {} THEN j + l - 1 ELSE some[i]
        BY <3>3, Zenon DEF UntilAt, a, l
      <3>9. until[c + j] = c + some[j]
        <4>1. CASE j > some[i] /\ a # {}
          <5>1. until[c + j] = c + j + l - 1 /\ some[j] = j + l - 1
            BY <3>2, <3>7, <3>8, <4>1, Zenon
          <5>2. c + (j + l - 1) = c + j + l - 1
            <6>1. some[j] \in Nat /\ j \in Nat /\ c \in Nat
              BY <1>1, <1>4, <3>1
            <6>2. l \in Int
              BY <4>1, AtTyped DEF l, a
            <6>. QED  BY <6>1, <6>2
          <5>. QED  BY <5>1, <5>2, Zenon
        <4>2. CASE ~(j > some[i] /\ a # {})
          BY <3>2, <3>7, <3>8, <4>2, Zenon
        <4>. QED  BY <4>1, <4>2
      <3>. QED  BY <3>1, <3>9 DEF j
    <2>3. \A i \in S : until[c + i] = c + some[i]
      OBVIOUS
    <2> HIDE DEF S
    <2>4. \A i \in 0..m : i \in S
      BY <1>1, <2>1, <2>2, Induction
    <2>. QED  BY <2>3, <2>4
  <1>. QED  BY <1>5, <1>7, <1>8, Zenon DEF UntilShifted, m

(* What is replaced where, and the pieces of the text. *)
MadeShifted(made, few, n, c, m, k) ==
  /\ \A i \in 1..n : made[i] = 0
  /\ made[n + 1] = k /\ \A i \in n+2..c : made[i] = 0
  /\ \A i \in 1..m : made[c + i] = few[i]

(* So the rest is replaced as it would be alone. *)
LEMMA MadeShift ==
  ASSUME NEW T, NEW pairs, PairsOver(T, pairs), NEW s \in Seq(T), NEW r \in Seq(T),
         NEW n, NEW c, NEW k, Shift(s, r, pairs, n, c, k)
  PROVE  MadeShifted(Made(s, pairs), Made(r, pairs), n, c, Len(r), k)
  <1> DEFINE m == Len(r)
             made == Made(s, pairs)
             few == Made(r, pairs)
  <1>1. /\ n \in Nat /\ c \in Nat /\ n + 1 <= c /\ Len(s) = c + m /\ m \in Nat
        /\ k \in 1..Len(pairs)
    BY Zenon DEF Shift
  <1>2. /\ \A i \in 1..n : At(s, pairs, i) = {}
        /\ At(s, pairs, n + 1) # {} /\ Min(At(s, pairs, n + 1)) = k
        /\ \A i \in 1..m : At(s, pairs, c + i) = At(r, pairs, i)
    BY Zenon DEF Shift
  <1>3. PICK until \in [0..Len(s) -> Nat] : Until(s, pairs, until) /\ made = MadeBy(s, pairs, until)
    BY MadeRuns
  <1>4. PICK some \in [0..m -> Nat] : Until(r, pairs, some) /\ few = MadeBy(r, pairs, some)
    BY MadeRuns
  <1>5. UntilShifted(r, until, some, n, c)
    BY <1>3, <1>4, UntilShift
  <1>6. /\ \A i \in 0..n : until[i] = 0
        /\ \A i \in n+1..c : until[i] = c
        /\ \A i \in 0..m : until[c + i] = c + some[i]
    BY <1>5, Zenon DEF UntilShifted
  <1>7. \A i \in 1..c + m : made[i] = IF At(s, pairs, i) # {} /\ i > until[i - 1]
                                      THEN Min(At(s, pairs, i)) ELSE 0
    BY <1>1, <1>3 DEF MadeBy
  <1>8. \A i \in 1..m : few[i] = IF At(r, pairs, i) # {} /\ i > some[i - 1]
                                 THEN Min(At(r, pairs, i)) ELSE 0
    BY <1>4 DEF MadeBy
  <1>9. \A i \in 0..m : some[i] \in Nat
    BY <1>4
  <1> HIDE DEF m, made, few
  <1>10. \A i \in 1..n : made[i] = 0
    <2> SUFFICES ASSUME NEW i \in 1..n PROVE made[i] = 0
      OBVIOUS
    <2>1. i \in 1..c + m
      BY <1>1
    <2>. QED  BY <1>2, <1>7, <2>1, Zenon
  <1>11. made[n + 1] = k
    <2>1. n + 1 \in 1..c + m /\ (n + 1) - 1 = n /\ n \in 0..n /\ n + 1 > 0
      BY <1>1
    <2>2. until[n] = 0
      BY <1>6, <2>1
    <2>. QED  BY <1>2, <1>7, <2>1, <2>2, Zenon
  <1>12. \A i \in n+2..c : made[i] = 0
    <2> SUFFICES ASSUME NEW i \in n+2..c PROVE made[i] = 0
      OBVIOUS
    <2>1. i \in 1..c + m /\ i - 1 \in n+1..c /\ ~(i > c)
      BY <1>1
    <2>2. until[i - 1] = c
      BY <1>6, <2>1
    <2>. QED  BY <1>7, <2>1, <2>2, Zenon
  <1>13. \A i \in 1..m : made[c + i] = few[i]
    <2> SUFFICES ASSUME NEW i \in 1..m PROVE made[c + i] = few[i]
      OBVIOUS
    <2>1. c + i \in 1..c + m /\ (c + i) - 1 = c + (i - 1) /\ i - 1 \in 0..m
      BY <1>1
    <2>2. until[(c + i) - 1] = c + some[i - 1]
      BY <1>6, <2>1
    <2>3. some[i - 1] \in Nat
      BY <1>9, <2>1
    <2>4. c + i > c + some[i - 1] <=> i > some[i - 1]
      <3> DEFINE x == some[i - 1]
      <3>1. x \in Nat /\ c \in Nat /\ i \in Int
        BY <1>1, <2>3
      <3> HIDE DEF x
      <3>2. c + i > c + x <=> i > x
        BY <3>1
      <3>. QED  BY <3>2 DEF x
    <2>5. At(s, pairs, c + i) = At(r, pairs, i)
      BY <1>2
    <2>. QED  BY <1>7, <1>8, <2>1, <2>2, <2>4, <2>5, Zenon
  <1>. QED  BY <1>10, <1>11, <1>12, <1>13, Zenon DEF MadeShifted, m, made, few

PiecesShifted(as, bs, u, t, n, c, m) ==
  /\ \A i \in 1..n : as[i] = <<u[i]>>
  /\ as[n + 1] = t /\ \A i \in n+2..c : as[i] = <<>>
  /\ \A i \in 1..m : as[c + i] = bs[i]

(* And its pieces are those it would have alone. *)
LEMMA OnceShift ==
  ASSUME NEW T, NEW pairs, PairsOver(T, pairs), NEW u \in Seq(T), NEW r \in Seq(T),
         NEW k \in 1..Len(pairs), Earliest(u, k, r, pairs)
  PROVE  LET s == u \o (pairs[k].from \o r)
         IN PiecesShifted(Onces(s, pairs, Made(s, pairs)), Onces(r, pairs, Made(r, pairs)),
                          u, pairs[k].to, Len(u), Len(u) + Len(pairs[k].from), Len(r))
  <1> DEFINE f == pairs[k].from
             t == pairs[k].to
             s == u \o (f \o r)
             n == Len(u)
             c == n + Len(f)
             m == Len(r)
             made == Made(s, pairs)
             few == Made(r, pairs)
             as == Onces(s, pairs, made)
             bs == Onces(r, pairs, few)
  <1>1. Shift(s, r, pairs, n, c, k)
    BY ShiftAt
  <1>20. f \in Seq(T) /\ f # <<>>
    BY PairTyped, Zenon
  <1> HIDE DEF f, t
  <1>2. f \o r \in Seq(T) /\ s \in Seq(T)
    <2>1. f \o r \in Seq(T)
      BY <1>20, ConcatProperties
    <2>. QED  BY <2>1, ConcatProperties
  <1>3. \A i \in 1..n : s[i] = u[i]
    <2> DEFINE x == f \o r
    <2>1. x \in Seq(T)
      BY <1>2
    <2> HIDE DEF x
    <2>2. \A i \in 1..Len(u) : (u \o x)[i] = u[i]
      BY <2>1, CutBetween
    <2>. QED  BY <2>2, Zenon DEF x
  <1>4. \A i \in 1..m : s[c + i] = r[i]
    <2> DEFINE v == u \o f
    <2>1. v \in Seq(T) /\ Len(v) = c
      BY <1>20, ConcatProperties
    <2>2. Assoc(u, f, r)
      BY <1>20, Associates
    <2>3. s = v \o r
      BY <2>2, Zenon DEF Assoc
    <2> HIDE DEF v, s, c, m
    <2>4. \A i \in 1..Len(r) : (v \o r)[Len(v) + i] = r[i]
      BY <2>1, CutBetween
    <2>. QED  BY <2>1, <2>3, <2>4, Zenon DEF m
  <1> HIDE DEF s
  <1>5. MadeShifted(made, few, n, c, m, k)
    <2> HIDE DEF n, c
    <2>. QED  BY <1>1, <1>2, MadeShift
  <1>6. /\ n \in Nat /\ c \in Nat /\ n + 1 <= c /\ Len(s) = c + m /\ m \in Nat
        /\ k \in 1..Len(pairs) /\ Len(f) = c - n
    BY <1>1, Zenon DEF Shift, f
  <1>7. /\ \A i \in 1..n : made[i] = 0
        /\ made[n + 1] = k /\ \A i \in n+2..c : made[i] = 0
        /\ \A i \in 1..m : made[c + i] = few[i]
    BY <1>5, Zenon DEF MadeShifted
  <1>8. \A i \in 1..c + m : as[i] = OnceAt(s, pairs, made, i)
    <2>1. \A i \in 1..Len(s) : as[i] = OnceAt(s, pairs, made, i)
      BY <1>2, OnceRuns
    <2>. QED  BY <1>6, <2>1, Zenon
  <1>9. \A i \in 1..m : bs[i] = OnceAt(r, pairs, few, i)
    BY OnceRuns
  <1>10. few \in [1..m -> 0..Len(pairs)]
    BY OnceRuns
  <1>21. k # 0 /\ Len(pairs) \in Nat
    BY <1>6, PairTyped
  <1> HIDE DEF n, c, m, made, few, as, bs
  <1>11. \A i \in 1..n : as[i] = <<u[i]>>
    <2> SUFFICES ASSUME NEW i \in 1..n PROVE as[i] = <<u[i]>>
      OBVIOUS
    <2>1. i \in 1..c + m /\ \A j \in 1..i : j \in 1..n
      BY <1>6
    <2>2. ~Covered(made, pairs, i)
      BY <1>7, <2>1, Zenon DEF Covered
    <2>. QED  BY <1>3, <1>7, <1>8, <2>1, <2>2, Zenon DEF OnceAt
  <1>12. as[n + 1] = t
    <2>1. n + 1 \in 1..c + m
      BY <1>6
    <2>. QED  BY <1>7, <1>8, <1>21, <2>1, Zenon DEF OnceAt, t
  <1>13. \A i \in n+2..c : as[i] = <<>>
    <2> SUFFICES ASSUME NEW i \in n+2..c PROVE as[i] = <<>>
      OBVIOUS
    <2>1. i \in 1..c + m /\ n + 1 \in 1..i /\ i < n + 1 + (c - n)
      BY <1>6
    <2>2. i < n + 1 + Len(pairs[made[n + 1]].from)
      BY <1>6, <1>7, <2>1, Zenon DEF f
    <2>3. Covered(made, pairs, i)
      BY <1>7, <1>21, <2>1, <2>2, Zenon DEF Covered
    <2>. QED  BY <1>7, <1>8, <2>1, <2>3, Zenon DEF OnceAt
  <1>14. \A i \in 1..m : as[c + i] = bs[i]
    <2> SUFFICES ASSUME NEW i \in 1..m PROVE as[c + i] = bs[i]
      OBVIOUS
    <2>1. c + i \in 1..c + m /\ \A j \in 1..i : j \in 1..m /\ c + j \in 1..c + i /\ j \in Int
      BY <1>6
    <2>2. made[c + i] = few[i] /\ s[c + i] = r[i]
      BY <1>4, <1>7
    <2>3. ASSUME NEW j \in 1..i, few[j] # 0
          PROVE  i < j + Len(pairs[few[j]].from) <=> c + i < c + j + Len(pairs[made[c + j]].from)
      <3> DEFINE l == Len(pairs[few[j]].from)
      <3>1. j \in 1..m
        BY <2>1
      <3>2. few[j] \in 1..Len(pairs)
        <4>1. few[j] \in 0..Len(pairs)
          BY <1>10, <3>1
        <4>. QED  BY <1>21, <2>3, <4>1
      <3>3. l \in Nat
        <4>1. pairs[few[j]].from \in Seq(T)
          BY <3>2, PairTyped, Zenon
        <4>. QED  BY <4>1, LenProperties
      <3>4. made[c + j] = few[j]
        BY <1>7, <3>1
      <3> HIDE DEF l
      <3>5. j \in Int /\ i \in Int /\ c \in Int
        BY <1>6, <2>1
      <3>6. i < j + l <=> c + i < c + j + l
        BY <3>3, <3>5
      <3>. QED  BY <3>4, <3>6, Zenon DEF l
    <2>4. Covered(few, pairs, i) => Covered(made, pairs, c + i)
      <3> SUFFICES ASSUME NEW j \in 1..i, few[j] # 0, i < j + Len(pairs[few[j]].from)
                   PROVE  Covered(made, pairs, c + i)
        BY Zenon DEF Covered
      <3>1. c + j \in 1..c + i /\ made[c + j] = few[j]
        BY <1>7, <2>1
      <3>2. c + i < c + j + Len(pairs[made[c + j]].from)
        BY <2>3
      <3>. QED  BY <3>1, <3>2, Zenon DEF Covered
    <2>5. Covered(made, pairs, c + i) => Covered(few, pairs, i)
      <3> SUFFICES ASSUME NEW j \in 1..c + i, made[j] # 0, c + i < j + Len(pairs[made[j]].from)
                   PROVE  Covered(few, pairs, i)
        BY Zenon DEF Covered
      <3>1. CASE j <= n
        <4>1. j \in 1..n
          BY <1>6, <3>1
        <4>. QED  BY <1>7, <4>1
      <3>2. CASE j = n + 1
        <4>1. c + i < n + 1 + (c - n)
          BY <1>6, <1>7, <3>2, Zenon DEF f
        <4>. QED  BY <1>6, <4>1
      <3>3. CASE j > n + 1 /\ j <= c
        <4>1. j \in n+2..c
          BY <1>6, <3>3
        <4>. QED  BY <1>7, <4>1
      <3>4. CASE j > c
        <4> DEFINE h == j - c
        <4>1. h \in 1..i /\ h \in 1..m /\ c + h = j
          BY <1>6, <3>4
        <4> HIDE DEF h
        <4>2. made[j] = few[h]
          BY <1>7, <4>1
        <4>3. few[h] # 0
          BY <4>2
        <4>4. i < h + Len(pairs[few[h]].from)
          BY <2>3, <4>1, <4>3
        <4>. QED  BY <4>1, <4>3, <4>4, Zenon DEF Covered
      <3>5. j \in Int
        BY <1>6
      <3>. QED  BY <1>6, <3>1, <3>2, <3>3, <3>4, <3>5
    <2>. QED  BY <1>8, <1>9, <2>1, <2>2, <2>4, <2>5, Zenon DEF OnceAt
  <1>15. PiecesShifted(as, bs, u, t, n, c, m)
    BY <1>11, <1>12, <1>13, <1>14, Zenon DEF PiecesShifted
  <1>. QED  BY <1>15, Zenon DEF f, t, s, n, c, m, made, few, as, bs

(* The first key is replaced, and the rest of the text as it would be. *)
AtOnceAt(u, k, r, pairs) ==
  AtOnce(u \o (pairs[k].from \o r), pairs) = u \o (pairs[k].to \o AtOnce(r, pairs))

(* Where the pieces are, if those of b are at at. *)
LEMMA PiecesPlaced ==
  ASSUME NEW T, NEW u \in Seq(T), NEW t \in Seq(T), NEW n, n = Len(u),
         NEW c \in Nat, n + 1 <= c, NEW m \in Nat,
         NEW as, NEW bs, \A i \in 1..m : bs[i] \in Seq(T), PiecesShifted(as, bs, u, t, n, c, m),
         NEW b \in Seq(T), NEW at, Placed(at, m, bs, b)
  PROVE  /\ \E to : Placed(to, c + m, as, u \o (t \o b))
         /\ \A i \in 1..c + m : as[i] \in Seq(T)
  <1> DEFINE l == Len(t)
             x == t \o b
             one == u \o x
             to == [i \in 0..c + m |-> IF i <= n THEN i ELSE IF i <= c THEN n + l ELSE n + l + at[i - c]]
             q == Len(b)
  <1>1. n \in Nat /\ l \in Nat /\ q \in Nat
    BY LenProperties
  <1>2. /\ x \in Seq(T) /\ Len(x) = l + q /\ (\A i \in 1..l : x[i] = t[i])
        /\ \A i \in 1..q : x[l + i] = b[i]
    BY CutBetween
  <1> HIDE DEF x
  <1>3. /\ one \in Seq(T) /\ Len(one) = n + (l + q) /\ (\A i \in 1..n : one[i] = u[i])
        /\ \A i \in 1..l + q : one[n + i] = x[i]
    <2>1. /\ one \in Seq(T) /\ Len(one) = Len(u) + Len(x) /\ (\A i \in 1..Len(u) : one[i] = u[i])
          /\ \A i \in 1..Len(x) : one[Len(u) + i] = x[i]
      <3>1. x \in Seq(T)
        BY <1>2
      <3> HIDE DEF l, q
      <3>. QED  BY <3>1, CutBetween
    <2>. QED  BY <1>2, <2>1, Zenon
  <1> HIDE DEF one, l, q
  <1>4. /\ \A i \in 1..l : one[n + i] = t[i]
        /\ \A i \in 1..q : one[n + l + i] = b[i]
    <2>1. ASSUME NEW i \in 1..l PROVE one[n + i] = t[i]
      <3>1. i \in 1..l + q
        BY <1>1
      <3>. QED  BY <1>2, <1>3, <3>1, Zenon
    <2>2. ASSUME NEW i \in 1..q PROVE one[n + l + i] = b[i]
      <3>1. l + i \in 1..l + q /\ n + (l + i) = n + l + i
        BY <1>1
      <3>2. one[n + (l + i)] = x[l + i]
        BY <1>3, <3>1
      <3>. QED  BY <1>2, <3>1, <3>2
    <2>. QED  BY <2>1, <2>2
  <1>5. /\ \A i \in 1..n : as[i] = <<u[i]>>
        /\ as[n + 1] = t /\ \A i \in n+2..c : as[i] = <<>>
        /\ \A i \in 1..m : as[c + i] = bs[i]
    BY Zenon DEF PiecesShifted
  <1>6. /\ at \in [0..m -> Nat] /\ at[0] = 0 /\ at[m] = q
        /\ \A i \in 1..m : at[i] = at[i-1] + Len(bs[i]) /\ at[i] <= q
        /\ \A i \in 1..m : \A j \in 1..Len(bs[i]) : b[at[i-1] + j] = bs[i][j]
    BY DEF Placed, q
  <1>7. \A i \in 1..n : as[i] \in Seq(T) /\ Len(as[i]) = 1 /\ as[i][1] = u[i]
    <2> SUFFICES ASSUME NEW i \in 1..n PROVE as[i] \in Seq(T) /\ Len(as[i]) = 1 /\ as[i][1] = u[i]
      OBVIOUS
    <2> DEFINE a == u[i]
    <2>1. a \in T
      BY ElementOfSeq
    <2>2. as[i] = <<a>>
      BY <1>5
    <2> HIDE DEF a
    <2>3. <<a>> \in Seq(T) /\ Len(<<a>>) = 1 /\ <<a>>[1] = a
      BY <2>1
    <2>. QED  BY <2>2, <2>3, Zenon DEF a
  <1>8. \A i \in n+2..c : as[i] \in Seq(T) /\ Len(as[i]) = 0
    <2>1. <<>> \in Seq(T) /\ Len(<<>>) = 0
      BY EmptySeq
    <2>. QED  BY <1>5, <2>1
  <1>9. as[n + 1] \in Seq(T) /\ Len(as[n + 1]) = l
    BY <1>5 DEF l
  <1>10. \A i \in 0..m : at[i] \in Nat
    BY <1>6
  <1>11. \A i \in 1..c + m : i \in 1..n \/ i = n + 1 \/ i \in n+2..c \/ i - c \in 1..m
    BY <1>1
  <1>12. \A i \in 0..c + m : to[i] = IF i <= n THEN i ELSE IF i <= c THEN n + l ELSE n + l + at[i - c]
    OBVIOUS
  <1>13. DOMAIN to = 0..c + m /\ to = [i \in DOMAIN to |-> to[i]]
    OBVIOUS
  <1> HIDE DEF to
  <1>14. /\ \A i \in 0..n : to[i] = i
         /\ \A i \in n+1..c : to[i] = n + l
         /\ \A i \in 0..m : to[c + i] = n + l + at[i]
    <2>1. \A i \in 0..n : to[i] = i
      BY <1>1, <1>12
    <2>2. \A i \in n+1..c : to[i] = n + l
      BY <1>1, <1>12
    <2>3. ASSUME NEW i \in 0..m PROVE to[c + i] = n + l + at[i]
      <3>1. c + i \in 0..c + m /\ ~(c + i <= n) /\ (c + i <= c => i = 0) /\ (c + i) - c = i
            /\ c \in n+1..c
        BY <1>1
      <3>2. CASE i = 0
        <4>1. to[c] = n + l /\ c + 0 = c /\ at[0] = 0 /\ n + l + 0 = n + l
          BY <1>1, <1>6, <2>2, <3>1
        <4>. QED  BY <3>2, <4>1
      <3>3. CASE i # 0
        BY <1>12, <3>1, <3>3
      <3>. QED  BY <3>2, <3>3
    <2>. QED  BY <2>1, <2>2, <2>3
  <1>15. \A i \in 1..m : as[c + i] \in Seq(T) /\ as[c + i] = bs[i]
    BY <1>5
  <1>16. ASSUME NEW i \in 1..c + m
         PROVE  /\ to[i] \in Nat /\ to[i] = to[i-1] + Len(as[i]) /\ to[i] <= n + (l + q)
                /\ \A j \in 1..Len(as[i]) : one[to[i-1] + j] = as[i][j]
                /\ as[i] \in Seq(T)
    <2>1. CASE i \in 1..n
      <3>1. i \in 0..n /\ i - 1 \in 0..n
        BY <1>1, <2>1
      <3>2. to[i] = i /\ to[i-1] = i - 1
        BY <1>14, <3>1
      <3>3. ASSUME NEW j \in 1..1 PROVE one[to[i-1] + j] = as[i][j]
        <4>1. to[i-1] + j = i /\ j = 1
          BY <1>1, <2>1, <3>2
        <4>. QED  BY <1>3, <1>7, <2>1, <4>1
      <3>4. i \in Nat /\ i = (i - 1) + 1 /\ i <= n + (l + q)
        BY <1>1, <2>1
      <3>. QED  BY <1>7, <2>1, <3>2, <3>3, <3>4
    <2>2. CASE i = n + 1
      <3>1. i \in n+1..c /\ i - 1 \in 0..n /\ i - 1 = n
        BY <1>1, <2>2
      <3>2. to[i] = n + l /\ to[i-1] = n
        BY <1>14, <3>1
      <3>3. n + l \in Nat /\ n + l <= n + (l + q)
        BY <1>1
      <3>. QED  BY <1>4, <1>5, <1>9, <2>2, <3>2, <3>3
    <2>3. CASE i \in n+2..c
      <3>1. i \in n+1..c /\ i - 1 \in n+1..c
        BY <1>1, <2>3
      <3>2. to[i] = n + l /\ to[i-1] = n + l
        BY <1>14, <3>1
      <3>3. n + l \in Nat /\ n + l <= n + (l + q) /\ n + l = n + l + 0 /\ 1..0 = {}
        BY <1>1
      <3>. QED  BY <1>8, <2>3, <3>2, <3>3
    <2>4. CASE i - c \in 1..m
      <3> DEFINE h == i - c
      <3>1. h \in 1..m /\ h \in 0..m /\ h - 1 \in 0..m /\ c + h = i /\ c + (h - 1) = i - 1
        BY <2>4
      <3> HIDE DEF h
      <3>2. to[i] = n + l + at[h] /\ to[i-1] = n + l + at[h-1]
        <4>1. to[c + h] = n + l + at[h] /\ to[c + (h - 1)] = n + l + at[h - 1]
          BY <1>14, <3>1
        <4>. QED  BY <3>1, <4>1
      <3>3. as[i] = bs[h] /\ as[i] \in Seq(T)
        BY <1>15, <3>1
      <3> DEFINE y == at[h]
                 z == at[h - 1]
                 w == Len(as[i])
      <3>4. y \in Nat /\ z \in Nat /\ w \in Nat
        BY <1>10, <3>1, <3>3, LenProperties
      <3>5. y = z + w /\ y <= q /\ \A j \in 1..w : b[z + j] = as[i][j]
        BY <1>6, <3>1, <3>3
      <3> HIDE DEF y, z, w
      <3>6. n + l + y \in Nat /\ n + l + y = n + l + z + w /\ n + l + y <= n + (l + q)
        <4>1. n \in Nat /\ l \in Nat /\ q \in Nat
          BY <1>1
        <4>2. y = z + w /\ y <= q
          BY <3>5
        <4>. QED  BY <3>4, <4>1, <4>2
      <3>7. ASSUME NEW j \in 1..w PROVE one[n + l + z + j] = as[i][j]
        <4>1. z + j \in 1..q /\ n + l + (z + j) = n + l + z + j
          BY <1>1, <3>4, <3>5, SMTT(30)
        <4>2. one[n + l + (z + j)] = b[z + j]
          BY <1>4, <4>1
        <4>. QED  BY <3>5, <4>1, <4>2
      <3>8. to[i] = n + l + y /\ to[i-1] = n + l + z
        BY <3>2 DEF y, z
      <3>. QED  BY <3>3, <3>6, <3>7, <3>8 DEF w
    <2>. QED  BY <1>11, <2>1, <2>2, <2>3, <2>4
  <1>17. Placed(to, c + m, as, one)
    <2>1. 0 \in 0..n /\ m \in 0..m /\ c + m \in Nat
      BY <1>1
    <2>2. to[0] = 0
      BY <1>14, <2>1
    <2>3. to[c + m] = n + (l + q)
      <3>1. to[c + m] = n + l + q
        BY <1>6, <1>14, <2>1
      <3>. QED  BY <1>1, <3>1
    <2>4. to \in [0..c + m -> Nat]
      <3>1. \A i \in 0..c + m : i = 0 \/ i \in 1..c + m
        BY <2>1
      <3>2. \A i \in 0..c + m : to[i] \in Nat
        <4> SUFFICES ASSUME NEW i \in 0..c + m PROVE to[i] \in Nat
          OBVIOUS
        <4>1. CASE i = 0
          BY <2>2, <4>1
        <4>2. CASE i \in 1..c + m
          BY <1>16, <4>2
        <4>. QED  BY <3>1, <4>1, <4>2
      <3>. QED  BY <1>13, <3>2
    <2>. QED  BY <1>3, <1>16, <2>2, <2>3, <2>4, Zenon DEF Placed
  <1>18. one = u \o (t \o b)
    BY DEF one, x
  <1>. QED  BY <1>16, <1>17, <1>18, Zenon

(* To replace keys at once is to replace the first and then the rest. *)
LEMMA AtOnceFirst ==
  ASSUME NEW T, NEW pairs, PairsOver(T, pairs), NEW u \in Seq(T), NEW r \in Seq(T),
         NEW k \in 1..Len(pairs), Earliest(u, k, r, pairs)
  PROVE  AtOnceAt(u, k, r, pairs)
  <1> DEFINE f == pairs[k].from
             t == pairs[k].to
             s == u \o (f \o r)
             n == Len(u)
             c == n + Len(f)
             m == Len(r)
             as == Onces(s, pairs, Made(s, pairs))
             bs == Onces(r, pairs, Made(r, pairs))
             b == FlattenSeq(bs)
  <1>1. f \in Seq(T) /\ f # <<>> /\ t \in Seq(T)
    BY PairTyped, Zenon
  <1>2. PiecesShifted(as, bs, u, t, n, c, m)
    BY OnceShift
  <1> HIDE DEF f, t
  <1>3. n \in Nat /\ m \in Nat /\ c \in Nat /\ n + 1 <= c
    <2>1. Len(f) \in Nat /\ Len(f) # 0
      BY <1>1, LenProperties, EmptySeq
    <2>2. n \in Nat /\ m \in Nat
      BY LenProperties
    <2> DEFINE l == Len(f)
    <2> HIDE DEF l, n, m
    <2>3. l \in Nat /\ l # 0
      BY <2>1 DEF l
    <2>4. n + l \in Nat /\ n + 1 <= n + l
      BY <2>2, <2>3
    <2>. QED  BY <2>2, <2>4 DEF l
  <1>4. s \in Seq(T) /\ Len(s) = c + m
    <2>1. f \o r \in Seq(T) /\ Len(f \o r) = Len(f) + Len(r)
      BY <1>1, ConcatProperties
    <2> DEFINE x == f \o r
    <2> HIDE DEF x
    <2>2. u \o x \in Seq(T) /\ Len(u \o x) = Len(u) + Len(x)
      BY <2>1, ConcatProperties DEF x
    <2>3. Len(u) \in Nat /\ Len(f) \in Nat /\ Len(r) \in Nat
      BY <1>1, LenProperties
    <2>4. Len(u) + (Len(f) + Len(r)) = Len(u) + Len(f) + Len(r)
      BY <2>3
    <2>. QED  BY <2>1, <2>2, <2>4, Zenon DEF x
  <1> HIDE DEF s
  <1>5. AtOnce(s, pairs) = FlattenSeq(as) /\ as \in Seq(Seq(T)) /\ Len(as) = c + m
    <2>1. AtOnce(s, pairs) = FlattenSeq(as) /\ as \in Seq(Seq(T)) /\ Len(as) = Len(s)
      BY <1>4, OnceRuns
    <2>. QED  BY <1>4, <2>1, Zenon
  <1>6. AtOnce(r, pairs) = b /\ bs \in Seq(Seq(T)) /\ Len(bs) = m
    BY OnceRuns
  <1> HIDE DEF as, bs, b
  <1>7. b \in Seq(T) /\ \E at : Placed(at, m, bs, b)
    BY <1>6, FlattenRuns DEF b
  <1>8. \A i \in 1..m : bs[i] \in Seq(T)
    <2> DEFINE A == Seq(T)
    <2>1. bs \in Seq(A)
      BY <1>6
    <2> HIDE DEF A
    <2>2. \A i \in 1..Len(bs) : bs[i] \in A
      BY <2>1, ElementOfSeq
    <2>. QED  BY <1>6, <2>2, Zenon DEF A
  <1> DEFINE flat == FlattenSeq(as)
  <1>9. flat \in Seq(T) /\ \E at : Placed(at, c + m, as, flat)
    <2>1. flat \in Seq(T) /\ \E at : Placed(at, Len(as), as, flat)
      BY <1>5, FlattenRuns
    <2>. QED  BY <1>5, <2>1, Zenon
  <1> HIDE DEF flat
  <1>10. PICK at : Placed(at, m, bs, b)
    BY <1>7
  <1>11. /\ \E to : Placed(to, c + m, as, u \o (t \o b))
         /\ \A i \in 1..c + m : as[i] \in Seq(T)
    <2> HIDE DEF n, c, m
    <2>1. n = Len(u)
      BY DEF n
    <2>. QED  BY <1>1, <1>2, <1>3, <1>7, <1>8, <1>10, <2>1, PiecesPlaced
  <1>12. PICK to : Placed(to, c + m, as, u \o (t \o b))
    BY <1>11
  <1>13. PICK go : Placed(go, c + m, as, flat)
    BY <1>9
  <1> DEFINE one == u \o (t \o b)
             e == c + m
  <1>14. one \in Seq(T)
    <2>1. t \o b \in Seq(T)
      BY <1>1, <1>7, ConcatProperties
    <2>. QED  BY <2>1, ConcatProperties
  <1>15. e \in Nat
    BY <1>3
  <1>16. /\ \A i \in 1..e : as[i] \in Seq(T) /\ Placed(to, e, as, one) /\ Placed(go, e, as, flat)
         /\ flat \in Seq(T)
    BY <1>9, <1>11, <1>12, <1>13
  <1> HIDE DEF one, e
  <1>17. Placed(to, e, as, one) /\ Placed(go, e, as, flat)
    BY <1>12, <1>13 DEF one, e
  <1>18. one = flat
    BY <1>14, <1>15, <1>16, <1>17, PlacedSame
  <1>. QED  BY <1>5, <1>6, <1>18, Zenon DEF AtOnceAt, one, flat, f, t, s

(* What holds of a text if it holds of all shorter ones holds of all. *)
LEMMA TextInduction ==
  ASSUME NEW T, NEW G,
         \A x \in Seq(T) : (\A y \in Seq(T) : Len(y) < Len(x) => y \in G) => x \in G
  PROVE  \A x \in Seq(T) : x \in G
  <1> SUFFICES ASSUME NEW s \in Seq(T) PROVE s \in G
    OBVIOUS
  <1> DEFINE n == Len(s)
             S == {k \in 0..n : \A x \in Seq(T) : Len(x) <= k => x \in G}
  <1>1. n \in Nat
    BY LenProperties
  <1>2. n \in S => s \in G
    <2>1. n <= n
      BY <1>1
    <2>. QED  BY <2>1
  <1> HIDE DEF n
  <1>3. 0 \in S
    <2>1. ASSUME NEW x \in Seq(T), Len(x) <= 0 PROVE x \in G
      <3>1. \A y \in Seq(T) : ~(Len(y) < Len(x))
        BY <2>1, LenProperties
      <3>. QED  BY <3>1
    <2>2. 0 \in 0..n
      BY <1>1
    <2>. QED  BY <2>1, <2>2
  <1>4. ASSUME NEW k \in 0..n-1, k \in S PROVE k + 1 \in S
    <2>1. ASSUME NEW x \in Seq(T), Len(x) <= k + 1 PROVE x \in G
      <3>1. ASSUME NEW y \in Seq(T), Len(y) < Len(x) PROVE y \in G
        <4>1. Len(y) <= k
          <5>1. Len(x) \in Nat /\ Len(y) \in Nat
            BY LenProperties
          <5> HIDE DEF S
          <5>. QED  BY <1>1, <2>1, <3>1, <5>1
        <4>. QED  BY <1>4, <4>1
      <3>. QED  BY <3>1
    <2>2. k + 1 \in 0..n
      <3> HIDE DEF S
      <3>. QED  BY <1>1
    <2>. QED  BY <2>1, <2>2
  <1> HIDE DEF S
  <1>5. n \in S
    <2>1. n \in Nat /\ n \in 0..n
      BY <1>1
    <2>2. \A k \in 0..n : k \in S
      BY <2>1, <1>3, <1>4, Induction
    <2>. QED  BY <2>1, <2>2
  <1>. QED  BY <1>2, <1>5

(* A text with a key in it has a first one. *)
CutFirstKey(u, k, r, s, pairs) == s = u \o (pairs[k].from \o r) /\ Earliest(u, k, r, pairs)

(* It is the one whose place is least, and of those the first in the list. *)
LEMMA FirstKey ==
  ASSUME NEW T, NEW pairs, PairsOver(T, pairs), NEW s \in Seq(T),
         NEW h \in 1..Len(pairs), Found(s, pairs[h].from, 1) # {}
  PROVE  \E k \in 1..Len(pairs) : \E u, r \in Seq(T) :
            CutFirstKey(u, k, r, s, pairs) /\ Len(r) < Len(s)
  <1> DEFINE places == UNION {Found(s, pairs[l].from, 1) : l \in 1..Len(pairs)}
             m == Min(places)
             keys == At(s, pairs, m)
             k == Min(keys)
  <1>1. \A l \in 1..Len(pairs) : pairs[l].from \in Seq(T) /\ pairs[l].from # <<>>
    BY PairTyped, Zenon
  <1>2. ASSUME NEW l \in 1..Len(pairs) PROVE Found(s, pairs[l].from, 1) \in SUBSET Nat
    <2> DEFINE p == pairs[l].from
    <2>1. p \in Seq(T) /\ p # <<>>
      BY <1>1
    <2> HIDE DEF p
    <2>2. \A j \in Found(s, p, 1) : j \in Int /\ j >= 1
      BY <2>1, FoundNumbers
    <2>3. Found(s, p, 1) \in SUBSET Nat
      BY <2>2
    <2>. QED  BY <2>3 DEF p
  <1>4. \A j : j \in places <=> \E l \in 1..Len(pairs) : j \in Found(s, pairs[l].from, 1)
    BY Zenon
  <1>3. places \in SUBSET Nat /\ places # {}
    <2>1. \A j \in places : j \in Nat
      BY <1>2, <1>4, Zenon
    <2>2. PICK j : j \in Found(s, pairs[h].from, 1)
      BY Zenon
    <2>3. j \in places
      BY <1>4, <2>2, Zenon
    <2> HIDE DEF places
    <2>. QED  BY <2>1, <2>3
  <1> HIDE DEF places
  <1>5. m \in places /\ \A j \in places : m <= j
    BY <1>3, LeastNatural
  <1>6. m \in Nat
    BY <1>3, <1>5
  <1> HIDE DEF m
  <1>7. DOMAIN pairs = 1..Len(pairs)
    BY PairTyped
  <1>8. keys # {}
    BY <1>4, <1>5, <1>7, Zenon DEF At
  <1>9. k \in keys /\ k \in 1..Len(pairs) /\ \A l \in keys : k <= l
    BY <1>8, AtTyped
  <1>10. m \in Found(s, pairs[k].from, 1)
    BY <1>9, Zenon DEF At
  <1> HIDE DEF keys, k
  <1> DEFINE f == pairs[k].from
  <1>11. f \in Seq(T) /\ f # <<>> /\ Found(s, f, 1) # {} /\ m \in Found(s, f, 1)
    BY <1>1, <1>9, <1>10
  <1>12. Found(s, f, 1) \in SUBSET Nat /\ \A j \in Found(s, f, 1) : m <= j
    BY <1>2, <1>4, <1>5, <1>9
  <1> HIDE DEF f
  <1>13. PICK u, r \in Seq(T) : /\ s = u \o (f \o r)
                                /\ Len(u) + 1 = Min(Found(s, f, 1)) /\ Len(r) < Len(s)
    BY <1>11, FirstCut, ZenonT(30)
  <1>14. Len(u) + 1 = m /\ Len(u) \in Nat
    <2> DEFINE those == Found(s, f, 1)
               i == Min(those)
    <2>1. i \in those /\ \A j \in those : i <= j
      <3>1. those \in SUBSET Nat /\ those # {}
        BY <1>11, <1>12
      <3> HIDE DEF those
      <3>. QED  BY <3>1, LeastNatural
    <2>2. i \in Nat
      BY <1>12, <2>1
    <2>3. i <= m /\ m <= i
      BY <1>11, <1>12, <2>1
    <2> HIDE DEF i, those
    <2>4. i = m
      BY <1>6, <2>2, <2>3
    <2>. QED  BY <1>13, <2>4, LenProperties DEF i, those
  <1>15. ASSUME NEW l \in 1..Len(pairs)
         PROVE  Free(u, f \o r, pairs[l].from) /\ (l < k => m \notin Found(s, pairs[l].from, 1))
    <2>1. ASSUME NEW j \in Found(s, pairs[l].from, 1) PROVE j > Len(u)
      <3>1. m <= j /\ j \in Nat
        BY <1>2, <1>4, <1>5
      <3>. QED  BY <1>14, <3>1
    <2>2. Free(u, f \o r, pairs[l].from)
      BY <1>13, <2>1, Zenon DEF Free
    <2>3. ASSUME m \in Found(s, pairs[l].from, 1) PROVE ~(l < k)
      <3>1. l \in keys
        BY <1>7, <2>3, Zenon DEF At, keys
      <3>2. k <= l /\ k \in Int /\ l \in Int
        BY <1>9, <3>1
      <3>. QED  BY <3>2
    <2>. QED  BY <2>2, <2>3
  <1>16. Earliest(u, k, r, pairs)
    BY <1>13, <1>14, <1>15, Zenon DEF Earliest, f
  <1>. QED  BY <1>9, <1>13, <1>16, Zenon DEF CutFirstKey, f

(* One template, or templates that do not get in each other's way. *)
Fine(s, pairs) == Len(pairs) = 1 \/ Independent(s, pairs)

(* What Independent says of keys, values and places. *)
LEMMA FineIsApart ==
  ASSUME NEW T, NEW pairs, PairsOver(T, pairs), NEW s, Independent(s, pairs)
  PROVE  /\ Apart(pairs)
         /\ \A k, l \in 1..Len(pairs) : k # l =>
              \A i \in Found(s, pairs[k].from, 1), j \in Found(s, pairs[l].from, 1) :
                 i <= j => i + Len(pairs[k].from) <= j
  <1>1. DOMAIN pairs = 1..Len(pairs)
    BY PairTyped
  <1>2. ASSUME NEW k \in 1..Len(pairs), NEW l \in 1..Len(pairs)
        PROVE  /\ pairs[k].to # <<>>
               /\ \A i \in 1..Len(pairs[k].to), j \in 1..Len(pairs[l].from) : pairs[k].to[i] # pairs[l].from[j]
    <2> DEFINE t == pairs[k].to
               f == pairs[l].from
    <2>1. t # <<>> /\ ToSet(t) \cap ToSet(f) = {}
      BY <1>1, Zenon DEF Independent
    <2>2. t \in Seq(T) /\ f \in Seq(T)
      BY PairTyped, Zenon
    <2> HIDE DEF t, f
    <2>3. DOMAIN t = 1..Len(t) /\ DOMAIN f = 1..Len(f)
      BY <2>2, LenProperties
    <2>4. \A i \in 1..Len(t), j \in 1..Len(f) : t[i] # f[j]
      BY <2>1, <2>3, Zenon DEF ToSet
    <2>. QED  BY <2>1, <2>4 DEF t, f
  <1>3. Apart(pairs)
    BY <1>2, Zenon DEF Apart
  <1>. QED  BY <1>1, <1>3, Zenon DEF Independent

(* The rest of such a text is such a text, and the templates replace the first*)
(* key and then the rest.                                                   *)
LEMMA FirstIsReplaced ==
  ASSUME NEW T, NEW pairs, PairsOver(T, pairs), NEW u \in Seq(T), NEW r \in Seq(T),
         NEW k \in 1..Len(pairs), NEW s, CutFirstKey(u, k, r, s, pairs), Fine(s, pairs)
  PROVE  Fine(r, pairs) /\ TemplatesAt(u, k, r, pairs)
  <1> DEFINE f == pairs[k].from
  <1>1. s = u \o (f \o r) /\ Earliest(u, k, r, pairs)
    BY Zenon DEF CutFirstKey
  <1>2. f \in Seq(T) /\ f # <<>>
    BY PairTyped, Zenon
  <1>20. pairs[k].to \in Seq(T)
    BY PairTyped, Zenon
  <1>3. Free(u, f \o r, f)
    BY <1>1, Zenon DEF Earliest
  <1>4. \A l \in 1..Len(pairs) : Free(u, f \o r, pairs[l].from)
    BY <1>1, Zenon DEF Earliest
  <1>5. CASE Len(pairs) = 1
    <2>1. k = 1
      BY <1>5
    <2> DEFINE t == pairs[k].to
    <2> HIDE DEF f, t
    <2>2. ReplacesAt(u, f, r, t)
      BY <1>2, <1>3, <1>20, ReplacedAt DEF t
    <2>3. f \o r \in Seq(T)
      BY <1>2, ConcatProperties
    <2>4. s \in Seq(T)
      BY <1>1, <2>3, ConcatProperties
    <2>5. ReplaceTemplates(s, pairs) = StringReplaceAll(s, pairs[1].from, pairs[1].to)
      BY <1>5, <2>4, OneTemplate
    <2>6. ReplaceTemplates(r, pairs) = StringReplaceAll(r, pairs[1].from, pairs[1].to)
      BY <1>5, OneTemplate
    <2>7. TemplatesAt(u, k, r, pairs)
      BY <1>1, <2>1, <2>2, <2>5, <2>6, Zenon DEF TemplatesAt, ReplacesAt, f, t
    <2>. QED  BY <1>5, <2>7, Zenon DEF Fine
  <1>6. CASE Independent(s, pairs)
    <2>1. /\ Apart(pairs)
          /\ \A h, l \in 1..Len(pairs) : h # l =>
               \A i \in Found(s, pairs[h].from, 1), j \in Found(s, pairs[l].from, 1) :
                  i <= j => i + Len(pairs[h].from) <= j
      BY <1>6, FineIsApart
    <2> HIDE DEF f
    <2> DEFINE n == Len(u)
               v == u \o f
               x == f \o r
    <2>2. v \in Seq(T) /\ x \in Seq(T) /\ Len(v) = n + Len(f)
      BY <1>2, ConcatProperties
    <2>3. s = v \o r
      <3>1. Assoc(u, f, r)
        BY <1>2, Associates
      <3>. QED  BY <1>1, <3>1, Zenon DEF Assoc
    <2> HIDE DEF v, x
    <2>4. n \in Nat /\ Len(f) \in Nat
      BY <1>2, LenProperties
    <2>5. s \in Seq(T)
      BY <2>2, <2>3, ConcatProperties
    <2>6. n + 1 \in Found(s, f, 1)
      <3>1. Shift(u \o (f \o r), r, pairs, n, n + Len(f), k)
        BY <1>1, ShiftAt DEF f
      <3>2. k \in At(s, pairs, n + 1)
        <4>1. At(s, pairs, n + 1) # {} /\ Min(At(s, pairs, n + 1)) = k
          BY <1>1, <3>1, Zenon DEF Shift
        <4> HIDE DEF n
        <4>2. Min(At(s, pairs, n + 1)) \in At(s, pairs, n + 1)
          BY <4>1, AtTyped
        <4>. QED  BY <4>1, <4>2, Zenon
      <3>. QED  BY <3>2, Zenon DEF At, f
    <2>7. ASSUME NEW l \in 1..Len(pairs), l # k PROVE Free(v, r, pairs[l].from)
      <3> SUFFICES ASSUME NEW j \in Found(s, pairs[l].from, 1) PROVE j > Len(v)
        BY <2>3, Zenon DEF Free
      <3>1. j > n
        BY <1>1, <1>4, Zenon DEF Free
      <3>2. j \in Int
        <4> DEFINE p == pairs[l].from
        <4>1. p \in Seq(T) /\ p # <<>>
          BY PairTyped, Zenon
        <4> HIDE DEF p
        <4>2. \A i \in Found(s, p, 1) : i \in Int
          BY <2>5, <4>1, FoundNumbers
        <4>. QED  BY <4>2 DEF p
      <3>3. n + 1 <= j
        <4> HIDE DEF n
        <4>. QED  BY <2>4, <3>1, <3>2
      <3>4. n + 1 + Len(f) <= j
        BY <2>1, <2>6, <2>7, <3>3, Zenon DEF f
      <3> HIDE DEF n
      <3>. QED  BY <2>2, <2>4, <3>2, <3>4
    <2>8. AloneAt(u, k, r, pairs)
      BY <1>4, <2>7, Zenon DEF AloneAt, f, v
    <2>9. TemplatesAt(u, k, r, pairs)
      BY <2>1, <2>8, TemplatesBehind
    <2> DEFINE c == Len(v)
    <2>10. ASSUME NEW l \in 1..Len(pairs), NEW j \in Found(r, pairs[l].from, 1)
           PROVE  c + j \in Found(s, pairs[l].from, 1) /\ j \in Int
      <3> DEFINE p == pairs[l].from
      <3>1. p \in Seq(T) /\ p # <<>>
        BY PairTyped, Zenon
      <3> HIDE DEF p
      <3>2. j \in Int /\ j >= 1
        BY <3>1, FoundNumbers DEF p
      <3>3. c + j \in Found(v \o r, p, 1) <=> j \in Found(r, p, 1)
        BY <2>2, <3>1, <3>2, FoundInParts
      <3>. QED  BY <2>3, <3>2, <3>3, Zenon DEF p
    <2>11. c \in Int
      BY <2>2, LenProperties
    <2> HIDE DEF c
    <2>12. ASSUME NEW h \in 1..Len(pairs), NEW l \in 1..Len(pairs), h # l,
                  NEW i \in Found(r, pairs[h].from, 1), NEW j \in Found(r, pairs[l].from, 1), i <= j
           PROVE  i + Len(pairs[h].from) <= j
      <3> DEFINE q == Len(pairs[h].from)
      <3>1. c + i \in Found(s, pairs[h].from, 1) /\ c + j \in Found(s, pairs[l].from, 1)
            /\ i \in Int /\ j \in Int
        BY <2>10
      <3>2. c + i <= c + j
        BY <2>11, <2>12, <3>1
      <3>3. c + i + q <= c + j
        BY <2>1, <2>12, <3>1, <3>2, Zenon
      <3>4. q \in Int
        <4>1. pairs[h].from \in Seq(T)
          BY PairTyped, Zenon
        <4>. QED  BY <4>1, LenProperties
      <3> HIDE DEF q
      <3>5. i + q <= j
        BY <2>11, <3>1, <3>3, <3>4
      <3>. QED  BY <3>5 DEF q
    <2>13. DOMAIN pairs = 1..Len(pairs)
      BY PairTyped
    <2>14. Independent(r, pairs)
      BY <1>6, <2>12, <2>13, Zenon DEF Independent
    <2>. QED  BY <2>9, <2>14, Zenon DEF Fine
  <1>. QED  BY <1>5, <1>6, Zenon DEF Fine

(* Templates that do not get in each other's way are replaced at once. *)
LEMMA ReplacedAtOnce ==
  ASSUME NEW T, NEW pairs, PairsOver(T, pairs), NEW s \in Seq(T), Fine(s, pairs)
  PROVE  ReplaceTemplates(s, pairs) = AtOnce(s, pairs)
  <1> DEFINE Good(x) == Fine(x, pairs) => ReplaceTemplates(x, pairs) = AtOnce(x, pairs)
             G == {x \in Seq(T) : Good(x)}
  <1>1. ASSUME NEW x \in Seq(T), \A y \in Seq(T) : Len(y) < Len(x) => Good(y) PROVE Good(x)
    <2> SUFFICES ASSUME Fine(x, pairs) PROVE ReplaceTemplates(x, pairs) = AtOnce(x, pairs)
      OBVIOUS
    <2>1. CASE \A l \in 1..Len(pairs) : Found(x, pairs[l].from, 1) = {}
      <3>1. ReplaceTemplates(x, pairs) = x
        BY <2>1, TemplatesNone
      <3>2. AtOnce(x, pairs) = x
        BY <2>1, OnceNone
      <3>. QED  BY <3>1, <3>2
    <2>2. CASE ~(\A l \in 1..Len(pairs) : Found(x, pairs[l].from, 1) = {})
      <3>1. PICK h \in 1..Len(pairs) : Found(x, pairs[h].from, 1) # {}
        BY <2>2
      <3>2. PICK k \in 1..Len(pairs) : \E u, r \in Seq(T) :
              CutFirstKey(u, k, r, x, pairs) /\ Len(r) < Len(x)
        BY <3>1, FirstKey
      <3>3. PICK u, r \in Seq(T) : CutFirstKey(u, k, r, x, pairs) /\ Len(r) < Len(x)
        BY <3>2
      <3> HIDE DEF G
      <3>4. Fine(r, pairs) /\ TemplatesAt(u, k, r, pairs)
        BY <3>3, FirstIsReplaced
      <3>5. ReplaceTemplates(r, pairs) = AtOnce(r, pairs)
        BY <1>1, <3>3, <3>4
      <3>6. Earliest(u, k, r, pairs) /\ x = u \o (pairs[k].from \o r)
        BY <3>3, Zenon DEF CutFirstKey
      <3>7. AtOnceAt(u, k, r, pairs)
        BY <3>6, AtOnceFirst
      <3>. QED  BY <3>4, <3>5, <3>6, <3>7, Zenon DEF TemplatesAt, AtOnceAt
    <2>. QED  BY <2>1, <2>2
  <1> HIDE DEF Good
  <1>2. \A x \in Seq(T) : (\A y \in Seq(T) : Len(y) < Len(x) => y \in G) => x \in G
    BY <1>1
  <1>3. \A x \in G : Good(x)
    OBVIOUS
  <1> HIDE DEF G
  <1>4. \A x \in Seq(T) : x \in G
    BY <1>2, TextInduction
  <1>. QED  BY <1>3, <1>4 DEF Good

(* Characters of several texts. *)
LEMMA PairedOver ==
  ASSUME NEW chars, NEW T, chars \subseteq T,
         NEW pairs \in Seq([from : Seq(chars), to : Seq(chars)]),
         \A k \in DOMAIN pairs : pairs[k].from # <<>>
  PROVE  PairsOver(T, pairs)
  <1> DEFINE A == [from : Seq(chars), to : Seq(chars)]
             C == [from : Seq(T), to : Seq(T)]
  <1>1. \A s \in Seq(chars) : s \in Seq(T)
    BY SeqMonotonic
  <1>2. A \subseteq C
    BY <1>1
  <1>3. pairs \in Seq(A)
    OBVIOUS
  <1> HIDE DEF A, C
  <1>4. pairs \in Seq(C)
    BY <1>2, <1>3, SeqMonotonic
  <1>5. DOMAIN pairs = 1..Len(pairs)
    BY <1>3, LenProperties
  <1>. QED  BY <1>4, <1>5 DEF PairsOver, C

(* The same in the words of the property. *)
LEMMA TextIsSplit ==
  ASSUME NEW T, NEW s \in Seq(T), NEW d \in Seq(T), d # <<>>
  PROVE  IsSplit(s, d, Split(s, d))
  <1> DEFINE r == Split(s, d)
             n == Len(r)
  <1>1. IsCut(s, d, r)
    BY SplitIsCut
  <1>2. n \in Nat
    <2>1. r \in Seq(Seq(T))
      BY SplitTyped
    <2>. QED  BY <2>1, LenProperties
  <1> HIDE DEF r
  <1>3. ASSUME NEW k \in 1..n
        PROVE  Found(IF k < n THEN r[k] \o d ELSE r[k], d, 1) \subseteq {Len(r[k]) + 1}
    <2>1. k < n \/ k = n
      BY <1>2
    <2>2. CASE k < n
      BY <1>1, <2>2, Zenon DEF IsCut, OnlyAtEnd
    <2>3. CASE ~(k < n)
      BY <1>1, <2>1, <2>3, Zenon DEF IsCut
    <2>. QED  BY <2>2, <2>3
  <1>4. Between(d, r) = s
    BY <1>1, Zenon DEF IsCut
  <1>5. IsSplit(s, d, r)
    BY <1>3, <1>4, Zenon DEF IsSplit, Between
  <1>. QED  BY <1>5 DEF r

(* Texts are rewritten and split as they should be, whatever their length,  *)
(* the templates and the delimiter.                                         *)
THEOREM TextsCorrect == Spec => []TextsAreRewritten
  <1>1. Init => TextsAreRewritten
    BY DEF Init, TextsAreRewritten
  <1>2. ASSUME TextsAreRewritten, [Next]_vars PROVE TextsAreRewritten'
    <2>1. CASE StringReplaceAllTemplates
      <3>1. PICK s \in Texts, pairs \in Templates :
              Called("replace", [text |-> s, pairs |-> pairs], ReplaceTemplates(s, pairs))
        BY <2>1 DEF StringReplaceAllTemplates
      <3> DEFINE chars == UNION {ToSet(pairs[k].from) \cup ToSet(pairs[k].to) : k \in DOMAIN pairs}
                 T == chars \cup ToSet(s)
      <3>2. /\ pairs \in Seq([from : Seq(chars), to : Seq(chars)])
            /\ \A k \in DOMAIN pairs : pairs[k].from # <<>>
            /\ s \in Seq(ToSet(s))
        BY AlgorithmsAssumption
      <3> HIDE DEF chars
      <3>3. chars \subseteq T /\ ToSet(s) \subseteq T
        BY Zenon
      <3> HIDE DEF T
      <3>4. PairsOver(T, pairs)
        BY <3>2, <3>3, PairedOver
      <3>5. s \in Seq(T)
        BY <3>2, <3>3, SeqMonotonic
      <3>6. Fine(s, pairs) => ReplaceTemplates(s, pairs) = AtOnce(s, pairs)
        BY <3>4, <3>5, ReplacedAtOnce
      <3>7. /\ call' = "replace" /\ given'.text = s /\ given'.pairs = pairs
            /\ result' = ReplaceTemplates(s, pairs)
        BY <3>1 DEF Called
      <3>8. "replace" # "split"
        OBVIOUS
      <3>. QED  BY <3>6, <3>7, <3>8, Zenon DEF TextsAreRewritten, Fine
    <2>2. CASE StringSplit
      <3>1. PICK s \in Texts, d \in Delimiters :
              Called("split", [text |-> s, delimiter |-> d], Split(s, d))
        BY <2>2 DEF StringSplit
      <3> DEFINE T == ToSet(s) \cup ToSet(d)
      <3>2. s \in Seq(ToSet(s)) /\ d \in Seq(ToSet(d)) /\ d # <<>>
        BY AlgorithmsAssumption
      <3>3. ToSet(s) \subseteq T /\ ToSet(d) \subseteq T
        BY Zenon
      <3> HIDE DEF T
      <3>4. s \in Seq(T) /\ d \in Seq(T)
        BY <3>2, <3>3, SeqMonotonic
      <3>5. IsSplit(s, d, Split(s, d))
        BY <3>2, <3>4, TextIsSplit
      <3>6. call' = "split" /\ given'.text = s /\ given'.delimiter = d /\ result' = Split(s, d)
        BY <3>1 DEF Called
      <3>7. "replace" # "split"
        OBVIOUS
      <3>. QED  BY <3>5, <3>6, <3>7, Zenon DEF TextsAreRewritten
    <2>3. CASE ~StringReplaceAllTemplates /\ ~StringSplit /\ Next
      <3>1. call' # "replace" /\ call' # "split"
        BY <2>3 DEF Next, Called, Receive, Execute, OpenArguments, OpenIn, SearchPath,
             ReceiveNothing, ComputeCrc, ParseLine, CombineAndParse, WriteList,
             InsertJsonInto, ReadImage, LookForSection
      <3>. QED  BY <3>1, Zenon DEF TextsAreRewritten
    <2>4. CASE UNCHANGED vars
      BY <1>2, <2>4 DEF vars, TextsAreRewritten
    <2>. QED  BY <1>2, <2>1, <2>2, <2>3, <2>4
  <1>. QED  BY <1>1, <1>2, PTL DEF Spec

-----------------------------------------------------------------------------
(* The text around what is replaced. *)

(* Where no place begins in u, whatever comes behind the rest, u stays. *)
LEMMA BecomesBehind ==
  ASSUME NEW T, NEW f \in Seq(T), f # <<>>, NEW t \in Seq(T), NEW u \in Seq(T),
         NEW v \in Seq(T), NEW w \in Seq(T), Becomes(T, f, t, v, w),
         \A x \in Seq(T) : Free(u, v \o x, f)
  PROVE  Becomes(T, f, t, u \o v, u \o w)
  <1>1. ASSUME NEW x \in Seq(T)
        PROVE  StringReplaceAll((u \o v) \o x, f, t) = (u \o w) \o StringReplaceAll(x, f, t)
    <2>1. v \o x \in Seq(T) /\ StringReplaceAll(x, f, t) \in Seq(T)
      BY ReplaceNone
    <2>2. ReplacesBehind(u, v \o x, f, t)
      BY <2>1, ReplacedBehind
    <2>3. StringReplaceAll(v \o x, f, t) = w \o StringReplaceAll(x, f, t)
      BY DEF Becomes
    <2>4. Assoc(u, v, x) /\ Assoc(u, w, StringReplaceAll(x, f, t))
      BY <2>1, Associates
    <2>. QED  BY <2>2, <2>3, <2>4, Zenon DEF ReplacesBehind, Assoc
  <1>. QED  BY <1>1, Zenon DEF Becomes

(* What DelimitedTexts says. *)
DelimitedAre(T, d, as) ==
  /\ Len(as) \in Nat \ {0} /\ \A k \in 1..Len(as) : as[k] \in Seq(T)
  /\ Delimited(d, as) \in Seq(Seq(T)) /\ Len(Delimited(d, as)) = Len(as)
  /\ Delimited(d, as)[1] = as[1]
  /\ \A k \in 1..Len(as) : k # 1 => Delimited(d, as)[k] = d \o as[k]

LEMMA AreDelimited ==
  ASSUME NEW T, NEW d \in Seq(T), NEW as \in Seq(Seq(T)), as # <<>>
  PROVE  DelimitedAre(T, d, as)
  BY DelimitedTexts, ZenonT(30) DEF DelimitedAre

(* Texts between delimiters, each made anew, and the delimiters, too. *)
LEMMA BetweenBecomes ==
  ASSUME NEW T, NEW f \in Seq(T), f # <<>>, NEW t \in Seq(T),
         NEW d \in Seq(T), NEW e \in Seq(T), Becomes(T, f, t, d, e),
         NEW us \in Seq(Seq(T)), NEW ws \in Seq(Seq(T)), us # <<>>, Len(us) = Len(ws),
         \A k \in 1..Len(us) : Becomes(T, f, t, us[k], ws[k])
  PROVE  Becomes(T, f, t, Between(d, us), Between(e, ws))
  <1> DEFINE n == Len(us)
             as == Delimited(d, us)
             bs == Delimited(e, ws)
  <1>1. /\ n \in Nat \ {0} /\ \A k \in 1..n : us[k] \in Seq(T)
        /\ as \in Seq(Seq(T)) /\ Len(as) = n
        /\ as[1] = us[1] /\ \A k \in 1..n : k # 1 => as[k] = d \o us[k]
    <2>1. d \in Seq(T) /\ us \in Seq(Seq(T)) /\ us # <<>>
      BY Zenon
    <2>2. DelimitedAre(T, d, us)
      BY <2>1, AreDelimited
    <2>. QED  BY <2>2, Zenon DEF DelimitedAre
  <1>2. ws # <<>>
    <2>1. Len(<<>>) = 0
      BY EmptySeq
    <2>. QED  BY <1>1, <2>1
  <1>3. /\ \A k \in 1..Len(ws) : ws[k] \in Seq(T)
        /\ bs \in Seq(Seq(T)) /\ Len(bs) = Len(ws)
        /\ bs[1] = ws[1] /\ \A k \in 1..Len(ws) : k # 1 => bs[k] = e \o ws[k]
    <2>1. e \in Seq(T) /\ ws \in Seq(Seq(T)) /\ ws # <<>>
      BY <1>2
    <2>2. DelimitedAre(T, e, ws)
      BY <2>1, AreDelimited
    <2>. QED  BY <2>2, Zenon DEF DelimitedAre
  <1>4. Between(d, us) = FlattenSeq(as) /\ Between(e, ws) = FlattenSeq(bs)
    BY Zenon DEF Between, Delimited
  <1> HIDE DEF n, as, bs
  <1>5. Len(ws) = n /\ \A k \in 1..n : Becomes(T, f, t, us[k], ws[k])
    BY Zenon DEF n
  <1>6. ASSUME NEW k \in 1..n PROVE Becomes(T, f, t, as[k], bs[k])
    <2>1. CASE k = 1
      <3>1. as[k] = us[k] /\ bs[k] = ws[k]
        BY <1>1, <1>3, <2>1, Zenon
      <3>. QED  BY <1>5, <3>1, Zenon
    <2>2. CASE k # 1
      <3>1. as[k] = d \o us[k] /\ bs[k] = e \o ws[k]
        BY <1>1, <1>3, <1>5, <2>2, Zenon
      <3>2. us[k] \in Seq(T) /\ ws[k] \in Seq(T) /\ Becomes(T, f, t, us[k], ws[k])
        BY <1>1, <1>3, <1>5, Zenon
      <3>3. Becomes(T, f, t, d \o us[k], e \o ws[k])
        BY <3>2, BecomeBoth
      <3>. QED  BY <3>1, <3>3, Zenon
    <2>. QED  BY <2>1, <2>2
  <1>7. Becomes(T, f, t, FlattenSeq(as), FlattenSeq(bs))
    BY <1>1, <1>3, <1>5, <1>6, BecomeFlattened
  <1>. QED  BY <1>4, <1>7, Zenon

(* One text is between nothing. *)
LEMMA BetweenOne ==
  ASSUME NEW T, NEW d, NEW a \in Seq(T)
  PROVE  Between(d, <<a>>) = a
  <1> DEFINE s == <<a>>
             bs == [k \in 1..Len(s) |-> IF k = 1 THEN s[k] ELSE d \o s[k]]
  <1>1. Len(s) = 1 /\ s[1] = a
    OBVIOUS
  <1> HIDE DEF s
  <1>2. bs = [k \in 1..1 |-> a]
    BY <1>1
  <1>3. [k \in 1..1 |-> a] = <<a>>
    OBVIOUS
  <1>4. FlattenSeq(<<a>>) = a
    BY FlattenOne
  <1>. QED  BY <1>2, <1>3, <1>4, Zenon DEF Between, s

(* What begins and ends with a mark each has both marks in between. *)
Marked(b, as, e) == [k \in 1..Len(as) |-> (b \o as[k]) \o e]

LEMMA MarkedBetween ==
  ASSUME NEW T, NEW b \in Seq(T), NEW e \in Seq(T), NEW as \in Seq(Seq(T)), as # <<>>
  PROVE  FlattenSeq(Marked(b, as, e)) = (b \o Between(e \o b, as)) \o e
  <1> DEFINE n == Len(as)
             d == e \o b
             ms == Marked(b, as, e)
             ds == Delimited(d, as)
             S == {k \in 0..n : k = 0 \/ Flat(ms, k) = (b \o Flat(ds, k)) \o e}
  <1>0. d \in Seq(T)
    OBVIOUS
  <1>1. /\ n \in Nat \ {0} /\ \A k \in 1..n : as[k] \in Seq(T)
        /\ ds \in Seq(Seq(T)) /\ Len(ds) = n
        /\ ds[1] = as[1] /\ \A k \in 1..n : k # 1 => ds[k] = d \o as[k]
    <2>1. d \in Seq(T) /\ as \in Seq(Seq(T)) /\ as # <<>>
      BY <1>0
    <2>2. DelimitedAre(T, d, as)
      BY <2>1, AreDelimited
    <2>. QED  BY <2>2, Zenon DEF DelimitedAre
  <1> HIDE DEF n
  <1>2. ms \in Seq(Seq(T)) /\ Len(ms) = n /\ \A k \in 1..n : ms[k] = (b \o as[k]) \o e
    <2> DEFINE m(k) == (b \o as[k]) \o e
               fs == [k \in 1..n |-> m(k)]
    <2>1. ASSUME NEW k \in 1..n PROVE m(k) \in Seq(T)
      <3>1. as[k] \in Seq(T)
        BY <1>1
      <3>2. b \o as[k] \in Seq(T)
        BY <3>1, ConcatProperties
      <3>. QED  BY <3>2, ConcatProperties
    <2>2. fs \in Seq(Seq(T)) /\ Len(fs) = n
      <3> HIDE DEF m
      <3>1. n \in Nat
        BY <1>1
      <3>. QED  BY <2>1, <3>1
    <2>3. \A k \in 1..n : fs[k] = m(k)
      OBVIOUS
    <2>4. ms = fs
      BY Zenon DEF ms, Marked, n
    <2> HIDE DEF ms, fs
    <2>. QED  BY <2>2, <2>3, <2>4, Zenon
  <1>3. /\ Flat(ms, 0) = <<>> /\ Flat(ms, n) = FlattenSeq(ms)
        /\ \A k \in 0..n : Flat(ms, k) \in Seq(T)
        /\ \A k \in 0..n-1 : Flat(ms, k + 1) = Flat(ms, k) \o ms[k + 1]
    <2> HIDE DEF ms
    <2>1. /\ Flat(ms, 0) = <<>> /\ Flat(ms, Len(ms)) = FlattenSeq(ms)
          /\ \A k \in 0..Len(ms) : Flat(ms, k) \in Seq(T)
          /\ \A k \in 0..Len(ms)-1 : Flat(ms, k + 1) = Flat(ms, k) \o ms[k + 1]
      BY <1>2, FlatSteps
    <2>. QED  BY <1>2, <2>1
  <1>4. /\ Flat(ds, 0) = <<>> /\ Flat(ds, n) = FlattenSeq(ds)
        /\ \A k \in 0..n : Flat(ds, k) \in Seq(T)
        /\ \A k \in 0..n-1 : Flat(ds, k + 1) = Flat(ds, k) \o ds[k + 1]
    <2> HIDE DEF ds
    <2>1. /\ Flat(ds, 0) = <<>> /\ Flat(ds, Len(ds)) = FlattenSeq(ds)
          /\ \A k \in 0..Len(ds) : Flat(ds, k) \in Seq(T)
          /\ \A k \in 0..Len(ds)-1 : Flat(ds, k + 1) = Flat(ds, k) \o ds[k + 1]
      BY <1>1, FlatSteps
    <2>. QED  BY <1>1, <2>1
  <1> HIDE DEF ms, ds, d
  <1>5. 0 \in S
    BY <1>1
  <1>6. ASSUME NEW k \in 0..n-1, k \in S PROVE k + 1 \in S
    <2>1. k + 1 \in 1..n /\ k \in 0..n /\ k + 1 \in 0..n /\ k + 1 # 0 /\ k \in Nat
      BY <1>1
    <2> DEFINE a == as[k + 1]
               u == Flat(ms, k)
               y == Flat(ds, k)
    <2>2. a \in Seq(T) /\ u \in Seq(T) /\ y \in Seq(T)
      BY <1>1, <1>3, <1>4, <2>1
    <2>3. Flat(ms, k + 1) = u \o ((b \o a) \o e) /\ Flat(ds, k + 1) = y \o ds[k + 1]
      BY <1>2, <1>3, <1>4, <2>1
    <2>4. k = 0 \/ u = (b \o y) \o e
      BY <1>6
    <2>5. k = 0 => u = <<>> /\ y = <<>> /\ ds[k + 1] = a
      <3> SUFFICES ASSUME k = 0 PROVE u = <<>> /\ y = <<>> /\ ds[k + 1] = a
        OBVIOUS
      <3>1. k + 1 = 1
        OBVIOUS
      <3>2. u = <<>> /\ y = <<>>
        BY <1>3, <1>4
      <3>3. ds[k + 1] = as[k + 1]
        BY <1>1, <3>1, Zenon
      <3>. QED  BY <3>2, <3>3
    <2>6. k # 0 => ds[k + 1] = d \o a
      <3>1. k # 0 => k + 1 # 1
        BY <2>1
      <3>. QED  BY <1>1, <2>1, <3>1, Zenon
    <2> HIDE DEF a, u, y, S
    <2>7. Flat(ms, k + 1) = (b \o Flat(ds, k + 1)) \o e
      <3>1. CASE k = 0
        <4>1. b \o a \in Seq(T)
          BY <2>2, ConcatProperties
        <4>2. (b \o a) \o e \in Seq(T)
          BY <4>1, ConcatProperties
        <4>3. <<>> \o ((b \o a) \o e) = (b \o a) \o e /\ <<>> \o a = a
          BY <2>2, <4>2, ConcatEmptySeq
        <4>. QED  BY <2>3, <2>5, <3>1, <4>3, Zenon
      <3>2. CASE k # 0
        <4>1. b \o y \in Seq(T) /\ b \o a \in Seq(T)
          BY <2>2, ConcatProperties
        <4>2. (b \o y) \o e \in Seq(T)
          BY <4>1, ConcatProperties
        <4>3. Assoc((b \o y) \o e, b \o a, e)
          BY <4>1, <4>2, Associates
        <4>4. Assoc((b \o y) \o e, b, a) /\ Assoc(b \o y, e, b)
          BY <2>2, <4>1, <4>2, Associates
        <4>5. Assoc(b \o y, d, a)
          BY <1>0, <2>2, <4>1, Associates DEF d
        <4>6. Assoc(b, y, d \o a)
          <5>1. d \o a \in Seq(T)
            <6>1. d \in Seq(T)
              BY <1>0 DEF d
            <6>. QED  BY <2>2, <6>1, ConcatProperties
          <5>. QED  BY <2>2, <5>1, Associates
        <4>. QED  BY <2>3, <2>4, <2>6, <3>2, <4>3, <4>4, <4>5, <4>6, ZenonT(30) DEF Assoc, d
      <3>. QED  BY <3>1, <3>2
    <2>. QED  BY <2>1, <2>7 DEF S
  <1>7. n \in S => FlattenSeq(ms) = (b \o FlattenSeq(ds)) \o e
    BY <1>1, <1>3, <1>4
  <1> HIDE DEF S
  <1>8. n \in S
    <2>1. n \in Nat /\ n \in 0..n
      BY <1>1
    <2>2. \A k \in 0..n : k \in S
      BY <2>1, <1>5, <1>6, Induction
    <2>. QED  BY <2>1, <2>2
  <1>9. Between(d, as) = FlattenSeq(ds)
    BY Zenon DEF Between, Delimited, ds, n
  <1>. QED  BY <1>7, <1>8, <1>9, Zenon DEF ms, d

-----------------------------------------------------------------------------
(* What CutBetween and FoundChars say of the characters of two texts and of *)
(* a place.                                                                 *)
Joint(u, x) ==
  /\ Len(u \o x) = Len(u) + Len(x) /\ Len(u) \in Nat /\ Len(x) \in Nat
  /\ \A i \in 1..Len(u) : (u \o x)[i] = u[i]
  /\ \A i \in 1..Len(x) : (u \o x)[Len(u) + i] = x[i]

LEMMA AreJoint ==
  ASSUME NEW T, NEW u \in Seq(T), NEW x \in Seq(T)
  PROVE  u \o x \in Seq(T) /\ Joint(u, x)
  <1>1. Len(u) \in Nat /\ Len(x) \in Nat
    BY LenProperties
  <1>. QED  BY <1>1, CutBetween, ZenonT(30) DEF Joint

PlaceOf(s, p, j) ==
  j \in 1..Len(s) + 1 - Len(p) /\ \A i \in 1..Len(p) : s[j + i - 1] = p[i]

LEMMA IsPlace ==
  ASSUME NEW T, NEW s \in Seq(T), NEW p \in Seq(T), p # <<>>, NEW j \in Found(s, p, 1)
  PROVE  PlaceOf(s, p, j)
  <1>1. 1 \in 1..Len(s) + 1
    BY LenProperties
  <1>. QED  BY <1>1, FoundChars DEF PlaceOf

(* The marks of insert_json_into. *)
LEMMA MarkTyped ==
  ASSUME NEW T, {"%", "b", "e"} \subseteq T
  PROVE  /\ B \in Seq(T) /\ Len(B) = 3 /\ B # <<>> /\ B[1] = "%" /\ B[2] = "b" /\ B[3] = "%"
         /\ E \in Seq(T) /\ Len(E) = 3 /\ E # <<>> /\ E[1] = "%" /\ E[2] = "e" /\ E[3] = "%"
         /\ E \o B \in Seq(T) /\ Len(E \o B) = 6 /\ E \o B # <<>>
         /\ (E \o B)[1] = "%" /\ (E \o B)[2] = "e" /\ (E \o B)[3] = "%"
         /\ (E \o B)[4] = "%" /\ (E \o B)[5] = "b" /\ (E \o B)[6] = "%"
  <1>1. /\ B \in Seq(T) /\ Len(B) = 3 /\ B # <<>> /\ B[1] = "%" /\ B[2] = "b" /\ B[3] = "%"
        /\ E \in Seq(T) /\ Len(E) = 3 /\ E # <<>> /\ E[1] = "%" /\ E[2] = "e" /\ E[3] = "%"
    BY DEF B, E
  <1> DEFINE s == E \o B
  <1>2. /\ s \in Seq(T) /\ Len(s) = Len(E) + Len(B)
        /\ \A i \in 1..Len(E) : s[i] = E[i]
        /\ \A i \in 1..Len(B) : s[Len(E) + i] = B[i]
    <2>1. E \in Seq(T) /\ B \in Seq(T)
      BY <1>1
    <2>. QED  BY <2>1, CutBetween, ZenonT(30)
  <1> HIDE DEF s
  <1>3. Len(s) = 6
    BY <1>1, <1>2
  <1>4. s[1] = "%" /\ s[2] = "e" /\ s[3] = "%"
    BY <1>1, <1>2
  <1>5. s[4] = "%" /\ s[5] = "b" /\ s[6] = "%"
    <2>1. s[3 + 1] = B[1] /\ s[3 + 2] = B[2] /\ s[3 + 3] = B[3]
      BY <1>1, <1>2
    <2>2. 3 + 1 = 4 /\ 3 + 2 = 5 /\ 3 + 3 = 6
      OBVIOUS
    <2>. QED  BY <1>1, <2>1, <2>2
  <1>6. s # <<>>
    <2>1. Len(<<>>) = 0
      BY EmptySeq
    <2>. QED  BY <1>3, <2>1
  <1>. QED  BY <1>1, <1>2, <1>3, <1>4, <1>5, <1>6 DEF s

(* A mark %b% is part of a pair of marks only if the rest of one comes      *)
(* behind it.                                                               *)
EndsMark(z) == Len(z) >= 3 /\ z[1] = "e" /\ z[2] = "%" /\ z[3] = "%"

LEMMA FreeMark ==
  ASSUME NEW T, {"%", "b", "e"} \subseteq T, NEW z \in Seq(T), ~EndsMark(z)
  PROVE  Free(B, z, E \o B)
  <1> DEFINE f == E \o B
             s == B \o z
  <1>1. /\ f \in Seq(T) /\ Len(f) = 6 /\ f # <<>>
        /\ f[1] = "%" /\ f[2] = "e" /\ f[3] = "%" /\ f[4] = "%"
        /\ B \in Seq(T) /\ Len(B) = 3 /\ B[2] = "b"
    BY MarkTyped, Zenon
  <1>2. /\ s \in Seq(T) /\ Len(s) = Len(B) + Len(z) /\ Len(z) \in Nat
        /\ \A i \in 1..Len(B) : s[i] = B[i]
        /\ \A i \in 1..Len(z) : s[Len(B) + i] = z[i]
    <2>1. B \in Seq(T)
      BY <1>1
    <2>2. B \o z \in Seq(T) /\ Joint(B, z)
      BY <2>1, AreJoint
    <2>. QED  BY <2>2, Zenon DEF Joint
  <1> SUFFICES ASSUME NEW j \in Found(s, f, 1), ~(j > 3) PROVE FALSE
    BY <1>1, Zenon DEF Free
  <1> HIDE DEF s, f
  <1>3. j \in 1..Len(s) + 1 - Len(f) /\ \A i \in 1..Len(f) : s[j + i - 1] = f[i]
    <2>1. s \in Seq(T) /\ f \in Seq(T) /\ f # <<>>
      BY <1>1, <1>2
    <2>2. PlaceOf(s, f, j)
      BY <2>1, IsPlace
    <2>. QED  BY <2>2, Zenon DEF PlaceOf
  <1>4. j \in 1..3 /\ Len(z) >= 3
    BY <1>1, <1>2, <1>3
  <1>5. s[2] = "b"
    BY <1>1, <1>2
  <1>6. j # 1
    <2> SUFFICES ASSUME j = 1 PROVE FALSE
      OBVIOUS
    <2>1. s[1 + 2 - 1] = f[2] /\ 1 + 2 - 1 = 2
      BY <1>1, <1>3
    <2>. QED  BY <1>1, <1>5, <2>1
  <1>7. j # 2
    <2> SUFFICES ASSUME j = 2 PROVE FALSE
      OBVIOUS
    <2>1. s[2 + 1 - 1] = f[1] /\ 2 + 1 - 1 = 2
      BY <1>1, <1>3
    <2>. QED  BY <1>1, <1>5, <2>1
  <1>8. j # 3
    <2> SUFFICES ASSUME j = 3 PROVE FALSE
      OBVIOUS
    <2>1. /\ s[3 + 2 - 1] = f[2] /\ s[3 + 3 - 1] = f[3] /\ s[3 + 4 - 1] = f[4]
          /\ 3 + 2 - 1 = 3 + 1 /\ 3 + 3 - 1 = 3 + 2 /\ 3 + 4 - 1 = 3 + 3
      BY <1>1, <1>3
    <2>2. s[3 + 1] = z[1] /\ s[3 + 2] = z[2] /\ s[3 + 3] = z[3]
      BY <1>1, <1>2, <1>4
    <2>. QED  BY <1>1, <1>4, <2>1, <2>2 DEF EndsMark
  <1>. QED  BY <1>4, <1>6, <1>7, <1>8

(* A text without percent signs and a mark behind it. *)
LEMMA NoMarkEnds ==
  ASSUME NEW T, {"%", "b", "e"} \subseteq T, NEW v \in Seq(T), Without("%", v), NEW y \in Seq(T)
  PROVE  ~EndsMark(v \o (E \o y))
  <1> DEFINE x == E \o y
             z == v \o x
             n == Len(v)
  <1>1. E \in Seq(T) /\ Len(E) = 3 /\ E[1] = "%" /\ E[2] = "e"
    BY MarkTyped, Zenon
  <1>2. /\ x \in Seq(T) /\ Len(x) = Len(E) + Len(y) /\ Len(y) \in Nat
        /\ \A i \in 1..Len(E) : x[i] = E[i]
    <2>1. E \in Seq(T)
      BY <1>1
    <2>2. E \o y \in Seq(T) /\ Joint(E, y)
      BY <2>1, AreJoint
    <2>. QED  BY <2>2, Zenon DEF Joint
  <1> HIDE DEF x
  <1>3. /\ Len(z) = n + Len(x) /\ n \in Nat
        /\ \A i \in 1..n : z[i] = v[i]
        /\ \A i \in 1..Len(x) : z[n + i] = x[i]
    <2>1. x \in Seq(T)
      BY <1>2
    <2>2. Joint(v, x)
      BY <2>1, AreJoint
    <2>. QED  BY <2>2, Zenon DEF Joint
  <1>4. \A i \in 1..n : v[i] # "%"
    BY DEF Without
  <1> HIDE DEF z, n
  <1>5. z[n + 1] = "%" /\ z[n + 2] = "e"
    BY <1>1, <1>2, <1>3
  <1>6. CASE n = 0
    <2>1. z[1] = "%"
      BY <1>5, <1>6
    <2>. QED  BY <2>1 DEF EndsMark, z, x
  <1>7. CASE n = 1
    <2>1. z[3] = "e"
      BY <1>5, <1>7
    <2>. QED  BY <2>1 DEF EndsMark, z, x
  <1>8. CASE n # 0 /\ n # 1
    <2>1. z[2] # "%"
      BY <1>3, <1>4, <1>8
    <2>. QED  BY <2>1 DEF EndsMark, z, x
  <1>. QED  BY <1>6, <1>7, <1>8

(* A mark %e% stays if no other one, and no character of one, comes behind. *)
LEMMA MarkStays ==
  ASSUME NEW T, {"%", "b", "e"} \subseteq T, NEW c \in T, c \notin {"%", "b", "e"},
         NEW f \in {B, E \o B}, NEW t \in Seq(T)
  PROVE  Becomes(T, f, t, E \o <<c>>, E \o <<c>>)
  <1> DEFINE u == E \o <<c>>
  <1>1. /\ f \in Seq(T) /\ f # <<>> /\ Len(f) \in {3, 6} /\ f[1] = "%" /\ f[2] \in {"b", "e"} /\ f[3] = "%"
        /\ f[2] = "e" => Len(f) = 6 /\ f[4] = "%"
        /\ E \in Seq(T) /\ Len(E) = 3 /\ E[1] = "%" /\ E[2] = "e" /\ E[3] = "%"
    <2>1. CASE f = B
      BY <2>1, MarkTyped
    <2>2. CASE f = E \o B
      BY <2>2, MarkTyped
    <2>. QED  BY <2>1, <2>2
  <1>2. u \in Seq(T) /\ Len(u) = 4 /\ u[1] = "%" /\ u[2] = "e" /\ u[3] = "%" /\ u[4] = c
    <2> DEFINE w == <<c>>
    <2>1. w \in Seq(T) /\ Len(w) = 1 /\ w[1] = c
      OBVIOUS
    <2> HIDE DEF w
    <2>2. /\ E \o w \in Seq(T) /\ Len(E \o w) = Len(E) + Len(w)
          /\ \A i \in 1..Len(E) : (E \o w)[i] = E[i]
          /\ \A i \in 1..Len(w) : (E \o w)[Len(E) + i] = w[i]
      <3>1. E \in Seq(T) /\ w \in Seq(T)
        BY <1>1, <2>1
      <3>2. E \o w \in Seq(T) /\ Joint(E, w)
        BY <3>1, AreJoint
      <3>. QED  BY <3>2, Zenon DEF Joint
    <2> DEFINE a == E \o w
    <2> HIDE DEF a
    <2>3. a[1] = "%" /\ a[2] = "e" /\ a[3] = "%" /\ a[3 + 1] = c /\ 3 + 1 = 4
      BY <1>1, <2>1, <2>2 DEF a
    <2>. QED  BY <1>1, <2>1, <2>2, <2>3 DEF a, w
  <1> HIDE DEF u
  <1>3. ASSUME NEW x \in Seq(T) PROVE Free(u, x, f)
    <2> DEFINE s == u \o x
    <2>1. /\ s \in Seq(T) /\ Len(s) = Len(u) + Len(x) /\ Len(x) \in Nat
          /\ \A i \in 1..Len(u) : s[i] = u[i]
      <3>1. u \in Seq(T)
        BY <1>2
      <3>2. u \o x \in Seq(T) /\ Joint(u, x)
        BY <3>1, AreJoint
      <3>. QED  BY <3>2, Zenon DEF Joint
    <2> SUFFICES ASSUME NEW j \in Found(s, f, 1), ~(j > 4) PROVE FALSE
      BY <1>2, Zenon DEF Free
    <2> HIDE DEF s
    <2>2. j \in 1..Len(s) + 1 - Len(f) /\ \A i \in 1..Len(f) : s[j + i - 1] = f[i]
      <3>1. s \in Seq(T) /\ f \in Seq(T) /\ f # <<>>
        BY <1>1, <2>1
      <3>2. PlaceOf(s, f, j)
        BY <3>1, IsPlace
      <3>. QED  BY <3>2, Zenon DEF PlaceOf
    <2>3. j \in 1..4
      BY <1>1, <2>1, <2>2
    <2>4. s[1] = "%" /\ s[2] = "e" /\ s[3] = "%" /\ s[4] = c
      BY <1>2, <2>1
    <2>5. s[j] = "%"
      <3>1. s[j + 1 - 1] = f[1] /\ j + 1 - 1 = j
        BY <1>1, <2>2, <2>3
      <3>. QED  BY <1>1, <3>1
    <2>6. s[j + 1] = f[2]
      <3>1. s[j + 2 - 1] = f[2] /\ j + 2 - 1 = j + 1
        BY <1>1, <2>2, <2>3
      <3>. QED  BY <3>1
    <2>7. j = 1 => Len(f) = 6 /\ s[4] = f[4]
      <3> SUFFICES ASSUME j = 1 PROVE Len(f) = 6 /\ s[4] = f[4]
        OBVIOUS
      <3>1. s[2] = f[2]
        BY <2>6
      <3>2. f[2] = "e" /\ Len(f) = 6
        BY <1>1, <2>4, <3>1
      <3>3. s[1 + 4 - 1] = f[4] /\ 1 + 4 - 1 = 4
        BY <2>2, <3>2
      <3>. QED  BY <3>2, <3>3
    <2>8. j # 1
      BY <1>1, <2>4, <2>6, <2>7
    <2>9. j # 2 /\ j # 4
      BY <2>4, <2>5
    <2>10. j # 3
      BY <1>1, <2>4, <2>6
    <2>. QED  BY <2>3, <2>8, <2>9, <2>10
  <1>4. ASSUME NEW x \in Seq(T) PROVE ReplacesBehind(u, x, f, t)
    <2>1. Free(u, x, f)
      BY <1>3
    <2>. QED  BY <1>1, <1>2, <2>1, ReplacedBehind
  <1>5. Becomes(T, f, t, u, u)
    BY <1>4, Zenon DEF Becomes, ReplacesBehind
  <1>. QED  BY <1>5 DEF u

-----------------------------------------------------------------------------
(* What insert_json_into does to its marks: pairs of them become commas, and*)
(* then those that are left go, %b% before %e%.                             *)
Cleans(T, u, m, n, w) ==
  /\ u \in Seq(T) /\ m \in Seq(T) /\ n \in Seq(T) /\ w \in Seq(T)
  /\ Becomes(T, E \o B, <<Comma>>, u, m)
  /\ Becomes(T, B, <<>>, m, n)
  /\ Becomes(T, E, <<>>, n, w)

(* The characters of statements. *)
Signs(T) == {"%", "b", "e", Comma} \subseteq T

LEMMA SignsTyped ==
  ASSUME NEW T, Signs(T)
  PROVE  /\ E \o B \in Seq(T) /\ E \o B # <<>> /\ (E \o B)[1] = "%"
         /\ B \in Seq(T) /\ B # <<>> /\ B[1] = "%"
         /\ E \in Seq(T) /\ E # <<>> /\ E[1] = "%"
         /\ <<>> \in Seq(T) /\ <<Comma>> \in Seq(T)
  <1>1. {"%", "b", "e"} \subseteq T /\ Comma \in T
    BY DEF Signs
  <1>2. <<>> \in Seq(T) /\ <<Comma>> \in Seq(T)
    BY <1>1
  <1>. QED  BY <1>1, <1>2, MarkTyped, Zenon

LEMMA WithoutOther ==
  ASSUME NEW a, NEW c, a # c
  PROVE  Without(c, <<a>>)
  BY DEF Without

LEMMA CleansBoth ==
  ASSUME NEW T, Signs(T), NEW u, NEW m, NEW n, NEW w, Cleans(T, u, m, n, w),
         NEW u2, NEW m2, NEW n2, NEW w2, Cleans(T, u2, m2, n2, w2)
  PROVE  Cleans(T, u \o u2, m \o m2, n \o n2, w \o w2)
  <1>1. /\ u \in Seq(T) /\ m \in Seq(T) /\ n \in Seq(T) /\ w \in Seq(T)
        /\ u2 \in Seq(T) /\ m2 \in Seq(T) /\ n2 \in Seq(T) /\ w2 \in Seq(T)
    BY Zenon DEF Cleans
  <1>2. u \o u2 \in Seq(T) /\ m \o m2 \in Seq(T) /\ n \o n2 \in Seq(T) /\ w \o w2 \in Seq(T)
    BY <1>1, ConcatProperties
  <1>3. Becomes(T, E \o B, <<Comma>>, u \o u2, m \o m2)
    <2>1. /\ E \o B \in Seq(T) /\ E \o B # <<>> /\ <<Comma>> \in Seq(T)
          /\ Becomes(T, E \o B, <<Comma>>, u, m) /\ Becomes(T, E \o B, <<Comma>>, u2, m2)
      BY SignsTyped, Zenon DEF Cleans
    <2>. QED  BY <1>1, <2>1, BecomeBoth, ZenonT(30)
  <1>4. Becomes(T, B, <<>>, m \o m2, n \o n2)
    <2>1. /\ B \in Seq(T) /\ B # <<>> /\ <<>> \in Seq(T)
          /\ Becomes(T, B, <<>>, m, n) /\ Becomes(T, B, <<>>, m2, n2)
      BY SignsTyped, Zenon DEF Cleans
    <2>. QED  BY <1>1, <2>1, BecomeBoth, ZenonT(30)
  <1>5. Becomes(T, E, <<>>, n \o n2, w \o w2)
    <2>1. /\ E \in Seq(T) /\ E # <<>> /\ <<>> \in Seq(T)
          /\ Becomes(T, E, <<>>, n, w) /\ Becomes(T, E, <<>>, n2, w2)
      BY SignsTyped, Zenon DEF Cleans
    <2>. QED  BY <1>1, <2>1, BecomeBoth, ZenonT(30)
  <1>. QED  BY <1>2, <1>3, <1>4, <1>5, Zenon DEF Cleans

(* A text without percent signs stays. *)
LEMMA CleansPlain ==
  ASSUME NEW T, Signs(T), NEW u \in Seq(T), Without("%", u)
  PROVE  Cleans(T, u, u, u, u)
  <1>1. Becomes(T, E \o B, <<Comma>>, u, u)
    <2>1. E \o B \in Seq(T) /\ E \o B # <<>> /\ <<Comma>> \in Seq(T) /\ Without((E \o B)[1], u)
      BY SignsTyped, Zenon
    <2>. QED  BY <2>1, PlainStays, ZenonT(30)
  <1>2. Becomes(T, B, <<>>, u, u)
    <2>1. B \in Seq(T) /\ B # <<>> /\ <<>> \in Seq(T) /\ Without(B[1], u)
      BY SignsTyped, Zenon
    <2>. QED  BY <2>1, PlainStays, ZenonT(30)
  <1>3. Becomes(T, E, <<>>, u, u)
    <2>1. E \in Seq(T) /\ E # <<>> /\ <<>> \in Seq(T) /\ Without(E[1], u)
      BY SignsTyped, Zenon
    <2>. QED  BY <2>1, PlainStays, ZenonT(30)
  <1>. QED  BY <1>1, <1>2, <1>3, Zenon DEF Cleans

(* And a whole text is cleaned. *)
LEMMA CleansAll ==
  ASSUME NEW T, Signs(T), NEW u, NEW m, NEW n, NEW w, Cleans(T, u, m, n, w)
  PROVE  Unmarked(Joined(u)) = w
  <1>1. u \in Seq(T) /\ m \in Seq(T) /\ n \in Seq(T) /\ w \in Seq(T)
    BY Zenon DEF Cleans
  <1>2. Joined(u) = m
    <2>1. /\ E \o B \in Seq(T) /\ E \o B # <<>> /\ <<Comma>> \in Seq(T)
          /\ Becomes(T, E \o B, <<Comma>>, u, m)
      BY SignsTyped, Zenon DEF Cleans
    <2>2. StringReplaceAll(u, E \o B, <<Comma>>) = m
      BY <1>1, <2>1, BecomesAtEnd, ZenonT(30)
    <2>. QED  BY <2>2, Zenon DEF Joined
  <1>3. StringReplaceAll(m, B, <<>>) = n
    <2>1. B \in Seq(T) /\ B # <<>> /\ <<>> \in Seq(T) /\ Becomes(T, B, <<>>, m, n)
      BY SignsTyped, Zenon DEF Cleans
    <2>. QED  BY <1>1, <2>1, BecomesAtEnd, ZenonT(30)
  <1>4. StringReplaceAll(n, E, <<>>) = w
    <2>1. E \in Seq(T) /\ E # <<>> /\ <<>> \in Seq(T) /\ Becomes(T, E, <<>>, n, w)
      BY SignsTyped, Zenon DEF Cleans
    <2>. QED  BY <1>1, <2>1, BecomesAtEnd, ZenonT(30)
  <1>5. Unmarked(m) = w
    <2> DEFINE pairs == <<[from |-> B, to |-> <<>>], [from |-> E, to |-> <<>>]>>
    <2>1. /\ Len(pairs) = 2 /\ pairs[1].from = B /\ pairs[1].to = <<>>
          /\ pairs[2].from = E /\ pairs[2].to = <<>>
      OBVIOUS
    <2>2. pairs \in Seq([from : Seq(T), to : Seq(T)])
      <3>1. B \in Seq(T) /\ E \in Seq(T) /\ <<>> \in Seq(T)
        BY SignsTyped, Zenon
      <3> DEFINE R == [from : Seq(T), to : Seq(T)]
                 p == [from |-> B, to |-> <<>>]
                 q == [from |-> E, to |-> <<>>]
      <3>2. p \in R /\ q \in R
        BY <3>1
      <3> HIDE DEF R, p, q
      <3>3. <<p, q>> \in Seq(R)
        BY <3>2
      <3>. QED  BY <3>3 DEF R, p, q
    <2> HIDE DEF pairs
    <2>3. \A k \in 1..Len(pairs) : pairs[k].from # <<>>
      BY <2>1, SignsTyped
    <2>4. PairsOver(T, pairs)
      BY <2>2, <2>3, Zenon DEF PairsOver
    <2>5. PICK h \in [0..Len(pairs) -> Seq(T)] :
             Traced(h, m, pairs) /\ ReplaceTemplates(m, pairs) = h[Len(pairs)]
      BY <1>1, <2>4, ReplaceTrace
    <2>6. h[0] = m /\ \A k \in 1..2 : h[k] = StringReplaceAll(h[k-1], pairs[k].from, pairs[k].to)
      BY <2>1, <2>5, Zenon DEF Traced
    <2>7. h[1] = StringReplaceAll(m, B, <<>>)
      <3>1. h[1] = StringReplaceAll(h[1-1], pairs[1].from, pairs[1].to) /\ 1-1 = 0 /\ 1 \in 1..2
        BY <2>6
      <3>. QED  BY <2>1, <2>6, <3>1
    <2>8. h[2] = StringReplaceAll(h[1], E, <<>>)
      <3>1. h[2] = StringReplaceAll(h[2-1], pairs[2].from, pairs[2].to) /\ 2-1 = 1 /\ 2 \in 1..2
        BY <2>6
      <3>. QED  BY <2>1, <3>1
    <2>9. ReplaceTemplates(m, pairs) = w
      BY <1>3, <1>4, <2>1, <2>5, <2>7, <2>8
    <2>. QED  BY <2>9, Zenon DEF Unmarked, pairs
  <1>. QED  BY <1>2, <1>5

LEMMA BetweenTyped ==
  ASSUME NEW T, NEW d \in Seq(T), NEW as \in Seq(Seq(T)), as # <<>>
  PROVE  Between(d, as) \in Seq(T)
  <1> DEFINE ds == Delimited(d, as)
  <1>1. ds \in Seq(Seq(T))
    <2>1. DelimitedAre(T, d, as)
      BY AreDelimited
    <2>. QED  BY <2>1, Zenon DEF DelimitedAre
  <1>2. FlattenSeq(ds) \in Seq(T)
    <2> HIDE DEF ds
    <2>. QED  BY <1>1, FlatSteps
  <1>. QED  BY <1>2, Zenon DEF Between, Delimited

(* Texts in marks, one behind the other, and something behind them. *)
Chained(d, as, c) == Between(d, as) \o (E \o <<c>>)

LEMMA ChainTyped ==
  ASSUME NEW T, Signs(T), NEW d \in Seq(T), NEW as \in Seq(Seq(T)), as # <<>>, NEW c \in T
  PROVE  Chained(d, as, c) \in Seq(T) /\ E \o <<c>> \in Seq(T) /\ Between(d, as) \in Seq(T)
  <1>1. E \in Seq(T) /\ <<c>> \in Seq(T)
    BY SignsTyped
  <1>2. E \o <<c>> \in Seq(T) /\ Between(d, as) \in Seq(T)
    BY <1>1, ConcatProperties, BetweenTyped
  <1>3. Between(d, as) \o (E \o <<c>>) \in Seq(T)
    <2> DEFINE x == E \o <<c>>
               y == Between(d, as)
    <2> HIDE DEF x, y
    <2>1. x \in Seq(T) /\ y \in Seq(T)
      BY <1>2 DEF x, y
    <2>2. y \o x \in Seq(T)
      BY <2>1, ConcatProperties
    <2>. QED  BY <2>2 DEF x, y
  <1>. QED  BY <1>2, <1>3, Zenon DEF Chained

LEMMA CleansMarked ==
  ASSUME NEW T, Signs(T), NEW us \in Seq(Seq(T)), NEW ms \in Seq(Seq(T)), NEW ns \in Seq(Seq(T)),
         NEW ws \in Seq(Seq(T)), us # <<>>, Len(ms) = Len(us), Len(ns) = Len(us), Len(ws) = Len(us),
         \A k \in 1..Len(us) : Cleans(T, us[k], ms[k], ns[k], ws[k]),
         NEW c \in T, c \notin {"%", "b", "e"},
         \A y \in Seq(T) : ~EndsMark(Between(E \o B, us) \o (E \o y))
  PROVE  Cleans(T, B \o Chained(E \o B, us, c), B \o Chained(<<Comma>>, ms, c),
                   Chained(<<Comma>>, ns, c), Between(<<Comma>>, ws) \o <<c>>)
  <1> DEFINE EB == E \o B
             C == <<Comma>>
             Ec == E \o <<c>>
             m == Between(C, ms)
             n == Between(C, ns)
             w == Between(C, ws)
             u == Between(EB, us)
  <1>1. /\ EB \in Seq(T) /\ EB # <<>> /\ C \in Seq(T) /\ B \in Seq(T) /\ B # <<>> /\ B[1] = "%"
        /\ E \in Seq(T) /\ E # <<>> /\ E[1] = "%" /\ <<>> \in Seq(T) /\ <<c>> \in Seq(T)
        /\ {"%", "b", "e"} \subseteq T
    <2>1. <<c>> \in Seq(T)
      OBVIOUS
    <2>2. {"%", "b", "e"} \subseteq T
      BY DEF Signs
    <2>. QED  BY <2>1, <2>2, SignsTyped, Zenon
  <1>2. ms # <<>> /\ ns # <<>> /\ ws # <<>>
    <2>1. Len(<<>>) = 0 /\ Len(us) # 0
      BY EmptySeq
    <2>. QED  BY <2>1
  <1>3. /\ m \in Seq(T) /\ n \in Seq(T) /\ w \in Seq(T) /\ u \in Seq(T) /\ Ec \in Seq(T)
        /\ m \o Ec \in Seq(T) /\ n \o Ec \in Seq(T) /\ u \o Ec \in Seq(T)
    BY <1>1, <1>2, ChainTyped, BetweenTyped, ZenonT(30) DEF Chained
  <1>4. w \o <<c>> \in Seq(T) /\ B \o (u \o Ec) \in Seq(T) /\ B \o (m \o Ec) \in Seq(T)
    <2> HIDE DEF m, n, w, u, Ec
    <2> DEFINE a == u \o Ec
               b == m \o Ec
    <2>1. a \in Seq(T) /\ b \in Seq(T) /\ <<c>> \in Seq(T)
      BY <1>1, <1>3
    <2> HIDE DEF a, b
    <2>2. B \o a \in Seq(T) /\ B \o b \in Seq(T) /\ w \o <<c>> \in Seq(T)
      BY <1>1, <1>3, <2>1, ConcatProperties
    <2>. QED  BY <2>2 DEF a, b
  <1>5. \A k \in 1..Len(us) : /\ Becomes(T, EB, C, us[k], ms[k])
                              /\ Becomes(T, B, <<>>, ms[k], ns[k])
                              /\ Becomes(T, E, <<>>, ns[k], ws[k])
    BY Zenon DEF Cleans
  <1>6. Becomes(T, EB, C, Ec, Ec) /\ Becomes(T, B, <<>>, Ec, Ec)
    <2>1. EB \in {B, EB} /\ B \in {B, EB}
      OBVIOUS
    <2>. QED  BY <1>1, <2>1, MarkStays, ZenonT(30)
  <1>7. Becomes(T, E, <<>>, Ec, <<c>>)
    <2>1. Becomes(T, E, <<>>, E, <<>>)
      BY <1>1, PatternGoes, ZenonT(30)
    <2>2. Without("%", <<c>>)
      BY DEF Without
    <2>3. Becomes(T, E, <<>>, <<c>>, <<c>>)
      BY <1>1, <2>2, PlainStays, ZenonT(30)
    <2>4. Becomes(T, E, <<>>, Ec, <<>> \o <<c>>)
      BY <1>1, <2>1, <2>3, BecomeBoth, ZenonT(30)
    <2>5. <<>> \o <<c>> = <<c>>
      BY <1>1, ConcatEmptySeq
    <2>. QED  BY <2>4, <2>5
  <1>8. Without("%", C)
    <2>1. Comma # "%"
      BY DEF Comma
    <2>. QED  BY <2>1, WithoutOther
  <1>9. Becomes(T, EB, C, u, m)
    <2>1. Becomes(T, EB, C, EB, C)
      BY <1>1, PatternGoes, ZenonT(30)
    <2>. QED  BY <1>1, <1>5, <2>1, BetweenBecomes, ZenonT(60)
  <1>10. Becomes(T, B, <<>>, m, n)
    <2>1. Becomes(T, B, <<>>, C, C)
      BY <1>1, <1>8, PlainStays, ZenonT(30)
    <2>2. \A k \in 1..Len(ms) : Becomes(T, B, <<>>, ms[k], ns[k])
      BY <1>5, Zenon
    <2>3. Len(ms) = Len(ns)
      OBVIOUS
    <2>. QED  BY <1>1, <1>2, <2>1, <2>2, <2>3, BetweenBecomes, ZenonT(60)
  <1>11. Becomes(T, E, <<>>, n, w)
    <2>1. Becomes(T, E, <<>>, C, C)
      BY <1>1, <1>8, PlainStays, ZenonT(30)
    <2>2. \A k \in 1..Len(ns) : Becomes(T, E, <<>>, ns[k], ws[k])
      BY <1>5, Zenon
    <2>3. Len(ns) = Len(ws)
      OBVIOUS
    <2>. QED  BY <1>1, <1>2, <2>1, <2>2, <2>3, BetweenBecomes, ZenonT(60)
  <1>12. \A y \in Seq(T) : ~EndsMark(u \o (E \o y))
    OBVIOUS
  <1> HIDE DEF m, n, w, u
  <1>13. Becomes(T, EB, C, B \o (u \o Ec), B \o (m \o Ec))
    <2>1. Becomes(T, EB, C, u \o Ec, m \o Ec)
      BY <1>1, <1>3, <1>6, <1>9, BecomeBoth, ZenonT(30)
    <2>2. ASSUME NEW x \in Seq(T) PROVE Free(B, (u \o Ec) \o x, EB)
      <3> DEFINE z == (u \o Ec) \o x
                 y == <<c>> \o x
      <3>1. y \in Seq(T)
        BY <1>1, ConcatProperties
      <3>2. z = u \o (E \o y)
        <4>1. Assoc(u, Ec, x) /\ Assoc(E, <<c>>, x)
          BY <1>1, <1>3, Associates
        <4>. QED  BY <4>1, Zenon DEF Assoc
      <3>3. ~EndsMark(z)
        BY <1>12, <3>1, <3>2, Zenon
      <3>4. z \in Seq(T)
        <4> DEFINE a == u \o Ec
        <4>1. a \in Seq(T)
          BY <1>3
        <4> HIDE DEF a
        <4>2. a \o x \in Seq(T)
          BY <4>1, ConcatProperties
        <4>. QED  BY <4>2 DEF a
      <3> HIDE DEF z, EB
      <3>5. Free(B, z, E \o B)
        BY <1>1, <3>3, <3>4, FreeMark, ZenonT(30)
      <3>. QED  BY <3>5, Zenon DEF z, EB
    <2>3. u \o Ec \in Seq(T) /\ m \o Ec \in Seq(T)
      BY <1>3
    <2>. QED  BY <1>1, <2>1, <2>2, <2>3, BecomesBehind, ZenonT(60)
  <1>14. Becomes(T, B, <<>>, B \o (m \o Ec), n \o Ec)
    <2>1. Becomes(T, B, <<>>, m \o Ec, n \o Ec)
      BY <1>1, <1>3, <1>6, <1>10, BecomeBoth, ZenonT(30)
    <2>2. Becomes(T, B, <<>>, B, <<>>)
      BY <1>1, PatternGoes, ZenonT(30)
    <2>3. m \o Ec \in Seq(T) /\ n \o Ec \in Seq(T)
      BY <1>3
    <2>4. Becomes(T, B, <<>>, B \o (m \o Ec), <<>> \o (n \o Ec))
      BY <1>1, <2>1, <2>2, <2>3, BecomeBoth, ZenonT(30)
    <2>5. <<>> \o (n \o Ec) = n \o Ec
      BY <2>3, ConcatEmptySeq, Zenon
    <2>. QED  BY <2>4, <2>5
  <1>15. Becomes(T, E, <<>>, n \o Ec, w \o <<c>>)
    BY <1>1, <1>3, <1>7, <1>11, BecomeBoth, ZenonT(30)
  <1>16. Cleans(T, B \o (u \o Ec), B \o (m \o Ec), n \o Ec, w \o <<c>>)
    BY <1>3, <1>4, <1>13, <1>14, <1>15, Zenon DEF Cleans
  <1>. QED  BY <1>16, Zenon DEF Chained, u, m, n, w

LEMMA EndsOf ==
  ASSUME NEW n \in Nat, n # 0
  PROVE  /\ n \in Nat \ {0} /\ n \in Int /\ 1 \in 1..n /\ n \in 1..n /\ 1 + 1 = 2
         /\ \A i \in 2..n : i \in 1..n
         /\ (IF 2 <= n THEN n - 2 + 1 ELSE 0) = n - 1
  OBVIOUS

(* The first of a sequence and the others. *)
LEMMA FirstAndRest ==
  ASSUME NEW S, NEW s \in Seq(S), s # <<>>
  PROVE  LET r == SubSeq(s, 2, Len(s))
         IN /\ s[1] \in S /\ r \in Seq(S) /\ s = <<s[1]>> \o r
            /\ (Len(s) = 1 => s = <<s[1]>>) /\ (Len(s) # 1 => r # <<>>)
            /\ Len(s) \in Nat \ {0}
  <1> DEFINE n == Len(s)
             r == SubSeq(s, 2, n)
  <1>1. n \in Nat /\ n # 0
    BY EmptySeq
  <1>2. /\ n \in Nat \ {0} /\ n \in Int /\ 1 \in 1..n /\ n \in 1..n /\ 1 + 1 = 2
        /\ \A i \in 2..n : i \in 1..n
        /\ (IF 2 <= n THEN n - 2 + 1 ELSE 0) = n - 1
    BY <1>1, EndsOf, Zenon
  <1>3. \A k \in 1..n : s[k] \in S
    BY ElementOfSeq
  <1>4. s[1] \in S
    BY <1>2, <1>3, Zenon
  <1>5. n = 1 => s = <<s[1]>>
    <2> DEFINE b == <<s[1]>>
    <2>1. b \in Seq(S) /\ Len(b) = 1 /\ b[1] = s[1]
      <3> DEFINE a == s[1]
      <3>1. a \in S
        BY <1>4
      <3> HIDE DEF a
      <3>2. <<a>> \in Seq(S) /\ Len(<<a>>) = 1 /\ <<a>>[1] = a
        BY <3>1
      <3>. QED  BY <3>2 DEF a
    <2> HIDE DEF b
    <2>2. Len(s) = 1 => s = b
      <3> SUFFICES ASSUME Len(s) = 1 PROVE s = b
        OBVIOUS
      <3>1. Len(s) = Len(b) /\ \A i \in 1..Len(s) : s[i] = b[i]
        BY <2>1
      <3>. QED  BY <2>1, <3>1, SeqEqual, Zenon
    <2>. QED  BY <2>2 DEF b
  <1>6. r \in Seq(S) /\ Len(r) = n - 1
    <2>1. \A i \in 2..n : s[i] \in S
      BY <1>2, <1>3, Zenon
    <2>2. 2 \in Int /\ n \in Int
      BY <1>2
    <2> HIDE DEF n
    <2>3. r \in Seq(S)
      BY <2>1, <2>2, SubSeqProperties, Zenon
    <2>4. Len(r) = IF 2 <= n THEN n - 2 + 1 ELSE 0
      BY <2>1, <2>2, SubSeqProperties
    <2> HIDE DEF r
    <2>. QED  BY <1>2, <2>3, <2>4
  <1>7. n # 1 => r # <<>>
    <2> HIDE DEF r, n
    <2>1. Len(<<>>) = 0
      BY EmptySeq
    <2>2. n # 1 => n - 1 # 0
      BY <1>1
    <2>. QED  BY <1>6, <2>1, <2>2, Zenon
  <1>8. s = <<s[1]>> \o r
    <2>2. SubSeq(s, 1, n) = <<s[1]>> \o SubSeq(s, 1 + 1, n)
      BY <1>2, SubSeqRecursiveFirst, Zenon
    <2>3. SubSeq(s, 1, n) = s
      BY SubSeqFull, Zenon
    <2>. QED  BY <1>2, <2>2, <2>3, Zenon
  <1>. QED  BY <1>2, <1>4, <1>5, <1>6, <1>7, <1>8, Zenon DEF r, n

(* Texts between delimiters begin with the first. *)
HeadIs(T, d, as) ==
  \/ Between(d, as) = as[1]
  \/ \E q \in Seq(T) : Between(d, as) = as[1] \o (d \o q)

LEMMA BetweenHead ==
  ASSUME NEW T, NEW d \in Seq(T), NEW as \in Seq(Seq(T)), as # <<>>
  PROVE  HeadIs(T, d, as)
  <1> DEFINE a == as[1]
             r == SubSeq(as, 2, Len(as))
  <1>1. /\ a \in Seq(T) /\ r \in Seq(Seq(T)) /\ as = <<a>> \o r
        /\ (Len(as) = 1 => as = <<a>>) /\ (Len(as) # 1 => r # <<>>)
    BY FirstAndRest
  <1> HIDE DEF a, r
  <1>2. CASE Len(as) = 1
    <2>1. Between(d, <<a>>) = a
      BY <1>1, BetweenOne
    <2>. QED  BY <1>1, <1>2, <2>1, Zenon DEF HeadIs, a
  <1>3. CASE Len(as) # 1
    <2>1. Between(d, <<a>> \o r) = a \o (d \o Between(d, r)) /\ Between(d, r) \in Seq(T)
      BY <1>1, <1>3, BetweenBehind, BetweenTyped, ZenonT(30)
    <2>. QED  BY <1>1, <2>1, Zenon DEF HeadIs, a
  <1>. QED  BY <1>2, <1>3

(* No rest of a mark begins a text that begins with one without percent     *)
(* signs and goes on with a mark, or with a parenthesis.                    *)
LEMMA ChainEnds ==
  ASSUME NEW T, Signs(T), NEW as \in Seq(Seq(T)), as # <<>>,
         Without("%", as[1]) \/ \E x \in Seq(T) : "(" \in T /\ as[1] = <<"(">> \o x
  PROVE  \A y \in Seq(T) : ~EndsMark(Between(E \o B, as) \o (E \o y))
  <1> DEFINE a == as[1]
             EB == E \o B
             X == Between(EB, as)
  <1> SUFFICES ASSUME NEW y \in Seq(T) PROVE ~EndsMark(X \o (E \o y))
    OBVIOUS
  <1>1. /\ EB \in Seq(T) /\ B \in Seq(T) /\ E \in Seq(T) /\ {"%", "b", "e"} \subseteq T
    <2>1. {"%", "b", "e"} \subseteq T
      BY DEF Signs
    <2>. QED  BY <2>1, SignsTyped, Zenon
  <1>2. a \in Seq(T)
    <2>1. as \in Seq(Seq(T)) /\ as # <<>>
      OBVIOUS
    <2>. QED  BY <2>1, FirstAndRest, Zenon
  <1>3. HeadIs(T, EB, as)
    <2>1. EB \in Seq(T)
      BY <1>1
    <2> HIDE DEF EB
    <2>. QED  BY <2>1, BetweenHead
  <1>4. \E z \in Seq(T) : X \o (E \o y) = a \o (E \o z)
    <2>1. CASE X = a
      BY <2>1
    <2>2. CASE \E q \in Seq(T) : X = a \o (EB \o q)
      <3>1. PICK q \in Seq(T) : X = a \o (EB \o q)
        BY <2>2
      <3> DEFINE Ey == E \o y
                 qE == q \o Ey
                 z == B \o qE
      <3> HIDE DEF X, a, EB
      <3>2. Ey \in Seq(T) /\ EB \o q \in Seq(T)
        BY <1>1, ConcatProperties
      <3>3. qE \in Seq(T)
        <4> HIDE DEF Ey
        <4>. QED  BY <3>2, ConcatProperties
      <3>4. z \in Seq(T)
        <4> HIDE DEF qE
        <4>. QED  BY <1>1, <3>3, ConcatProperties
      <3> HIDE DEF Ey
      <3>5. Assoc(a, EB \o q, Ey) /\ Assoc(EB, q, Ey)
        BY <1>1, <1>2, <3>2, Associates
      <3>6. Assoc(E, B, qE)
        BY <1>1, <3>3, Associates
      <3>7. X \o Ey = a \o (E \o z)
        BY <3>1, <3>5, <3>6, Zenon DEF Assoc, EB
      <3>. QED  BY <3>4, <3>7, Zenon DEF Ey
    <2>. QED  BY <1>3, <2>1, <2>2, Zenon DEF HeadIs
  <1>5. PICK z \in Seq(T) : X \o (E \o y) = a \o (E \o z)
    BY <1>4
  <1> HIDE DEF X
  <1>6. CASE Without("%", a)
    <2> HIDE DEF a
    <2>1. ~EndsMark(a \o (E \o z))
      BY <1>1, <1>2, <1>6, NoMarkEnds
    <2>. QED  BY <1>5, <2>1
  <1>7. CASE \E x \in Seq(T) : "(" \in T /\ a = <<"(">> \o x
    <2>1. PICK x \in Seq(T) : "(" \in T /\ a = <<"(">> \o x
      BY <1>7
    <2> HIDE DEF a
    <2> DEFINE w == E \o z
               v == x \o w
               p == "("
    <2>2. w \in Seq(T)
      BY <1>1, ConcatProperties
    <2> HIDE DEF w
    <2>3. v \in Seq(T)
      BY <2>2, ConcatProperties
    <2>4. <<p>> \in Seq(T)
      BY <2>1
    <2>5. (<<p>> \o x) \o w = <<p>> \o v
      <3>1. Assoc(<<p>>, x, w)
        BY <2>2, <2>4, Associates
      <3>. QED  BY <3>1, Zenon DEF Assoc
    <2> HIDE DEF v
    <2>6. Leads(p, v, <<p>> \o v)
      BY <2>1, <2>3, FirstOf
    <2>7. (<<p>> \o v)[1] = p
      BY <2>6, Zenon DEF Leads
    <2>8. a \o w = <<p>> \o v
      BY <2>1, <2>5
    <2>9. (a \o w)[1] # "e"
      BY <2>7, <2>8
    <2>. QED  BY <1>5, <2>9, Zenon DEF EndsMark, w
  <1>. QED  BY <1>6, <1>7

-----------------------------------------------------------------------------
(* A row, with its marks and on the way to none. *)
RowSigns(T) == Signs(T) /\ {"(", ")"} \subseteq T

Row0(vs) == <<"(">> \o (B \o Chained(E \o B, vs, ")"))
Row1(vs) == <<"(">> \o (B \o Chained(<<Comma>>, vs, ")"))
Row2(vs) == <<"(">> \o Chained(<<Comma>>, vs, ")")
RowText(vs) == <<"(">> \o (Between(<<Comma>>, vs) \o <<")">>)

LEMMA RowCleans ==
  ASSUME NEW T, RowSigns(T), NEW vs \in Seq(Seq(T)), vs # <<>>, AllWithout("%", vs)
  PROVE  Cleans(T, Row0(vs), Row1(vs), Row2(vs), RowText(vs))
  <1>1. Signs(T) /\ "(" \in T /\ ")" \in T
    BY DEF RowSigns
  <1> DEFINE p == <<"(">>
  <1>2. p \in Seq(T) /\ Without("%", p)
    <2>1. "(" # "%"
      OBVIOUS
    <2>. QED  BY <1>1, <2>1, WithoutOther
  <1>3. Len(vs) \in Nat \ {0} /\ \A k \in 1..Len(vs) : vs[k] \in Seq(T) /\ Without("%", vs[k])
    BY DEF AllWithout
  <1>4. \A k \in 1..Len(vs) : Cleans(T, vs[k], vs[k], vs[k], vs[k])
    BY <1>1, <1>3, CleansPlain
  <1>5. Without("%", vs[1])
    BY <1>3
  <1>6. \A y \in Seq(T) : ~EndsMark(Between(E \o B, vs) \o (E \o y))
    BY <1>1, <1>5, ChainEnds
  <1>7. ")" \notin {"%", "b", "e"}
    OBVIOUS
  <1>8. Cleans(T, B \o Chained(E \o B, vs, ")"), B \o Chained(<<Comma>>, vs, ")"),
                  Chained(<<Comma>>, vs, ")"), Between(<<Comma>>, vs) \o <<")">>)
    BY <1>1, <1>4, <1>6, <1>7, CleansMarked
  <1> HIDE DEF p
  <1>9. Cleans(T, p, p, p, p)
    BY <1>1, <1>2, CleansPlain
  <1>10. Cleans(T, p \o (B \o Chained(E \o B, vs, ")")), p \o (B \o Chained(<<Comma>>, vs, ")")),
                   p \o Chained(<<Comma>>, vs, ")"), p \o (Between(<<Comma>>, vs) \o <<")">>))
    BY <1>1, <1>8, <1>9, CleansBoth
  <1>. QED  BY <1>10, Zenon DEF Row0, Row1, Row2, RowText, p

(* The values of an item as they are written. *)
ValuesOf(columns, item) ==
  [c \in 1..Len(columns) |-> IF item[c] # Absent THEN item[c] ELSE <<"default">>]

LEMMA ItemIsMarked ==
  ASSUME NEW T, RowSigns(T), NEW columns, Len(columns) \in Nat \ {0}, DOMAIN columns = 1..Len(columns),
         NEW item, ValuesOf(columns, item) \in Seq(Seq(T))
  PROVE  /\ ValuesOf(columns, item) # <<>> /\ Len(ValuesOf(columns, item)) = Len(columns)
         /\ ItemText(columns, item) = (B \o Between(E \o B, ValuesOf(columns, item))) \o E
  <1> DEFINE vs == ValuesOf(columns, item)
             n == Len(columns)
  <1>1. Len(vs) = n /\ \A c \in 1..n : vs[c] = IF item[c] # Absent THEN item[c] ELSE <<"default">>
    BY DEF ValuesOf
  <1> HIDE DEF vs
  <1>2. vs # <<>>
    BY <1>1, EmptySeq
  <1>3. ItemText(columns, item) = FlattenSeq([c \in 1..n |-> (B \o vs[c]) \o E])
    BY <1>1 DEF ItemText
  <1>4. [c \in 1..n |-> (B \o vs[c]) \o E] = Marked(B, vs, E)
    BY <1>1 DEF Marked
  <1>5. B \in Seq(T) /\ E \in Seq(T) /\ vs \in Seq(Seq(T))
    BY SignsTyped, Zenon DEF RowSigns, vs
  <1>6. FlattenSeq(Marked(B, vs, E)) = (B \o Between(E \o B, vs)) \o E
    BY <1>2, <1>5, MarkedBetween
  <1>. QED  BY <1>1, <1>2, <1>3, <1>4, <1>6, Zenon DEF vs

(* The characters of an insert statement. *)
InsertSigns(T) ==
  RowSigns(T) /\ {"insert", "%columns%", "values", "%values%", "returning", "default"} \subseteq T

InsertTail == <<"values", "%values%", "returning">>

(* The template of insert_json_into. *)
LEMMA TemplateParts ==
  ASSUME NEW T, InsertSigns(T)
  PROVE  /\ <<"insert">> \in Seq(T) /\ <<"%columns%">> \in Seq(T) /\ InsertTail \in Seq(T)
         /\ <<"values">> \in Seq(T) /\ <<"%values%">> \in Seq(T) /\ <<"returning">> \in Seq(T)
         /\ <<"insert", "%columns%", "values", "%values%", "returning">>
              = <<"insert">> \o (<<"%columns%">> \o InsertTail)
         /\ InsertTail = <<"values">> \o (<<"%values%">> \o <<"returning">>)
  <1>1. "insert" \in T /\ "%columns%" \in T /\ "values" \in T /\ "%values%" \in T /\ "returning" \in T
    BY DEF InsertSigns
  <1> DEFINE a == "insert"
             b == "%columns%"
             c == "values"
             d == "%values%"
             e == "returning"
  <1>2. a \in T /\ b \in T /\ c \in T /\ d \in T /\ e \in T
    BY <1>1
  <1> HIDE DEF a, b, c, d, e
  <1>3. /\ <<a>> \in Seq(T) /\ <<b>> \in Seq(T) /\ <<c, d, e>> \in Seq(T)
        /\ <<c>> \in Seq(T) /\ <<d>> \in Seq(T) /\ <<e>> \in Seq(T) /\ <<a, b, c, d, e>> \in Seq(T)
    BY <1>2
  <1> DEFINE l == <<c, d, e>>
             k == <<a, b, c, d, e>>
  <1>4. /\ Len(l) = 3 /\ l[1] = c /\ l[2] = d /\ l[3] = e
        /\ Len(k) = 5 /\ k[1] = a /\ k[2] = b /\ k[3] = c /\ k[4] = d /\ k[5] = e
        /\ Len(<<e>>) = 1 /\ <<e>>[1] = e
    OBVIOUS
  <1> HIDE DEF l, k
  <1> DEFINE x == <<e>>
             y == <<d>> \o x
             z == <<c>> \o y
             v == <<b>> \o l
             w == <<a>> \o v
  <1>5. x \in Seq(T) /\ l \in Seq(T) /\ k \in Seq(T) /\ Len(x) = 1 /\ x[1] = e
    BY <1>3, <1>4 DEF l, k
  <1> HIDE DEF x
  <1>6. y \in Seq(T) /\ Leads(d, x, y)
    BY <1>2, <1>5, FirstOf
  <1> HIDE DEF y
  <1>7. z \in Seq(T) /\ Leads(c, y, z)
    BY <1>2, <1>6, FirstOf
  <1> HIDE DEF z
  <1>8. v \in Seq(T) /\ Leads(b, l, v)
    BY <1>2, <1>5, FirstOf
  <1> HIDE DEF v
  <1>9. w \in Seq(T) /\ Leads(a, v, w)
    BY <1>2, <1>8, FirstOf
  <1> HIDE DEF w
  <1>10. l = z
    <2>1. Len(y) = 2 /\ y[1] = d /\ y[1 + 1] = e
      BY <1>5, <1>6 DEF Leads
    <2>2. Len(z) = 3 /\ z[1] = c /\ z[1 + 1] = d /\ z[2 + 1] = y[2]
      BY <1>7, <2>1 DEF Leads
    <2>3. 1 + 1 = 2 /\ 2 + 1 = 3
      OBVIOUS
    <2>4. \A i \in 1..3 : l[i] = z[i]
      BY <1>4, <2>1, <2>2, <2>3
    <2>. QED  BY <1>4, <1>5, <1>7, <2>2, <2>4, SeqEqual
  <1>11. k = w
    <2>1. Len(v) = 4 /\ v[1] = b /\ v[1 + 1] = c /\ v[2 + 1] = d /\ v[3 + 1] = e
      BY <1>4, <1>8 DEF Leads
    <2>2. 1 + 1 = 2 /\ 2 + 1 = 3 /\ 3 + 1 = 4 /\ 4 + 1 = 5
      OBVIOUS
    <2>3. Len(w) = 5 /\ w[1] = a /\ w[1 + 1] = v[1] /\ w[2 + 1] = v[2] /\ w[3 + 1] = v[3] /\ w[4 + 1] = v[4]
      BY <1>9, <2>1 DEF Leads
    <2>4. \A i \in 1..5 : k[i] = w[i]
      BY <1>4, <2>1, <2>2, <2>3
    <2>. QED  BY <1>4, <1>5, <1>9, <2>3, <2>4, SeqEqual
  <1>. QED  BY <1>3, <1>10, <1>11, Zenon DEF InsertTail, a, b, c, d, e, k, l, w, x, y, z, v

(* The columns take the place of their placeholder; only the first finds it.*)
Columned(c) == <<"insert">> \o (((B \o c) \o E) \o InsertTail)

LEMMA ColumnsReplaced ==
  ASSUME NEW T, InsertSigns(T), NEW columns \in Seq(Seq(T)), columns # <<>>,
         Without("%columns%", columns[1])
  PROVE  WithColumns(columns) = Columned(columns[1]) /\ Columned(columns[1]) \in Seq(T)
  <1> DEFINE n == Len(columns)
             f == <<"%columns%">>
             to(k) == B \o columns[k] \o E
             pairs == [k \in DOMAIN columns |-> [from |-> f, to |-> to(k)]]
             s == <<"insert", "%columns%", "values", "%values%", "returning">>
             q == Columned(columns[1])
             c == columns[1]
             t == (B \o c) \o E
             i == <<"insert">>
  <1>1. n \in Nat \ {0} /\ DOMAIN columns = 1..n /\ n \in Nat /\ n # 0 /\ 1 \in 1..n
    <2>1. Len(columns) \in Nat /\ Len(columns) # 0 /\ DOMAIN columns = 1..Len(columns)
      BY EmptySeq, LenProperties, Zenon
    <2> HIDE DEF n
    <2>2. n \in Nat /\ n # 0 /\ DOMAIN columns = 1..n
      BY <2>1 DEF n
    <2>. QED  BY <2>2, EndsOf, Zenon
  <1>2. B \in Seq(T) /\ E \in Seq(T) /\ Signs(T)
    <2>1. Signs(T)
      BY DEF InsertSigns, RowSigns
    <2>. QED  BY <2>1, SignsTyped, Zenon
  <1>3. \A k \in 1..n : columns[k] \in Seq(T)
    BY ElementOfSeq, Zenon
  <1>4. /\ f \in Seq(T) /\ i \in Seq(T) /\ InsertTail \in Seq(T) /\ s = i \o (f \o InsertTail)
    BY TemplateParts
  <1>40. f # <<>> /\ f[1] = "%columns%"
    OBVIOUS
  <1> HIDE DEF n, f, s, i
  <1>5. ASSUME NEW k \in 1..n PROVE to(k) \in Seq(T)
    <2> DEFINE a == columns[k]
    <2>1. a \in Seq(T)
      BY <1>3
    <2> HIDE DEF a
    <2>2. B \o a \in Seq(T)
      BY <1>2, <2>1, ConcatProperties
    <2>3. (B \o a) \o E \in Seq(T)
      BY <1>2, <2>2, ConcatProperties
    <2>. QED  BY <2>3 DEF a
  <1>6. PairsOver(T, pairs) /\ Len(pairs) = n /\ \A k \in 1..n : pairs[k].from = f /\ pairs[k].to = to(k)
    <2> HIDE DEF to
    <2> DEFINE R == [from : Seq(T), to : Seq(T)]
               g == [k \in 1..n |-> [from |-> f, to |-> to(k)]]
    <2>1. \A k \in 1..n : [from |-> f, to |-> to(k)] \in R
      BY <1>4, <1>5
    <2>2. g \in Seq(R) /\ Len(g) = n
      <3> HIDE DEF R
      <3>. QED  BY <1>1, <2>1
    <2>3. \A k \in 1..n : g[k].from = f /\ g[k].to = to(k)
      OBVIOUS
    <2>4. pairs = g
      BY <1>1, Zenon
    <2> HIDE DEF pairs, g
    <2>5. \A k \in 1..Len(pairs) : pairs[k].from # <<>>
      BY <1>40, <2>2, <2>3, <2>4
    <2>. QED  BY <2>2, <2>3, <2>4, <2>5 DEF PairsOver
  <1> HIDE DEF pairs
  <1>7. s \in Seq(T)
    <2> DEFINE x == f \o InsertTail
    <2>1. x \in Seq(T)
      BY <1>4, ConcatProperties
    <2> HIDE DEF x
    <2>2. i \o x \in Seq(T)
      BY <1>4, <2>1, ConcatProperties
    <2>. QED  BY <1>4, <2>2 DEF x
  <1>8. PICK h \in [0..Len(pairs) -> Seq(T)] :
           Traced(h, s, pairs) /\ ReplaceTemplates(s, pairs) = h[Len(pairs)]
    BY <1>6, <1>7, ReplaceTrace, Zenon
  <1>9. /\ h[0] = s /\ ReplaceTemplates(s, pairs) = h[n]
        /\ \A k \in 1..n : h[k] = StringReplaceAll(h[k-1], f, to(k))
    BY <1>6, <1>8, Zenon DEF Traced
  <1>10. c \in Seq(T) /\ Without("%columns%", c) /\ t = to(1) /\ t \in Seq(T)
    BY <1>1, <1>3, <1>5
  <1> HIDE DEF c, to
  <1>11. Without("%columns%", i) /\ Without("%columns%", InsertTail)
    BY DEF Without, i, InsertTail
  <1>12. Without("%columns%", t)
    <2>1. Without("%columns%", B) /\ Without("%columns%", E)
      BY DEF Without, B, E
    <2>2. B \o c \in Seq(T) /\ Without("%columns%", B \o c)
      BY <1>2, <1>10, <2>1, WithoutBoth
    <2>3. Without("%columns%", (B \o c) \o E)
      BY <1>2, <2>1, <2>2, WithoutBoth
    <2>. QED  BY <2>3
  <1> HIDE DEF t
  <1>13. q = i \o (t \o InsertTail)
    BY Zenon DEF Columned, c, t, i
  <1>14. t \o InsertTail \in Seq(T) /\ Without("%columns%", t \o InsertTail)
    BY <1>4, <1>10, <1>11, <1>12, WithoutBoth
  <1> HIDE DEF q
  <1>15. q \in Seq(T) /\ Without("%columns%", q)
    <2> DEFINE x == t \o InsertTail
    <2>1. x \in Seq(T) /\ Without("%columns%", x)
      BY <1>14
    <2> HIDE DEF x
    <2>2. i \o x \in Seq(T) /\ Without("%columns%", i \o x)
      BY <1>4, <1>11, <2>1, WithoutBoth
    <2>. QED  BY <1>13, <2>2 DEF x
  <1>16. h[1] = q
    <2>1. Becomes(T, f, t, i, i) /\ Becomes(T, f, t, InsertTail, InsertTail) /\ Becomes(T, f, t, f, t)
      BY <1>4, <1>40, <1>10, <1>11, PlainStays, PatternGoes, ZenonT(30)
    <2>2. Becomes(T, f, t, f \o InsertTail, t \o InsertTail)
      BY <1>4, <1>40, <1>10, <2>1, BecomeBoth, ZenonT(30)
    <2>3. f \o InsertTail \in Seq(T) /\ t \o InsertTail \in Seq(T)
      BY <1>4, <1>14, ConcatProperties
    <2>4. Becomes(T, f, t, i \o (f \o InsertTail), i \o (t \o InsertTail))
      BY <1>4, <1>40, <1>10, <2>1, <2>2, <2>3, BecomeBoth, ZenonT(30)
    <2>5. StringReplaceAll(s, f, t) = q
      <3>1. Becomes(T, f, t, s, q)
        BY <1>4, <1>13, <2>4, Zenon
      <3>. QED  BY <1>4, <1>40, <1>7, <1>10, <1>15, <3>1, BecomesAtEnd, ZenonT(30)
    <2>6. h[1] = StringReplaceAll(h[1-1], f, to(1)) /\ 1-1 = 0
      BY <1>1, <1>9
    <2>. QED  BY <1>9, <1>10, <2>5, <2>6
  <1>17. ASSUME NEW k \in 1..n PROVE StringReplaceAll(q, f, to(k)) = q
    <2>1. to(k) \in Seq(T)
      BY <1>5
    <2>2. Becomes(T, f, to(k), q, q)
      BY <1>4, <1>40, <1>15, <2>1, PlainStays, ZenonT(30)
    <2>. QED  BY <1>4, <1>40, <1>15, <2>1, <2>2, BecomesAtEnd, ZenonT(30)
  <1> DEFINE S == {k \in 0..n : k = 0 \/ h[k] = q}
  <1>18. 0 \in S
    BY <1>1
  <1>19. ASSUME NEW k \in 0..n-1, k \in S PROVE k + 1 \in S
    <2>1. k + 1 \in 1..n /\ k + 1 \in 0..n /\ (k + 1) - 1 = k
      BY <1>1
    <2>2. h[k + 1] = q
      <3>1. CASE k = 0
        BY <1>16, <3>1
      <3>2. CASE k # 0
        <4>1. h[k] = q
          BY <1>19, <3>2
        <4>2. h[k + 1] = StringReplaceAll(h[(k + 1) - 1], f, to(k + 1))
          BY <1>9, <2>1
        <4>3. StringReplaceAll(q, f, to(k + 1)) = q
          BY <1>17, <2>1
        <4>. QED  BY <2>1, <4>1, <4>2, <4>3, Zenon
      <3>. QED  BY <3>1, <3>2
    <2>. QED  BY <2>1, <2>2
  <1>20. n \in S => h[n] = q
    BY <1>1
  <1> HIDE DEF S
  <1>21. n \in S
    <2>1. n \in Nat /\ n \in 0..n
      BY <1>1
    <2>2. \A k \in 0..n : k \in S
      BY <2>1, <1>18, <1>19, Induction
    <2>. QED  BY <2>1, <2>2
  <1>22. WithColumns(columns) = ReplaceTemplates(s, pairs)
    BY Zenon DEF WithColumns, pairs, s, f, to
  <1>. QED  BY <1>9, <1>15, <1>20, <1>21, <1>22, Zenon DEF q

Single(c) == <<c>>

LEMMA SingleOf ==
  ASSUME NEW T, NEW a \in Seq(T)
  PROVE  /\ Single(a) \in Seq(Seq(T)) /\ Single(a) # <<>> /\ Len(Single(a)) = 1 /\ Single(a)[1] = a
         /\ \A d : Between(d, Single(a)) = a
  <1> DEFINE S == Seq(T)
  <1>1. a \in S
    OBVIOUS
  <1>2. \A d : Between(d, Single(a)) = a
    BY BetweenOne, Zenon DEF Single
  <1> HIDE DEF S
  <1>3. /\ Single(a) \in Seq(S) /\ Single(a) # <<>> /\ Len(Single(a)) = 1 /\ Single(a)[1] = a
    BY <1>1 DEF Single
  <1>. QED  BY <1>2, <1>3 DEF S

(* What comes before the rows. *)
Heading(c) == c \o <<"values">>

(* The name of the first column in its marks is cleaned. *)
LEMMA NameCleans ==
  ASSUME NEW T, InsertSigns(T), NEW c \in Seq(T), Without("%", c)
  PROVE  \E m, n : Cleans(T, B \o (c \o (E \o <<"values">>)), m, n, Heading(c))
  <1> DEFINE us == Single(c)
             v == "values"
  <1>1. Signs(T) /\ v \in T
    BY DEF InsertSigns, RowSigns
  <1>2. v \notin {"%", "b", "e"}
    OBVIOUS
  <1>3. /\ us \in Seq(Seq(T)) /\ us # <<>> /\ Len(us) = 1 /\ us[1] = c
        /\ \A d : Between(d, us) = c
    BY SingleOf
  <1> HIDE DEF us, v
  <1>4. Cleans(T, c, c, c, c)
    BY <1>1, CleansPlain
  <1>5. \A k \in 1..Len(us) : Cleans(T, us[k], us[k], us[k], us[k])
    BY <1>3, <1>4
  <1>6. \A y \in Seq(T) : ~EndsMark(Between(E \o B, us) \o (E \o y))
    <2>1. Without("%", us[1])
      BY <1>3
    <2>. QED  BY <1>1, <1>3, <2>1, ChainEnds
  <1>7. Cleans(T, B \o Chained(E \o B, us, v), B \o Chained(<<Comma>>, us, v),
                  Chained(<<Comma>>, us, v), Between(<<Comma>>, us) \o <<v>>)
    BY <1>1, <1>2, <1>3, <1>5, <1>6, CleansMarked
  <1>8. Chained(E \o B, us, v) = c \o (E \o <<v>>) /\ Between(<<Comma>>, us) = c
    BY <1>3, Zenon DEF Chained
  <1>. QED  BY <1>7, <1>8, Zenon DEF Heading, v

LEMMA PlainSigns ==
  ASSUME NEW T, InsertSigns(T), NEW a \in {"insert", "%columns%", "values", "%values%", "returning", "(", ")", Comma}
  PROVE  <<a>> \in Seq(T) /\ Without("%", <<a>>)
  <1>1. a \in T /\ a # "%"
    BY DEF InsertSigns, RowSigns, Signs, Comma
  <1>. QED  BY <1>1, WithoutOther

(* The values take the place of their placeholder. *)
Filled(c, values) == <<"insert">> \o (Heading(c) \o (values \o <<"returning">>))

LEMMA ValuesReplaced ==
  ASSUME NEW T, InsertSigns(T), NEW columns \in Seq(Seq(T)), columns # <<>>,
         NEW c \in Seq(T), c = columns[1],
         Without("%", c), Without("%columns%", c), Without("%values%", c),
         NEW values \in Seq(T)
  PROVE  /\ StringReplaceAll(Unmarked(Joined(WithColumns(columns))), <<"%values%">>, values)
              = Filled(c, values)
         /\ Heading(c) \in Seq(T) /\ Filled(c, values) \in Seq(T)
  <1> DEFINE i == <<"insert">>
             v == <<"values">>
             f == <<"%values%">>
             r == <<"returning">>
             Z == f \o r
             n == B \o (c \o (E \o v))
             H == Heading(c)
  <1>1. WithColumns(columns) = i \o (((B \o c) \o E) \o (v \o Z))
    <2>1. WithColumns(columns) = Columned(c)
      BY ColumnsReplaced
    <2>2. InsertTail = v \o Z
      BY TemplateParts
    <2>. QED  BY <2>1, <2>2, Zenon DEF Columned
  <1>2. /\ i \in Seq(T) /\ v \in Seq(T) /\ f \in Seq(T) /\ r \in Seq(T)
        /\ Without("%", i) /\ Without("%", f) /\ Without("%", r)
    <2>1. /\ "insert" \in {"insert", "%columns%", "values", "%values%", "returning", "(", ")", Comma}
          /\ "values" \in {"insert", "%columns%", "values", "%values%", "returning", "(", ")", Comma}
          /\ "%values%" \in {"insert", "%columns%", "values", "%values%", "returning", "(", ")", Comma}
          /\ "returning" \in {"insert", "%columns%", "values", "%values%", "returning", "(", ")", Comma}
      OBVIOUS
    <2>. QED  BY <2>1, PlainSigns, Zenon
  <1>3. Signs(T) /\ B \in Seq(T) /\ E \in Seq(T)
    <2>1. Signs(T)
      BY DEF InsertSigns, RowSigns
    <2>. QED  BY <2>1, SignsTyped, Zenon
  <1>4. f # <<>> /\ f[1] = "%values%" /\ Without(f[1], i) /\ Without(f[1], v) /\ Without(f[1], r)
    BY DEF Without
  <1>5. PICK m1, m2 : Cleans(T, n, m1, m2, H)
    BY NameCleans
  <1> HIDE DEF i, v, f, r
  <1>6. Z \in Seq(T) /\ Without("%", Z) /\ H \in Seq(T)
    BY <1>2, WithoutBoth, ConcatProperties DEF Heading, v
  <1>7. n \in Seq(T)
    BY <1>5, Zenon DEF Cleans
  <1>8. WithColumns(columns) = i \o (n \o Z)
    <2> DEFINE Bc == B \o c
               Ev == E \o v
               vZ == v \o Z
               cEv == c \o Ev
    <2>1. Bc \in Seq(T) /\ Ev \in Seq(T) /\ vZ \in Seq(T)
      BY <1>2, <1>3, <1>6, ConcatProperties
    <2> HIDE DEF Z
    <2>2. Assoc(Bc, E, vZ) /\ Assoc(E, v, Z) /\ Assoc(B, c, Ev) /\ Assoc(Bc, Ev, Z)
      BY <1>2, <1>3, <1>6, <2>1, Associates
    <2>. QED  BY <1>1, <2>2, Zenon DEF Assoc
  <1> HIDE DEF n, Z
  <1>9. Unmarked(Joined(i \o (n \o Z))) = i \o (H \o Z)
    <2>1. Cleans(T, i, i, i, i) /\ Cleans(T, Z, Z, Z, Z)
      BY <1>2, <1>3, <1>6, CleansPlain
    <2>2. Cleans(T, n \o Z, m1 \o Z, m2 \o Z, H \o Z)
      BY <1>3, <1>5, <2>1, CleansBoth
    <2>3. Cleans(T, i \o (n \o Z), i \o (m1 \o Z), i \o (m2 \o Z), i \o (H \o Z))
      BY <1>3, <2>1, <2>2, CleansBoth
    <2>. QED  BY <1>3, <2>3, CleansAll
  <1>10. Without(f[1], H)
    <2>1. Without(f[1], c)
      BY <1>4
    <2>. QED  BY <1>2, <1>4, <2>1, WithoutBoth, ZenonT(30) DEF Heading, v
  <1> HIDE DEF H
  <1>11. Becomes(T, f, values, i, i) /\ Becomes(T, f, values, H, H)
         /\ Becomes(T, f, values, r, r) /\ Becomes(T, f, values, f, values)
    BY <1>2, <1>4, <1>6, <1>10, PlainStays, PatternGoes, ZenonT(30)
  <1> DEFINE V == values \o r
             HZ == H \o Z
             HV == H \o V
  <1>12. V \in Seq(T) /\ Becomes(T, f, values, Z, V)
    <2>1. V \in Seq(T)
      BY <1>2, ConcatProperties
    <2>2. Becomes(T, f, values, f \o r, V)
      BY <1>2, <1>4, <1>11, BecomeBoth, ZenonT(30)
    <2>. QED  BY <2>1, <2>2 DEF Z
  <1> HIDE DEF V
  <1>13. HZ \in Seq(T) /\ HV \in Seq(T) /\ Becomes(T, f, values, HZ, HV)
    <2>1. HZ \in Seq(T) /\ HV \in Seq(T)
      BY <1>6, <1>12, ConcatProperties
    <2>2. Becomes(T, f, values, HZ, HV)
      BY <1>2, <1>4, <1>6, <1>11, <1>12, BecomeBoth, ZenonT(30)
    <2>. QED  BY <2>1, <2>2
  <1> HIDE DEF HZ, HV
  <1>14. i \o HZ \in Seq(T) /\ i \o HV \in Seq(T) /\ Becomes(T, f, values, i \o HZ, i \o HV)
    <2>1. i \o HZ \in Seq(T) /\ i \o HV \in Seq(T)
      BY <1>2, <1>13, ConcatProperties
    <2>2. Becomes(T, f, values, i \o HZ, i \o HV)
      BY <1>2, <1>4, <1>11, <1>13, BecomeBoth, ZenonT(30)
    <2>. QED  BY <2>1, <2>2
  <1>15. StringReplaceAll(i \o HZ, f, values) = i \o HV
    <2> DEFINE x == i \o HZ
               y == i \o HV
    <2> HIDE DEF x, y
    <2>1. x \in Seq(T) /\ y \in Seq(T) /\ Becomes(T, f, values, x, y)
      BY <1>14 DEF x, y
    <2>2. StringReplaceAll(x, f, values) = y
      BY <1>2, <1>4, <2>1, BecomesAtEnd, ZenonT(30)
    <2>. QED  BY <2>2 DEF x, y
  <1>. QED  BY <1>6, <1>8, <1>9, <1>14, <1>15, Zenon DEF Filled, HZ, HV, V, H, i, f, r

(* Columns and items as insert_json_into may have them. *)
Inserted(T, columns, items) ==
  /\ InsertSigns(T) /\ columns \in Seq(Seq(T)) /\ columns # <<>>
  /\ \A c \in {"%", "%columns%", "%values%", "(", ")"} : Without(c, columns[1])
  /\ Len(items) \in Nat /\ DOMAIN items = 1..Len(items)
  /\ \A k \in 1..Len(items) :
       /\ ValuesOf(columns, items[k]) \in Seq(Seq(T))
       /\ \A c \in {"%", Comma, "(", ")"} : AllWithout(c, ValuesOf(columns, items[k]))

LEMMA InsertTyped ==
  ASSUME NEW T, NEW columns, NEW items, Inserted(T, columns, items)
  PROVE  /\ InsertSigns(T) /\ RowSigns(T) /\ Signs(T)
         /\ Len(columns) \in Nat \ {0} /\ DOMAIN columns = 1..Len(columns) /\ columns[1] \in Seq(T)
         /\ \A k \in 1..Len(items) :
              ValuesOf(columns, items[k]) # <<>> /\ Len(ValuesOf(columns, items[k])) = Len(columns)
  <1>1. InsertSigns(T) /\ RowSigns(T) /\ Signs(T)
    BY Zenon DEF Inserted, InsertSigns, RowSigns
  <1>2. columns \in Seq(Seq(T)) /\ columns # <<>>
    BY Zenon DEF Inserted
  <1>3. Len(columns) \in Nat \ {0} /\ DOMAIN columns = 1..Len(columns) /\ columns[1] \in Seq(T)
    BY <1>2, FirstAndRest, LenProperties, Zenon
  <1>4. ASSUME NEW k \in 1..Len(items)
        PROVE  ValuesOf(columns, items[k]) # <<>> /\ Len(ValuesOf(columns, items[k])) = Len(columns)
    <2>1. ValuesOf(columns, items[k]) \in Seq(Seq(T))
      BY Zenon DEF Inserted
    <2>. QED  BY <1>1, <1>3, <2>1, ItemIsMarked
  <1>. QED  BY <1>1, <1>3, <1>4

(* The rows with their marks, and without. *)
Rows0(columns, items) == [k \in 1..Len(items) |-> Row0(ValuesOf(columns, items[k]))]
Rows1(columns, items) == [k \in 1..Len(items) |-> Row1(ValuesOf(columns, items[k]))]
Rows2(columns, items) == [k \in 1..Len(items) |-> Row2(ValuesOf(columns, items[k]))]
RowTexts(columns, items) == [k \in 1..Len(items) |-> RowText(ValuesOf(columns, items[k]))]

AreRows(T, columns, items) ==
  /\ Rows0(columns, items) \in Seq(Seq(T)) /\ Len(Rows0(columns, items)) = Len(items)
  /\ Rows1(columns, items) \in Seq(Seq(T)) /\ Len(Rows1(columns, items)) = Len(items)
  /\ Rows2(columns, items) \in Seq(Seq(T)) /\ Len(Rows2(columns, items)) = Len(items)
  /\ RowTexts(columns, items) \in Seq(Seq(T)) /\ Len(RowTexts(columns, items)) = Len(items)
  /\ \A k \in 1..Len(items) :
       /\ Cleans(T, Rows0(columns, items)[k], Rows1(columns, items)[k], Rows2(columns, items)[k],
                    RowTexts(columns, items)[k])
       /\ Rows0(columns, items)[k] = Row0(ValuesOf(columns, items[k]))
       /\ RowTexts(columns, items)[k] = RowText(ValuesOf(columns, items[k]))

LEMMA RowsTyped ==
  ASSUME NEW T, NEW columns, NEW items, Inserted(T, columns, items)
  PROVE  AreRows(T, columns, items)
  <1> DEFINE n == Len(items)
             v(k) == ValuesOf(columns, items[k])
             A == Seq(T)
  <1>1. n \in Nat
    BY Zenon DEF Inserted
  <1>2. ASSUME NEW k \in 1..n
        PROVE  Cleans(T, Row0(v(k)), Row1(v(k)), Row2(v(k)), RowText(v(k)))
    <2>1. RowSigns(T) /\ v(k) # <<>>
      BY InsertTyped, Zenon
    <2>2. v(k) \in Seq(Seq(T)) /\ AllWithout("%", v(k))
      BY Zenon DEF Inserted
    <2> HIDE DEF v
    <2>. QED  BY <2>1, <2>2, RowCleans
  <1>3. \A k \in 1..n : Row0(v(k)) \in A /\ Row1(v(k)) \in A /\ Row2(v(k)) \in A /\ RowText(v(k)) \in A
    BY <1>2, Zenon DEF Cleans
  <1> DEFINE r0 == [k \in 1..n |-> Row0(v(k))]
             r1 == [k \in 1..n |-> Row1(v(k))]
             r2 == [k \in 1..n |-> Row2(v(k))]
             r3 == [k \in 1..n |-> RowText(v(k))]
  <1>4. /\ r0 = Rows0(columns, items) /\ r1 = Rows1(columns, items)
        /\ r2 = Rows2(columns, items) /\ r3 = RowTexts(columns, items)
    BY Zenon DEF Rows0, Rows1, Rows2, RowTexts
  <1> HIDE DEF n, v, A
  <1>5. r0 \in Seq(A) /\ Len(r0) = n /\ \A k \in 1..n : r0[k] = Row0(v(k))
    BY <1>1, <1>3
  <1>6. r1 \in Seq(A) /\ Len(r1) = n /\ \A k \in 1..n : r1[k] = Row1(v(k))
    BY <1>1, <1>3
  <1>7. r2 \in Seq(A) /\ Len(r2) = n /\ \A k \in 1..n : r2[k] = Row2(v(k))
    BY <1>1, <1>3
  <1>8. r3 \in Seq(A) /\ Len(r3) = n /\ \A k \in 1..n : r3[k] = RowText(v(k))
    BY <1>1, <1>3
  <1> HIDE DEF r0, r1, r2, r3
  <1>9. ASSUME NEW k \in 1..n
        PROVE  Cleans(T, r0[k], r1[k], r2[k], r3[k])
    BY <1>2, <1>5, <1>6, <1>7, <1>8, Zenon
  <1>. QED  BY <1>4, <1>5, <1>6, <1>7, <1>8, <1>9, ZenonT(30) DEF AreRows, n, v, A

(* The values of insert_json_into: a row in marks for each item. *)
LEMMA ValuesAreMarked ==
  ASSUME NEW T, NEW columns, NEW items, Inserted(T, columns, items)
  PROVE  /\ Len(items) # 0 => ValuesText(columns, items) = (B \o Between(E \o B, Rows0(columns, items))) \o E
         /\ Len(items) = 0 => ValuesText(columns, items) = <<>>
         /\ ValuesText(columns, items) \in Seq(T)
  <1> DEFINE n == Len(items)
             rows == Rows0(columns, items)
             p == <<"(">>
             q == <<")">>
             row(k) == B \o <<"(">> \o ItemText(columns, items[k]) \o <<")">> \o E
  <1>1. n \in Nat /\ DOMAIN items = 1..n
    BY Zenon DEF Inserted
  <1>2. /\ Signs(T) /\ RowSigns(T) /\ B \in Seq(T) /\ E \in Seq(T) /\ E \o B \in Seq(T)
    BY InsertTyped, SignsTyped, Zenon
  <1>3. p \in Seq(T) /\ q \in Seq(T)
    <2>1. "(" \in T /\ ")" \in T
      BY <1>2 DEF RowSigns
    <2>. QED  BY <2>1
  <1>4. /\ rows \in Seq(Seq(T)) /\ Len(rows) = n
        /\ \A k \in 1..n : rows[k] = Row0(ValuesOf(columns, items[k]))
    <2>1. AreRows(T, columns, items)
      BY RowsTyped
    <2>. QED  BY <2>1, ZenonT(30) DEF AreRows
  <1>5. ASSUME NEW k \in 1..n
        PROVE  row(k) = (B \o rows[k]) \o E
    <2> DEFINE vs == ValuesOf(columns, items[k])
               X == Between(E \o B, vs)
               I == (B \o X) \o E
    <2>1. vs \in Seq(Seq(T)) /\ vs # <<>> /\ Len(columns) \in Nat \ {0} /\ DOMAIN columns = 1..Len(columns)
      BY InsertTyped, Zenon DEF Inserted
    <2>2. ItemText(columns, items[k]) = I
      BY <1>2, <2>1, ItemIsMarked
    <2>3. X \in Seq(T)
      <3> HIDE DEF vs
      <3>. QED  BY <1>2, <2>1, BetweenTyped
    <2>4. rows[k] = p \o (B \o (X \o (E \o q)))
      BY <1>4, Zenon DEF Row0, Chained
    <2> HIDE DEF X, p, q, rows
    <2> DEFINE BX == B \o X
               Eq == E \o q
               Bp == B \o p
               Iq == I \o q
    <2>5. BX \in Seq(T) /\ Eq \in Seq(T) /\ Bp \in Seq(T)
      BY <1>2, <1>3, <2>3, ConcatProperties
    <2>6. I \in Seq(T)
      <3> HIDE DEF BX
      <3>1. BX \o E \in Seq(T)
        BY <1>2, <2>5, ConcatProperties
      <3>. QED  BY <3>1 DEF BX
    <2>7. Assoc(BX, E, q) /\ Assoc(B, X, Eq)
      BY <1>2, <1>3, <2>3, <2>5, Associates
    <2>8. Iq = B \o (X \o Eq)
      BY <2>7, Zenon DEF Assoc
    <2> HIDE DEF I
    <2>9. Iq \in Seq(T)
      BY <1>3, <2>6, ConcatProperties
    <2>10. Assoc(Bp, I, q) /\ Assoc(B, p, Iq)
      BY <1>2, <1>3, <2>5, <2>6, <2>9, Associates
    <2>. QED  BY <2>2, <2>4, <2>8, <2>10, Zenon DEF Assoc, p, q
  <1>6. ValuesText(columns, items) = FlattenSeq([k \in 1..n |-> row(k)])
    BY <1>1, Zenon DEF ValuesText
  <1>7. [k \in 1..n |-> row(k)] = [k \in 1..n |-> (B \o rows[k]) \o E]
    <2> HIDE DEF row, rows, n
    <2>. QED  BY <1>5
  <1>8. ValuesText(columns, items) = FlattenSeq(Marked(B, rows, E))
    BY <1>4, <1>6, <1>7, Zenon DEF Marked
  <1>9. CASE n # 0
    <2>1. rows # <<>>
      <3> HIDE DEF rows, n
      <3>. QED  BY <1>4, <1>9, EmptySeq
    <2> HIDE DEF rows
    <2>2. FlattenSeq(Marked(B, rows, E)) = (B \o Between(E \o B, rows)) \o E
      BY <1>2, <1>4, <2>1, MarkedBetween
    <2>3. Between(E \o B, rows) \in Seq(T)
      BY <1>2, <1>4, <2>1, BetweenTyped
    <2> DEFINE X == Between(E \o B, rows)
               BX == B \o X
    <2> HIDE DEF X
    <2>4. BX \in Seq(T)
      BY <1>2, <2>3, ConcatProperties DEF X
    <2> HIDE DEF BX
    <2>5. BX \o E \in Seq(T)
      BY <1>2, <2>4, ConcatProperties
    <2>. QED  BY <1>8, <1>9, <2>2, <2>5, Zenon DEF X, BX, rows, n
  <1>10. CASE n = 0
    <2>1. Marked(B, rows, E) = <<>>
      <3> DEFINE m == Marked(B, rows, E)
      <3>1. m = [k \in 1..0 |-> (B \o rows[k]) \o E]
        BY <1>4, <1>10, Zenon DEF Marked
      <3>2. [k \in 1..0 |-> (B \o rows[k]) \o E] = <<>>
        <4> HIDE DEF rows
        <4>. QED  OBVIOUS
      <3>. QED  BY <3>1, <3>2, Zenon
    <2>2. FlattenSeq(<<>>) = <<>> /\ <<>> \in Seq(T)
      BY <1>2, FlattenOne, SignsTyped, Zenon
    <2>. QED  BY <1>8, <1>10, <2>1, <2>2, Zenon
  <1>. QED  BY <1>9, <1>10

(* The rows of an insert statement. *)
RowsText(columns, items) ==
  IF Len(items) = 0 THEN <<>> ELSE Between(<<Comma>>, RowTexts(columns, items))

LEMMA InsertIs ==
  ASSUME NEW T, NEW columns, NEW items, Inserted(T, columns, items)
  PROVE  /\ InsertJson(columns, items) = Filled(columns[1], RowsText(columns, items))
         /\ RowsText(columns, items) \in Seq(T)
  <1> DEFINE n == Len(items)
             c == columns[1]
             i == <<"insert">>
             H == Heading(c)
             V == ValuesText(columns, items)
             R == RowsText(columns, items)
             r == <<"returning">>
  <1>1. n \in Nat /\ V \in Seq(T)
    BY ValuesAreMarked, Zenon DEF Inserted
  <1>2. /\ InsertSigns(T) /\ Signs(T) /\ B \in Seq(T) /\ E \in Seq(T) /\ E \o B \in Seq(T)
        /\ c \in Seq(T)
    BY InsertTyped, SignsTyped, Zenon
  <1>3. /\ columns \in Seq(Seq(T)) /\ columns # <<>>
        /\ Without("%", c) /\ Without("%columns%", c) /\ Without("%values%", c)
    BY Zenon DEF Inserted
  <1>4. i \in Seq(T) /\ r \in Seq(T) /\ Without("%", i) /\ Without("%", r)
        /\ <<"values">> \in Seq(T) /\ Without("%", <<"values">>)
    <2>1. /\ "insert" \in {"insert", "%columns%", "values", "%values%", "returning", "(", ")", Comma}
          /\ "values" \in {"insert", "%columns%", "values", "%values%", "returning", "(", ")", Comma}
          /\ "returning" \in {"insert", "%columns%", "values", "%values%", "returning", "(", ")", Comma}
      OBVIOUS
    <2>. QED  BY <1>2, <2>1, PlainSigns, Zenon
  <1>5. /\ StringReplaceAll(Unmarked(Joined(WithColumns(columns))), <<"%values%">>, V) = Filled(c, V)
        /\ H \in Seq(T)
    <2> HIDE DEF V, H
    <2>1. c = columns[1]
      OBVIOUS
    <2> HIDE DEF c
    <2>. QED  BY <1>1, <1>2, <1>3, <2>1, ValuesReplaced DEF H
  <1>6. InsertJson(columns, items) = Unmarked(Joined(i \o (H \o (V \o r))))
    BY <1>5, Zenon DEF InsertJson, Filled
  <1>7. Without("%", H)
    BY <1>2, <1>3, <1>4, WithoutBoth, Zenon DEF Heading
  <1> HIDE DEF i, r, H
  <1>8. /\ \E m, k : Cleans(T, V \o r, m, k, R \o r)
        /\ R \in Seq(T)
    <2>1. CASE n = 0
      <3>1. V = <<>> /\ R = <<>>
        BY <2>1, ValuesAreMarked, Zenon DEF RowsText
      <3>2. <<>> \o r = r /\ <<>> \in Seq(T)
        BY <1>4, ConcatEmptySeq
      <3>3. Cleans(T, r, r, r, r)
        BY <1>2, <1>4, CleansPlain
      <3>. QED  BY <3>1, <3>2, <3>3, Zenon
    <2>2. CASE n # 0
      <3> DEFINE us == Rows0(columns, items)
                 ms == Rows1(columns, items)
                 ns == Rows2(columns, items)
                 ws == RowTexts(columns, items)
                 Y == Between(E \o B, us)
                 BYs == B \o Y
      <3>1. /\ us \in Seq(Seq(T)) /\ ms \in Seq(Seq(T)) /\ ns \in Seq(Seq(T)) /\ ws \in Seq(Seq(T))
            /\ Len(us) = n /\ Len(ms) = n /\ Len(ns) = n /\ Len(ws) = n
            /\ \A k \in 1..n : Cleans(T, us[k], ms[k], ns[k], ws[k])
            /\ \A k \in 1..n : us[k] = Row0(ValuesOf(columns, items[k]))
        <4>1. AreRows(T, columns, items)
          BY RowsTyped
        <4>. QED  BY <4>1, ZenonT(30) DEF AreRows
      <3>2. R = Between(<<Comma>>, ws)
        BY <2>2, Zenon DEF RowsText
      <3>3. V = (B \o Y) \o E
        BY <2>2, ValuesAreMarked, Zenon
      <3>4. 1 \in 1..n
        <4> HIDE DEF n
        <4>. QED  BY <1>1, <2>2
      <3>5. \E x \in Seq(T) : "(" \in T /\ us[1] = <<"(">> \o x
        <4> DEFINE vs == ValuesOf(columns, items[1])
                   x == B \o Chained(E \o B, vs, ")")
        <4>1. us[1] = <<"(">> \o x
          BY <3>1, <3>4, Zenon DEF Row0
        <4>2. vs \in Seq(Seq(T)) /\ vs # <<>>
          BY <3>4, InsertTyped, Zenon DEF Inserted
        <4>3. "(" \in T /\ ")" \in T
          BY <1>2 DEF InsertSigns, RowSigns
        <4> HIDE DEF vs
        <4>4. Chained(E \o B, vs, ")") \in Seq(T)
          BY <1>2, <4>2, <4>3, ChainTyped
        <4>5. x \in Seq(T)
          <5> DEFINE y == Chained(E \o B, vs, ")")
          <5> HIDE DEF y
          <5>1. B \o y \in Seq(T)
            BY <1>2, <4>4, ConcatProperties DEF y
          <5>. QED  BY <5>1 DEF y
        <4>. QED  BY <4>1, <4>3, <4>5, Zenon
      <3>6. us # <<>> /\ ws # <<>>
        <4> HIDE DEF us, ws, n
        <4>. QED  BY <2>2, <3>1, EmptySeq
      <3> HIDE DEF us, ms, ns, ws, V, R, n
      <3>7. \A y \in Seq(T) : ~EndsMark(Between(E \o B, us) \o (E \o y))
        BY <1>2, <3>1, <3>5, <3>6, ChainEnds
      <3>8. "returning" \notin {"%", "b", "e"} /\ "returning" \in T
        BY <1>2 DEF InsertSigns
      <3>9. Cleans(T, B \o Chained(E \o B, us, "returning"), B \o Chained(<<Comma>>, ms, "returning"),
                      Chained(<<Comma>>, ns, "returning"), Between(<<Comma>>, ws) \o <<"returning">>)
        BY <1>2, <3>1, <3>6, <3>7, <3>8, CleansMarked
      <3>10. Y \in Seq(T)
        BY <1>2, <3>1, <3>6, BetweenTyped
      <3>11. V \o r = B \o (Y \o (E \o r))
        <4> HIDE DEF Y
        <4>1. BYs \in Seq(T) /\ E \o r \in Seq(T)
          BY <1>2, <1>4, <3>10, ConcatProperties
        <4>2. Assoc(BYs, E, r) /\ Assoc(B, Y, E \o r)
          BY <1>2, <1>4, <3>10, <4>1, Associates
        <4>. QED  BY <3>3, <4>2, Zenon DEF Assoc
      <3>12. B \o Chained(E \o B, us, "returning") = V \o r
        BY <3>11, Zenon DEF Chained, Y, r
      <3>13. <<Comma>> \in Seq(T)
        BY <1>2, SignsTyped
      <3>14. R \in Seq(T)
        BY <3>1, <3>2, <3>6, <3>13, BetweenTyped
      <3>. QED  BY <3>2, <3>9, <3>12, <3>14, Zenon DEF r
    <2>. QED  BY <2>1, <2>2
  <1>9. PICK m, k : Cleans(T, V \o r, m, k, R \o r)
    BY <1>8
  <1>10. Cleans(T, i, i, i, i) /\ Cleans(T, H, H, H, H)
    BY <1>2, <1>4, <1>5, <1>7, CleansPlain
  <1> HIDE DEF V, R
  <1>11. Cleans(T, H \o (V \o r), H \o m, H \o k, H \o (R \o r))
    BY <1>2, <1>9, <1>10, CleansBoth
  <1>12. Cleans(T, i \o (H \o (V \o r)), i \o (H \o m), i \o (H \o k), i \o (H \o (R \o r)))
    BY <1>2, <1>10, <1>11, CleansBoth
  <1>13. Unmarked(Joined(i \o (H \o (V \o r)))) = i \o (H \o (R \o r))
    BY <1>2, <1>12, CleansAll
  <1>. QED  BY <1>6, <1>8, <1>13, Zenon DEF Filled, i, r, H, c, R

(* Texts between delimiters, with something before the first. *)
Led(l, d, as) == [k \in 1..Len(as) |-> (IF k = 1 THEN l ELSE d) \o as[k]]

LedAre(T, l, d, as) ==
  /\ Led(l, d, as) \in Seq(Seq(T)) /\ Len(Led(l, d, as)) = Len(as)
  /\ \A k \in 1..Len(as) : Led(l, d, as)[k] = (IF k = 1 THEN l ELSE d) \o as[k]

LEMMA AreLed ==
  ASSUME NEW T, NEW l \in Seq(T), NEW d \in Seq(T), NEW as \in Seq(Seq(T))
  PROVE  LedAre(T, l, d, as)
  <1> DEFINE n == Len(as)
             x(k) == IF k = 1 THEN l ELSE d
             A == Seq(T)
             b(k) == x(k) \o as[k]
             ls == [k \in 1..n |-> b(k)]
  <1>1. n \in Nat
    BY LenProperties
  <1>2. \A k \in 1..n : as[k] \in A
    BY ElementOfSeq, Zenon
  <1>3. \A k \in 1..n : x(k) \in A
    OBVIOUS
  <1> HIDE DEF x, n
  <1>4. ASSUME NEW k \in 1..n PROVE b(k) \in A
    <2> DEFINE a == as[k]
               c == x(k)
    <2>1. a \in Seq(T) /\ c \in Seq(T)
      BY <1>2, <1>3
    <2> HIDE DEF a, c
    <2>2. c \o a \in Seq(T)
      BY <2>1, ConcatProperties
    <2>. QED  BY <2>2 DEF a, c
  <1> HIDE DEF A, b
  <1>5. ls \in Seq(A) /\ Len(ls) = n /\ \A k \in 1..n : ls[k] = b(k)
    BY <1>1, <1>4
  <1>6. ls = Led(l, d, as)
    BY Zenon DEF Led, x, n, b
  <1> HIDE DEF ls
  <1>. QED  BY <1>5, <1>6, Zenon DEF LedAre, A, n, x, b

LEMMA LedBetween ==
  ASSUME NEW T, NEW l \in Seq(T), NEW d \in Seq(T), NEW as \in Seq(Seq(T)), as # <<>>
  PROVE  FlattenSeq(Led(l, d, as)) = l \o Between(d, as)
  <1> DEFINE n == Len(as)
             ls == Led(l, d, as)
             ds == Delimited(d, as)
             S == {k \in 0..n : k = 0 \/ Flat(ls, k) = l \o Flat(ds, k)}
  <1>1. /\ n \in Nat \ {0} /\ \A k \in 1..n : as[k] \in Seq(T)
        /\ ds \in Seq(Seq(T)) /\ Len(ds) = n
        /\ ds[1] = as[1] /\ \A k \in 1..n : k # 1 => ds[k] = d \o as[k]
    <2>1. d \in Seq(T) /\ as \in Seq(Seq(T)) /\ as # <<>>
      BY Zenon
    <2>2. DelimitedAre(T, d, as)
      BY <2>1, AreDelimited
    <2>. QED  BY <2>2, Zenon DEF DelimitedAre
  <1>2. /\ ls \in Seq(Seq(T)) /\ Len(ls) = n
        /\ \A k \in 1..n : ls[k] = (IF k = 1 THEN l ELSE d) \o as[k]
    <2>1. LedAre(T, l, d, as)
      BY AreLed
    <2>. QED  BY <2>1, Zenon DEF LedAre
  <1> HIDE DEF n
  <1>3. /\ Flat(ls, 0) = <<>> /\ Flat(ls, n) = FlattenSeq(ls)
        /\ \A k \in 0..n : Flat(ls, k) \in Seq(T)
        /\ \A k \in 0..n-1 : Flat(ls, k + 1) = Flat(ls, k) \o ls[k + 1]
    <2> HIDE DEF ls
    <2>1. /\ Flat(ls, 0) = <<>> /\ Flat(ls, Len(ls)) = FlattenSeq(ls)
          /\ \A k \in 0..Len(ls) : Flat(ls, k) \in Seq(T)
          /\ \A k \in 0..Len(ls)-1 : Flat(ls, k + 1) = Flat(ls, k) \o ls[k + 1]
      BY <1>2, FlatSteps
    <2>. QED  BY <1>2, <2>1
  <1>4. /\ Flat(ds, 0) = <<>> /\ Flat(ds, n) = FlattenSeq(ds)
        /\ \A k \in 0..n : Flat(ds, k) \in Seq(T)
        /\ \A k \in 0..n-1 : Flat(ds, k + 1) = Flat(ds, k) \o ds[k + 1]
    <2> HIDE DEF ds
    <2>1. /\ Flat(ds, 0) = <<>> /\ Flat(ds, Len(ds)) = FlattenSeq(ds)
          /\ \A k \in 0..Len(ds) : Flat(ds, k) \in Seq(T)
          /\ \A k \in 0..Len(ds)-1 : Flat(ds, k + 1) = Flat(ds, k) \o ds[k + 1]
      BY <1>1, FlatSteps
    <2>. QED  BY <1>1, <2>1
  <1> HIDE DEF ls, ds
  <1>5. 0 \in S
    BY <1>1
  <1>6. ASSUME NEW k \in 0..n-1, k \in S PROVE k + 1 \in S
    <2>1. k + 1 \in 1..n /\ k \in 0..n /\ k + 1 \in 0..n /\ k + 1 # 0 /\ k \in Nat
          /\ (k + 1 = 1 <=> k = 0)
      BY <1>1
    <2> DEFINE a == as[k + 1]
               u == Flat(ls, k)
               y == Flat(ds, k)
    <2>2. a \in Seq(T) /\ u \in Seq(T) /\ y \in Seq(T)
      BY <1>1, <1>3, <1>4, <2>1
    <2>3. Flat(ls, k + 1) = u \o ls[k + 1] /\ Flat(ds, k + 1) = y \o ds[k + 1]
      BY <1>3, <1>4, <2>1
    <2>4. k = 0 \/ u = l \o y
      BY <1>6
    <2>5. Flat(ls, k + 1) = l \o Flat(ds, k + 1)
      <3>1. CASE k = 0
        <4>1. u = <<>> /\ y = <<>>
          BY <1>3, <1>4, <3>1
        <4>2. ls[k + 1] = l \o a /\ ds[k + 1] = a
          BY <1>1, <1>2, <2>1, <3>1, Zenon
        <4> HIDE DEF a, u, y
        <4>3. l \o a \in Seq(T)
          BY <2>2, ConcatProperties
        <4>4. <<>> \o (l \o a) = l \o a /\ <<>> \o a = a
          BY <2>2, <4>3, ConcatEmptySeq, Zenon
        <4>. QED  BY <2>3, <4>1, <4>2, <4>4, Zenon
      <3>2. CASE k # 0
        <4>1. ls[k + 1] = d \o a /\ ds[k + 1] = d \o a
          BY <1>1, <1>2, <2>1, <3>2, Zenon
        <4> HIDE DEF a, u, y
        <4>2. d \o a \in Seq(T)
          BY <2>2, ConcatProperties
        <4>3. Assoc(l, y, d \o a)
          BY <2>2, <4>2, Associates
        <4>. QED  BY <2>3, <2>4, <3>2, <4>1, <4>3, Zenon DEF Assoc
      <3>. QED  BY <3>1, <3>2
    <2>. QED  BY <2>1, <2>5
  <1>7. n \in S => FlattenSeq(ls) = l \o FlattenSeq(ds)
    BY <1>1, <1>3, <1>4
  <1> HIDE DEF S
  <1>8. n \in S
    <2>1. n \in Nat /\ n \in 0..n
      BY <1>1
    <2>2. \A k \in 0..n : k \in S
      BY <2>1, <1>5, <1>6, Induction
    <2>. QED  BY <2>1, <2>2
  <1>9. Between(d, as) = FlattenSeq(ds)
    BY Zenon DEF Between, Delimited, ds, n
  <1>. QED  BY <1>7, <1>8, <1>9, Zenon DEF ls

(* What is read from texts that end with a mark each, and are between       *)
(* delimiters: the texts with what is before them.                          *)
EndedAre(T, d, as) ==
  /\ Ended(d, as) \in Seq(Seq(T)) /\ Len(Ended(d, as)) = Len(as)
  /\ \A k \in 1..Len(as) : Ended(d, as)[k] = as[k] \o d

LEMMA AreEnded ==
  ASSUME NEW T, NEW d \in Seq(T), NEW as \in Seq(Seq(T))
  PROVE  EndedAre(T, d, as)
  <1> DEFINE n == Len(as)
             A == Seq(T)
             b(k) == as[k] \o d
             es == [k \in 1..n |-> b(k)]
  <1>1. n \in Nat
    BY LenProperties
  <1>2. \A k \in 1..n : as[k] \in A
    BY ElementOfSeq, Zenon
  <1> HIDE DEF n
  <1>4. ASSUME NEW k \in 1..n PROVE b(k) \in A
    <2> DEFINE a == as[k]
    <2>1. a \in Seq(T)
      BY <1>2
    <2> HIDE DEF a
    <2>2. a \o d \in Seq(T)
      BY <2>1, ConcatProperties
    <2>. QED  BY <2>2 DEF a
  <1> HIDE DEF A, b
  <1>5. es \in Seq(A) /\ Len(es) = n /\ \A k \in 1..n : es[k] = b(k)
    BY <1>1, <1>4
  <1>6. es = Ended(d, as)
    BY Zenon DEF Ended, n, b
  <1> HIDE DEF es
  <1>. QED  BY <1>5, <1>6, Zenon DEF EndedAre, A, n, b

LEMMA LedEnded ==
  ASSUME NEW T, NEW l \in Seq(T), NEW d \in Seq(T), NEW q \in Seq(T), NEW as \in Seq(Seq(T))
  PROVE  Led(l, d, Ended(q, as)) = Ended(q, Led(l, d, as))
  <1> DEFINE n == Len(as)
             x(k) == IF k = 1 THEN l ELSE d
             es == Ended(q, as)
             ls == Led(l, d, as)
             one == Led(l, d, es)
             two == Ended(q, ls)
  <1>1. es \in Seq(Seq(T)) /\ Len(es) = n /\ \A k \in 1..n : es[k] = as[k] \o q
    <2>1. EndedAre(T, q, as)
      BY AreEnded
    <2>. QED  BY <2>1, Zenon DEF EndedAre
  <1>2. ls \in Seq(Seq(T)) /\ Len(ls) = n /\ \A k \in 1..n : ls[k] = x(k) \o as[k]
    <2>1. LedAre(T, l, d, as)
      BY AreLed
    <2>. QED  BY <2>1, Zenon DEF LedAre
  <1> HIDE DEF es, ls
  <1>3. one \in Seq(Seq(T)) /\ Len(one) = n /\ \A k \in 1..n : one[k] = x(k) \o es[k]
    <2>1. LedAre(T, l, d, es)
      BY <1>1, AreLed
    <2>. QED  BY <1>1, <2>1, Zenon DEF LedAre
  <1>4. two \in Seq(Seq(T)) /\ Len(two) = n /\ \A k \in 1..n : two[k] = ls[k] \o q
    <2>1. EndedAre(T, q, ls)
      BY <1>2, AreEnded
    <2>. QED  BY <1>2, <2>1, Zenon DEF EndedAre
  <1>5. \A k \in 1..n : as[k] \in Seq(T) /\ x(k) \in Seq(T)
    <2>1. \A k \in 1..n : as[k] \in Seq(T)
      BY ElementOfSeq, Zenon
    <2>2. \A k \in 1..n : x(k) \in Seq(T)
      OBVIOUS
    <2>. QED  BY <2>1, <2>2
  <1> HIDE DEF x, n, one, two
  <1>6. ASSUME NEW k \in 1..n PROVE one[k] = two[k]
    <2> DEFINE a == as[k]
               b == x(k)
    <2>1. a \in Seq(T) /\ b \in Seq(T)
      BY <1>5
    <2>2. one[k] = b \o (a \o q) /\ two[k] = (b \o a) \o q
      BY <1>1, <1>2, <1>3, <1>4, Zenon
    <2> HIDE DEF a, b
    <2>3. Assoc(b, a, q)
      BY <2>1, Associates
    <2>. QED  BY <2>2, <2>3, Zenon DEF Assoc
  <1>7. one = two
    <2> DEFINE A == Seq(T)
    <2>1. one \in Seq(A) /\ two \in Seq(A) /\ Len(one) = Len(two) /\ \A k \in 1..Len(one) : one[k] = two[k]
      BY <1>3, <1>4, <1>6, Zenon
    <2> HIDE DEF A
    <2>. QED  BY <2>1, SeqEqual, Zenon
  <1>. QED  BY <1>7 DEF one, two, es, ls

(* A character that neither texts nor what is between them have. *)
LEMMA WithoutBetween ==
  ASSUME NEW T, NEW d \in Seq(T), NEW as \in Seq(Seq(T)), as # <<>>, NEW c,
         Without(c, d), AllWithout(c, as)
  PROVE  Without(c, Between(d, as))
  <1> DEFINE n == Len(as)
             ds == Delimited(d, as)
             S == {k \in 0..n : Without(c, Flat(ds, k))}
  <1>1. /\ n \in Nat \ {0} /\ \A k \in 1..n : as[k] \in Seq(T) /\ Without(c, as[k])
        /\ ds \in Seq(Seq(T)) /\ Len(ds) = n
        /\ ds[1] = as[1] /\ \A k \in 1..n : k # 1 => ds[k] = d \o as[k]
    <2>1. d \in Seq(T) /\ as \in Seq(Seq(T)) /\ as # <<>>
      BY Zenon
    <2>2. DelimitedAre(T, d, as)
      BY <2>1, AreDelimited
    <2>. QED  BY <2>2, Zenon DEF DelimitedAre, AllWithout
  <1> HIDE DEF n
  <1>2. /\ Flat(ds, 0) = <<>> /\ Flat(ds, n) = FlattenSeq(ds)
        /\ \A k \in 0..n : Flat(ds, k) \in Seq(T)
        /\ \A k \in 0..n-1 : Flat(ds, k + 1) = Flat(ds, k) \o ds[k + 1]
    <2> HIDE DEF ds
    <2>1. /\ Flat(ds, 0) = <<>> /\ Flat(ds, Len(ds)) = FlattenSeq(ds)
          /\ \A k \in 0..Len(ds) : Flat(ds, k) \in Seq(T)
          /\ \A k \in 0..Len(ds)-1 : Flat(ds, k + 1) = Flat(ds, k) \o ds[k + 1]
      BY <1>1, FlatSteps
    <2>. QED  BY <1>1, <2>1
  <1> HIDE DEF ds
  <1>3. 0 \in S
    <2>1. Without(c, <<>>)
      BY DEF Without
    <2>. QED  BY <1>1, <1>2, <2>1
  <1>4. ASSUME NEW k \in 0..n-1, k \in S PROVE k + 1 \in S
    <2>1. k + 1 \in 1..n /\ k \in 0..n /\ k + 1 \in 0..n
      BY <1>1
    <2> DEFINE a == as[k + 1]
               b == ds[k + 1]
               u == Flat(ds, k)
    <2>2. a \in Seq(T) /\ Without(c, a) /\ u \in Seq(T) /\ Without(c, u)
      BY <1>1, <1>2, <1>4, <2>1
    <2>3. Flat(ds, k + 1) = u \o b
      BY <1>2
    <2>4. b = a \/ b = d \o a
      BY <1>1, <2>1, Zenon
    <2> HIDE DEF a, u, b
    <2>5. d \o a \in Seq(T) /\ Without(c, d \o a)
      BY <2>2, WithoutBoth
    <2>6. b \in Seq(T) /\ Without(c, b)
      BY <2>2, <2>4, <2>5, Zenon
    <2>7. Without(c, u \o b)
      BY <2>2, <2>6, WithoutBoth
    <2>. QED  BY <2>1, <2>3, <2>7
  <1>5. n \in S => Without(c, FlattenSeq(ds))
    BY <1>2
  <1> HIDE DEF S
  <1>6. n \in S
    <2>1. n \in Nat /\ n \in 0..n
      BY <1>1
    <2>2. \A k \in 0..n : k \in S
      BY <2>1, <1>3, <1>4, Induction
    <2>. QED  BY <2>1, <2>2
  <1>7. Between(d, as) = FlattenSeq(ds)
    BY Zenon DEF Between, Delimited, ds, n
  <1>. QED  BY <1>5, <1>6, <1>7

(* A text without the first character of the delimiter is one piece. *)
LEMMA SplitWithout ==
  ASSUME NEW T, NEW s \in Seq(T), NEW d \in Seq(T), d # <<>>, Without(d[1], s)
  PROVE  Split(s, d) = <<s>>
  <1>1. <<s>> \in Seq(Seq(T))
    BY FlattenOne, Zenon
  <1>2. Cuts(T, d, <<>>, <<>>)
    BY CutsNothing
  <1>3. <<>> \in Seq(T) /\ <<>> \in Seq(Seq(T))
    OBVIOUS
  <1>4. Split(<<>> \o s, d) = <<>> \o <<s>>
    BY <1>2, <1>3, CutsAtEnd, ZenonT(30)
  <1>5. <<>> \o s = s /\ <<>> \o <<s>> = <<s>>
    BY <1>1, ConcatEmptySeq, Zenon
  <1>. QED  BY <1>4, <1>5

(* A row up to its end. *)
RowFront(vs) == <<"(">> \o Between(<<Comma>>, vs)

LEMMA FrontTyped ==
  ASSUME NEW T, RowSigns(T), NEW vs \in Seq(Seq(T)), vs # <<>>,
         \A c \in {Comma, "(", ")"} : AllWithout(c, vs)
  PROVE  /\ Between(<<Comma>>, vs) \in Seq(T) /\ RowFront(vs) \in Seq(T)
         /\ Without("(", Between(<<Comma>>, vs)) /\ Without(")", RowFront(vs))
         /\ RowText(vs) = RowFront(vs) \o <<")">>
         /\ Split(Between(<<Comma>>, vs), <<Comma>>) = vs
  <1> DEFINE C == <<Comma>>
             W == Between(C, vs)
             p == <<"(">>
             q == <<")">>
  <1>1. /\ C \in Seq(T) /\ p \in Seq(T) /\ q \in Seq(T) /\ C # <<>> /\ C[1] = Comma
    <2>1. Comma \in T /\ "(" \in T /\ ")" \in T
      BY DEF RowSigns, Signs
    <2>. QED  BY <2>1
  <1>2. Without(")", C) /\ Without(")", p) /\ Without("(", C)
    <2>1. Comma # ")" /\ Comma # "(" /\ "(" # ")"
      BY DEF Comma
    <2>. QED  BY <2>1, WithoutOther
  <1> HIDE DEF C, p, q
  <1>3. W \in Seq(T)
    BY <1>1, BetweenTyped
  <1>4. AllWithout(C[1], vs) /\ AllWithout("(", vs) /\ AllWithout(")", vs)
    BY <1>1
  <1>5. Split(W, C) = vs
    BY <1>1, <1>4, SplitBetween
  <1>6. Without("(", W) /\ Without(")", W)
    BY <1>1, <1>2, <1>4, WithoutBetween
  <1> HIDE DEF W
  <1>7. p \o W \in Seq(T) /\ Without(")", p \o W)
    BY <1>1, <1>2, <1>3, <1>6, WithoutBoth
  <1>8. Assoc(p, W, q)
    BY <1>1, <1>3, Associates
  <1>. QED  BY <1>3, <1>5, <1>6, <1>7, <1>8, Zenon DEF Assoc, RowText, RowFront, p, q, W, C

(* The rows of a statement are read as they were written. *)
LEMMA RowsAreRead ==
  ASSUME NEW T, NEW columns, NEW items, Inserted(T, columns, items)
  PROVE  RowsOf(Filled(columns[1], RowsText(columns, items)))
           = [k \in 1..Len(items) |-> ValuesOf(columns, items[k])]
  <1> DEFINE n == Len(items)
             c == columns[1]
             i == <<"insert">>
             H == Heading(c)
             l == i \o H
             R == RowsText(columns, items)
             r == <<"returning">>
             C == <<Comma>>
             p == <<"(">>
             q == <<")">>
             s == Filled(c, R)
             v(k) == ValuesOf(columns, items[k])
  <1>1. n \in Nat
    BY Zenon DEF Inserted
  <1>2. InsertSigns(T) /\ RowSigns(T) /\ Signs(T) /\ c \in Seq(T)
    BY InsertTyped, Zenon
  <1>3. /\ columns \in Seq(Seq(T)) /\ columns # <<>>
        /\ Without("(", c) /\ Without(")", c)
    BY Zenon DEF Inserted
  <1>4. /\ i \in Seq(T) /\ r \in Seq(T) /\ C \in Seq(T) /\ p \in Seq(T) /\ q \in Seq(T)
        /\ <<"values">> \in Seq(T)
    <2>1. /\ "insert" \in T /\ "values" \in T /\ "returning" \in T /\ Comma \in T /\ "(" \in T /\ ")" \in T
      BY <1>2 DEF InsertSigns, RowSigns, Signs
    <2>. QED  BY <2>1
  <1>5. /\ Without("(", i) /\ Without(")", i) /\ Without(")", r) /\ Without("(", C) /\ Without(")", C)
        /\ Without("(", <<"values">>) /\ Without(")", <<"values">>)
    <2>1. /\ "insert" # "(" /\ "insert" # ")" /\ "returning" # ")" /\ Comma # ")" /\ Comma # "("
          /\ "values" # "(" /\ "values" # ")"
      BY DEF Comma
    <2>. QED  BY <2>1, WithoutOther
  <1>6. p # <<>> /\ p[1] = "(" /\ q # <<>> /\ q[1] = ")"
    OBVIOUS
  <1>7. H \in Seq(T) /\ Without("(", H) /\ Without(")", H)
    BY <1>2, <1>3, <1>4, <1>5, WithoutBoth, Zenon DEF Heading
  <1> HIDE DEF i, H, r, C, p, q
  <1>8. l \in Seq(T) /\ Without("(", l) /\ Without(")", l)
    BY <1>4, <1>5, <1>7, WithoutBoth
  <1>9. R \in Seq(T)
    BY InsertIs
  <1>10. s = (l \o R) \o r
    <2> HIDE DEF R
    <2> DEFINE Rr == R \o r
    <2>1. Rr \in Seq(T)
      BY <1>4, <1>9, ConcatProperties
    <2>2. Assoc(i, H, Rr)
      BY <1>4, <1>7, <2>1, Associates
    <2> HIDE DEF H
    <2>3. l \in Seq(T)
      BY <1>8
    <2> HIDE DEF l
    <2>4. Assoc(l, R, r)
      BY <1>4, <1>9, <2>3, Associates
    <2>5. s = i \o (H \o (R \o r))
      BY Zenon DEF Filled, i, r, H
    <2>. QED  BY <2>2, <2>4, <2>5, Zenon DEF Assoc, l
  <1>11. ASSUME NEW k \in 1..n
         PROVE  /\ Between(C, v(k)) \in Seq(T) /\ RowFront(v(k)) \in Seq(T)
                /\ Without("(", Between(C, v(k))) /\ Without(")", RowFront(v(k)))
                /\ RowText(v(k)) = RowFront(v(k)) \o q
                /\ Split(Between(C, v(k)), C) = v(k)
    <2>1. v(k) # <<>>
      BY InsertTyped, Zenon
    <2>2. v(k) \in Seq(Seq(T)) /\ \A d \in {Comma, "(", ")"} : AllWithout(d, v(k))
      BY Zenon DEF Inserted
    <2> HIDE DEF v
    <2>. QED  BY <1>2, <2>1, <2>2, FrontTyped, Zenon DEF C, q
  <1> HIDE DEF l
  <1>12. CASE n = 0
    <2>1. R = <<>>
      BY <1>12, Zenon DEF RowsText
    <2>2. l \o R = l
      BY <1>8, <2>1, ConcatEmptySeq, Zenon
    <2>3. l \o r \in Seq(T) /\ Without(")", l \o r)
      BY <1>4, <1>5, <1>8, WithoutBoth
    <2> DEFINE z == l \o r
    <2>4. s = z
      BY <1>10, <2>2
    <2> HIDE DEF s, z
    <2>5. z \in Seq(T) /\ Without(q[1], z)
      BY <1>6, <2>3 DEF z
    <2>6. Split(z, q) = <<z>>
      BY <1>4, <1>6, <2>5, SplitWithout
    <2>7. Len(<<z>>) = 1 /\ 1 - 1 = 0
      OBVIOUS
    <2>8. RowsOf(s) = [k \in 1..0 |-> Split(Split(<<z>>[k], <<"(">>)[2], <<Comma>>)]
      BY <2>4, <2>6, <2>7, Zenon DEF RowsOf, q
    <2>9. 1..0 = {}
      OBVIOUS
    <2>10. [k \in 1..0 |-> Split(Split(<<z>>[k], <<"(">>)[2], <<Comma>>)] = [k \in 1..n |-> v(k)]
      BY <1>12, <2>9
    <2>. QED  BY <2>8, <2>10 DEF s, v
  <1>13. CASE n # 0
    <2> DEFINE A == Seq(T)
               fs == [k \in 1..n |-> RowFront(v(k))]
               ts == RowTexts(columns, items)
               ps == Led(l, C, fs)
               x(k) == IF k = 1 THEN l ELSE C
    <2>1. fs \in Seq(A) /\ Len(fs) = n /\ \A k \in 1..n : fs[k] = RowFront(v(k))
      <3> DEFINE f(k) == RowFront(v(k))
      <3>1. \A k \in 1..n : f(k) \in A
        BY <1>11, Zenon
      <3> HIDE DEF f, A, n, v
      <3>2. [k \in 1..n |-> f(k)] \in Seq(A) /\ Len([k \in 1..n |-> f(k)]) = n
            /\ \A k \in 1..n : [j \in 1..n |-> f(j)][k] = f(k)
        BY <1>1, <3>1
      <3>. QED  BY <3>2, Zenon DEF f
    <2>2. ts = Ended(q, fs)
      <3>1. ts = [k \in 1..n |-> RowText(v(k))]
        BY Zenon DEF RowTexts
      <3>2. Ended(q, fs) = [k \in 1..n |-> fs[k] \o q]
        BY <2>1, Zenon DEF Ended
      <3>3. \A k \in 1..n : RowText(v(k)) = fs[k] \o q
        BY <1>11, <2>1, Zenon
      <3>4. [k \in 1..n |-> RowText(v(k))] = [k \in 1..n |-> fs[k] \o q]
        <4> HIDE DEF fs, v, n
        <4>. QED  BY <3>3
      <3>. QED  BY <3>1, <3>2, <3>4
    <2>3. ts \in Seq(Seq(T)) /\ Len(ts) = n
      <3>1. AreRows(T, columns, items)
        BY RowsTyped
      <3>. QED  BY <3>1, Zenon DEF AreRows
    <2>4. ts # <<>>
      <3> HIDE DEF ts, n
      <3>. QED  BY <1>13, <2>3, EmptySeq
    <2>5. R = Between(C, ts)
      BY <1>13, Zenon DEF RowsText, C
    <2> HIDE DEF ts, R, fs
    <2>6. /\ ps \in Seq(Seq(T)) /\ Len(ps) = n /\ \A k \in 1..n : ps[k] = x(k) \o fs[k]
      <3>1. LedAre(T, l, C, fs)
        BY <1>4, <1>8, <2>1, AreLed
      <3>. QED  BY <2>1, <3>1, Zenon DEF LedAre
    <2>7. l \o R = FlattenSeq(Ended(q, ps))
      <3>1. FlattenSeq(Led(l, C, ts)) = l \o Between(C, ts)
        BY <1>4, <1>8, <2>3, <2>4, LedBetween
      <3>2. Led(l, C, Ended(q, fs)) = Ended(q, ps)
        BY <1>4, <1>8, <2>1, LedEnded
      <3>. QED  BY <2>2, <2>5, <3>1, <3>2, Zenon
    <2>8. ASSUME NEW k \in 1..n
          PROVE  /\ x(k) \in Seq(T) /\ Without("(", x(k)) /\ Without(")", x(k))
                 /\ fs[k] = p \o Between(C, v(k)) /\ fs[k] \in Seq(T) /\ Without(")", fs[k])
      <3>1. x(k) \in Seq(T) /\ Without("(", x(k)) /\ Without(")", x(k))
        BY <1>4, <1>5, <1>8
      <3>2. fs[k] = p \o Between(C, v(k)) /\ fs[k] \in Seq(T) /\ Without(")", fs[k])
        BY <1>11, <2>1, Zenon DEF RowFront, p, C
      <3>. QED  BY <3>1, <3>2
    <2> HIDE DEF ps, x, v, n
    <2>9. AllWithout(q[1], ps)
      <3> SUFFICES ASSUME NEW k \in 1..n PROVE Without(")", ps[k])
        BY <1>6, <2>6, Zenon DEF AllWithout
      <3> DEFINE a == x(k)
                 b == fs[k]
      <3>1. a \in Seq(T) /\ b \in Seq(T) /\ Without(")", a) /\ Without(")", b) /\ ps[k] = a \o b
        BY <2>6, <2>8
      <3> HIDE DEF a, b
      <3>. QED  BY <3>1, WithoutBoth
    <2>10. Split(s, q) = ps \o <<r>>
      <3> DEFINE u == FlattenSeq(Ended(q, ps))
      <3>1. Ended(q, ps) \in Seq(Seq(T)) /\ Cuts(T, q, u, ps)
        BY <1>4, <1>6, <2>6, <2>9, CutsEnded
      <3>2. u \in Seq(T)
        <4> DEFINE es == Ended(q, ps)
        <4> HIDE DEF es
        <4>1. FlattenSeq(es) \in Seq(T)
          BY <3>1, FlatSteps DEF es
        <4>. QED  BY <4>1 DEF es
      <3>3. Without(q[1], r)
        BY <1>5, <1>6
      <3> HIDE DEF u
      <3>4. Split(u \o r, q) = ps \o <<r>>
        <4>1. q \in Seq(T) /\ q # <<>> /\ r \in Seq(T) /\ ps \in Seq(Seq(T)) /\ Cuts(T, q, u, ps)
          BY <1>4, <1>6, <2>6, <3>1 DEF u
        <4>. QED  BY <3>2, <3>3, <4>1, CutsAtEnd
      <3>. QED  BY <1>10, <2>7, <3>4, Zenon DEF u
    <2> DEFINE rows == ps \o <<r>>
    <2>11. Len(rows) = n + 1 /\ \A k \in 1..n : rows[k] = ps[k]
      <3> DEFINE B1 == Seq(T)
                 w == <<r>>
      <3>1. r \in B1 /\ ps \in Seq(B1)
        BY <1>4, <2>6
      <3> HIDE DEF B1
      <3>2. w \in Seq(B1) /\ Len(w) = 1
        BY <3>1
      <3> HIDE DEF w
      <3>3. Joint(ps, w)
        BY <3>1, <3>2, AreJoint
      <3>. QED  BY <2>6, <3>2, <3>3, Zenon DEF Joint, w
    <2> HIDE DEF rows
    <2>12. Len(rows) - 1 = n
      BY <1>1, <2>11 DEF n
    <2>13. ASSUME NEW k \in 1..n
           PROVE  Split(Split(rows[k], p)[2], C) = v(k)
      <3> DEFINE a == x(k)
                 w == Between(C, v(k))
                 u == a \o p
      <3>1. a \in Seq(T) /\ Without("(", a) /\ w \in Seq(T) /\ Without("(", w)
            /\ Split(w, C) = v(k)
        BY <1>11, <2>8 DEF n
      <3>2. rows[k] = a \o (p \o w)
        BY <2>6, <2>8, <2>11, Zenon
      <3> HIDE DEF a, w
      <3>3. u \in Seq(T)
        BY <1>4, <3>1, ConcatProperties
      <3>4. Assoc(a, p, w)
        BY <1>4, <3>1, Associates
      <3>5. Cuts(T, p, u, <<a>>)
        BY <1>4, <1>6, <3>1, CutsPiece
      <3> HIDE DEF u
      <3>6. <<a>> \in Seq(Seq(T))
        BY <3>1, FlattenOne, Zenon
      <3>7. Without(p[1], w)
        BY <1>6, <3>1
      <3>8. Split(u \o w, p) = <<a>> \o <<w>>
        <4>1. p \in Seq(T) /\ p # <<>> /\ w \in Seq(T)
          BY <1>4, <1>6, <3>1
        <4>. QED  BY <3>3, <3>5, <3>6, <3>7, <4>1, CutsAtEnd
      <3>9. (<<a>> \o <<w>>)[2] = w
        OBVIOUS
      <3>. QED  BY <3>1, <3>2, <3>4, <3>8, <3>9, Zenon DEF Assoc, u
    <2>14. RowsOf(s) = [k \in 1..Len(rows) - 1 |-> Split(Split(rows[k], p)[2], C)]
      BY <2>10, Zenon DEF RowsOf, rows, p, q, C
    <2>15. [k \in 1..n |-> Split(Split(rows[k], p)[2], C)] = [k \in 1..n |-> v(k)]
      BY <2>13
    <2>. QED  BY <2>12, <2>14, <2>15, Zenon DEF v, n, s, R, c
  <1>. QED  BY <1>12, <1>13 DEF s, R, c

(* Texts one behind the other are cut one after the other. *)
LEMMA CutsFlattened ==
  ASSUME NEW T, NEW d \in Seq(T), d # <<>>,
         NEW us \in Seq(Seq(T)), NEW pss \in Seq(Seq(Seq(T))), Len(pss) = Len(us),
         \A k \in 1..Len(us) : Cuts(T, d, us[k], pss[k])
  PROVE  /\ FlattenSeq(us) \in Seq(T) /\ FlattenSeq(pss) \in Seq(Seq(T))
         /\ Cuts(T, d, FlattenSeq(us), FlattenSeq(pss))
  <1> DEFINE n == Len(us)
             A == Seq(T)
             S == {k \in 0..n : Cuts(T, d, Flat(us, k), Flat(pss, k))}
  <1>1. n \in Nat /\ \A k \in 1..n : us[k] \in Seq(T)
    BY LenProperties, ElementOfSeq, Zenon
  <1>2. \A k \in 1..n : pss[k] \in Seq(Seq(T))
    BY ElementOfSeq, Zenon
  <1>3. /\ Flat(us, 0) = <<>> /\ Flat(us, n) = FlattenSeq(us)
        /\ \A k \in 0..n : Flat(us, k) \in Seq(T)
        /\ \A k \in 0..n-1 : Flat(us, k + 1) = Flat(us, k) \o us[k + 1]
    BY FlatSteps, Zenon
  <1>4. /\ Flat(pss, 0) = <<>> /\ Flat(pss, n) = FlattenSeq(pss)
        /\ \A k \in 0..n : Flat(pss, k) \in Seq(A)
        /\ \A k \in 0..n-1 : Flat(pss, k + 1) = Flat(pss, k) \o pss[k + 1]
    <2>1. pss \in Seq(Seq(A)) /\ Len(pss) = n
      OBVIOUS
    <2> HIDE DEF A, n
    <2>2. /\ Flat(pss, 0) = <<>> /\ Flat(pss, Len(pss)) = FlattenSeq(pss)
          /\ \A k \in 0..Len(pss) : Flat(pss, k) \in Seq(A)
          /\ \A k \in 0..Len(pss)-1 : Flat(pss, k + 1) = Flat(pss, k) \o pss[k + 1]
      BY <2>1, FlatSteps, Zenon
    <2>. QED  BY <2>1, <2>2
  <1>5. \A k \in 1..n : Cuts(T, d, us[k], pss[k])
    OBVIOUS
  <1> HIDE DEF n
  <1>6. 0 \in S
    <2>1. Cuts(T, d, <<>>, <<>>)
      BY CutsNothing
    <2>. QED  BY <1>1, <1>3, <1>4, <2>1
  <1>7. ASSUME NEW k \in 0..n-1, k \in S PROVE k + 1 \in S
    <2>1. k + 1 \in 1..n /\ k \in 0..n /\ k + 1 \in 0..n
      BY <1>1
    <2> DEFINE a == us[k + 1]
               b == pss[k + 1]
               u == Flat(us, k)
               v == Flat(pss, k)
    <2>2. a \in Seq(T) /\ u \in Seq(T) /\ b \in Seq(Seq(T)) /\ v \in Seq(Seq(T))
      BY <1>1, <1>2, <1>3, <1>4, <2>1, Zenon
    <2>3. Cuts(T, d, u, v) /\ Cuts(T, d, a, b)
      BY <1>5, <1>7, <2>1
    <2>4. Flat(us, k + 1) = u \o a /\ Flat(pss, k + 1) = v \o b
      BY <1>3, <1>4
    <2> HIDE DEF a, b, u, v
    <2>5. Cuts(T, d, u \o a, v \o b)
      BY <2>2, <2>3, CutsBoth
    <2>. QED  BY <2>1, <2>4, <2>5
  <1>8. n \in S => Cuts(T, d, FlattenSeq(us), FlattenSeq(pss))
    BY <1>3, <1>4
  <1> HIDE DEF S
  <1>9. n \in S /\ n \in 0..n
    <2>1. n \in Nat /\ n \in 0..n
      BY <1>1
    <2>2. \A k \in 0..n : k \in S
      BY <2>1, <1>6, <1>7, Induction
    <2>. QED  BY <2>1, <2>2
  <1>. QED  BY <1>3, <1>4, <1>8, <1>9, Zenon DEF A

(* Pairs one behind the other. *)
PairAt(s, pss, k) == s[2*k - 1] = pss[k][1] /\ s[2*k] = pss[k][2]

LEMMA PairsFlattened ==
  ASSUME NEW A, NEW pss \in Seq(Seq(A)), \A k \in 1..Len(pss) : Len(pss[k]) = 2
  PROVE  /\ Len(FlattenSeq(pss)) = 2 * Len(pss)
         /\ \A k \in 1..Len(pss) : PairAt(FlattenSeq(pss), pss, k)
  <1> DEFINE n == Len(pss)
             S == {k \in 0..n : /\ Len(Flat(pss, k)) = 2 * k
                                /\ \A j \in 1..k : PairAt(Flat(pss, k), pss, j)}
  <1>1. n \in Nat /\ \A k \in 1..n : pss[k] \in Seq(A) /\ Len(pss[k]) = 2
    BY LenProperties, ElementOfSeq, Zenon
  <1>2. /\ Flat(pss, 0) = <<>> /\ Flat(pss, n) = FlattenSeq(pss)
        /\ \A k \in 0..n : Flat(pss, k) \in Seq(A)
        /\ \A k \in 0..n-1 : Flat(pss, k + 1) = Flat(pss, k) \o pss[k + 1]
    BY FlatSteps, Zenon
  <1> HIDE DEF n
  <1>3. 0 \in S
    <2>1. Len(<<>>) = 0
      BY EmptySeq
    <2>2. 2 * 0 = 0 /\ 1..0 = {} /\ 0 \in 0..n
      BY <1>1
    <2>. QED  BY <1>2, <2>1, <2>2, Zenon
  <1>4. ASSUME NEW k \in 0..n-1, k \in S PROVE k + 1 \in S
    <2>1. k + 1 \in 1..n /\ k \in 0..n /\ k + 1 \in 0..n /\ k \in Nat
      BY <1>1
    <2> DEFINE b == pss[k + 1]
               u == Flat(pss, k)
               s == u \o b
    <2>2. u \in Seq(A) /\ b \in Seq(A) /\ Len(b) = 2
      BY <1>1, <1>2, <2>1, Zenon
    <2>3. Len(u) = 2 * k /\ \A j \in 1..k : PairAt(u, pss, j)
      BY <1>4, Zenon
    <2>4. Flat(pss, k + 1) = s
      BY <1>2
    <2> HIDE DEF b, u
    <2>5. Joint(u, b)
      BY <2>2, AreJoint
    <2> HIDE DEF s
    <2>6. /\ Len(s) = 2 * k + 2
          /\ \A i \in 1..2*k : s[i] = u[i]
          /\ \A i \in 1..2 : s[2*k + i] = b[i]
      BY <2>2, <2>3, <2>5 DEF Joint, s
    <2>7. ASSUME NEW j \in 1..k + 1 PROVE PairAt(s, pss, j)
      <3>1. CASE j = k + 1
        <4>1. 2*j - 1 = 2*k + 1 /\ 2*j = 2*k + 2 /\ 1 \in 1..2 /\ 2 \in 1..2
          BY <2>1, <3>1
        <4>2. s[2*j - 1] = b[1] /\ s[2*j] = b[2]
          BY <2>6, <4>1
        <4>. QED  BY <3>1, <4>2 DEF PairAt, b
      <3>2. CASE j # k + 1
        <4>1. j \in 1..k /\ 2*j - 1 \in 1..2*k /\ 2*j \in 1..2*k
          BY <2>1, <3>2
        <4>2. PairAt(u, pss, j)
          BY <2>3, <4>1
        <4>3. s[2*j - 1] = u[2*j - 1] /\ s[2*j] = u[2*j]
          BY <2>6, <4>1
        <4>. QED  BY <4>2, <4>3 DEF PairAt
      <3>. QED  BY <3>1, <3>2
    <2>8. 2 * k + 2 = 2 * (k + 1)
      BY <2>1
    <2>. QED  BY <2>1, <2>4, <2>6, <2>7, <2>8, Zenon
  <1>5. n \in S => /\ Len(FlattenSeq(pss)) = 2 * n
                   /\ \A k \in 1..n : PairAt(FlattenSeq(pss), pss, k)
    BY <1>2
  <1> HIDE DEF S
  <1>6. n \in S
    <2>1. n \in Nat /\ n \in 0..n
      BY <1>1
    <2>2. \A k \in 0..n : k \in S
      BY <2>1, <1>3, <1>4, Induction
    <2>. QED  BY <2>1, <2>2
  <1>. QED  BY <1>5, <1>6 DEF n

InQuotes(values) == [k \in DOMAIN values |-> AsSql(values[k])]

QuotedAre(T, values) ==
  /\ InQuotes(values) \in Seq(Seq(T)) /\ Len(InQuotes(values)) = Len(values)
  /\ \A k \in 1..Len(values) : InQuotes(values)[k] = (<<Quote1>> \o values[k]) \o <<Quote1>>
  /\ Listed(InQuotes(values)) = Between(<<Comma>>, InQuotes(values))

LEMMA AreQuoted ==
  ASSUME NEW T, {Quote1, Comma} \subseteq T, NEW values \in Seq(Seq(T))
  PROVE  QuotedAre(T, values)
  <1> DEFINE n == Len(values)
             A == Seq(T)
             Q == <<Quote1>>
             b(k) == (Q \o values[k]) \o Q
             qs == [k \in 1..n |-> b(k)]
  <1>1. n \in Nat /\ DOMAIN values = 1..n /\ \A k \in 1..n : values[k] \in A
    BY LenProperties, ElementOfSeq, Zenon
  <1>2. Q \in Seq(T)
    OBVIOUS
  <1> HIDE DEF n, Q
  <1>3. ASSUME NEW k \in 1..n PROVE b(k) \in A
    <2> DEFINE a == values[k]
               c == Q \o a
    <2>1. a \in Seq(T)
      BY <1>1
    <2> HIDE DEF a
    <2>2. c \in Seq(T)
      BY <1>2, <2>1, ConcatProperties
    <2> HIDE DEF c
    <2>3. c \o Q \in Seq(T)
      BY <1>2, <2>2, ConcatProperties
    <2>. QED  BY <2>3 DEF a, c
  <1> HIDE DEF A, b
  <1>4. qs \in Seq(A) /\ Len(qs) = n /\ \A k \in 1..n : qs[k] = b(k)
    BY <1>1, <1>3
  <1>5. qs = InQuotes(values)
    BY <1>1, Zenon DEF InQuotes, AsSql, b, Q
  <1>6. DOMAIN qs = 1..Len(qs)
    BY <1>4, LenProperties, Zenon
  <1> HIDE DEF qs
  <1>7. Listed(qs) = Between(<<Comma>>, qs)
    BY <1>6, Zenon DEF Listed, Between
  <1>. QED  BY <1>4, <1>5, <1>7, Zenon DEF QuotedAre, A, b, n, Q

(* What the reader of a list finds: the values, and what is around them. *)
ReadAs(l, values, text) ==
  /\ Literals(text) = values
  /\ values # <<>> => Around(text)[1] = l
  /\ \A k \in 2..Len(values) : Around(text)[k] = <<Comma>>

LEMMA HalfOf ==
  ASSUME NEW n \in Nat
  PROVE  ((2 * n + 1) - 1) \div 2 = n /\ ((2 * n + 1) + 1) \div 2 = n + 1
  OBVIOUS

LEMMA QuotedAreRead ==
  ASSUME NEW T, {Quote1, Comma} \subseteq T, NEW l \in Seq(T), Without(Quote1, l),
         NEW values \in Seq(Seq(T)), values # <<>>, AllWithout(Quote1, values),
         NEW z \in Seq(T), Without(Quote1, z)
  PROVE  ReadAs(l, values, (l \o Listed(InQuotes(values))) \o z)
  <1> DEFINE n == Len(values)
             Q == <<Quote1>>
             C == <<Comma>>
             qs == InQuotes(values)
             ls == Led(l, C, qs)
             x(k) == IF k = 1 THEN l ELSE C
             A == Seq(T)
             pair(k) == <<x(k)>> \o <<values[k]>>
             pss == [k \in 1..n |-> pair(k)]
             fs == FlattenSeq(pss)
             text == (l \o Listed(qs)) \o z
  <1>1. /\ n \in Nat /\ n # 0 /\ DOMAIN values = 1..n
        /\ \A k \in 1..n : values[k] \in Seq(T) /\ Without(Quote1, values[k])
    <2>1. n \in Nat /\ DOMAIN values = 1..n
      BY LenProperties, Zenon
    <2>2. n # 0
      BY EmptySeq
    <2>3. \A k \in 1..n : values[k] \in Seq(T) /\ Without(Quote1, values[k])
      BY ElementOfSeq, Zenon DEF AllWithout
    <2>. QED  BY <2>1, <2>2, <2>3, Zenon
  <1>2. Q \in Seq(T) /\ C \in Seq(T) /\ Q # <<>> /\ Q[1] = Quote1
    OBVIOUS
  <1>3. Without(Quote1, C)
    <2>1. Comma # Quote1
      BY DEF Comma, Quote1
    <2>. QED  BY <2>1, WithoutOther
  <1>4. /\ qs \in Seq(Seq(T)) /\ Len(qs) = n /\ Listed(qs) = Between(C, qs)
        /\ \A k \in 1..n : qs[k] = (Q \o values[k]) \o Q
    <2>1. QuotedAre(T, values)
      BY AreQuoted
    <2>. QED  BY <2>1, ZenonT(30) DEF QuotedAre
  <1> HIDE DEF qs, Q, C
  <1>5. /\ ls \in Seq(Seq(T)) /\ Len(ls) = n /\ \A k \in 1..n : ls[k] = x(k) \o qs[k]
    <2>1. LedAre(T, l, C, qs)
      BY <1>2, <1>4, AreLed
    <2>. QED  BY <1>4, <2>1, Zenon DEF LedAre
  <1>6. FlattenSeq(ls) = l \o Listed(qs)
    <2>1. qs # <<>>
      <3> HIDE DEF n
      <3>. QED  BY <1>1, <1>4, EmptySeq
    <2>. QED  BY <1>2, <1>4, <2>1, LedBetween
  <1>7. ASSUME NEW k \in 1..n
        PROVE  x(k) \in Seq(T) /\ Without(Quote1, x(k))
    BY <1>2, <1>3
  <1> HIDE DEF ls, x, n
  <1>8. ASSUME NEW k \in 1..n
        PROVE  /\ pair(k) \in Seq(A) /\ Len(pair(k)) = 2
               /\ pair(k)[1] = x(k) /\ pair(k)[2] = values[k]
    <2> DEFINE a == x(k)
               b == values[k]
    <2>1. a \in A /\ b \in A
      BY <1>1, <1>7
    <2> HIDE DEF a, b, A
    <2>2. /\ <<a>> \o <<b>> \in Seq(A) /\ Len(<<a>> \o <<b>>) = 2
          /\ (<<a>> \o <<b>>)[1] = a /\ (<<a>> \o <<b>>)[2] = b
      BY <2>1
    <2>. QED  BY <2>2 DEF a, b
  <1>9. ASSUME NEW k \in 1..n PROVE Cuts(T, Q, ls[k], pair(k))
    <2> DEFINE a == x(k)
               b == values[k]
               aQ == a \o Q
               bQ == b \o Q
               Qb == Q \o b
    <2>1. a \in Seq(T) /\ b \in Seq(T) /\ Without(Q[1], a) /\ Without(Q[1], b)
      BY <1>1, <1>2, <1>7
    <2>2. ls[k] = a \o ((Q \o b) \o Q)
      BY <1>4, <1>5, Zenon
    <2> HIDE DEF a, b
    <2>3. aQ \in Seq(T) /\ bQ \in Seq(T)
      BY <1>2, <2>1, ConcatProperties
    <2>4. Assoc(Q, b, Q) /\ Assoc(a, Q, bQ)
      BY <1>2, <2>1, <2>3, Associates
    <2>5. ls[k] = aQ \o bQ
      BY <2>2, <2>4, Zenon DEF Assoc
    <2>6. Cuts(T, Q, aQ, <<a>>) /\ Cuts(T, Q, bQ, <<b>>)
      BY <1>2, <2>1, CutsPiece
    <2>7. <<a>> \in Seq(Seq(T)) /\ <<b>> \in Seq(Seq(T))
      BY <2>1, FlattenOne, Zenon
    <2> HIDE DEF aQ, bQ
    <2>8. Cuts(T, Q, aQ \o bQ, <<a>> \o <<b>>)
      BY <1>2, <2>3, <2>6, <2>7, CutsBoth
    <2>. QED  BY <2>5, <2>8 DEF a, b
  <1> HIDE DEF pair
  <1>10. /\ pss \in Seq(Seq(Seq(T))) /\ Len(pss) = n /\ \A k \in 1..n : pss[k] = pair(k)
    <2> DEFINE AA == Seq(A)
    <2>1. \A k \in 1..n : pair(k) \in AA
      BY <1>8
    <2> HIDE DEF AA
    <2>2. pss \in Seq(AA) /\ Len(pss) = n /\ \A k \in 1..n : pss[k] = pair(k)
      BY <1>1, <2>1
    <2>. QED  BY <2>2 DEF AA
  <1> HIDE DEF pss
  <1>11. /\ l \o Listed(qs) \in Seq(T) /\ fs \in Seq(Seq(T))
         /\ Cuts(T, Q, l \o Listed(qs), fs)
    <2>1. \A k \in 1..Len(ls) : Cuts(T, Q, ls[k], pss[k])
      BY <1>5, <1>9, <1>10
    <2>2. Len(pss) = Len(ls)
      BY <1>5, <1>10
    <2>3. FlattenSeq(ls) \in Seq(T) /\ fs \in Seq(Seq(T)) /\ Cuts(T, Q, FlattenSeq(ls), fs)
      BY <1>2, <1>5, <1>10, <2>1, <2>2, CutsFlattened, ZenonT(30)
    <2>. QED  BY <1>6, <2>3
  <1>12. /\ Len(fs) = 2 * n
         /\ \A k \in 1..n : fs[2*k - 1] = x(k) /\ fs[2*k] = values[k]
    <2>1. \A k \in 1..Len(pss) : Len(pss[k]) = 2
      BY <1>8, <1>10
    <2>2. pss \in Seq(Seq(A))
      BY <1>10
    <2> HIDE DEF A
    <2>3. Len(fs) = 2 * Len(pss) /\ \A k \in 1..Len(pss) : PairAt(fs, pss, k)
      BY <2>1, <2>2, PairsFlattened
    <2> HIDE DEF fs
    <2>. QED  BY <1>8, <1>10, <2>3, Zenon DEF PairAt
  <1> DEFINE pieces == fs \o <<z>>
             s == l \o Listed(qs)
  <1> HIDE DEF fs
  <1>13. Split(text, Q) = pieces
    <2>1. s \in Seq(T) /\ Cuts(T, Q, s, fs) /\ fs \in Seq(Seq(T)) /\ Without(Q[1], z)
      BY <1>2, <1>11
    <2> HIDE DEF s
    <2>2. Split(s \o z, Q) = fs \o <<z>>
      BY <1>2, <2>1, CutsAtEnd
    <2>. QED  BY <2>2 DEF s
  <1> HIDE DEF text
  <1>14. /\ Len(pieces) = 2 * n + 1
         /\ \A i \in 1..2*n : pieces[i] = fs[i]
    <2> DEFINE w == <<z>>
    <2>1. fs \in Seq(A) /\ z \in A
      BY <1>11
    <2> HIDE DEF A
    <2>2. w \in Seq(A) /\ Len(w) = 1
      BY <2>1
    <2> HIDE DEF w
    <2>3. Joint(fs, w)
      BY <2>1, <2>2, AreJoint
    <2>. QED  BY <1>12, <2>2, <2>3, Zenon DEF Joint, w
  <1> HIDE DEF pieces
  <1>15. (Len(pieces) - 1) \div 2 = n /\ (Len(pieces) + 1) \div 2 = n + 1
    BY <1>1, <1>14, HalfOf, Zenon
  <1>16. \A k \in 1..n : pieces[2*k] = values[k] /\ pieces[2*k - 1] = x(k)
    <2>1. \A k \in 1..n : 2*k \in 1..2*n /\ 2*k - 1 \in 1..2*n
      BY <1>1
    <2>. QED  BY <1>12, <1>14, <2>1
  <1>17. Literals(text) = [k \in 1..n |-> pieces[2*k]]
    BY <1>13, <1>15, Zenon DEF Literals, Q
  <1>18. Literals(text) = values
    <2>1. [k \in 1..n |-> pieces[2*k]] = [k \in 1..n |-> values[k]]
      BY <1>16
    <2>2. [k \in 1..n |-> values[k]] = values
      <3> DEFINE B1 == Seq(T)
                 g == [k \in 1..n |-> values[k]]
      <3>1. values \in Seq(B1)
        OBVIOUS
      <3>2. \A k \in 1..n : values[k] \in B1
        BY <1>1
      <3> HIDE DEF B1
      <3>3. g \in Seq(B1) /\ Len(g) = n /\ \A k \in 1..n : g[k] = values[k]
        BY <1>1, <3>2
      <3> HIDE DEF g
      <3>4. values = g
        BY <3>1, <3>3, SeqEqual, Zenon DEF n
      <3>. QED  BY <3>4 DEF g
    <2>. QED  BY <1>17, <2>1, <2>2
  <1>19. Around(text) = [k \in 1..n + 1 |-> pieces[2*k - 1]]
    BY <1>13, <1>15, Zenon DEF Around, Q
  <1>20. ASSUME NEW k \in 1..n PROVE Around(text)[k] = x(k)
    <2>1. k \in 1..n + 1
      BY <1>1
    <2>2. Around(text)[k] = pieces[2*k - 1]
      BY <1>19, <2>1, Zenon
    <2>. QED  BY <1>16, <2>2
  <1>21. Around(text)[1] = l
    <2>1. 1 \in 1..n
      BY <1>1
    <2>. QED  BY <1>20, <2>1 DEF x
  <1>22. ASSUME NEW k \in 2..n PROVE Around(text)[k] = C
    <2>1. k \in 1..n /\ k # 1
      BY <1>1
    <2>. QED  BY <1>20, <2>1 DEF x
  <1>. QED  BY <1>18, <1>21, <1>22, Zenon DEF ReadAs, n, C, text, qs

(* A text without quotes has no values. *)
LEMMA NothingIsRead ==
  ASSUME NEW T, Quote1 \in T, NEW l, NEW text \in Seq(T), Without(Quote1, text)
  PROVE  ReadAs(l, <<>>, text)
  <1> DEFINE Q == <<Quote1>>
  <1>1. Q \in Seq(T) /\ Q # <<>> /\ Q[1] = Quote1
    OBVIOUS
  <1> HIDE DEF Q
  <1>2. Split(text, Q) = <<text>>
    BY <1>1, SplitWithout
  <1>3. Len(<<text>>) = 1 /\ (1 - 1) \div 2 = 0
    OBVIOUS
  <1>4. Literals(text) = [k \in 1..0 |-> <<text>>[2*k]]
    BY <1>2, <1>3, Zenon DEF Literals, Q
  <1>5. [k \in 1..0 |-> <<text>>[2*k]] = <<>>
    OBVIOUS
  <1>6. 2..Len(<<>>) = {}
    BY EmptySeq
  <1>. QED  BY <1>4, <1>5, <1>6, Zenon DEF ReadAs

(* A character that a text does not have is at none of its places. *)
LEMMA NotAmong ==
  ASSUME NEW A, NEW s \in Seq(A), NEW c, c \notin ToSet(s)
  PROVE  Without(c, s)
  BY LenProperties DEF ToSet, Without

ListSigns(T) == {Quote1, Comma, "in", "call", "(", ")", "select null"} \subseteq T

(* What the statements of a list say of its values, for either of them. *)
ListSaid(values, text) ==
  /\ Literals(text) = values
  /\ \A k \in 2..Len(values) : Around(text)[k] = <<Comma>>
  /\ values # <<>> => Last(Around(text)[1]) = "("

LEMMA ListOpens ==
  ASSUME NEW h
  PROVE  Last(<<h, "(">>) = "("
  BY DEF Last

LEMMA QuotedListIsSaid ==
  ASSUME NEW T, ListSigns(T), NEW h \in {"in", "call"},
         NEW values \in Seq(Seq(T)), values # <<>>, AllWithout(Quote1, values)
  PROVE  ListSaid(values, (<<h, "(">> \o Listed(InQuotes(values))) \o <<")">>)
  <1> DEFINE l == <<h, "(">>
             z == <<")">>
             text == (l \o Listed(InQuotes(values))) \o z
  <1>1. h \in T /\ "(" \in T /\ ")" \in T /\ {Quote1, Comma} \subseteq T
    BY DEF ListSigns
  <1>2. l \in Seq(T) /\ z \in Seq(T)
    BY <1>1
  <1>3. h # Quote1 /\ "(" # Quote1 /\ ")" # Quote1
    BY DEF Quote1
  <1>4. Without(Quote1, l) /\ Without(Quote1, z)
    BY <1>3 DEF Without
  <1>5. Last(l) = "("
    BY ListOpens
  <1> HIDE DEF l, z
  <1>6. ReadAs(l, values, text)
    BY <1>1, <1>2, <1>4, QuotedAreRead
  <1> HIDE DEF text
  <1>7. ListSaid(values, text)
    BY <1>5, <1>6, Zenon DEF ReadAs, ListSaid
  <1>. QED  BY <1>7 DEF text, l, z

LEMMA EmptyListIsSaid ==
  ASSUME NEW T, ListSigns(T), NEW text \in Seq(T), Without(Quote1, text)
  PROVE  ListSaid(<<>>, text)
  <1>1. Quote1 \in T
    BY DEF ListSigns
  <1>2. ReadAs(<<>>, <<>>, text)
    BY <1>1, NothingIsRead
  <1>. QED  BY <1>2, Zenon DEF ReadAs, ListSaid

LEMMA OpeningTyped ==
  ASSUME NEW T, NEW h \in T, "(" \in T, h # Quote1
  PROVE  <<h, "(">> \in Seq(T) /\ Without(Quote1, <<h, "(">>)
  <1>1. <<h, "(">> \in Seq(T)
    OBVIOUS
  <1>2. "(" # Quote1
    BY DEF Quote1
  <1>3. Without(Quote1, <<h, "(">>)
    BY <1>2 DEF Without
  <1>. QED  BY <1>1, <1>3

LEMMA OneTyped ==
  ASSUME NEW T, NEW h \in T, h # Quote1
  PROVE  <<h>> \in Seq(T) /\ Without(Quote1, <<h>>)
  <1>1. <<h>> \in Seq(T)
    OBVIOUS
  <1>. QED  BY <1>1, WithoutOther

LEMMA ListParts ==
  ASSUME NEW T, ListSigns(T)
  PROVE  /\ <<"call", "(">> \in Seq(T) /\ Without(Quote1, <<"call", "(">>)
         /\ <<"in", "(">> \in Seq(T) /\ Without(Quote1, <<"in", "(">>)
         /\ <<"select null">> \in Seq(T) /\ Without(Quote1, <<"select null">>)
         /\ <<")">> \in Seq(T) /\ Without(Quote1, <<")">>)
  <1>1. /\ "in" \in T /\ "call" \in T /\ "(" \in T /\ ")" \in T /\ "select null" \in T
        /\ "in" # Quote1 /\ "call" # Quote1 /\ ")" # Quote1 /\ "select null" # Quote1
    BY DEF ListSigns, Quote1
  <1>. QED  BY <1>1, OpeningTyped, OneTyped, ZenonT(30)

LEMMA ListsAreSaid ==
  ASSUME NEW T, ListSigns(T), NEW values \in Seq(Seq(T)), AllWithout(Quote1, values)
  PROVE  ListSaid(values, WhereIn(values)) /\ ListSaid(values, CallSql(values))
  <1>1. CASE values # <<>>
    <2>1. /\ WhereIn(values) = (<<"in", "(">> \o Listed(InQuotes(values))) \o <<")">>
          /\ CallSql(values) = (<<"call", "(">> \o Listed(InQuotes(values))) \o <<")">>
      BY <1>1, Zenon DEF WhereIn, CallSql, InQuotes
    <2>2. "in" \in {"in", "call"} /\ "call" \in {"in", "call"}
      OBVIOUS
    <2>. QED  BY <1>1, <2>1, <2>2, QuotedListIsSaid
  <1>2. CASE values = <<>>
    <2>2. WhereIn(<<>>) = <<"in", "(">> \o <<"select null">> \o <<")">>
      BY Zenon DEF WhereIn
    <2>4. CallSql(<<>>) = <<"call", "(">> \o <<>> \o <<")">>
      <3>1. [k \in DOMAIN <<>> |-> AsSql(<<>>[k])] = <<>>
        OBVIOUS
      <3>2. Listed(<<>>) = FlattenSeq(<<>>)
        <4>1. [k \in DOMAIN <<>> |-> IF k = 1 THEN <<>>[k] ELSE <<Comma>> \o <<>>[k]] = <<>>
          OBVIOUS
        <4>. QED  BY <4>1, Zenon DEF Listed
      <3>3. FlattenSeq(<<>>) = <<>>
        <4>1. <<>> \in Seq(T)
          OBVIOUS
        <4>. QED  BY <4>1, FlattenOne
      <3>. QED  BY <3>1, <3>2, <3>3, Zenon DEF CallSql
    <2> DEFINE l(h) == <<h, "(">>
               x == <<"select null">>
               z == <<")">>
    <2>6. l("call") \in Seq(T) /\ Without(Quote1, l("call")) /\ l("in") \in Seq(T) /\ Without(Quote1, l("in"))
          /\ x \in Seq(T) /\ Without(Quote1, x) /\ z \in Seq(T) /\ Without(Quote1, z)
      BY ListParts
    <2> HIDE DEF l, x, z
    <2>7. l("in") \o x \in Seq(T) /\ Without(Quote1, l("in") \o x) /\ l("call") \o <<>> = l("call")
      BY <2>6, WithoutBoth, ConcatEmptySeq
    <2>8. /\ (l("in") \o x) \o z \in Seq(T) /\ Without(Quote1, (l("in") \o x) \o z)
          /\ l("call") \o z \in Seq(T) /\ Without(Quote1, l("call") \o z)
      BY <2>6, <2>7, WithoutBoth
    <2>9. ListSaid(<<>>, (l("in") \o x) \o z) /\ ListSaid(<<>>, l("call") \o z)
      BY <2>8, EmptyListIsSaid
    <2>. QED  BY <1>2, <2>2, <2>4, <2>7, <2>9, Zenon DEF l, x, z
  <1>. QED  BY <1>1, <1>2

(* The first column is between the keywords at the front. *)
LEMMA NamesAreSaid ==
  ASSUME NEW T, NEW c \in Seq(T), NEW values \in Seq(T), InsertSigns(T)
  PROVE  IsPrefix(<<"insert">> \o c \o <<"values">>, Filled(c, values))
  <1> DEFINE i == <<"insert">>
             w == <<"values">>
             r == <<"returning">>
             f == i \o c
             H == c \o w
             z == values \o r
             a == f \o w
  <1>1. "insert" \in T /\ "values" \in T /\ "returning" \in T
    BY DEF InsertSigns
  <1>2. i \in Seq(T) /\ w \in Seq(T) /\ r \in Seq(T)
    BY <1>1
  <1>3. Filled(c, values) = i \o (H \o z)
    BY Zenon DEF Filled, Heading
  <1> HIDE DEF i, w, r
  <1>4. f \in Seq(T) /\ H \in Seq(T) /\ z \in Seq(T)
    BY <1>2, ConcatProperties
  <1> HIDE DEF z
  <1>5. Assoc(i, c, w) /\ Assoc(i, H, z)
    BY <1>2, <1>4, Associates
  <1>6. i \o (H \o z) = a \o z
    BY <1>5, Zenon DEF Assoc
  <1> HIDE DEF f
  <1>7. a \in Seq(T)
    BY <1>2, <1>4, ConcatProperties
  <1> HIDE DEF a
  <1>8. /\ Len(a \o z) = Len(a) + Len(z) /\ SubSeq(a \o z, 1, Len(a)) = a
        /\ SubSeq(a, 1, Len(a)) = a /\ Len(a) \in Nat /\ Len(z) \in Nat
    BY <1>4, <1>7, CutBetween, SubSeqFull, LenProperties
  <1> DEFINE m == Len(a)
             k == Len(z)
  <1>9. m <= Len(a \o z)
    <2>1. m \in Nat /\ k \in Nat /\ Len(a \o z) = m + k
      BY <1>8
    <2> HIDE DEF m, k
    <2>. QED  BY <2>1
  <1>10. IsPrefix(a, a \o z)
    BY <1>8, <1>9, Zenon DEF IsPrefix
  <1>. QED  BY <1>3, <1>6, <1>10, Zenon DEF a, f, i, w

Value(item, c) == IF item[c] = Absent THEN <<"default">> ELSE item[c]

(* What an insertion says of its columns and its items. *)
InsertSaid(columns, items, text) ==
  /\ RowsOf(text) = [k \in DOMAIN items |-> [c \in DOMAIN columns |-> Value(items[k], c)]]
  /\ IsPrefix(<<"insert">> \o columns[1] \o <<"values">>, text)

LEMMA AreInserted ==
  ASSUME NEW T, InsertSigns(T), NEW columns \in Seq(Seq(T)), columns # <<>>,
         ToSet(columns[1]) \cap {"%", "%columns%", "%values%", "(", ")"} = {},
         NEW items \in Seq([DOMAIN columns -> Seq(T) \cup {Absent}]),
         \A k \in DOMAIN items, c \in DOMAIN columns :
            ToSet(Value(items[k], c)) \cap {"%", Comma, "(", ")"} = {}
  PROVE  Inserted(T, columns, items)
  <1> DEFINE n == Len(columns)
             A == Seq(T)
             X == [DOMAIN columns -> Seq(T) \cup {Absent}]
  <1>1. n \in Nat \ {0} /\ DOMAIN columns = 1..n /\ columns[1] \in Seq(T)
    BY FirstAndRest, LenProperties, Zenon
  <1>2. Len(items) \in Nat /\ DOMAIN items = 1..Len(items)
    BY LenProperties, Zenon
  <1>3. ASSUME NEW c \in {"%", "%columns%", "%values%", "(", ")"}
        PROVE  Without(c, columns[1])
    <2>3. c \notin ToSet(columns[1])
      BY Zenon
    <2>. QED  BY <1>1, <2>3, NotAmong
  <1>4. <<"default">> \in A
    <2>1. "default" \in T
      BY DEF InsertSigns
    <2>. QED  BY <2>1
  <1>5. ASSUME NEW k \in 1..Len(items), NEW c \in 1..n
        PROVE  /\ Value(items[k], c) \in A
               /\ \A d \in {"%", Comma, "(", ")"} : Without(d, Value(items[k], c))
    <2>1. items[k] \in X
      <3> HIDE DEF X
      <3>. QED  BY <1>2, ElementOfSeq, Zenon DEF X
    <2>2. Value(items[k], c) \in A
      <3>1. items[k][c] \in Seq(T) \cup {Absent}
        BY <1>1, <2>1, Zenon
      <3> HIDE DEF A
      <3>. QED  BY <1>4, <3>1, Zenon DEF Value, A
    <2>3. \A d \in {"%", Comma, "(", ")"} : d \notin ToSet(Value(items[k], c))
      BY <1>1, <1>2, Zenon
    <2> DEFINE v == Value(items[k], c)
    <2> HIDE DEF v
    <2>4. \A d \in {"%", Comma, "(", ")"} : Without(d, v)
      BY <2>2, <2>3, NotAmong, Zenon DEF v
    <2>. QED  BY <2>2, <2>4, Zenon DEF v
  <1>6. ASSUME NEW k \in 1..Len(items)
        PROVE  /\ ValuesOf(columns, items[k]) \in Seq(A)
               /\ \A d \in {"%", Comma, "(", ")"} : AllWithout(d, ValuesOf(columns, items[k]))
    <2> DEFINE b(c) == Value(items[k], c)
               vs == [c \in 1..n |-> b(c)]
    <2>1. \A c \in 1..n : b(c) \in A /\ \A d \in {"%", Comma, "(", ")"} : Without(d, b(c))
      BY <1>5
    <2>2. ValuesOf(columns, items[k]) = vs
      BY Zenon DEF ValuesOf, Value
    <2> HIDE DEF b, A, n
    <2>3. vs \in Seq(A) /\ Len(vs) = n /\ \A c \in 1..n : vs[c] = b(c)
      BY <1>1, <2>1
    <2> HIDE DEF vs
    <2>4. \A d \in {"%", Comma, "(", ")"} : AllWithout(d, vs)
      BY <2>1, <2>3, Zenon DEF AllWithout
    <2>. QED  BY <2>2, <2>3, <2>4
  <1>. QED  BY <1>2, <1>3, <1>6, Zenon DEF Inserted

LEMMA InsertsAreSaid ==
  ASSUME NEW T, NEW columns, NEW items, Inserted(T, columns, items)
  PROVE  InsertSaid(columns, items, InsertJson(columns, items))
  <1> DEFINE R == RowsText(columns, items)
  <1>1. /\ InsertJson(columns, items) = Filled(columns[1], R) /\ R \in Seq(T)
    BY InsertIs
  <1>2. /\ InsertSigns(T) /\ columns[1] \in Seq(T) /\ DOMAIN columns = 1..Len(columns)
        /\ DOMAIN items = 1..Len(items)
    BY InsertTyped, Zenon DEF Inserted
  <1>3. RowsOf(Filled(columns[1], R)) = [k \in 1..Len(items) |-> ValuesOf(columns, items[k])]
    BY RowsAreRead
  <1>4. \A k \in 1..Len(items) : ValuesOf(columns, items[k]) = [c \in DOMAIN columns |-> Value(items[k], c)]
    BY <1>2, Zenon DEF ValuesOf, Value
  <1> HIDE DEF R
  <1>5. RowsOf(Filled(columns[1], R)) = [k \in DOMAIN items |-> [c \in DOMAIN columns |-> Value(items[k], c)]]
    BY <1>2, <1>3, <1>4, Zenon
  <1>6. IsPrefix(<<"insert">> \o columns[1] \o <<"values">>, Filled(columns[1], R))
    BY <1>1, <1>2, NamesAreSaid
  <1>. QED  BY <1>1, <1>5, <1>6, Zenon DEF InsertSaid

(* Values are read back from the lists and from the rows they are written   *)
(* to, however many and whatever their characters, as far as these are not  *)
(* those that the statements are made of.                                   *)
THEOREM StatementsCorrect == Spec => []StatementsSayTheValues
  <1>1. Init => StatementsSayTheValues
    BY DEF Init, StatementsSayTheValues
  <1>2. ASSUME StatementsSayTheValues, [Next]_vars PROVE StatementsSayTheValues'
    <2>1. CASE WriteList
      <3>1. PICK values \in Arguments \cup {<<>>} :
              Called("list", values, [within |-> WhereIn(values), call |-> CallSql(values)])
        BY <2>1 DEF WriteList
      <3> DEFINE chars == UNION {ToSet(a) : a \in ToSet(values)}
                 T == chars \cup {Quote1, Comma, "in", "call", "(", ")", "select null"}
      <3>2. values \in Seq(Seq(chars))
        <4>1. CASE values \in Arguments
          BY <4>1, AlgorithmsAssumption
        <4>2. CASE values = <<>>
          BY <4>2
        <4>. QED  BY <4>1, <4>2
      <3>3. ListSigns(T) /\ chars \subseteq T
        BY Zenon DEF ListSigns
      <3> HIDE DEF chars, T
      <3>4. values \in Seq(Seq(T))
        BY <3>2, <3>3, SeqMonotonic
      <3>5. ASSUME \A k \in DOMAIN values : Quote1 \notin ToSet(values[k])
            PROVE  ListSaid(values, WhereIn(values)) /\ ListSaid(values, CallSql(values))
        <4>1. \A k \in 1..Len(values) : values[k] \in Seq(T) /\ Quote1 \notin ToSet(values[k])
          BY <3>4, <3>5, ElementOfSeq, LenProperties, Zenon
        <4>2. AllWithout(Quote1, values)
          BY <4>1, NotAmong, Zenon DEF AllWithout
        <4>. QED  BY <3>3, <3>4, <4>2, ListsAreSaid
      <3>6. /\ call' = "list" /\ given' = values
            /\ result'.within = WhereIn(values) /\ result'.call = CallSql(values)
        BY <3>1 DEF Called
      <3>7. "list" # "insert"
        OBVIOUS
      <3>. QED  BY <3>5, <3>6, <3>7, Zenon DEF StatementsSayTheValues, ListSaid
    <2>2. CASE InsertJsonInto
      <3>1. PICK i \in Inserts : Called("insert", i, InsertJson(i.columns, i.items))
        BY <2>2 DEF InsertJsonInto
      <3> DEFINE columns == i.columns
                 items == i.items
                 said == UNION {{item[c] : c \in DOMAIN item} : item \in ToSet(items)} \ {Absent}
                 chars == UNION {ToSet(v) : v \in said \cup ToSet(columns)}
                 T == chars \cup {"%", "b", "e", Comma, "(", ")", "insert", "%columns%", "values",
                                  "%values%", "returning", "default"}
      <3>2. /\ columns \in Seq(Seq(chars)) /\ columns # <<>>
            /\ items \in Seq([DOMAIN columns -> Seq(chars) \cup {Absent}])
        BY AlgorithmsAssumption
      <3> HIDE DEF chars
      <3>3. InsertSigns(T) /\ chars \subseteq T
        BY Zenon DEF InsertSigns, RowSigns, Signs
      <3> HIDE DEF T, columns, items
      <3>4. columns \in Seq(Seq(T)) /\ items \in Seq([DOMAIN columns -> Seq(T) \cup {Absent}])
        <4>1. Seq(chars) \subseteq Seq(T)
          BY <3>3, SeqMonotonic
        <4>2. [DOMAIN columns -> Seq(chars) \cup {Absent}] \subseteq [DOMAIN columns -> Seq(T) \cup {Absent}]
          BY <4>1
        <4> DEFINE from == [DOMAIN columns -> Seq(chars) \cup {Absent}]
                   to == [DOMAIN columns -> Seq(T) \cup {Absent}]
        <4>3. items \in Seq(from) /\ from \subseteq to
          BY <3>2, <4>2
        <4> HIDE DEF from, to
        <4>4. items \in Seq(to)
          BY <4>3, SeqMonotonic
        <4>5. columns \in Seq(Seq(T))
          BY <3>2, <4>1, SeqMonotonic
        <4>. QED  BY <4>4, <4>5 DEF to
      <3>5. ASSUME ToSet(columns[1]) \cap {"%", "%columns%", "%values%", "(", ")"} = {},
                   \A k \in DOMAIN items, c \in DOMAIN columns :
                     ToSet(Value(items[k], c)) \cap {"%", Comma, "(", ")"} = {}
            PROVE  InsertSaid(columns, items, InsertJson(columns, items))
        <4>1. Inserted(T, columns, items)
          BY <3>2, <3>3, <3>4, <3>5, AreInserted
        <4>. QED  BY <4>1, InsertsAreSaid
      <3>6. /\ call' = "insert" /\ given'.columns = columns /\ given'.items = items
            /\ result' = InsertJson(columns, items)
        BY <3>1 DEF Called, columns, items
      <3>7. "list" # "insert"
        OBVIOUS
      <3>. QED  BY <3>5, <3>6, <3>7, ZenonT(30) DEF StatementsSayTheValues, InsertSaid, Value
    <2>3. CASE ~WriteList /\ ~InsertJsonInto /\ Next
      <3>1. call' # "list" /\ call' # "insert"
        BY <2>3 DEF Next, Called, Receive, Execute, OpenArguments, OpenIn, SearchPath,
             ReceiveNothing, ComputeCrc, ParseLine, CombineAndParse, StringSplit,
             StringReplaceAllTemplates, ReadImage, LookForSection
      <3>. QED  BY <3>1, Zenon DEF StatementsSayTheValues
    <2>4. CASE UNCHANGED vars
      BY <1>2, <2>4 DEF vars, StatementsSayTheValues
    <2>. QED  BY <1>2, <2>1, <2>2, <2>3, <2>4
  <1>. QED  BY <1>1, <1>2, PTL DEF Spec

=============================================================================
