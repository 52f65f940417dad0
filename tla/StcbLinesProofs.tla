--------------------------- MODULE StcbLinesProofs ---------------------------
(***************************************************************************)
(* The lines of a board, for any texts, any sizes of reads and any ids: no *)
(* line is lost or cut (LinesComplete), the answer to a command reaches    *)
(* its waiter (IdsSurvive), no impossible full state is kept               *)
(* (StoredInRange), and the device is what the lines say (ViewOfLines).    *)
(*                                                                         *)
(* First the operators that cut and read texts, then what handleLine does  *)
(* to each part of the device, then one lemma for each action and part of  *)
(* the invariant; the theorems at the end put them together.               *)
(***************************************************************************)
EXTENDS StcbLinesInv, FiniteSetTheorems, SequenceTheorems, WellFoundedInduction, TLAPS

-----------------------------------------------------------------------------
(* Cutting texts. *)

\* Short texts, and short texts joined.
LEMMA ShortTexts == ASSUME NEW S, NEW x \in S, NEW y \in S PROVE <<x>> \in Seq(S) /\ <<x, y>> \in Seq(S)
  OBVIOUS

LEMMA JoinOneTwo == ASSUME NEW S, NEW x \in S, NEW y \in S, NEW z \in S PROVE <<x>> \o <<y, z>> = <<x, y, z>>
<1>1. <<x>> \in Seq(S) /\ <<y, z>> \in Seq(S) /\ <<x, y, z>> \in Seq(S)
  OBVIOUS
<1>2. /\ <<x>> \o <<y, z>> \in Seq(S) /\ Len(<<x>> \o <<y, z>>) = 3
      /\ \A i \in 1..3 : (<<x>> \o <<y, z>>)[i] = IF i <= 1 THEN <<x>>[i] ELSE <<y, z>>[i - 1]
  BY <1>1, ConcatProperties
<1>3. \A i \in 1..3 : (<<x>> \o <<y, z>>)[i] = <<x, y, z>>[i]
  BY <1>2
<1> QED
  BY <1>1, <1>2, <1>3, SeqEqual

LEMMA JoinTwoOne == ASSUME NEW S, NEW x \in S, NEW y \in S, NEW z \in S PROVE <<x, y>> \o <<z>> = <<x, y, z>>
<1>1. <<x, y>> \in Seq(S) /\ <<z>> \in Seq(S) /\ <<x, y, z>> \in Seq(S)
  OBVIOUS
<1>2. /\ <<x, y>> \o <<z>> \in Seq(S) /\ Len(<<x, y>> \o <<z>>) = 3
      /\ \A i \in 1..3 : (<<x, y>> \o <<z>>)[i] = IF i <= 2 THEN <<x, y>>[i] ELSE <<z>>[i - 2]
  BY <1>1, ConcatProperties
<1>3. \A i \in 1..3 : (<<x, y>> \o <<z>>)[i] = <<x, y, z>>[i]
  BY <1>2
<1> QED
  BY <1>1, <1>2, <1>3, SeqEqual

LEMMA JoinOnes == ASSUME NEW S, NEW x \in S, NEW y \in S PROVE <<x>> \o <<y>> = <<x, y>>
<1>1. <<x>> \in Seq(S) /\ <<y>> \in Seq(S) /\ <<x, y>> \in Seq(S)
  OBVIOUS
<1>2. /\ <<x>> \o <<y>> \in Seq(S) /\ Len(<<x>> \o <<y>>) = 2
      /\ \A i \in 1..2 : (<<x>> \o <<y>>)[i] = IF i <= 1 THEN <<x>>[i] ELSE <<y>>[i - 1]
  BY <1>1, ConcatProperties
<1>3. \A i \in 1..2 : (<<x>> \o <<y>>)[i] = <<x, y>>[i]
  BY <1>2
<1> QED
  BY <1>1, <1>2, <1>3, SeqEqual

LEMMA JoinThreeOne ==
  ASSUME NEW S, NEW x \in S, NEW y \in S, NEW z \in S, NEW u \in S PROVE <<x, y, z>> \o <<u>> = <<x, y, z, u>>
<1>1. <<x, y, z>> \in Seq(S) /\ <<u>> \in Seq(S) /\ <<x, y, z, u>> \in Seq(S)
  OBVIOUS
<1>2. /\ <<x, y, z>> \o <<u>> \in Seq(S) /\ Len(<<x, y, z>> \o <<u>>) = 4
      /\ \A i \in 1..4 : (<<x, y, z>> \o <<u>>)[i] = IF i <= 3 THEN <<x, y, z>>[i] ELSE <<u>>[i - 3]
  BY <1>1, ConcatProperties
<1>3. \A i \in 1..4 : (<<x, y, z>> \o <<u>>)[i] = <<x, y, z, u>>[i]
  BY <1>2
<1> QED
  BY <1>1, <1>2, <1>3, SeqEqual

LEMMA LeastExists ==
  ASSUME NEW S, S \subseteq Nat, S # {} PROVE Min(S) \in S /\ \A y \in S : Min(S) <= y
<1> DEFINE less == {ss \in Nat \X Nat : ss[1] < ss[2]}
<1>1. IsWellFoundedOn(less, Nat)
  BY NatLessThanWellFounded DEF OpToRel
<1>2. PICK x \in S : \A y \in S : ~(<<y, x>> \in less)
  <2> HIDE DEF less
  <2> QED
    BY <1>1, WFMin
<1>3. ASSUME NEW y \in S, y < x PROVE <<y, x>> \in less
  BY <1>3
<1>4. \A y \in S : x <= y
  <2> HIDE DEF less
  <2>1. \A y \in S : ~(y < x)
    BY <1>2, <1>3
  <2>2. \A y \in S : y \in Nat /\ x \in Nat
    OBVIOUS
  <2> QED
    BY <2>1, <2>2
<1> QED
  BY <1>4 DEF Min

\* The least element of a set of numbers, when it is known.
LEMMA LeastIs ==
  ASSUME NEW S, S \subseteq Int, NEW n \in S, \A y \in S : n <= y PROVE Min(S) = n
<1>1. Min(S) \in S /\ \A y \in S : Min(S) <= y
  BY DEF Min
<1>2. Min(S) \in Int /\ n \in Int
  BY <1>1
<1>3. Min(S) <= n /\ n <= Min(S)
  BY <1>1
<1> QED
  BY <1>2, <1>3

LEMMA GreatestIs ==
  ASSUME NEW S, S \subseteq Int, NEW n \in S, \A y \in S : y <= n PROVE Max(S) = n
<1>1. Max(S) \in S /\ \A y \in S : Max(S) >= y
  BY DEF Max
<1>2. Max(S) \in Int /\ n \in Int
  BY <1>1
<1>3. Max(S) >= n /\ n >= Max(S)
  BY <1>1
<1> QED
  BY <1>2, <1>3

LEMMA PlacesIn == ASSUME NEW S, NEW s \in Seq(S), NEW sep PROVE Places(s, sep) \subseteq 1..Len(s)
  BY LenProperties DEF Places

\* The first separator splits a text in two, and is in neither part.
LEMMA CutFacts ==
  ASSUME NEW S, NEW s \in Seq(S), NEW sep, Places(s, sep) # {}
  PROVE  \E i \in 1..Len(s) :
           /\ s[i] = sep /\ \A j \in 1..(i - 1) : s[j] # sep
           /\ Cut(s, sep) = <<SubSeq(s, 1, i - 1), SubSeq(s, i + 1, Len(s))>>
<1> DEFINE i == Min(Places(s, sep))
<1>1. Places(s, sep) \subseteq 1..Len(s) /\ Len(s) \in Nat
  BY PlacesIn, LenProperties
<1>2. i \in Places(s, sep) /\ \A y \in Places(s, sep) : i <= y
  BY <1>1, LeastExists
<1>3. i \in 1..Len(s) /\ s[i] = sep
  BY <1>1, <1>2 DEF Places
<1>4. \A j \in 1..(i - 1) : s[j] # sep
  <2> SUFFICES ASSUME NEW j \in 1..(i - 1), s[j] = sep PROVE FALSE
    OBVIOUS
  <2>1. j \in Places(s, sep)
    BY <1>1, <1>3, LenProperties DEF Places
  <2> HIDE DEF i
  <2> QED
    BY <1>1, <1>2, <1>3, <2>1
<1>5. Cut(s, sep) = <<SubSeq(s, 1, i - 1), SubSeq(s, i + 1, Len(s))>>
  BY DEF Cut
<1> QED
  BY <1>3, <1>4, <1>5

\* The same when the first separator is known.
LEMMA CutIs ==
  ASSUME NEW S, NEW s \in Seq(S), NEW sep, NEW i \in 1..Len(s), s[i] = sep, \A j \in 1..(i - 1) : s[j] # sep
  PROVE  Cut(s, sep) = <<SubSeq(s, 1, i - 1), SubSeq(s, i + 1, Len(s))>>
<1>1. Len(s) \in Nat /\ DOMAIN s = 1..Len(s)
  BY LenProperties
<1>2. i \in Places(s, sep) /\ Places(s, sep) \subseteq Int /\ Places(s, sep) # {}
  BY <1>1 DEF Places
<1>3. \A y \in Places(s, sep) : i <= y
  BY <1>1 DEF Places
<1>4. Min(Places(s, sep)) = i
  BY <1>2, <1>3, LeastIs
<1> QED
  BY <1>2, <1>4 DEF Cut

LEMMA CutJoined ==
  ASSUME NEW S, NEW a \in Seq(S), NEW c \in Seq(S), NEW sep \in S, \A i \in 1..Len(a) : a[i] # sep
  PROVE  Cut(a \o <<sep>> \o c, sep) = <<a, c>>
<1> DEFINE s == a \o <<sep>> \o c
           n == Len(a)
<1>1. n \in Nat /\ Len(c) \in Nat /\ <<sep>> \in Seq(S) /\ Len(<<sep>>) = 1 /\ <<sep>>[1] = sep
  BY LenProperties
<1>2. /\ a \o <<sep>> \in Seq(S) /\ Len(a \o <<sep>>) = n + 1
      /\ \A i \in 1..(n + 1) : (a \o <<sep>>)[i] = IF i <= n THEN a[i] ELSE <<sep>>[i - n]
  BY <1>1, ConcatProperties
<1>3. /\ s \in Seq(S) /\ Len(s) = n + 1 + Len(c)
      /\ \A i \in 1..(n + 1 + Len(c)) : s[i] = IF i <= n + 1 THEN (a \o <<sep>>)[i] ELSE c[i - (n + 1)]
  BY <1>1, <1>2, ConcatProperties
<1> HIDE DEF s, n
<1>4. /\ \A i \in 1..n : s[i] = a[i]
      /\ s[n + 1] = sep
      /\ \A i \in 1..Len(c) : s[n + 1 + i] = c[i]
  BY <1>1, <1>2, <1>3
<1>5. Cut(s, sep) = <<SubSeq(s, 1, n), SubSeq(s, n + 2, Len(s))>>
  <2>1. PICK i \in Nat : i = n + 1
    BY <1>1
  <2>2. i \in 1..Len(s) /\ s[i] = sep
    BY <1>1, <1>3, <1>4, <2>1
  <2>3. \A j \in 1..(i - 1) : s[j] # sep
    BY <1>1, <1>4, <2>1 DEF n
  <2>4. Cut(s, sep) = <<SubSeq(s, 1, i - 1), SubSeq(s, i + 1, Len(s))>>
    BY <1>3, <2>2, <2>3, CutIs
  <2>5. i - 1 = n /\ i + 1 = n + 2
    BY <1>1, <2>1
  <2> QED
    BY <2>4, <2>5
<1>6. SubSeq(s, 1, n) = a
  <2>1. \A i \in 1..n : s[i] \in S
    BY <1>1, <1>3, ElementOfSeq
  <2>2. /\ SubSeq(s, 1, n) \in Seq(S) /\ Len(SubSeq(s, 1, n)) = n
        /\ \A i \in 1..n : SubSeq(s, 1, n)[i] = s[i]
    BY <1>1, <2>1, SubSeqProperties
  <2> QED
    BY <1>4, <2>2, SeqEqual DEF n
<1>7. SubSeq(s, n + 2, Len(s)) = c
  <2>1. \A i \in (n + 2)..Len(s) : s[i] \in S
    BY <1>1, <1>3, ElementOfSeq
  <2>2. n + 2 \in Int /\ Len(s) \in Int /\ Len(s) - (n + 2) + 1 = Len(c)
    BY <1>1, <1>3
  <2> DEFINE r == SubSeq(s, n + 2, Len(s))
  <2>3. /\ r \in Seq(S) /\ Len(r) = IF n + 2 <= Len(s) THEN Len(s) - (n + 2) + 1 ELSE 0
        /\ \A i \in 1..(Len(s) - (n + 2) + 1) : r[i] = s[(n + 2) + i - 1]
    BY <2>1, <2>2, SubSeqProperties
  <2> HIDE DEF r
  <2>4. Len(r) = Len(c)
    BY <1>1, <1>3, <2>3
  <2>5. ASSUME NEW i \in 1..Len(c) PROVE r[i] = c[i]
    <3>1. (n + 2) + i - 1 = n + 1 + i
      BY <1>1
    <3> QED
      BY <1>4, <2>2, <2>3, <3>1
  <2>6. r = c
    BY <2>3, <2>4, <2>5, SeqEqual
  <2> QED
    BY <2>6 DEF r
<1> QED
  BY <1>5, <1>6, <1>7 DEF s

LEMMA Cut3Joined ==
  ASSUME NEW S, NEW a \in Seq(S), NEW m \in Seq(S), NEW c \in Seq(S), NEW sep \in S,
         \A i \in 1..Len(a) : a[i] # sep, \A i \in 1..Len(m) : m[i] # sep
  PROVE  Cut3(a \o <<sep>> \o (m \o <<sep>> \o c), sep) = <<a, m, c>>
<1>1. m \o <<sep>> \o c \in Seq(S)
  BY ConcatProperties
<1>2. Cut(a \o <<sep>> \o (m \o <<sep>> \o c), sep) = <<a, m \o <<sep>> \o c>>
  BY <1>1, CutJoined
<1>3. Cut(m \o <<sep>> \o c, sep) = <<m, c>>
  BY CutJoined
<1>4. Len(<<a, m \o <<sep>> \o c>>) # 1 /\ <<a, m \o <<sep>> \o c>>[1] = a /\ <<a, m \o <<sep>> \o c>>[2] = m \o <<sep>> \o c
  OBVIOUS
<1>5. <<a>> \o <<m, c>> = <<a, m, c>>
  BY JoinOneTwo
<1> QED
  BY <1>2, <1>3, <1>4, <1>5, Zenon DEF Cut3

\* A word, an id and the rest, with a separator between them: the id is found again.
LEMMA MiddleFound ==
  ASSUME NEW S, NEW w \in S, NEW sep \in S, NEW m \in Seq(S), NEW c \in Seq(S),
         w # sep, \A i \in 1..Len(m) : m[i] # sep
  PROVE  Cut3(<<w, sep>> \o m \o (<<sep>> \o c), sep) = <<<<w>>, m, c>>
<1>1. <<w>> \in Seq(S) /\ <<sep>> \in Seq(S) /\ <<w>> \o <<sep>> \in Seq(S) /\ m \o <<sep>> \in Seq(S) /\ <<sep>> \o c \in Seq(S)
  BY ConcatProperties
<1>2. <<w, sep>> \o m \o (<<sep>> \o c) = <<w>> \o <<sep>> \o (m \o <<sep>> \o c)
  <2>1. (<<w>> \o <<sep>>) \o m \o (<<sep>> \o c) = (<<w>> \o <<sep>>) \o (m \o (<<sep>> \o c))
    BY <1>1, ConcatAssociative
  <2>2. m \o (<<sep>> \o c) = m \o <<sep>> \o c
    BY <1>1, ConcatAssociative
  <2>3. <<w>> \o <<sep>> = <<w, sep>>
    BY JoinOnes
  <2> QED
    BY <2>1, <2>2, <2>3
<1>3. \A i \in 1..Len(<<w>>) : <<w>>[i] # sep
  OBVIOUS
<1>4. Cut3(<<w>> \o <<sep>> \o (m \o <<sep>> \o c), sep) = <<<<w>>, m, c>>
  <2>1. PICK a \in Seq(S) : a = <<w>>
    BY <1>1
  <2>2. Cut3(a \o <<sep>> \o (m \o <<sep>> \o c), sep) = <<a, m, c>>
    BY <1>3, <2>1, Cut3Joined
  <2> QED
    BY <2>1, <2>2
<1> QED
  BY <1>2, <1>4, Zenon

\* What the board finds in a command line is the id that the driver put there.
LEMMA IdReadBack == ASSUME NEW id \in Seq(Tokens), IdOk(id) PROVE IdRead(id) = id
<1> DEFINE S == Tokens \cup {"CMD", "verb", LF, ":", "CR"}
           a == <<"CMD", ":">> \o id \o <<":", "verb", "CR">>
<1>1. id \in Seq(S)
  BY SeqMonotonic
<1>2. /\ <<"CMD", ":">> \in Seq(S) /\ <<":", "verb", "CR">> \in Seq(S) /\ <<"verb", "CR">> \in Seq(S)
      /\ <<LF>> \in Seq(S) /\ <<":">> \in Seq(S) /\ <<>> \in Seq(S)
      /\ "CMD" \in S /\ ":" \in S /\ "verb" \in S /\ "CR" \in S /\ LF \in S
  OBVIOUS
<1> HIDE DEF S
<1>3. <<"CMD", ":">> \o id \in Seq(S) /\ a \in Seq(S) /\ Len(<<"CMD", ":">> \o id) = 2 + Len(id)
  BY <1>1, <1>2, ConcatProperties
<1>4. \A i \in 1..Len(id) : id[i] \notin {":", LF}
  BY LenProperties DEF IdOk, ToSet
<1>5. <<"CMD", ":">> \o id \o <<":", "verb", "CR", LF>> = a \o <<LF>> \o <<>>
  <2>1. <<":", "verb", "CR">> \o <<LF>> = <<":", "verb", "CR", LF>>
    BY <1>2, JoinThreeOne
  <2>2. a \o <<LF>> = <<"CMD", ":">> \o id \o (<<":", "verb", "CR">> \o <<LF>>)
    BY <1>2, <1>3, ConcatAssociative
  <2>3. a \o <<LF>> \o <<>> = a \o <<LF>>
    BY <1>2, <1>3, ConcatProperties, ConcatEmptySeq
  <2> QED
    BY <2>1, <2>2, <2>3, Zenon
<1>6. \A i \in 1..Len(a) : a[i] # LF
  <2> SUFFICES ASSUME NEW i \in 1..Len(a) PROVE a[i] # LF
    OBVIOUS
  <2>1. Len(id) \in Nat /\ Len(a) = 2 + Len(id) + 3
    BY <1>1, <1>2, <1>3, ConcatProperties, LenProperties
  <2>2. a[i] = IF i <= 2 + Len(id) THEN (<<"CMD", ":">> \o id)[i] ELSE <<":", "verb", "CR">>[i - (2 + Len(id))]
    BY <1>1, <1>2, <1>3, <2>1, ConcatProperties
  <2>3. i <= 2 + Len(id) => (<<"CMD", ":">> \o id)[i] = IF i <= 2 THEN <<"CMD", ":">>[i] ELSE id[i - 2]
    BY <1>1, <1>2, <2>1, ConcatProperties
  <2> HIDE DEF a
  <2>4. CASE i <= 2
    BY <2>1, <2>2, <2>3, <2>4 DEF LF
  <2>5. CASE i > 2 /\ i <= 2 + Len(id)
    <3>1. i - 2 \in 1..Len(id) /\ a[i] = id[i - 2]
      BY <2>1, <2>2, <2>3, <2>5
    <3> QED
      BY <1>4, <3>1
  <2>6. CASE i > 2 + Len(id)
    <3>1. PICK k \in 1..3 : a[i] = <<":", "verb", "CR">>[k]
      BY <2>1, <2>2, <2>6
    <3> QED
      BY <3>1 DEF LF
  <2> QED
    BY <2>1, <2>4, <2>5, <2>6
<1>7. Cut(a \o <<LF>> \o <<>>, LF) = <<a, <<>>>>
  <2> HIDE DEF a
  <2> QED
    BY <1>2, <1>3, <1>6, CutJoined
<1>8. Cut3(a, ":") = <<<<"CMD">>, id, <<"verb", "CR">>>>
  <2>1. <<":">> \o <<"verb", "CR">> = <<":", "verb", "CR">>
    BY <1>2, JoinOneTwo
  <2>2. Cut3(<<"CMD", ":">> \o id \o (<<":">> \o <<"verb", "CR">>), ":") = <<<<"CMD">>, id, <<"verb", "CR">>>>
    <3>1. PICK c \in Seq(S) : c = <<"verb", "CR">>
      BY <1>2
    <3>2. \A i \in 1..Len(id) : id[i] # ":"
      BY <1>4
    <3>3. Cut3(<<"CMD", ":">> \o id \o (<<":">> \o c), ":") = <<<<"CMD">>, id, c>>
      BY <1>1, <1>2, <3>2, MiddleFound
    <3> QED
      BY <3>1, <3>3
  <2> QED
    BY <2>1, <2>2, Zenon
<1>9. <<a, <<>>>>[1] = a /\ <<<<"CMD">>, id, <<"verb", "CR">>>>[2] = id
  OBVIOUS
<1> HIDE DEF a
<1> QED
  BY <1>5, <1>7, <1>8, <1>9, Zenon DEF IdRead

-----------------------------------------------------------------------------
(* The board's answer, on its way back. *)

LEMMA CleanIs ==
  ASSUME NEW S, NEW s \in Seq(S), \A i \in 1..Len(s) : s[i] # NUL, NEW n \in 1..Len(s),
         s[1] \notin Blanks, s[n] \notin Blanks, \A i \in (n + 1)..Len(s) : s[i] \in Blanks
  PROVE  Clean(s) = SubSeq(s, 1, n)
<1> DEFINE keep == {i \in DOMAIN s : s[i] \notin Blanks}
<1>1. Len(s) \in Nat /\ DOMAIN s = 1..Len(s)
  BY LenProperties
<1>2. Places(s, NUL) = {}
  BY <1>1 DEF Places
<1>3. 1 \in keep /\ n \in keep /\ keep \subseteq Int /\ keep # {}
  BY <1>1
<1>4. \A i \in keep : 1 <= i /\ i <= n
  BY <1>1
<1> HIDE DEF keep
<1>5. Min(keep) = 1 /\ Max(keep) = n
  BY <1>3, <1>4, LeastIs, GreatestIs
<1>6. TrimSpace(s) = SubSeq(s, 1, n)
  BY <1>3, <1>5 DEF TrimSpace, keep
<1> QED
  BY <1>2, <1>6 DEF Clean

\* A line begins with the words of its prefix.
LEMMA PrefixFacts ==
  ASSUME NEW S, NEW p \in Seq(S), NEW line, IsPrefix(p, line), p # <<>>
  PROVE  line[1] = p[1] /\ line # <<>>
<1>1. Len(p) \in Nat /\ Len(p) >= 1 /\ Len(p) <= Len(line) /\ SubSeq(p, 1, Len(p)) = SubSeq(line, 1, Len(p))
  BY EmptySeq, LenProperties DEF IsPrefix
<1>2. SubSeq(p, 1, Len(p)) = p
  BY SubSeqFull
<1>3. PICK n \in Nat : n = Len(p)
  BY <1>1
<1>4. n >= 1 /\ n <= Len(line) /\ SubSeq(line, 1, n) = p
  BY <1>1, <1>2, <1>3
<1>5. SubSeq(line, 1, n)[1] = line[1]
  <2> DEFINE T == {line[i] : i \in 1..n}
  <2>1. \A i \in 1..n : line[i] \in T
    OBVIOUS
  <2> HIDE DEF T
  <2>2. \A i \in 1..(n - 1 + 1) : SubSeq(line, 1, n)[i] = line[1 + i - 1]
    BY <2>1, SubSeqProperties
  <2>3. 1 \in 1..(n - 1 + 1) /\ 1 + 1 - 1 = 1
    BY <1>4
  <2> QED
    BY <2>2, <2>3
<1>6. line # <<>>
  <2>1. Len(<<>>) = 0
    BY EmptySeq
  <2> QED
    BY <1>4, <2>1
<1> QED
  BY <1>4, <1>5, <1>6

\* The first word says which line it is.
LEMMA FirstWords ==
  ASSUME NEW line
  PROVE  /\ IsFullState(line) => line # <<>> /\ line[1] = "STATE:"
         /\ IsDeviceAck(line) => line # <<>> /\ line[1] \in {"ACK", "ERR"}
         /\ IsEvent(line) => line # <<>> /\ line[1] = "EVENT:"
         /\ IsDiagnostic(line) => line # <<>> /\ line[1] = "DIAG:"
<1>1. ASSUME NEW w, IsPrefix(<<w>>, line) PROVE line # <<>> /\ line[1] = w
  <2>1. PICK p \in Seq({w}) : p = <<w>>
    <3>1. w \in {w}
      OBVIOUS
    <3> QED
      BY <3>1, ShortTexts
  <2>2. p # <<>> /\ p[1] = w
    BY <2>1
  <2> QED
    BY <1>1, <2>1, <2>2, PrefixFacts
<1>2. ASSUME NEW w, NEW x, IsPrefix(<<w, x>>, line) PROVE line # <<>> /\ line[1] = w
  <2>1. PICK p \in Seq({w, x}) : p = <<w, x>>
    <3>1. w \in {w, x} /\ x \in {w, x}
      OBVIOUS
    <3> QED
      BY <3>1, ShortTexts
  <2>2. p # <<>> /\ p[1] = w
    BY <2>1
  <2> QED
    BY <1>2, <2>1, <2>2, PrefixFacts
<1>3. IsFullState(line) => IsPrefix(<<"STATE:">>, line)
  BY DEF IsFullState
<1>4. IsDeviceAck(line) => IsPrefix(<<"ACK", ":">>, line) \/ IsPrefix(<<"ERR", ":">>, line)
  BY DEF IsDeviceAck
<1>5. IsEvent(line) => IsPrefix(<<"EVENT:">>, line)
  BY DEF IsEvent
<1>6. IsDiagnostic(line) => IsPrefix(<<"DIAG:">>, line)
  BY DEF IsDiagnostic
<1> QED
  BY <1>1, <1>2, <1>3, <1>4, <1>5, <1>6

Words   == {"ACK", "ERR"}
Details == {"ok", "badarg"}
AnswerText(word, id, detail) == <<word, ":">> \o id \o <<":", detail, "CR">>
AckLine(word, id, detail)    == <<word, ":">> \o id \o <<":", detail>>

LEMMA AckLineFacts ==
  ASSUME NEW id \in Seq(Tokens), IdOk(id), NEW word \in Words, NEW detail \in Details
  PROVE  LET line == AckLine(word, id, detail) n == Len(line) IN
         /\ line \in Seq(Tokens) /\ n \in Nat /\ n = 4 + Len(id)
         /\ line[1] = word /\ line[2] = ":" /\ line[n] = detail
         /\ \A i \in 1..n : line[i] # NUL
<1> DEFINE line == AckLine(word, id, detail)
           front == <<word, ":">> \o id
<1>1. word \in Tokens /\ ":" \in Tokens /\ detail \in Tokens /\ word # NUL /\ detail # NUL
  BY TextsAssumption DEF Words, Details, NUL
<1>2. <<word, ":">> \in Seq(Tokens) /\ <<":", detail>> \in Seq(Tokens) /\ Len(id) \in Nat
  BY <1>1, ShortTexts, LenProperties
<1>3. \A i \in 1..Len(id) : id[i] # NUL
  BY LenProperties DEF IdOk, ToSet
<1>4. /\ front \in Seq(Tokens) /\ Len(front) = 2 + Len(id)
      /\ \A i \in 1..(2 + Len(id)) : front[i] = IF i <= 2 THEN <<word, ":">>[i] ELSE id[i - 2]
  BY <1>2, ConcatProperties
<1>5. /\ line \in Seq(Tokens) /\ Len(line) = 4 + Len(id)
      /\ \A i \in 1..(4 + Len(id)) : line[i] = IF i <= 2 + Len(id) THEN front[i] ELSE <<":", detail>>[i - (2 + Len(id))]
  <2> HIDE DEF front
  <2>1. /\ front \o <<":", detail>> \in Seq(Tokens) /\ Len(front \o <<":", detail>>) = (2 + Len(id)) + 2
        /\ \A i \in 1..((2 + Len(id)) + 2) :
             (front \o <<":", detail>>)[i] = IF i <= 2 + Len(id) THEN front[i] ELSE <<":", detail>>[i - (2 + Len(id))]
    BY <1>2, <1>4, ConcatProperties
  <2> QED
    BY <1>2, <2>1 DEF AckLine, front
<1> HIDE DEF front, line
<1>6. front[1] = word /\ front[2] = ":" /\ line[1] = word /\ line[2] = ":"
  BY <1>2, <1>4, <1>5
<1>7. line[4 + Len(id)] = detail
  BY <1>2, <1>5
<1>8. ASSUME NEW i \in 1..(4 + Len(id)) PROVE line[i] # NUL
  <2>1. CASE i <= 2
    BY <1>1, <1>2, <1>4, <1>5, <2>1 DEF NUL
  <2>2. CASE i > 2 /\ i <= 2 + Len(id)
    <3>1. i - 2 \in 1..Len(id) /\ line[i] = id[i - 2]
      BY <1>2, <1>4, <1>5, <2>2
    <3> QED
      BY <1>3, <3>1
  <2>3. CASE i > 2 + Len(id)
    <3>1. line[i] \in {":", detail}
      BY <1>2, <1>5, <2>3
    <3> QED
      BY <1>1, <3>1 DEF NUL
  <2> QED
    BY <1>2, <2>1, <2>2, <2>3
<1> QED
  BY <1>2, <1>5, <1>6, <1>7, <1>8 DEF line

\* What the driver makes of the board's answer: an answer to that id.
LEMMA AckRead ==
  ASSUME NEW id \in Seq(Tokens), IdOk(id), NEW word \in Words, NEW detail \in Details
  PROVE  LET line == AckLine(word, id, detail) IN
         /\ IsDeviceAck(line)
         /\ DeviceAck(line) = [id |-> id, ok |-> word = "ACK" /\ detail = "ok"]
<1> DEFINE line == AckLine(word, id, detail)
           parts == <<<<word>>, id, <<detail>>>>
<1>1. word \in Tokens /\ ":" \in Tokens /\ detail \in Tokens /\ word # ":" /\ detail \notin Blanks
  BY TextsAssumption DEF Words, Details, Blanks, LF
<1>2. \A i \in 1..Len(id) : id[i] # ":"
  BY LenProperties DEF IdOk, ToSet
<1>3. Cut3(line, ":") = parts
  <2>1. PICK c \in Seq(Tokens) : c = <<detail>>
    BY <1>1, ShortTexts
  <2>2. Cut3(<<word, ":">> \o id \o (<<":">> \o c), ":") = <<<<word>>, id, c>>
    BY <1>1, <1>2, MiddleFound
  <2>3. <<":">> \o <<detail>> = <<":", detail>>
    BY <1>1, JoinOnes
  <2> QED
    BY <2>1, <2>2, <2>3, Zenon DEF AckLine
<1>4. Len(parts) = 3 /\ parts[2] = id /\ parts[3] = <<detail>>
  OBVIOUS
<1>5. TrimSpace(<<detail>>) = <<detail>>
  <2> DEFINE s == <<detail>>
             keep == {i \in DOMAIN s : s[i] \notin Blanks}
  <2>1. s \in Seq(Tokens) /\ Len(s) = 1 /\ s[1] = detail /\ DOMAIN s = 1..1
    BY <1>1, ShortTexts
  <2>2. 1 \in keep /\ keep \subseteq Int /\ \A i \in keep : 1 <= i /\ i <= 1
    BY <1>1, <2>1
  <2>3. SubSeq(s, 1, 1) = s
    BY <2>1, SubSeqFull
  <2> HIDE DEF s, keep
  <2>4. Min(keep) = 1 /\ Max(keep) = 1 /\ keep # {}
    BY <2>2, LeastIs, GreatestIs
  <2>5. TrimSpace(s) = SubSeq(s, 1, 1)
    BY <2>4 DEF TrimSpace, keep
  <2> QED
    BY <2>3, <2>5 DEF s
<1>6. id # <<>> /\ <<detail>> # <<>>
  BY DEF IdOk
<1>7. IsPrefix(<<word, ":">>, line)
  <2>1. line \in Seq(Tokens) /\ Len(line) \in Nat /\ Len(line) >= 2 /\ line[1] = word /\ line[2] = ":"
    BY AckLineFacts, LenProperties
  <2> HIDE DEF line
  <2>2. PICK p \in Seq(Tokens) : p = <<word, ":">>
    BY <1>1, ShortTexts
  <2>3. Len(p) = 2 /\ p[1] = word /\ p[2] = ":"
    BY <2>2
  <2>4. SubSeq(p, 1, 2) = p
    BY <2>3, SubSeqFull
  <2>5. \A i \in 1..2 : line[i] \in Tokens
    BY <1>1, <2>1
  <2>6. /\ SubSeq(line, 1, 2) \in Seq(Tokens) /\ Len(SubSeq(line, 1, 2)) = 2
        /\ \A i \in 1..2 : SubSeq(line, 1, 2)[i] = line[i]
    BY <2>5, SubSeqProperties
  <2>7. \A i \in 1..2 : SubSeq(line, 1, 2)[i] = p[i]
    BY <2>1, <2>3, <2>6
  <2>8. SubSeq(line, 1, 2) = p
    BY <2>3, <2>6, <2>7, SeqEqual
  <2> QED
    BY <2>1, <2>2, <2>3, <2>4, <2>8 DEF IsPrefix
<1>8. line[1] = word
  BY AckLineFacts
<1> HIDE DEF line, parts
<1>9. IsDeviceAck(line)
  BY <1>3, <1>4, <1>5, <1>6, <1>7, Zenon DEF IsDeviceAck, Words
<1>10. DeviceAck(line) = [id |-> id, ok |-> word = "ACK" /\ detail = "ok"]
  <2>1. <<detail>> = <<"ok">> <=> detail = "ok"
    OBVIOUS
  <2>2. DeviceAck(line) = [id |-> id, ok |-> line[1] = "ACK" /\ <<detail>> = <<"ok">>]
    BY <1>3, <1>4, <1>5, Zenon DEF DeviceAck
  <2> QED
    BY <1>8, <2>1, <2>2
<1> QED
  BY <1>9, <1>10 DEF line

LEMMA AnswerRead ==
  ASSUME NEW id \in Seq(Tokens), IdOk(id), NEW word \in Words, NEW detail \in Details
  PROVE  LET text == AnswerText(word, id, detail) IN
         /\ text \in Seq(Tokens) /\ Clean(text) = AckLine(word, id, detail)
         /\ text[1] = word /\ text[Len(text) - 1] = detail
<1> DEFINE line == AckLine(word, id, detail)
           text == AnswerText(word, id, detail)
           n == Len(line)
<1>1. /\ line \in Seq(Tokens) /\ n \in Nat /\ n >= 4
      /\ line[1] = word /\ line[n] = detail /\ \A i \in 1..n : line[i] # NUL
  <2>1. Len(id) \in Nat
    BY LenProperties
  <2> QED
    BY <2>1, AckLineFacts
<1>2. ":" \in Tokens /\ detail \in Tokens /\ "CR" \in Tokens /\ word \in Tokens
  BY TextsAssumption DEF Words, Details
<1>3. <<"CR">> \in Seq(Tokens) /\ Len(<<"CR">>) = 1 /\ <<"CR">>[1] = "CR"
  BY <1>2, ShortTexts
<1>4. text = line \o <<"CR">>
  <2>1. <<word, ":">> \in Seq(Tokens) /\ <<":", detail>> \in Seq(Tokens)
    BY <1>2, ShortTexts
  <2>2. <<word, ":">> \o id \in Seq(Tokens)
    BY <2>1, ConcatProperties
  <2>3. (<<word, ":">> \o id \o <<":", detail>>) \o <<"CR">> = <<word, ":">> \o id \o (<<":", detail>> \o <<"CR">>)
    BY <1>3, <2>1, <2>2, ConcatAssociative
  <2>4. <<":", detail>> \o <<"CR">> = <<":", detail, "CR">>
    BY <1>2, JoinTwoOne
  <2> QED
    BY <2>3, <2>4, Zenon DEF AnswerText, AckLine
<1> HIDE DEF line, text, n
<1>5. /\ text \in Seq(Tokens) /\ Len(text) = n + 1
      /\ \A i \in 1..(n + 1) : text[i] = IF i <= n THEN line[i] ELSE <<"CR">>[i - n]
  BY <1>1, <1>3, <1>4, ConcatProperties DEF n
<1>6. text[1] = word /\ text[n] = detail /\ text[n + 1] = "CR" /\ Len(text) - 1 = n
  BY <1>1, <1>3, <1>5
<1>7. \A i \in 1..Len(text) : text[i] # NUL
  <2> SUFFICES ASSUME NEW i \in 1..Len(text) PROVE text[i] # NUL
    OBVIOUS
  <2>1. CASE i <= n
    BY <1>1, <1>5, <2>1
  <2>2. CASE i = n + 1
    BY <1>6, <2>2 DEF NUL
  <2> QED
    BY <1>1, <1>5, <2>1, <2>2
<1>8. word \notin Blanks /\ detail \notin Blanks /\ "CR" \in Blanks
  BY DEF Words, Details, Blanks, LF
<1>9. n \in 1..Len(text) /\ \A i \in (n + 1)..Len(text) : text[i] \in Blanks
  <2>1. \A i \in (n + 1)..Len(text) : i = n + 1
    BY <1>1, <1>5
  <2> QED
    BY <1>1, <1>5, <1>6, <1>8, <2>1
<1>10. Clean(text) = SubSeq(text, 1, n)
  BY <1>5, <1>6, <1>7, <1>8, <1>9, CleanIs
<1>11. SubSeq(text, 1, n) = line
  <2>1. 1 \in 1..Len(line) /\ n \in 1..Len(line)
    BY <1>1 DEF n
  <2>2. SubSeq(line \o <<"CR">>, 1, n) = SubSeq(line, 1, n)
    BY <1>1, <1>3, <2>1, SubSeqOfConcat1
  <2>3. SubSeq(line, 1, n) = line
    BY <1>1, SubSeqFull DEF n
  <2> QED
    BY <1>4, <2>2, <2>3
<1> QED
  BY <1>5, <1>6, <1>10, <1>11 DEF line, text

-----------------------------------------------------------------------------
(* What handleLine does to each part of the device. *)

Measures(line) == IsSensor(line) /\ ~IsV1Line(line)
Acks(line)     == IsDeviceAck(line) /\ waiter # None /\ DeviceAck(line).id = waiter

LEMMA NothingInNothing == ~IsSensor(<<>>)
<1>1. Len(<<>>) = 0
  BY EmptySeq
<1>2. Matches(<<>>) = {}
  BY <1>1 DEF Matches
<1> QED
  BY <1>2 DEF IsSensor

Device(a, b, c, e, f, g) == [v1 |-> a, full |-> b, sensor |-> c, diag |-> e, events |-> f, reply |-> g]

\* The device h comes from these parts and one line.
Follows(h, a, b, c, e, f, g, line) ==
  /\ h.v1 \in {a, TRUE} /\ h.diag \in {e, TRUE}
  /\ IsFullState(line) => h.full = FullState(line) /\ h.v1 = TRUE
  /\ ~IsFullState(line) => h.full = b
  /\ Measures(line) => h.sensor = Sensor(line)
  /\ ~Measures(line) => h.sensor = c
  /\ IsEvent(line) => h.events = Append(f, EventEntity(EventBody(line)))
  /\ ~IsEvent(line) => h.events = f
  /\ Acks(line) /\ g = None => h.reply = DeviceAck(line)
  /\ ~(Acks(line) /\ g = None) => h.reply = g

LEMMA Handling ==
  ASSUME NEW a, NEW b, NEW c, NEW e, NEW f, NEW g, NEW line
  PROVE  Follows(HandleLine(Device(a, b, c, e, f, g), line), a, b, c, e, f, g, line)
<1> DEFINE d == [v1 |-> a, full |-> b, sensor |-> c, diag |-> e, events |-> f, reply |-> g]
           h == HandleLine(d, line)
<1> SUFFICES Follows(h, a, b, c, e, f, g, line)
  BY DEF Device
<1>1. /\ d.v1 = a /\ d.full = b /\ d.sensor = c /\ d.diag = e /\ d.events = f /\ d.reply = g
      /\ DOMAIN d = {"v1", "full", "sensor", "diag", "events", "reply"}
  OBVIOUS
<1>11. \A x : [d EXCEPT !.v1 = x] = [v1 |-> x, full |-> b, sensor |-> c, diag |-> e, events |-> f, reply |-> g]
  OBVIOUS
<1>12. \A x : [d EXCEPT !.diag = x] = [v1 |-> a, full |-> b, sensor |-> c, diag |-> x, events |-> f, reply |-> g]
  OBVIOUS
<1>13. \A x, y : [d EXCEPT !.full = x, !.v1 = y]
                = [v1 |-> y, full |-> x, sensor |-> c, diag |-> e, events |-> f, reply |-> g]
  <2> TAKE x, y
  <2> DEFINE r == [d EXCEPT !.full = x, !.v1 = y]
  <2>1. DOMAIN r = {"v1", "full", "sensor", "diag", "events", "reply"} /\ r = [i \in DOMAIN r |-> r[i]]
    OBVIOUS
  <2>2. r.v1 = y /\ r.full = x /\ r.sensor = c /\ r.diag = e /\ r.events = f /\ r.reply = g
    OBVIOUS
  <2> HIDE DEF r, d
  <2>3. r = [v1 |-> y, full |-> x, sensor |-> c, diag |-> e, events |-> f, reply |-> g]
    BY <2>1, <2>2
  <2> QED
    BY <2>3 DEF r
<1>14. \A x : [d EXCEPT !.sensor = x] = [v1 |-> a, full |-> b, sensor |-> x, diag |-> e, events |-> f, reply |-> g]
  OBVIOUS
<1>15. \A x : [d EXCEPT !.reply = x] = [v1 |-> a, full |-> b, sensor |-> c, diag |-> e, events |-> f, reply |-> x]
  OBVIOUS
<1>16. \A x : [d EXCEPT !.events = x] = [v1 |-> a, full |-> b, sensor |-> c, diag |-> e, events |-> x, reply |-> g]
  OBVIOUS
<1> HIDE DEF d, Follows
<1>2. CASE line = <<>>
  <2>1. h = d
    BY <1>2, Zenon DEF HandleLine
  <2>2. ~IsFullState(line) /\ ~Measures(line) /\ ~IsEvent(line) /\ ~Acks(line)
    BY <1>2, FirstWords, NothingInNothing DEF Measures, Acks
  <2> QED
    BY <1>1, <2>1, <2>2 DEF d, Follows
<1>3. CASE line # <<>> /\ line[1] = "HELLO:stcb-full:v1"
  <2>1. IsV1Line(line) /\ ~IsFullState(line) /\ ~IsDeviceAck(line) /\ ~IsEvent(line) /\ ~IsDiagnostic(line)
    BY <1>3, FirstWords DEF IsV1Line
  <2>2. h = [d EXCEPT !.v1 = TRUE]
    BY <1>3, <2>1, Zenon DEF HandleLine, HandleV1
  <2>3. ~Measures(line) /\ ~Acks(line)
    BY <2>1 DEF Measures, Acks
  <2> QED
    BY <1>1, <1>11, <2>1, <2>2, <2>3 DEF d, Follows
<1>4. CASE IsFullState(line)
  <2>1. /\ line # <<>> /\ line[1] # "HELLO:stcb-full:v1" /\ IsV1Line(line)
        /\ ~IsDeviceAck(line) /\ ~IsEvent(line) /\ ~IsDiagnostic(line)
    BY <1>4, FirstWords DEF IsV1Line
  <2>2. h = StoreState(d, line)
    BY <1>4, <2>1, Zenon DEF HandleLine, HandleV1
  <2>3. h = [d EXCEPT !.full = FullState(line), !.v1 = TRUE]
    BY <2>2 DEF StoreState
  <2>4. ~Measures(line) /\ ~Acks(line)
    BY <2>1 DEF Measures, Acks
  <2> QED
    BY <1>1, <1>13, <1>4, <2>1, <2>3, <2>4 DEF d, Follows
<1>5. CASE IsDeviceAck(line)
  <2>1. /\ line # <<>> /\ line[1] # "HELLO:stcb-full:v1" /\ IsV1Line(line)
        /\ ~IsFullState(line) /\ ~IsEvent(line) /\ ~IsDiagnostic(line) /\ ~Measures(line)
    BY <1>5, FirstWords DEF IsV1Line, Measures
  <2>2. h = IF waiter # None /\ DeviceAck(line).id = waiter /\ d.reply = None
            THEN [d EXCEPT !.reply = DeviceAck(line)] ELSE d
    BY <1>5, <2>1, Zenon DEF HandleLine, HandleV1
  <2>3. Acks(line) /\ g = None => h = [d EXCEPT !.reply = DeviceAck(line)]
    BY <1>1, <2>2 DEF Acks
  <2>4. ~(Acks(line) /\ g = None) => h = d
    BY <1>1, <1>5, <2>2 DEF Acks
  <2>5. CASE Acks(line) /\ g = None
    BY <1>1, <2>1, <2>3, <2>5 DEF d, Follows
  <2>6. CASE ~(Acks(line) /\ g = None)
    BY <1>1, <2>1, <2>4, <2>6 DEF d, Follows
  <2> QED
    BY <2>5, <2>6
<1>6. CASE IsEvent(line)
  <2>1. /\ line # <<>> /\ line[1] # "HELLO:stcb-full:v1" /\ IsV1Line(line)
        /\ ~IsFullState(line) /\ ~IsDeviceAck(line) /\ ~IsDiagnostic(line) /\ ~Measures(line) /\ ~Acks(line)
    BY <1>6, FirstWords DEF IsV1Line, Measures, Acks
  <2>2. h = [d EXCEPT !.events = Append(d.events, EventEntity(EventBody(line)))]
    BY <1>6, <2>1, Zenon DEF HandleLine, HandleV1
  <2> QED
    BY <1>1, <1>16, <1>6, <2>1, <2>2 DEF d, Follows
<1>7. CASE IsDiagnostic(line)
  <2>1. /\ line # <<>> /\ line[1] # "HELLO:stcb-full:v1" /\ IsV1Line(line)
        /\ ~IsFullState(line) /\ ~IsDeviceAck(line) /\ ~IsEvent(line) /\ ~Measures(line) /\ ~Acks(line)
    BY <1>7, FirstWords DEF IsV1Line, Measures, Acks
  <2>2. h = [d EXCEPT !.diag = TRUE]
    BY <1>7, <2>1, Zenon DEF HandleLine, HandleV1
  <2> QED
    BY <1>1, <1>12, <2>1, <2>2 DEF d, Follows
<1>8. CASE line # <<>> /\ ~IsV1Line(line)
  <2>1. ~IsFullState(line) /\ ~IsDeviceAck(line) /\ ~IsEvent(line) /\ ~Acks(line)
    BY <1>8 DEF IsV1Line, Acks
  <2>2. h = HandleSensor(d, line) /\ (Measures(line) <=> IsSensor(line))
    BY <1>8, Zenon DEF HandleLine, Measures
  <2>3. Measures(line) => h = [d EXCEPT !.sensor = Sensor(line)]
    BY <2>2 DEF HandleSensor
  <2>4. ~Measures(line) => h = d
    BY <2>2 DEF HandleSensor
  <2>5. CASE Measures(line)
    BY <1>1, <2>1, <2>3, <2>5 DEF d, Follows
  <2>6. CASE ~Measures(line)
    BY <1>1, <2>1, <2>4, <2>6 DEF d, Follows
  <2> QED
    BY <2>5, <2>6
<1> QED
  BY <1>2, <1>3, <1>4, <1>5, <1>6, <1>7, <1>8 DEF IsV1Line, d, Follows

-----------------------------------------------------------------------------
(* What the parsers let through. *)

LEMMA DigitFacts == ASSUME NEW x \in Hexadecimal PROVE DigitOf[x] \in 0..15
<1>1. \E i \in 1..16 : Digits[i] = x
  BY DEF Hexadecimal
<1>2. (CHOOSE i \in 1..16 : Digits[i] = x) \in 1..16
  BY <1>1
<1>3. PICK n \in 1..16 : n = CHOOSE i \in 1..16 : Digits[i] = x
  BY <1>2
<1>4. DigitOf[x] = n - 1
  BY <1>3 DEF DigitOf
<1> QED
  BY <1>4

LEMMA Hex3Facts == ASSUME NEW s, Hex3Ok(s) PROVE Hex3(s) \in 0..1023
<1>1. s[1] \in Hexadecimal /\ s[2] \in Hexadecimal /\ s[3] \in Hexadecimal
  BY DEF Hex3Ok, IsNumber
<1>2. DigitOf[s[1]] \in 0..15 /\ DigitOf[s[2]] \in 0..15 /\ DigitOf[s[3]] \in 0..15
  BY <1>1, DigitFacts
<1>3. Hex3(s) < 1024
  BY DEF Hex3Ok
<1>4. PICK x \in 0..15, y \in 0..15, z \in 0..15 : x = DigitOf[s[1]] /\ y = DigitOf[s[2]] /\ z = DigitOf[s[3]]
  BY <1>2
<1>5. Hex3(s) = 256 * x + 16 * y + z
  BY <1>4 DEF Hex3
<1> QED
  BY <1>3, <1>5

LEMMA HexByteFacts == ASSUME NEW s, HexByteOk(s) PROVE Hex2(s) \in 0..255
<1>1. s[1] \in Hexadecimal /\ s[2] \in Hexadecimal
  BY DEF HexByteOk, IsNumber
<1>2. DigitOf[s[1]] \in 0..15 /\ DigitOf[s[2]] \in 0..15
  BY <1>1, DigitFacts
<1> QED
  BY <1>2 DEF Hex2

LEMMA FieldFacts == ASSUME NEW key \in Fields, NEW s, FieldOk(key, s) PROVE FieldValue(key, s) \in Ranges[key]
<1>1. CASE key \in Adcs
  <2>1. key \notin Bits /\ key # "navkey" /\ key # "led"
    BY <1>1 DEF Adcs, Bits
  <2>2. Hex3Ok(s)
    BY <1>1, <2>1, Zenon DEF FieldOk
  <2>3. FieldValue(key, s) = Hex3(s)
    BY <1>1 DEF FieldValue
  <2>4. Ranges[key] = 0..1023
    BY <1>1, <2>1, ZenonT(40) DEF Ranges
  <2> QED
    BY <2>2, <2>3, <2>4, Hex3Facts
<1>2. CASE key \in Bits
  <2>1. key \notin Adcs /\ key # "navkey" /\ key # "led"
    BY <1>2 DEF Adcs, Bits
  <2>2. BitOk(s)
    BY <1>2, <2>1, Zenon DEF FieldOk
  <2>3. FieldValue(key, s) = Atoi(s)
    BY <2>1 DEF FieldValue
  <2>4. Ranges[key] = 0..1
    BY <1>2, <2>1, ZenonT(40) DEF Ranges
  <2>5. Atoi(s) \in {0, 1}
    BY <2>2 DEF BitOk
  <2> QED
    BY <2>3, <2>4, <2>5
<1>3. CASE key = "navkey"
  <2>1. key \notin Adcs /\ key \notin Bits /\ key # "led"
    BY <1>3 DEF Adcs, Bits
  <2>2. RangeOk(s, 6)
    BY <1>3, <2>1, Zenon DEF FieldOk
  <2>3. FieldValue(key, s) = Atoi(s)
    BY <2>1 DEF FieldValue
  <2>4. Ranges[key] = 0..6
    BY <1>3, <2>1, ZenonT(40) DEF Ranges
  <2> QED
    BY <2>2, <2>3, <2>4 DEF RangeOk
<1>4. CASE key = "led"
  <2>1. key \notin Adcs /\ key \notin Bits /\ key # "navkey"
    BY <1>4 DEF Adcs, Bits
  <2>2. HexByteOk(s)
    BY <1>4, <2>1, Zenon DEF FieldOk
  <2>3. FieldValue(key, s) = Hex2(s)
    BY <1>4, <2>1 DEF FieldValue
  <2>4. Ranges[key] = 0..255
    BY <1>4, <2>1, ZenonT(40) DEF Ranges
  <2> QED
    BY <2>2, <2>3, <2>4, HexByteFacts
<1> QED
  BY <1>1, <1>2, <1>3, <1>4 DEF Fields

\* A full state that the parser accepts.
InRange(f) == /\ \A key \in Fields : f.value[key] \in Ranges[key]
              /\ f.clock[1] <= 23 /\ f.clock[2] <= 59 /\ f.clock[3] <= 59

LEMMA FullStateFacts ==
  ASSUME NEW line, IsFullState(line)
  PROVE  /\ InRange(FullState(line))
         /\ DOMAIN FullState(line) = {"clock", "value"} /\ DOMAIN FullState(line).value = Fields
<1> DEFINE kv == KeyValues(line)
           f  == FullState(line)
<1>1. ClockOk(kv["clock"]) /\ \A key \in Fields : FieldOk(key, kv[key])
  BY DEF IsFullState
<1>2. /\ f.value = [key \in Fields |-> FieldValue(key, kv[key])]
      /\ f.clock = [i \in 1..3 |-> Atoi(SubSeq(kv["clock"], 3 * i - 2, 3 * i - 1))]
      /\ DOMAIN f = {"clock", "value"}
  BY DEF FullState
<1> HIDE DEF kv, f
<1>3. \A key \in Fields : f.value[key] \in Ranges[key]
  BY <1>1, <1>2, FieldFacts
<1>4. /\ Atoi(SubSeq(kv["clock"], 1, 1 + 1)) <= 23
      /\ Atoi(SubSeq(kv["clock"], 4, 4 + 1)) <= 59
      /\ Atoi(SubSeq(kv["clock"], 7, 7 + 1)) <= 59
  BY <1>1, Zenon DEF ClockOk
<1>5. /\ f.clock[1] = Atoi(SubSeq(kv["clock"], 1, 2))
      /\ f.clock[2] = Atoi(SubSeq(kv["clock"], 4, 5))
      /\ f.clock[3] = Atoi(SubSeq(kv["clock"], 7, 8))
  BY <1>2
<1>6. f.clock[1] <= 23 /\ f.clock[2] <= 59 /\ f.clock[3] <= 59
  BY <1>4, <1>5
<1> QED
  BY <1>2, <1>3, <1>6 DEF InRange, f

LEMMA SensorFacts == ASSUME NEW line, IsSensor(line) PROVE Sensor(line) \in Seq(Hexadecimal) /\ Len(Sensor(line)) = 25
<1> DEFINE i == Min(Matches(line))
           j == IF i < Len(line) /\ line[i + 1] \in {":", "FFFD"} THEN i + 2 ELSE i + 1
           f == [k \in 1..25 |-> line[j + k - 1]]
<1>1. Matches(line) # {} /\ Matches(line) \subseteq Nat
  BY DEF IsSensor, Matches
<1>2. i \in Matches(line)
  BY <1>1, LeastExists
<1>3. MatchAt(line, i) # <<>>
  BY <1>2 DEF Matches
<1>4. MatchAt(line, i) = f /\ IsNumber(f, Hexadecimal)
  BY <1>3, Zenon DEF MatchAt
<1> HIDE DEF i, j
<1>5. f \in Seq({line[j + k - 1] : k \in 1..25}) /\ Len(f) = 25
  OBVIOUS
<1> HIDE DEF f
<1>6. \A k \in 1..25 : f[k] \in Hexadecimal
  BY <1>4, <1>5 DEF IsNumber
<1>7. f \in [1..25 -> Hexadecimal]
  BY <1>5, <1>6, LenProperties
<1>8. f \in Seq(Hexadecimal)
  <2>1. ASSUME NEW n \in Nat, NEW S, NEW g \in [1..n -> S] PROVE g \in Seq(S)
    OBVIOUS
  <2> QED
    BY <1>7, <2>1
<1> QED
  BY <1>4, <1>5, <1>8 DEF Sensor, i

-----------------------------------------------------------------------------
(* The bytes: no line is lost. *)

PlacesInv == PlaceInv /\ DroppedInv /\ LinesComplete
Lines     == Seq([text : Seq(Tokens), at : Nat])

\* Two texts that agree have the same pieces.
LEMMA SamePiece ==
  ASSUME NEW S, NEW s \in Seq(S), NEW t \in Seq(S), NEW a \in Nat, NEW b \in Nat, NEW m \in Int, NEW n \in Int,
         a + m >= 1, b + m >= 1, a + n <= Len(s), b + n <= Len(t),
         \A i \in m..n : s[a + i] = t[b + i]
  PROVE  SubSeq(s, a + m, a + n) = SubSeq(t, b + m, b + n)
<1> DEFINE k == IF m <= n THEN n - m + 1 ELSE 0
<1>1. Len(s) \in Nat /\ Len(t) \in Nat
  BY LenProperties
<1>2. (\A i \in (a + m)..(a + n) : s[i] \in S) /\ (\A i \in (b + m)..(b + n) : t[i] \in S)
  BY <1>1, ElementOfSeq
<1>3. /\ SubSeq(s, a + m, a + n) \in Seq(S) /\ Len(SubSeq(s, a + m, a + n)) = k
      /\ \A i \in 1..k : SubSeq(s, a + m, a + n)[i] = s[a + (m + i - 1)]
  <2>1. PICK x \in Int, y \in Int : x = a + m /\ y = a + n
    OBVIOUS
  <2>2. /\ SubSeq(s, x, y) \in Seq(S) /\ Len(SubSeq(s, x, y)) = IF x <= y THEN y - x + 1 ELSE 0
        /\ \A i \in 1..(y - x + 1) : SubSeq(s, x, y)[i] = s[x + i - 1]
    BY <1>2, <2>1, SubSeqProperties
  <2>3. \A i \in 1..k : i \in 1..(y - x + 1) /\ x + i - 1 = a + (m + i - 1)
    BY <2>1
  <2> QED
    BY <2>1, <2>2, <2>3
<1>4. /\ SubSeq(t, b + m, b + n) \in Seq(S) /\ Len(SubSeq(t, b + m, b + n)) = k
      /\ \A i \in 1..k : SubSeq(t, b + m, b + n)[i] = t[b + (m + i - 1)]
  <2>1. PICK x \in Int, y \in Int : x = b + m /\ y = b + n
    OBVIOUS
  <2>2. /\ SubSeq(t, x, y) \in Seq(S) /\ Len(SubSeq(t, x, y)) = IF x <= y THEN y - x + 1 ELSE 0
        /\ \A i \in 1..(y - x + 1) : SubSeq(t, x, y)[i] = t[x + i - 1]
    BY <1>2, <2>1, SubSeqProperties
  <2>3. \A i \in 1..k : i \in 1..(y - x + 1) /\ x + i - 1 = b + (m + i - 1)
    BY <2>1
  <2> QED
    BY <2>1, <2>2, <2>3
<1>5. \A i \in 1..k : s[a + (m + i - 1)] = t[b + (m + i - 1)]
  <2> TAKE i \in 1..k
  <2>1. PICK j \in m..n : j = m + i - 1
    OBVIOUS
  <2> QED
    BY <2>1
<1> DEFINE u == SubSeq(s, a + m, a + n)
           v == SubSeq(t, b + m, b + n)
<1>6. u \in Seq(S) /\ v \in Seq(S) /\ Len(u) = k /\ Len(v) = k
  BY <1>3, <1>4
<1>7. \A i \in 1..k : u[i] = v[i]
  BY <1>3, <1>4, <1>5
<1> HIDE DEF u, v, k
<1>8. u = v
  BY <1>6, <1>7, SeqEqual
<1> QED
  BY <1>8 DEF u, v

LEMMA Sizes ==
  ASSUME TypeOK
  PROVE  /\ Len(wire) \in Nat /\ Len(buf) \in Nat /\ Len(stream) \in Nat /\ Len(handled) \in Nat
         /\ wire \in Seq(Tokens) /\ buf \in Seq(Tokens) /\ stream \in Seq(Tokens) /\ handled \in Lines
         /\ DOMAIN handled = 1..Len(handled)
         /\ \A k \in 1..Len(handled) : handled[k].text \in Seq(Tokens) /\ handled[k].at \in Nat
         /\ \A k \in 1..(Len(handled) + 1) : From(k) \in Nat /\ From(k) >= 1
<1>1. /\ wire \in Seq(Tokens) /\ buf \in Seq(Tokens) /\ stream \in Seq(Tokens)
      /\ handled \in Seq([text : Seq(Tokens), at : Nat])
  BY DEF TypeOK
<1>2. /\ Len(wire) \in Nat /\ Len(buf) \in Nat /\ Len(stream) \in Nat /\ Len(handled) \in Nat
      /\ DOMAIN handled = 1..Len(handled)
  BY <1>1, LenProperties
<1>3. \A k \in 1..Len(handled) : handled[k] \in [text : Seq(Tokens), at : Nat]
  BY <1>1, ElementOfSeq
<1>4. \A k \in 1..Len(handled) : handled[k].text \in Seq(Tokens) /\ handled[k].at \in Nat
  BY <1>3
<1>5. ASSUME NEW k \in 1..(Len(handled) + 1) PROVE From(k) \in Nat /\ From(k) >= 1
  <2>1. CASE k = 1
    BY <2>1 DEF From
  <2>2. CASE k # 1
    <3>1. k - 1 \in 1..Len(handled)
      BY <1>2, <2>2
    <3>2. From(k) = handled[k - 1].at + 1
      BY <2>2 DEF From
    <3> QED
      BY <1>4, <3>1, <3>2
  <2> QED
    BY <2>1, <2>2
<1> QED
  BY <1>1, <1>2, <1>4, <1>5 DEF Lines

\* What the board writes goes behind everything that is there.
LEMMA SendsKeep ==
  ASSUME TypeOK, PlacesInv, NEW text \in Seq(Tokens), BoardSends(text), buf' = buf, handled' = handled
  PROVE  wire' \in Seq(Tokens) /\ stream' \in Seq(Tokens) /\ PlacesInv'
<1>1. wire' = wire \o text /\ stream' = stream \o text
  BY DEF BoardSends
<1>2. PICK w \in Nat, b \in Nat, l \in Nat, n \in Nat, m \in Nat :
        w = Len(wire) /\ b = Len(buf) /\ l = Len(stream) /\ n = Len(handled) /\ m = Len(text)
  BY Sizes, LenProperties
<1>3. /\ wire' \in Seq(Tokens) /\ Len(wire') = w + m
      /\ \A i \in 1..(w + m) : wire'[i] = IF i <= w THEN wire[i] ELSE text[i - w]
  BY <1>1, <1>2, Sizes, ConcatProperties
<1>4. /\ stream' \in Seq(Tokens) /\ Len(stream') = l + m
      /\ \A i \in 1..(l + m) : stream'[i] = IF i <= l THEN stream[i] ELSE text[i - l]
  BY <1>1, <1>2, Sizes, ConcatProperties
<1>5. Heard = l - w /\ Heard' = l - w /\ Start = l - w - b + 1 /\ Start' = l - w - b + 1 /\ w + b <= l
  BY <1>2, <1>3, <1>4 DEF PlacesInv, PlaceInv, Heard, Start
<1>6. \A k : From(k)' = From(k)
  BY DEF From
<1>7. PlaceInv'
  <2>1. \A i \in 1..w : wire[i] = stream[(l - w) + i]
    BY <1>2, <1>5 DEF PlacesInv, PlaceInv
  <2>2. \A i \in 1..b : buf[i] = stream[(l - w - b + 1) + i - 1]
    BY <1>2, <1>5 DEF PlacesInv, PlaceInv
  <2>3. \A i \in 1..(w + m) : wire'[i] = stream'[(l - w) + i]
    <3> SUFFICES ASSUME NEW i \in 1..(w + m) PROVE wire'[i] = stream'[(l - w) + i]
      OBVIOUS
    <3>1. (l - w) + i \in 1..(l + m) /\ (i <= w <=> (l - w) + i <= l) /\ ((l - w) + i) - l = i - w
      BY <1>5
    <3>2. CASE i <= w
      BY <1>3, <1>4, <2>1, <3>1, <3>2
    <3>3. CASE i > w
      <4>1. PICK j \in 1..(l + m) : j = (l - w) + i
        BY <3>1
      <4>2. wire'[i] = text[i - w]
        BY <1>3, <3>3
      <4>3. stream'[j] = text[j - l]
        BY <1>4, <3>1, <3>3, <4>1
      <4>4. j - l = i - w
        BY <3>1, <4>1
      <4> QED
        BY <4>1, <4>2, <4>3, <4>4
    <3> QED
      BY <3>2, <3>3
  <2>4. \A i \in 1..b : buf[i] = stream'[(l - w - b + 1) + i - 1]
    <3> SUFFICES ASSUME NEW i \in 1..b PROVE buf[i] = stream'[(l - w - b + 1) + i - 1]
      OBVIOUS
    <3>1. (l - w - b + 1) + i - 1 \in 1..(l + m) /\ (l - w - b + 1) + i - 1 <= l
      BY <1>5
    <3> QED
      BY <1>4, <2>2, <3>1
  <2> QED
    BY <1>2, <1>3, <1>4, <1>5, <2>3, <2>4 DEF PlaceInv
<1>8. DroppedInv'
  BY <1>5, <1>6 DEF PlacesInv, DroppedInv
<1>9. LinesComplete'
  <2>1. ASSUME NEW k \in 1..n
        PROVE  LET at == handled[k].at IN
               /\ at \in From(k)..(l + m) /\ stream'[at] = LF
               /\ \A i \in From(k)..(at - 1) : stream'[i] # LF
               /\ \E first \in From(k)..at :
                    /\ handled[k].text = SubSeq(stream', first, at - 1)
                    /\ first = From(k) \/ first - From(k) > FloodLimit
    <3> DEFINE at == handled[k].at
               start == From(k)
    <3>1. at \in start..l /\ stream[at] = LF /\ (\A i \in start..(at - 1) : stream[i] # LF)
      BY <1>2, Sizes DEF PlacesInv, LinesComplete
    <3>2. PICK first \in start..at : /\ handled[k].text = SubSeq(stream, first, at - 1)
                                     /\ first = start \/ first - start > FloodLimit
      BY <1>2, Sizes DEF PlacesInv, LinesComplete
    <3>3. start \in Nat /\ start >= 1 /\ at \in Nat
      BY <1>2, Sizes
    <3> HIDE DEF at, start
    <3>4. \A i \in 1..l : stream'[i] = stream[i]
      BY <1>4
    <3>5. SubSeq(stream, first, at - 1) = SubSeq(stream', first, at - 1)
      <4>1. first \in Int /\ at - 1 \in Int /\ first >= 1 /\ at - 1 <= l
        BY <3>1, <3>3
      <4>2. \A i \in first..(at - 1) : stream[0 + i] = stream'[0 + i]
        BY <3>4, <4>1
      <4>3. SubSeq(stream, 0 + first, 0 + (at - 1)) = SubSeq(stream', 0 + first, 0 + (at - 1))
        BY <1>2, <1>4, <4>1, <4>2, Sizes, SamePiece
      <4> QED
        BY <4>1, <4>3
    <3>6. at \in start..(l + m) /\ stream'[at] = LF
      BY <3>1, <3>3, <3>4
    <3>7. \A i \in start..(at - 1) : stream'[i] # LF
      BY <3>1, <3>3, <3>4
    <3> QED
      BY <3>2, <3>5, <3>6, <3>7 DEF at, start
  <2>2. \A i \in From(n + 1)..(l - w - b) : stream'[i] # LF
    <3>1. \A i \in From(n + 1)..(l - w - b) : stream[i] # LF
      BY <1>2 DEF PlacesInv, LinesComplete
    <3>2. From(n + 1) \in Nat /\ From(n + 1) >= 1
      BY <1>2, Sizes
    <3>3. \A i \in From(n + 1)..(l - w - b) : i \in 1..(l + m) /\ i <= l
      BY <1>5, <3>2
    <3> QED
      BY <1>4, <3>1, <3>3
  <2>3. Len(stream') - Len(wire') - Len(buf') = l - w - b
    BY <1>2, <1>3, <1>4
  <2>4. DOMAIN handled' = 1..n /\ Len(handled') = n
    BY <1>2, Sizes
  <2>5. /\ \A k \in DOMAIN handled' :
             LET at == handled'[k].at IN
             /\ at \in From(k)..Len(stream') /\ stream'[at] = LF
             /\ \A i \in From(k)..(at - 1) : stream'[i] # LF
             /\ \E first \in From(k)..at :
                  /\ handled'[k].text = SubSeq(stream', first, at - 1)
                  /\ first = From(k) \/ first - From(k) > FloodLimit
        /\ \A i \in From(Len(handled') + 1)..(Len(stream') - Len(wire') - Len(buf')) : stream'[i] # LF
    BY <1>4, <2>1, <2>2, <2>3, <2>4
  <2> QED
    BY <1>6, <2>5, Zenon DEF LinesComplete
<1> QED
  BY <1>3, <1>4, <1>7, <1>8, <1>9 DEF PlacesInv

\* The two parts of LinesComplete: line k has been handled whole, and no line has
\* ended behind the last one.
Whole(k) ==
  LET at == handled[k].at IN
  /\ at \in From(k)..Len(stream) /\ stream[at] = LF
  /\ \A i \in From(k)..(at - 1) : stream[i] # LF
  /\ \E first \in From(k)..at :
       /\ handled[k].text = SubSeq(stream, first, at - 1)
       /\ first = From(k) \/ first - From(k) > FloodLimit
Unbroken == \A i \in From(Len(handled) + 1)..(Len(stream) - Len(wire) - Len(buf)) : stream[i] # LF

LEMMA CompleteParts == LinesComplete <=> (\A k \in DOMAIN handled : Whole(k)) /\ Unbroken
  BY Zenon DEF LinesComplete, Whole, Unbroken

\* A Read appends to the buffer, or drops all of it.
LEMMA ReadKeeps ==
  ASSUME TypeOK, PlacesInv, Read
  PROVE  /\ wire' \in Seq(Tokens) /\ buf' \in Seq(Tokens) /\ PlacesInv'
         /\ Places(buf', LF) = {} => Len(buf') <= FloodLimit
<1>1. PICK w \in Nat, b \in Nat, l \in Nat, n \in Nat :
        w = Len(wire) /\ b = Len(buf) /\ l = Len(stream) /\ n = Len(handled)
  BY Sizes
<1>2. /\ stream' = stream /\ handled' = handled /\ w + b <= l
      /\ Heard = l - w /\ Start = l - w - b + 1
  BY <1>1 DEF Read, PlacesInv, PlaceInv, Heard, Start
<1>3. PICK c \in Nat : /\ c >= 1 /\ c <= w /\ wire' = SubSeq(wire, c + 1, w)
                       /\ buf' = Flood(buf \o SubSeq(wire, 1, c))
  BY <1>1, BoundsAssumption DEF Read
<1> DEFINE new == buf \o SubSeq(wire, 1, c)
<1>4. /\ wire' \in Seq(Tokens) /\ Len(wire') = w - c
      /\ \A i \in 1..(w - c) : wire'[i] = wire[c + i]
  <2>1. PICK x \in Int : x = c + 1
    OBVIOUS
  <2>2. \A i \in x..w : wire[i] \in Tokens
    BY <1>1, <2>1, Sizes, ElementOfSeq
  <2>3. /\ SubSeq(wire, x, w) \in Seq(Tokens) /\ Len(SubSeq(wire, x, w)) = IF x <= w THEN w - x + 1 ELSE 0
        /\ \A i \in 1..(w - x + 1) : SubSeq(wire, x, w)[i] = wire[x + i - 1]
    BY <2>2, SubSeqProperties
  <2>4. \A i \in 1..(w - c) : i \in 1..(w - x + 1) /\ x + i - 1 = c + i
    BY <2>1
  <2> QED
    BY <1>3, <2>1, <2>3, <2>4
<1>5. /\ new \in Seq(Tokens) /\ Len(new) = b + c
      /\ \A i \in 1..(b + c) : new[i] = IF i <= b THEN buf[i] ELSE wire[i - b]
  <2>1. \A i \in 1..c : wire[i] \in Tokens
    BY <1>1, <1>3, Sizes, ElementOfSeq
  <2>2. /\ SubSeq(wire, 1, c) \in Seq(Tokens) /\ Len(SubSeq(wire, 1, c)) = c
        /\ \A i \in 1..c : SubSeq(wire, 1, c)[i] = wire[i]
    BY <2>1, <1>3, SubSeqProperties
  <2>3. PICK piece \in Seq(Tokens) : piece = SubSeq(wire, 1, c) /\ Len(piece) = c
    BY <2>2
  <2>4. /\ buf \o piece \in Seq(Tokens) /\ Len(buf \o piece) = b + c
        /\ \A i \in 1..(b + c) : (buf \o piece)[i] = IF i <= b THEN buf[i] ELSE piece[i - b]
    BY <1>1, <2>3, Sizes, ConcatProperties
  <2>5. \A i \in 1..(b + c) : i > b => i - b \in 1..c
    OBVIOUS
  <2> QED
    BY <2>2, <2>3, <2>4, <2>5
<1>6. buf' = IF Places(new, LF) = {} /\ Len(new) > FloodLimit THEN <<>> ELSE new
  BY <1>3 DEF Flood
<1> HIDE DEF new
<1>7. (\A i \in 1..w : wire[i] = stream[(l - w) + i]) /\ (\A i \in 1..b : buf[i] = stream[(l - w - b) + i])
  <2>1. (\A i \in 1..w : wire[i] = stream[(l - w) + i]) /\ (\A i \in 1..b : buf[i] = stream[(l - w - b + 1) + i - 1])
    BY <1>1, <1>2 DEF PlacesInv, PlaceInv
  <2>2. \A i \in 1..b : (l - w - b + 1) + i - 1 = (l - w - b) + i
    OBVIOUS
  <2> QED
    BY <2>1, <2>2
<1>8. \A i \in 1..(w - c) : wire'[i] = stream[(l - w + c) + i]
  <2> TAKE i \in 1..(w - c)
  <2>1. c + i \in 1..w /\ (l - w) + (c + i) = (l - w + c) + i
    BY <1>3
  <2> QED
    BY <1>4, <1>7, <2>1
<1>9. \A i \in 1..(b + c) : new[i] = stream[(l - w - b) + i]
  <2> TAKE i \in 1..(b + c)
  <2>1. CASE i <= b
    <3>1. i \in 1..b /\ new[i] = buf[i]
      BY <1>5, <2>1
    <3> QED
      BY <1>7, <3>1
  <2>2. CASE i > b
    <3>1. PICK j \in 1..w : j = i - b /\ (l - w) + j = (l - w - b) + i
      BY <1>3, <2>2
    <3>2. new[i] = wire[j]
      BY <1>5, <2>2, <3>1
    <3> QED
      BY <1>7, <3>1, <3>2
  <2> QED
    BY <2>1, <2>2
<1>10. PICK start \in Nat : start = From(n + 1)
  BY <1>1, Sizes
<1>11. /\ start = l - w - b + 1 \/ (l - w - b + 1) - start > FloodLimit
       /\ \A i \in start..(l - w - b) : stream[i] # LF
  BY <1>1, <1>2, <1>10, CompleteParts DEF PlacesInv, DroppedInv, Unbroken
<1>12. start <= l - w - b + 1
  BY <1>11, BoundsAssumption
<1>13. (\A k : From(k)' = From(k)) /\ \A k \in DOMAIN handled : Whole(k)'
  <2>1. \A k : From(k)' = From(k)
    BY <1>2 DEF From
  <2>2. \A k \in DOMAIN handled : Whole(k)
    BY CompleteParts DEF PlacesInv
  <2> QED
    BY <1>2, <2>1, <2>2 DEF Whole
<1>14. Heard' = l - w + c /\ Len(handled') = n /\ From(n + 1)' = start
  <2>1. Heard' = l - w + c
    BY <1>1, <1>2, <1>4 DEF Heard
  <2>2. Len(handled') = n
    BY <1>1, <1>2
  <2>3. From(n + 1)' = start
    BY <1>10, <1>13
  <2> QED
    BY <2>1, <2>2, <2>3
<1>15. LinesComplete' <=> (\A k \in DOMAIN handled : Whole(k)') /\ Unbroken'
  <2>1. LinesComplete' <=> (\A k \in DOMAIN handled' : Whole(k)') /\ Unbroken'
    BY Zenon DEF LinesComplete, Whole, Unbroken
  <2> QED
    BY <1>2, <2>1
<1>16. \A i \in 1..Len(wire') : wire'[i] = stream'[Heard' + i]
  BY <1>2, <1>4, <1>8, <1>14
<1>17. CASE Places(new, LF) = {} /\ Len(new) > FloodLimit
  <2>1. buf' = <<>> /\ Len(buf') = 0 /\ buf' \in Seq(Tokens)
    BY <1>6, <1>17
  <2>2. Start' = l - w + c + 1
    BY <1>14, <2>1 DEF Start
  <2>3. PlaceInv'
    <3>1. Len(wire') + Len(buf') <= Len(stream')
      <4>1. (w - c) + 0 <= l
        BY <1>2
      <4> QED
        BY <1>1, <1>2, <1>4, <2>1, <4>1
    <3>2. \A i \in 1..Len(buf') : buf'[i] = stream'[Start' + i - 1]
      BY <2>1
    <3> QED
      BY <1>16, <3>1, <3>2, Zenon DEF PlaceInv
  <2>4. DroppedInv'
    <3>1. (l - w + c + 1) - start > FloodLimit
      BY <1>5, <1>12, <1>17, BoundsAssumption
    <3> QED
      BY <1>14, <2>2, <3>1 DEF DroppedInv
  <2>5. \A i \in start..(l - w + c) : stream[i] # LF
    <3> TAKE i \in start..(l - w + c)
    <3>1. CASE i <= l - w - b
      BY <1>11, <3>1
    <3>2. CASE i > l - w - b
      <4>1. PICK j \in 1..(b + c) : j = i - (l - w - b)
        BY <3>2, <1>2
      <4>2. new[j] # LF
        BY <1>5, <1>17, LenProperties DEF Places
      <4>3. (l - w - b) + j = i
        BY <4>1
      <4> QED
        BY <1>9, <4>2, <4>3
    <3> QED
      BY <3>1, <3>2
  <2>6. Len(stream') - Len(wire') - Len(buf') = l - w + c
    BY <1>1, <1>2, <1>4, <2>1
  <2>7. Unbroken'
    BY <1>2, <1>14, <2>5, <2>6 DEF Unbroken
  <2>8. LinesComplete'
    BY <1>13, <1>15, <2>7
  <2>9. 0 <= FloodLimit
    BY BoundsAssumption
  <2> QED
    BY <1>4, <2>1, <2>3, <2>4, <2>8, <2>9 DEF PlacesInv
<1>18. CASE ~(Places(new, LF) = {} /\ Len(new) > FloodLimit)
  <2>1. buf' = new /\ Len(buf') = b + c
    BY <1>5, <1>6, <1>18
  <2>2. Start' = l - w - b + 1
    BY <1>14, <2>1 DEF Start
  <2>3. PlaceInv'
    <3>1. \A i \in 1..(b + c) : (l - w - b + 1) + i - 1 = (l - w - b) + i
      OBVIOUS
    <3>2. \A i \in 1..(b + c) : new[i] = stream[(l - w - b + 1) + i - 1]
      BY <1>9, <3>1
    <3>3. Len(wire') + Len(buf') <= Len(stream')
      <4>1. (w - c) + (b + c) <= l
        BY <1>2
      <4> QED
        BY <1>1, <1>2, <1>4, <2>1, <4>1
    <3>4. \A i \in 1..Len(buf') : buf'[i] = stream'[Start' + i - 1]
      BY <1>2, <2>1, <2>2, <3>2
    <3> QED
      BY <1>16, <3>3, <3>4, Zenon DEF PlaceInv
  <2>4. DroppedInv'
    BY <1>11, <1>14, <2>2 DEF DroppedInv
  <2>5. Len(stream') - Len(wire') - Len(buf') = l - w - b
    BY <1>1, <1>2, <1>4, <2>1
  <2>6. Unbroken'
    BY <1>2, <1>11, <1>14, <2>5 DEF Unbroken
  <2>7. LinesComplete'
    BY <1>13, <1>15, <2>6
  <2>8. Places(new, LF) = {} => Len(new) <= FloodLimit
    BY <1>5, <1>18, BoundsAssumption
  <2> QED
    BY <1>4, <1>5, <2>1, <2>3, <2>4, <2>7, <2>8 DEF PlacesInv
<1> QED
  BY <1>17, <1>18

\* What TakeLine takes is the line n + 1: it goes behind the others.
Taken(n, line) ==
  /\ line \in Seq(Tokens) /\ n = Len(handled) /\ Len(handled') = n + 1
  /\ handled' \in Lines /\ handled'[n + 1].text = line
  /\ \A k \in 1..n : handled'[k] = handled[k]
  /\ \A k \in 1..(n + 1) : From(k)' = From(k)
  /\ Cut(buf, LF)[1] = line

LEMMA TakeLineKeeps ==
  ASSUME TypeOK, PlacesInv, TakeLine
  PROVE  /\ buf' \in Seq(Tokens) /\ PlacesInv'
         /\ Places(buf', LF) = {} => Len(buf') <= FloodLimit
         /\ \E n \in Nat : \E line \in Seq(Tokens) : Taken(n, line)
<1>1. PICK w \in Nat, b \in Nat, l \in Nat, n \in Nat :
        w = Len(wire) /\ b = Len(buf) /\ l = Len(stream) /\ n = Len(handled)
  BY Sizes
<1>2. /\ stream' = stream /\ wire' = wire /\ w + b <= l
      /\ Heard = l - w /\ Start = l - w - b + 1
  BY <1>1 DEF TakeLine, PlacesInv, PlaceInv, Heard, Start
<1>3. PICK i \in 1..b : /\ buf[i] = LF /\ \A j \in 1..(i - 1) : buf[j] # LF
                        /\ Cut(buf, LF) = <<SubSeq(buf, 1, i - 1), SubSeq(buf, i + 1, b)>>
  <2>1. Places(buf, LF) # {} /\ buf \in Seq(Tokens)
    BY Sizes DEF TakeLine
  <2> QED
    BY <1>1, <2>1, CutFacts
<1>4. PICK line, rest : line = SubSeq(buf, 1, i - 1) /\ rest = SubSeq(buf, i + 1, b)
  OBVIOUS
<1>5. line \in Seq(Tokens)
  <2>1. PICK x \in Int : x = i - 1
    OBVIOUS
  <2>2. \A j \in 1..x : buf[j] \in Tokens
    BY <1>1, <2>1, Sizes, ElementOfSeq
  <2>3. SubSeq(buf, 1, x) \in Seq(Tokens)
    BY <2>2, SubSeqProperties
  <2> QED
    BY <1>4, <2>1, <2>3
<1>6. rest \in Seq(Tokens) /\ Len(rest) = b - i /\ \A j \in 1..(b - i) : rest[j] = buf[i + j]
  <2>1. PICK x \in Int : x = i + 1
    OBVIOUS
  <2>2. \A j \in x..b : buf[j] \in Tokens
    BY <1>1, <2>1, Sizes, ElementOfSeq
  <2>3. /\ SubSeq(buf, x, b) \in Seq(Tokens) /\ Len(SubSeq(buf, x, b)) = IF x <= b THEN b - x + 1 ELSE 0
        /\ \A j \in 1..(b - x + 1) : SubSeq(buf, x, b)[j] = buf[x + j - 1]
    BY <2>2, SubSeqProperties
  <2>4. \A j \in 1..(b - i) : j \in 1..(b - x + 1) /\ x + j - 1 = i + j
    BY <2>1
  <2>5. (IF x <= b THEN b - x + 1 ELSE 0) = b - i
    BY <2>1
  <2> QED
    BY <1>4, <2>1, <2>3, <2>4, <2>5
<1>7. PICK s \in Nat : s = l - w - b + 1 /\ s >= 1 /\ s - 1 \in Nat
  BY <1>2
<1>8. PICK at \in Nat : at = s - 1 + i
  OBVIOUS
<1>9. Cut(buf, LF)[1] = line /\ Cut(buf, LF)[2] = rest
  BY <1>3, <1>4
<1>10. /\ buf' = IF Places(rest, LF) = {} /\ Len(rest) > FloodLimit THEN <<>> ELSE rest
       /\ handled' = Append(handled, [text |-> line, at |-> at])
  <2>1. l - w - Len(rest) = at
    BY <1>6, <1>7, <1>8
  <2>2. buf' = Flood(rest) /\ handled' = Append(handled, [text |-> line, at |-> l - w - Len(rest)])
    BY <1>1, <1>9, Zenon DEF TakeLine
  <2> QED
    BY <2>1, <2>2 DEF Flood
<1>11. /\ handled' \in Lines /\ Len(handled') = n + 1 /\ DOMAIN handled' = 1..(n + 1)
       /\ \A k \in 1..n : handled'[k] = handled[k]
       /\ handled'[n + 1].text = line /\ handled'[n + 1].at = at
  <2>1. PICK r \in [text : Seq(Tokens), at : Nat] : r = [text |-> line, at |-> at]
    BY <1>5
  <2>2. handled' = Append(handled, r)
    BY <1>10, <2>1
  <2>3. /\ handled' \in Lines /\ Len(handled') = n + 1 /\ DOMAIN handled' = 1..(n + 1)
        /\ \A k \in 1..n : handled'[k] = handled[k]
        /\ handled'[n + 1] = r
    BY <1>1, <2>2, Sizes, AppendProperties DEF Lines
  <2> QED
    BY <2>1, <2>3
<1>12. (\A k \in 1..(n + 1) : From(k)' = From(k)) /\ From(n + 2)' = at + 1
  <2>1. ASSUME NEW k \in 1..(n + 1) PROVE From(k)' = From(k)
    <3>1. CASE k = 1
      BY <3>1 DEF From
    <3>2. CASE k # 1
      <4>1. PICK j \in 1..n : j = k - 1
        BY <3>2
      <4>2. From(k)' = handled'[j].at + 1 /\ From(k) = handled[j].at + 1
        BY <3>2, <4>1 DEF From
      <4> QED
        BY <1>11, <4>2
    <3> QED
      BY <3>1, <3>2
  <2>2. From(n + 2)' = at + 1
    <3>1. PICK m \in Nat : m = n + 2
      OBVIOUS
    <3>2. m # 1 /\ m - 1 = n + 1
      BY <3>1
    <3>3. From(m)' = handled'[m - 1].at + 1
      BY <3>2 DEF From
    <3> QED
      BY <1>11, <3>1, <3>2, <3>3
  <2> QED
    BY <2>1, <2>2
<1>13. PICK start \in Nat : start = From(n + 1) /\ start >= 1
  BY <1>1, Sizes
<1>14. /\ start = s \/ s - start > FloodLimit
       /\ \A j \in start..(s - 1) : stream[j] # LF
  <2>1. /\ start = Start \/ Start - start > FloodLimit
        /\ \A j \in start..(l - w - b) : stream[j] # LF
    BY <1>1, <1>13, CompleteParts DEF PlacesInv, DroppedInv, Unbroken
  <2>2. Start = s /\ l - w - b = s - 1
    BY <1>2, <1>7
  <2> QED
    BY <2>1, <2>2
<1>15. start <= s
  BY <1>14, BoundsAssumption
<1>16. \A j \in 1..b : buf[j] = stream[(s - 1) + j]
  <2>1. \A j \in 1..b : buf[j] = stream[Start + j - 1]
    BY <1>1 DEF PlacesInv, PlaceInv
  <2>2. \A j \in 1..b : Start + j - 1 = (s - 1) + j
    BY <1>2, <1>7
  <2> QED
    BY <2>1, <2>2
<1>17. \A k \in 1..n : Whole(k)'
  <2> TAKE k \in 1..n
  <2>1. Whole(k) /\ k \in 1..(n + 1)
    BY <1>1, CompleteParts, Sizes DEF PlacesInv
  <2> QED
    BY <1>2, <1>11, <1>12, <2>1 DEF Whole
<1>18. at \in start..l /\ stream[at] = LF
  <2>1. at \in start..l
    BY <1>2, <1>7, <1>8, <1>15
  <2>2. buf[i] = stream[at]
    BY <1>8, <1>16
  <2> QED
    BY <1>3, <2>1, <2>2
<1>19. \A j \in start..(at - 1) : stream[j] # LF
  <2> TAKE j \in start..(at - 1)
  <2>1. CASE j <= s - 1
    BY <1>14, <2>1
  <2>2. CASE j > s - 1
    <3>1. PICK x \in 1..(i - 1) : x = j - (s - 1)
      BY <1>8, <2>2
    <3>2. (s - 1) + x = j /\ x \in 1..b
      BY <3>1
    <3> QED
      BY <1>3, <1>16, <3>1, <3>2
  <2> QED
    BY <2>1, <2>2
<1>20. line = SubSeq(stream, s, at - 1)
  <2>1. PICK c \in Nat, x \in Int : c = s - 1 /\ x = i - 1
    BY <1>7
  <2>2. \A j \in 1..x : buf[0 + j] = stream[c + j]
    BY <1>16, <2>1
  <2>3. 0 + x <= Len(buf) /\ c + x <= Len(stream) /\ 0 + 1 >= 1 /\ c + 1 >= 1
    BY <1>1, <1>2, <1>7, <2>1
  <2>4. SubSeq(buf, 0 + 1, 0 + x) = SubSeq(stream, c + 1, c + x)
    BY <2>2, <2>3, Sizes, SamePiece
  <2>5. 0 + 1 = 1 /\ 0 + x = i - 1 /\ c + 1 = s /\ c + x = at - 1
    BY <1>8, <2>1
  <2> QED
    BY <1>4, <2>4, <2>5
<1>21. Whole(n + 1)'
  <2>1. s \in start..at
    BY <1>8, <1>15
  <2>2. \E first \in start..at : /\ line = SubSeq(stream, first, at - 1)
                                 /\ first = start \/ first - start > FloodLimit
    BY <1>14, <1>20, <2>1
  <2>3. From(n + 1)' = start
    BY <1>12, <1>13
  <2>4. PICK m : m = n + 1
    OBVIOUS
  <2>5. /\ handled'[m].at \in From(m)'..Len(stream') /\ stream'[handled'[m].at] = LF
        /\ \A j \in From(m)'..(handled'[m].at - 1) : stream'[j] # LF
        /\ \E first \in From(m)'..handled'[m].at :
             /\ handled'[m].text = SubSeq(stream', first, handled'[m].at - 1)
             /\ first = From(m)' \/ first - From(m)' > FloodLimit
    BY <1>1, <1>2, <1>11, <1>18, <1>19, <2>2, <2>3, <2>4
  <2>6. Whole(m)'
    BY <2>5, Zenon DEF Whole
  <2> QED
    BY <2>4, <2>6
<1>22. LinesComplete' <=> (\A k \in 1..(n + 1) : Whole(k)') /\ Unbroken'
  <2>1. LinesComplete' <=> (\A k \in DOMAIN handled' : Whole(k)') /\ Unbroken'
    BY Zenon DEF LinesComplete, Whole, Unbroken
  <2> QED
    BY <1>11, <2>1
<1>23. \A k \in 1..(n + 1) : Whole(k)'
  <2>1. \A k \in 1..(n + 1) : k \in 1..n \/ k = n + 1
    OBVIOUS
  <2> QED
    BY <1>17, <1>21, <2>1
<1>24. \A j \in 1..(b - i) : rest[j] = stream[at + j]
  <2> TAKE j \in 1..(b - i)
  <2>1. i + j \in 1..b /\ (s - 1) + (i + j) = at + j
    BY <1>8
  <2> QED
    BY <1>6, <1>16, <2>1
<1>25. /\ Heard' = l - w /\ From(Len(handled) + 1)' = at + 1
       /\ \A j \in 1..Len(wire') : wire'[j] = stream'[Heard' + j]
  <2>1. Heard' = l - w
    BY <1>1, <1>2 DEF Heard
  <2>2. \A j \in 1..Len(wire) : wire[j] = stream[Heard + j]
    BY DEF PlacesInv, PlaceInv
  <2>3. Len(handled') + 1 = n + 2
    BY <1>11
  <2>4. From(Len(handled) + 1)' = at + 1
    BY <1>12, <2>3, Zenon DEF From
  <2> QED
    BY <1>1, <1>2, <2>1, <2>2, <2>4
<1>26. CASE Places(rest, LF) = {} /\ Len(rest) > FloodLimit
  <2>1. buf' = <<>> /\ Len(buf') = 0 /\ buf' \in Seq(Tokens)
    BY <1>10, <1>26
  <2>2. Start' = l - w + 1
    BY <1>25, <2>1 DEF Start
  <2>3. PlaceInv'
    <3>1. Len(wire') + Len(buf') <= Len(stream')
      BY <1>1, <1>2, <2>1
    <3>2. \A j \in 1..Len(buf') : buf'[j] = stream'[Start' + j - 1]
      BY <2>1
    <3> QED
      BY <1>25, <3>1, <3>2, Zenon DEF PlaceInv
  <2>4. DroppedInv'
    <3>1. (l - w + 1) - (at + 1) > FloodLimit
      <4>1. (l - w + 1) - (at + 1) = b - i
        BY <1>7, <1>8
      <4> QED
        BY <1>6, <1>26, <4>1
    <3> QED
      BY <1>25, <2>2, <3>1 DEF DroppedInv
  <2>5. \A j \in (at + 1)..(l - w) : stream[j] # LF
    <3> TAKE j \in (at + 1)..(l - w)
    <3>1. PICK x \in 1..(b - i) : x = j - at
      BY <1>7, <1>8
    <3>2. rest[x] # LF
      BY <1>6, <1>26, LenProperties DEF Places
    <3>3. at + x = j
      BY <3>1
    <3> QED
      BY <1>24, <3>2, <3>3
  <2>6. Len(stream') - Len(wire') - Len(buf') = l - w
    BY <1>1, <1>2, <2>1
  <2>7. Unbroken'
    BY <1>2, <1>25, <2>5, <2>6 DEF Unbroken
  <2>8. 0 <= FloodLimit
    BY BoundsAssumption
  <2> QED
    BY <1>1, <1>5, <1>9, <1>11, <1>12, <1>22, <1>23, <2>1, <2>3, <2>4, <2>7, <2>8 DEF PlacesInv, Taken
<1>27. CASE ~(Places(rest, LF) = {} /\ Len(rest) > FloodLimit)
  <2>1. buf' = rest /\ Len(buf') = b - i
    BY <1>6, <1>10, <1>27
  <2>2. Start' = at + 1
    <3>1. (l - w) - (b - i) + 1 = at + 1
      BY <1>7, <1>8
    <3> QED
      BY <1>25, <2>1, <3>1 DEF Start
  <2>3. PlaceInv'
    <3>1. Len(wire') + Len(buf') <= Len(stream')
      <4>1. w + (b - i) <= l
        BY <1>2
      <4> QED
        BY <1>1, <1>2, <2>1, <4>1
    <3>2. \A j \in 1..Len(buf') : buf'[j] = stream'[Start' + j - 1]
      <4>1. \A j \in 1..(b - i) : (at + 1) + j - 1 = at + j
        OBVIOUS
      <4> QED
        BY <1>2, <1>24, <2>1, <2>2, <4>1
    <3> QED
      BY <1>25, <3>1, <3>2, Zenon DEF PlaceInv
  <2>4. DroppedInv'
    BY <1>25, <2>2 DEF DroppedInv
  <2>5. Len(stream') - Len(wire') - Len(buf') = at
    <3>1. l - w - (b - i) = at
      BY <1>7, <1>8
    <3> QED
      BY <1>1, <1>2, <2>1, <3>1
  <2>6. Unbroken'
    BY <1>25, <2>5 DEF Unbroken
  <2>7. Places(rest, LF) = {} => Len(rest) <= FloodLimit
    BY <1>6, <1>27, BoundsAssumption
  <2> QED
    BY <1>1, <1>5, <1>6, <1>9, <1>11, <1>12, <1>22, <1>23, <2>1, <2>3, <2>4, <2>6, <2>7 DEF PlacesInv, Taken
<1> QED
  BY <1>26, <1>27

-----------------------------------------------------------------------------
(* The device and the waiter, when a line is taken. *)

LEMMA TakenLines ==
  ASSUME TypeOK, NEW n \in Nat, NEW line \in Seq(Tokens), Taken(n, line)
  PROVE  /\ DOMAIN handled = 1..n /\ DOMAIN handled' = 1..(n + 1)
         /\ \A k \in 1..n : Said(k)' = Said(k)
         /\ Said(n + 1)' = Clean(line)
<1>1. DOMAIN handled = 1..n
  BY Sizes DEF Taken
<1>2. handled' \in Lines /\ Len(handled') = n + 1 /\ handled'[n + 1].text = line
  BY Zenon DEF Taken
<1>3. DOMAIN handled' = 1..(n + 1)
  BY <1>2, LenProperties DEF Lines
<1>4. \A k \in 1..n : Said(k)' = Said(k)
  BY DEF Taken, Said
<1>5. Said(n + 1)' = Clean(line)
  BY <1>2, Zenon DEF Said
<1> QED
  BY <1>1, <1>3, <1>4, <1>5

LEMMA TakenDoes ==
  ASSUME TakeLine, NEW line, Cut(buf, LF)[1] = line, NEW said, said = Clean(line)
  PROVE  /\ v1' \in {v1, TRUE} /\ diag' \in {diag, TRUE}
         /\ IsFullState(said) => full' = FullState(said) /\ v1' = TRUE
         /\ ~IsFullState(said) => full' = full
         /\ Measures(said) => sensor' = Sensor(said)
         /\ ~Measures(said) => sensor' = sensor
         /\ IsEvent(said) => events' = Append(events, EventEntity(EventBody(said)))
         /\ ~IsEvent(said) => events' = events
         /\ Acks(said) /\ reply = None => reply' = DeviceAck(said)
         /\ ~(Acks(said) /\ reply = None) => reply' = reply
         /\ waiter' = waiter /\ stream' = stream /\ wire' = wire
         /\ texts' = texts /\ answer' = answer /\ verdict' = verdict
<1>1. PICK h : h = HandleLine(Device(v1, full, sensor, diag, events, reply), said)
  OBVIOUS
<1>2. /\ v1' = h.v1 /\ full' = h.full /\ sensor' = h.sensor /\ diag' = h.diag
      /\ events' = h.events /\ reply' = h.reply
      /\ waiter' = waiter /\ stream' = stream /\ wire' = wire
      /\ texts' = texts /\ answer' = answer /\ verdict' = verdict
  BY <1>1, Zenon DEF TakeLine, Device
<1>3. Follows(h, v1, full, sensor, diag, events, reply, said)
  BY <1>1, Handling
<1> QED
  BY <1>2, <1>3 DEF Follows

LEMMA TakeLineTyped == ASSUME TypeOK, PlacesInv, TakeLine PROVE TypeOK'
<1>1. PICK n \in Nat, line \in Seq(Tokens) : Taken(n, line)
  BY TakeLineKeeps
<1>2. PICK said : said = Clean(line)
  OBVIOUS
<1>3. Cut(buf, LF)[1] = line /\ handled' \in Lines
  BY <1>1, Zenon DEF Taken
<1>4. /\ wire' = wire /\ stream' = stream /\ texts' = texts
      /\ v1' \in {v1, TRUE} /\ diag' \in {diag, TRUE}
      /\ IsFullState(said) => full' = FullState(said) /\ v1' = TRUE
      /\ ~IsFullState(said) => full' = full
      /\ Measures(said) => sensor' = Sensor(said)
      /\ ~Measures(said) => sensor' = sensor
  BY <1>2, <1>3, TakenDoes, Zenon
<1>5. {wire', buf', stream'} \subseteq Seq(Tokens) /\ handled' \in Seq([text : Seq(Tokens), at : Nat])
  BY <1>3, <1>4, Sizes, TakeLineKeeps DEF Lines
<1>6. texts' \in 0..MaxTexts /\ {v1', diag'} \subseteq BOOLEAN
  BY <1>4 DEF TypeOK
<1>7. full' # None => v1' /\ DOMAIN full' = {"clock", "value"} /\ DOMAIN full'.value = Fields
  <2>1. CASE IsFullState(said)
    BY <1>4, <2>1, FullStateFacts, Zenon
  <2>2. CASE ~IsFullState(said)
    <3>1. full # None => v1 /\ DOMAIN full = {"clock", "value"} /\ DOMAIN full.value = Fields
      BY Zenon DEF TypeOK
    <3>2. full' # None => v1' /\ full # None
      <4> SUFFICES ASSUME full' # None PROVE v1' /\ full # None
        OBVIOUS
      <4>1. full # None /\ v1
        BY <1>4, <2>2, <3>1, Zenon
      <4>2. v1' = v1 \/ v1' = TRUE
        BY <1>4, Zenon
      <4> QED
        BY <4>1, <4>2, Zenon
    <3> QED
      BY <1>4, <2>2, <3>1, <3>2
  <2> QED
    BY <2>1, <2>2
<1>8. sensor' # None => sensor' \in Seq(Hexadecimal) /\ Len(sensor') = 25
  <2>1. CASE Measures(said)
    BY <1>4, <2>1, SensorFacts, Zenon DEF Measures
  <2>2. CASE ~Measures(said)
    BY <1>4, <2>2, Zenon DEF TypeOK
  <2> QED
    BY <2>1, <2>2
<1> QED
  BY <1>5, <1>6, <1>7, <1>8, TakeLineKeeps, Zenon DEF TypeOK

LEMMA TakeLineRanges == ASSUME TypeOK, PlacesInv, StoredInRange, TakeLine PROVE StoredInRange'
<1>1. PICK n \in Nat, line \in Seq(Tokens) : Taken(n, line)
  BY TakeLineKeeps
<1>2. PICK said : said = Clean(line)
  OBVIOUS
<1>3. IsFullState(said) \/ full' = full
  BY <1>1, <1>2, TakenDoes, Zenon DEF Taken
<1>4. IsFullState(said) => full' = FullState(said)
  BY <1>1, <1>2, TakenDoes, Zenon DEF Taken
<1>5. CASE IsFullState(said)
  <2>1. InRange(full')
    BY <1>4, <1>5, FullStateFacts, Zenon
  <2> QED
    BY <2>1 DEF InRange, StoredInRange
<1>6. CASE full' = full
  BY <1>6 DEF StoredInRange
<1> QED
  BY <1>3, <1>5, <1>6

\* The first answer stays in the channel.
LEMMA TakeLineReply == ASSUME TypeOK, PlacesInv, ReplyInv, TakeLine PROVE ReplyInv'
<1>1. PICK n \in Nat, line \in Seq(Tokens) : Taken(n, line)
  BY TakeLineKeeps
<1>2. PICK said : said = Clean(line)
  OBVIOUS
<1>3. /\ Acks(said) /\ reply = None => reply' = DeviceAck(said)
      /\ ~(Acks(said) /\ reply = None) => reply' = reply
      /\ waiter' = waiter /\ answer' = answer /\ verdict' = verdict
  BY <1>1, <1>2, TakenDoes, Zenon DEF Taken
<1>4. /\ DOMAIN handled = 1..n /\ DOMAIN handled' = 1..(n + 1) /\ Len(handled) = n /\ Len(handled') = n + 1
      /\ \A k \in 1..n : Said(k)' = Said(k)
      /\ Said(n + 1)' = said
  BY <1>1, <1>2, TakenLines DEF Taken
<1>5. CASE waiter = None
  BY <1>3, <1>5 DEF ReplyInv, Acks
<1>6. CASE waiter # None
  <2>1. verdict.since \in 0..n
    BY <1>4, <1>6 DEF ReplyInv
  <2>2. \A k \in 1..n : Answers(k)' <=> Answers(k)
    BY <1>3, <1>4 DEF Answers
  <2>3. Answers(n + 1)' <=> Acks(said)
    <3>1. n + 1 > verdict.since
      BY <2>1
    <3>2. Answers(n + 1)' <=> n + 1 > verdict.since /\ IsDeviceAck(said) /\ DeviceAck(said).id = waiter
      BY <1>3, <1>4, Zenon DEF Answers
    <3> QED
      BY <1>6, <3>1, <3>2 DEF Acks
  <2>4. \/ reply' = None /\ \A k \in DOMAIN handled' : ~Answers(k)'
        \/ \E k \in DOMAIN handled' : /\ Answers(k)' /\ reply' = DeviceAck(Said(k)')
                                      /\ \A j \in DOMAIN handled' : Answers(j)' => k <= j
    <3>1. \A k \in 1..(n + 1) : k \in 1..n \/ k = n + 1
      OBVIOUS
    <3>2. CASE reply = None /\ \A k \in 1..n : ~Answers(k)
      <4>1. CASE Acks(said)
        <5>1. n + 1 \in 1..(n + 1) /\ n + 1 <= n + 1
          OBVIOUS
        <5>2. Answers(n + 1)' /\ reply' = DeviceAck(Said(n + 1)')
          BY <1>3, <1>4, <2>3, <3>2, <4>1
        <5>3. \A j \in 1..(n + 1) : Answers(j)' => n + 1 <= j
          BY <2>2, <3>1, <3>2, <5>1, Zenon
        <5> QED
          BY <1>4, <5>1, <5>2, <5>3, Zenon
      <4>2. CASE ~Acks(said)
        BY <1>3, <1>4, <2>2, <2>3, <3>1, <3>2, <4>2, Zenon
      <4> QED
        BY <4>1, <4>2
    <3>3. CASE \E k \in 1..n : /\ Answers(k) /\ reply = DeviceAck(Said(k))
                               /\ \A j \in 1..n : Answers(j) => k <= j
      <4>1. PICK k \in 1..n : /\ Answers(k) /\ reply = DeviceAck(Said(k))
                              /\ \A j \in 1..n : Answers(j) => k <= j
        BY <3>3
      <4>2. reply # None
        <5>1. DeviceAck(Said(k)).id \in Seq(Tokens)
          BY <1>6, <4>1 DEF Answers, ReplyInv
        <5>2. DeviceAck(Said(k)) \in [id : Seq(Tokens), ok : BOOLEAN]
          BY <5>1 DEF DeviceAck
        <5> QED
          BY <4>1, <5>2, NoneAssumption
      <4>3. reply' = reply
        BY <1>3, <4>2
      <4>4. k \in 1..(n + 1) /\ k <= n + 1
        OBVIOUS
      <4>5. \A j \in 1..(n + 1) : Answers(j)' => k <= j
        BY <2>2, <3>1, <4>1, <4>4, Zenon
      <4> QED
        BY <1>4, <2>2, <4>1, <4>3, <4>4, <4>5, Zenon
    <3> QED
      BY <1>4, <1>6, <3>2, <3>3 DEF ReplyInv
  <2>5. /\ verdict # None /\ waiter \in Seq(Tokens) /\ IdOk(waiter)
        /\ \E word \in {"ACK", "ERR"}, detail \in {"ok", "badarg"} :
             answer = <<word, ":">> \o waiter \o <<":", detail, "CR">>
    BY <1>6, Zenon DEF ReplyInv
  <2>6. verdict.since \in 0..Len(handled')
    BY <1>4, <2>1
  <2> QED
    BY <1>3, <1>6, <2>4, <2>5, <2>6, Zenon DEF ReplyInv
<1> QED
  BY <1>5, <1>6

\* The three parts of ViewOfLines.
FullView ==
  IF States = {} THEN full = None
  ELSE \E k \in States : full = FullState(Said(k)) /\ \A j \in States : j <= k
SensorView ==
  IF Measured = {} THEN sensor = None
  ELSE \E k \in Measured : sensor = Sensor(Said(k)) /\ \A j \in Measured : j <= k
EventsView ==
  /\ Len(events) = Cardinality(Told)
  /\ \A k \in Told : events[Cardinality({j \in Told : j <= k})] = EventEntity(EventBody(Said(k)))

LEMMA ViewParts == ViewOfLines <=> FullView /\ SensorView /\ EventsView
  BY Zenon DEF ViewOfLines, FullView, SensorView, EventsView

LEMMA TakeLineFullView == ASSUME TypeOK, PlacesInv, FullView, TakeLine PROVE FullView'
<1>1. PICK n \in Nat, line \in Seq(Tokens) : Taken(n, line)
  BY TakeLineKeeps
<1>2. PICK said : said = Clean(line)
  OBVIOUS
<1>3. /\ IsFullState(said) => full' = FullState(said)
      /\ ~IsFullState(said) => full' = full
  BY <1>1, <1>2, TakenDoes, Zenon DEF Taken
<1>4. /\ DOMAIN handled = 1..n /\ DOMAIN handled' = 1..(n + 1)
      /\ \A k \in 1..n : Said(k)' = Said(k)
      /\ Said(n + 1)' = said
  BY <1>1, <1>2, TakenLines
<1>5. States = {k \in 1..n : IsFullState(Said(k))} /\ States' = {k \in 1..(n + 1) : IsFullState(Said(k)')}
  BY <1>4 DEF States
<1>6. CASE IsFullState(said)
  <2>1. n + 1 \in States' /\ full' = FullState(Said(n + 1)') /\ \A j \in States' : j <= n + 1
    BY <1>3, <1>4, <1>5, <1>6
  <2>2. States' # {} /\ \E k \in States' : full' = FullState(Said(k)') /\ \A j \in States' : j <= k
    BY <2>1, Zenon
  <2> QED
    BY <2>2, Zenon DEF FullView
<1>7. CASE ~IsFullState(said)
  <2>1. States' = States
    <3>1. \A k : k \in 1..(n + 1) <=> k \in 1..n \/ k = n + 1
      OBVIOUS
    <3>2. \A k : k \in States' <=> k \in States
      BY <1>4, <1>5, <1>7, <3>1, Zenon
    <3> QED
      BY <3>2
  <2>2. full' = full
    BY <1>3, <1>7
  <2>3. \A k \in States : Said(k)' = Said(k)
    BY <1>4, <1>5
  <2> QED
    BY <2>1, <2>2, <2>3, Zenon DEF FullView
<1> QED
  BY <1>6, <1>7

LEMMA TakeLineSensorView == ASSUME TypeOK, PlacesInv, SensorView, TakeLine PROVE SensorView'
<1>1. PICK n \in Nat, line \in Seq(Tokens) : Taken(n, line)
  BY TakeLineKeeps
<1>2. PICK said : said = Clean(line)
  OBVIOUS
<1>3. /\ Measures(said) => sensor' = Sensor(said)
      /\ ~Measures(said) => sensor' = sensor
  BY <1>1, <1>2, TakenDoes, Zenon DEF Taken
<1>4. /\ DOMAIN handled = 1..n /\ DOMAIN handled' = 1..(n + 1)
      /\ \A k \in 1..n : Said(k)' = Said(k)
      /\ Said(n + 1)' = said
  BY <1>1, <1>2, TakenLines
<1>5. Measured = {k \in 1..n : Measures(Said(k))} /\ Measured' = {k \in 1..(n + 1) : Measures(Said(k)')}
  BY <1>4 DEF Measured, Measures
<1>6. CASE Measures(said)
  <2>1. n + 1 \in Measured' /\ sensor' = Sensor(Said(n + 1)') /\ \A j \in Measured' : j <= n + 1
    BY <1>3, <1>4, <1>5, <1>6
  <2>2. Measured' # {} /\ \E k \in Measured' : sensor' = Sensor(Said(k)') /\ \A j \in Measured' : j <= k
    BY <2>1, Zenon
  <2> QED
    BY <2>2, Zenon DEF SensorView
<1>7. CASE ~Measures(said)
  <2>1. Measured' = Measured
    <3>1. \A k : k \in 1..(n + 1) <=> k \in 1..n \/ k = n + 1
      OBVIOUS
    <3>2. \A k : k \in Measured' <=> k \in Measured
      BY <1>4, <1>5, <1>7, <3>1, Zenon
    <3> QED
      BY <3>2
  <2>2. sensor' = sensor
    BY <1>3, <1>7
  <2>3. \A k \in Measured : Said(k)' = Said(k)
    BY <1>4, <1>5
  <2> QED
    BY <2>1, <2>2, <2>3, Zenon DEF SensorView
<1> QED
  BY <1>6, <1>7

\* Among numbers up to n, one more than all of them is the last of them all.
LEMMA OneMore ==
  ASSUME NEW n \in Nat, NEW T, T \subseteq 1..n
  PROVE  /\ Cardinality(T) \in Nat /\ Cardinality(T \cup {n + 1}) = Cardinality(T) + 1
         /\ {j \in T \cup {n + 1} : j <= n + 1} = T \cup {n + 1}
         /\ \A k \in T : /\ {j \in T \cup {n + 1} : j <= k} = {j \in T : j <= k}
                         /\ Cardinality({j \in T : j <= k}) \in 1..Cardinality(T)
<1>1. IsFiniteSet(T) /\ Cardinality(T) \in Nat
  <2>1. IsFiniteSet(1..n)
    BY FS_Interval
  <2> QED
    BY <2>1, FS_Subset, FS_CardinalityType
<1>2. n + 1 \notin T
  OBVIOUS
<1>3. Cardinality(T \cup {n + 1}) = Cardinality(T) + 1
  BY <1>1, <1>2, FS_AddElement
<1>4. {j \in T \cup {n + 1} : j <= n + 1} = T \cup {n + 1}
  <2>1. \A j \in T \cup {n + 1} : j <= n + 1
    OBVIOUS
  <2> QED
    BY <2>1, Zenon
<1>5. ASSUME NEW k \in T
      PROVE  /\ {j \in T \cup {n + 1} : j <= k} = {j \in T : j <= k}
             /\ Cardinality({j \in T : j <= k}) \in 1..Cardinality(T)
  <2>1. {j \in T \cup {n + 1} : j <= k} = {j \in T : j <= k}
    OBVIOUS
  <2>2. PICK U \in SUBSET T : U = {j \in T : j <= k}
    OBVIOUS
  <2>3. k \in U
    BY <2>2
  <2>4. IsFiniteSet(U) /\ Cardinality(U) \in Nat /\ Cardinality(U) <= Cardinality(T)
    BY <1>1, FS_Subset, FS_CardinalityType
  <2>5. Cardinality(U) # 0
    BY <2>3, <2>4, FS_EmptySet
  <2> QED
    BY <1>1, <2>1, <2>2, <2>4, <2>5
<1> QED
  BY <1>1, <1>3, <1>4, <1>5

LEMMA TakeLineEvents ==
  ASSUME TypeOK, PlacesInv, EventsInv, EventsView, TakeLine PROVE EventsInv' /\ EventsView'
<1>1. PICK n \in Nat, line \in Seq(Tokens) : Taken(n, line)
  BY TakeLineKeeps
<1>2. PICK said : said = Clean(line)
  OBVIOUS
<1>3. /\ IsEvent(said) => events' = Append(events, EventEntity(EventBody(said)))
      /\ ~IsEvent(said) => events' = events
  BY <1>1, <1>2, TakenDoes, Zenon DEF Taken
<1>4. /\ DOMAIN handled = 1..n /\ DOMAIN handled' = 1..(n + 1)
      /\ \A k \in 1..n : Said(k)' = Said(k)
      /\ Said(n + 1)' = said
  BY <1>1, <1>2, TakenLines
<1>5. Told = {k \in 1..n : IsEvent(Said(k))} /\ Told' = {k \in 1..(n + 1) : IsEvent(Said(k)')}
  BY <1>4 DEF Told
<1>6. \A k \in Told : Said(k)' = Said(k)
  BY <1>4, <1>5
<1>7. PICK T : T = Told /\ T \subseteq 1..n
  BY <1>5
<1>8. PICK S : S = {EventEntity(EventBody(Said(k))) : k \in Told}
  OBVIOUS
<1>9. \A k : k \in 1..(n + 1) <=> k \in 1..n \/ k = n + 1
  OBVIOUS
<1>10. CASE IsEvent(said)
  <2>1. PICK e : e = EventEntity(EventBody(said))
    OBVIOUS
  <2>2. Told' = T \cup {n + 1}
    <3>1. \A k : k \in Told' <=> k \in Told \/ k = n + 1
      BY <1>4, <1>5, <1>9, <1>10, Zenon
    <3> QED
      BY <1>7, <3>1
  <2>3. PICK R : R = {EventEntity(EventBody(Said(k)')) : k \in Told'}
    OBVIOUS
  <2>4. S \subseteq R /\ e \in R
    <3>1. \A k \in Told : EventEntity(EventBody(Said(k))) \in R
      BY <1>6, <1>7, <2>2, <2>3
    <3>2. e \in R
      BY <1>4, <2>1, <2>2, <2>3
    <3> QED
      BY <1>8, <3>1, <3>2
  <2>5. events \in Seq(R)
    BY <1>8, <2>4, SeqMonotonic DEF EventsInv
  <2>6. PICK m \in Nat : m = Len(events) /\ m = Cardinality(T)
    BY <1>7, <2>5, LenProperties DEF EventsView
  <2>7. /\ events' \in Seq(R) /\ Len(events') = m + 1 /\ events'[m + 1] = e
        /\ \A i \in 1..m : events'[i] = events[i]
    <3>1. events' = Append(events, e)
      BY <1>3, <1>10, <2>1
    <3> QED
      <4>1. PICK x \in R : x = e
        BY <2>4
      <4>2. /\ Append(events, x) \in Seq(R) /\ Append(events, x)[Len(events) + 1] = x
            /\ Len(Append(events, x)) = Len(events) + 1
            /\ \A i \in 1..Len(events) : Append(events, x)[i] = events[i]
        BY <2>5, AppendProperties
      <4> QED
        BY <2>6, <3>1, <4>1, <4>2
  <2>8. EventsInv'
    BY <2>3, <2>7, Zenon DEF EventsInv
  <2>9. Len(events') = Cardinality(Told')
    BY <1>7, <2>2, <2>6, <2>7, OneMore
  <2>10. ASSUME NEW k \in Told'
         PROVE  events'[Cardinality({j \in Told' : j <= k})] = EventEntity(EventBody(Said(k)'))
    <3>1. CASE k \in T
      <4>1. PICK c \in 1..m : c = Cardinality({j \in T : j <= k})
        <5>1. Cardinality({j \in T : j <= k}) \in 1..Cardinality(T)
          BY <1>7, <3>1, OneMore, Zenon
        <5> QED
          BY <2>6, <5>1
      <4>2. {j \in Told' : j <= k} = {j \in T : j <= k}
        BY <1>7, <2>2, <3>1, OneMore
      <4>3. events[c] = EventEntity(EventBody(Said(k)))
        BY <1>7, <3>1, <4>1 DEF EventsView
      <4>4. events'[c] = events[c] /\ Said(k)' = Said(k)
        BY <1>6, <1>7, <2>7, <3>1, <4>1
      <4> QED
        BY <4>1, <4>2, <4>3, <4>4
    <3>2. CASE k = n + 1
      <4>1. Cardinality({j \in Told' : j <= k}) = m + 1
        <5>1. {j \in Told' : j <= k} = Told'
          BY <1>7, <2>2, <3>2, OneMore, Zenon
        <5> QED
          BY <2>7, <2>9, <5>1
      <4> QED
        BY <1>4, <2>1, <2>7, <3>2, <4>1
    <3> QED
      BY <2>2, <3>1, <3>2
  <2> QED
    BY <2>8, <2>9, <2>10, Zenon DEF EventsView
<1>11. CASE ~IsEvent(said)
  <2>1. Told' = Told
    <3>1. \A k : k \in Told' <=> k \in Told
      BY <1>4, <1>5, <1>9, <1>11, Zenon
    <3> QED
      BY <3>1
  <2>2. events' = events
    BY <1>3, <1>11
  <2>3. {EventEntity(EventBody(Said(k)')) : k \in Told'} = {EventEntity(EventBody(Said(k))) : k \in Told}
    BY <1>6, <2>1
  <2>4. EventsInv'
    BY <2>2, <2>3 DEF EventsInv
  <2>5. EventsView'
    BY <1>6, <2>1, <2>2, Zenon DEF EventsView
  <2> QED
    BY <2>4, <2>5
<1> QED
  BY <1>10, <1>11

-----------------------------------------------------------------------------
(* The way out: what became of a request, and the answer to it. *)

LEMMA VerdictFields ==
  ASSUME NEW r, IsRequest(r)
  PROVE  /\ Accepts(r) \in BOOLEAN /\ Due(r) \in BOOLEAN /\ Contract(r) \in BOOLEAN
         /\ AsWritten(r) \in BOOLEAN /\ AllFit(r) \in BOOLEAN
<1>1. Accepts(r) \in BOOLEAN
  <2>1. CASE Expanded(r)
    <3>1. ToneSequenceOk(r) \in BOOLEAN
      BY Zenon DEF ToneSequenceOk
    <3> QED
      BY <2>1, <3>1, Zenon DEF Accepts
  <2>2. CASE ~Expanded(r)
    <3>1. (EncodeFrame(r) # Error) \in BOOLEAN
      BY Zenon
    <3> QED
      BY <2>2, <3>1, Zenon DEF Accepts
  <2> QED
    BY <2>1, <2>2
<1>2. Contract(r) \in BOOLEAN
  <2>1. /\ BuzzerArgs(r) \in BOOLEAN /\ MotorArgs(r) \in BOOLEAN /\ ToneArgs(r) \in BOOLEAN
        /\ LedArgs(r) \in BOOLEAN /\ DisplayArgs(r) \in BOOLEAN /\ NotesArgs(r) \in BOOLEAN
        /\ SyncArgs(r) \in BOOLEAN /\ RawArgs(r) \in BOOLEAN
        /\ (r.proto = "v1") \in BOOLEAN /\ (r.proto = "legacy") \in BOOLEAN /\ TRUE \in BOOLEAN
    BY Zenon DEF BuzzerArgs, Has, MotorArgs, ToneArgs, LedArgs, DisplayArgs, NotesArgs, SyncArgs, RawArgs
  <2>2. r.action \in Actions
    BY DEF IsRequest
  <2>3. CASE r.action = "buzzer"
    BY <2>1, <2>3 DEF Contract
  <2> QED
    BY <2>1, <2>2, ZenonT(60) DEF Contract, Actions
<1>3. Due(r) \in BOOLEAN /\ AsWritten(r) \in BOOLEAN /\ AllFit(r) \in BOOLEAN
  BY Zenon DEF Due, AsWritten, AllFit
<1> QED
  BY <1>1, <1>2, <1>3

LEMMA WireIdTyped == ASSUME NEW id \in Seq(Tokens) PROVE WireId(id) \in Seq(Tokens)
<1>1. CASE Len(id) > IdLen
  <2>1. IdLen \in Nat /\ Len(id) \in Nat
    BY BoundsAssumption, LenProperties
  <2>2. \A i \in 1..IdLen : id[i] \in Tokens
    BY <1>1, <2>1, ElementOfSeq
  <2>3. SubSeq(id, 1, IdLen) \in Seq(Tokens)
    BY <2>1, <2>2, SubSeqProperties
  <2> QED
    BY <1>1, <2>3 DEF WireId
<1>2. CASE ~(Len(id) > IdLen)
  BY <1>2 DEF WireId
<1> QED
  BY <1>1, <1>2

\* The channel of the waiter holds its answer: IdsSurvive is what this says of the
\* board's own answer.
LEMMA AnswerArrives == ASSUME TypeOK, ReplyInv PROVE IdsSurvive
<1> SUFFICES ASSUME answer # None, NEW k \in DOMAIN handled, k > verdict.since, handled[k].text = answer
             PROVE  /\ reply # None /\ reply.id = waiter
                    /\ (\A j \in DOMAIN handled : Answers(j) => j >= k) =>
                         (reply.ok <=> answer[1] = "ACK" /\ answer[Len(answer) - 1] = "ok")
  BY Zenon DEF IdsSurvive
<1>1. waiter # None
  BY DEF ReplyInv
<1>2. /\ waiter \in Seq(Tokens) /\ IdOk(waiter)
      /\ \/ reply = None /\ \A i \in DOMAIN handled : ~Answers(i)
         \/ \E i \in DOMAIN handled : /\ Answers(i) /\ reply = DeviceAck(Said(i))
                                      /\ \A j \in DOMAIN handled : Answers(j) => i <= j
  BY <1>1, Zenon DEF ReplyInv
<1>3. PICK word \in Words, detail \in Details : answer = AnswerText(word, waiter, detail)
  BY <1>1 DEF ReplyInv, Words, Details, AnswerText
<1>4. PICK id \in Seq(Tokens) : id = waiter /\ IdOk(id)
  BY <1>2
<1>5. PICK text, line : text = AnswerText(word, id, detail) /\ line = AckLine(word, id, detail)
  OBVIOUS
<1>6. Clean(text) = line /\ text[1] = word /\ text[Len(text) - 1] = detail
  BY <1>4, <1>5, AnswerRead
<1>7. IsDeviceAck(line) /\ DeviceAck(line) = [id |-> id, ok |-> word = "ACK" /\ detail = "ok"]
  BY <1>4, <1>5, AckRead
<1>8. answer = text
  BY <1>3, <1>4, <1>5
<1>9. Said(k) = line
  BY <1>6, <1>8 DEF Said
<1>10. Answers(k)
  BY <1>4, <1>7, <1>9 DEF Answers
<1>11. PICK i \in DOMAIN handled : /\ Answers(i) /\ reply = DeviceAck(Said(i))
                                   /\ \A j \in DOMAIN handled : Answers(j) => i <= j
  BY <1>2, <1>10
<1>12. reply.id = waiter
  BY <1>11 DEF Answers
<1>13. reply # None
  <2>1. reply \in [id : Seq(Tokens), ok : BOOLEAN]
    BY <1>2, <1>11, <1>12 DEF DeviceAck
  <2> QED
    BY <2>1, NoneAssumption
<1>14. ASSUME \A j \in DOMAIN handled : Answers(j) => j >= k
       PROVE  reply.ok <=> answer[1] = "ACK" /\ answer[Len(answer) - 1] = "ok"
  <2>1. i >= k /\ i <= k
    BY <1>10, <1>11, <1>14
  <2>2. i \in Nat /\ k \in Nat
    BY Sizes
  <2>3. i = k
    BY <2>1, <2>2
  <2>4. reply = [id |-> id, ok |-> word = "ACK" /\ detail = "ok"]
    BY <1>7, <1>9, <1>11, <2>3
  <2>5. reply.ok <=> word = "ACK" /\ detail = "ok"
    BY <2>4
  <2> QED
    BY <1>6, <1>8, <2>5
<1> QED
  BY <1>12, <1>13, <1>14

-----------------------------------------------------------------------------
(* The inductive invariant. *)

Core == TypeOK /\ PlacesInv /\ ReplyInv /\ EventsInv /\ StoredInRange /\ ViewOfLines

LEMMA CoreIsLinesInv == Core <=> LinesInv
<1>1. Core => LinesInv
  BY AnswerArrives DEF Core, LinesInv, PlacesInv
<1>2. LinesInv => Core
  BY DEF Core, LinesInv, PlacesInv
<1> QED
  BY <1>1, <1>2

\* What stays when nothing of it changes.
LEMMA ViewKept ==
  ASSUME EventsInv, StoredInRange, ViewOfLines, UNCHANGED <<view, handled>>
  PROVE  EventsInv' /\ StoredInRange' /\ ViewOfLines'
<1>1. full' = full /\ sensor' = sensor /\ events' = events /\ handled' = handled
  BY DEF view
<1>2. \A k : Said(k)' = Said(k)
  BY <1>1 DEF Said
<1>3. States' = States /\ Measured' = Measured /\ Told' = Told
  BY <1>1, <1>2 DEF States, Measured, Told
<1>4. EventsInv'
  <2>1. {EventEntity(EventBody(Said(k)')) : k \in Told'} = {EventEntity(EventBody(Said(k))) : k \in Told}
    BY <1>2, <1>3
  <2> QED
    BY <1>1, <2>1 DEF EventsInv
<1>5. StoredInRange'
  BY <1>1 DEF StoredInRange
<1>6. ViewOfLines'
  BY <1>1, <1>2, <1>3, Zenon DEF ViewOfLines
<1> QED
  BY <1>4, <1>5, <1>6

LEMMA ReplyKept ==
  ASSUME ReplyInv, UNCHANGED <<view, waiter, handled, answer, verdict>> PROVE ReplyInv'
<1>1. reply' = reply /\ waiter' = waiter /\ handled' = handled /\ answer' = answer /\ verdict' = verdict
  BY DEF view
<1>2. \A k : Said(k)' = Said(k) /\ (Answers(k)' <=> Answers(k))
  BY <1>1 DEF Said, Answers
<1> QED
  BY <1>1, <1>2, Zenon DEF ReplyInv

LEMMA PlacesKept ==
  ASSUME PlacesInv, UNCHANGED <<wire, buf, stream, handled>> PROVE PlacesInv'
<1>1. \A k : From(k)' = From(k)
  BY DEF From
<1>2. PlaceInv' /\ DroppedInv'
  BY <1>1 DEF PlacesInv, PlaceInv, DroppedInv, Heard, Start
<1>3. LinesComplete'
  BY <1>1, Zenon DEF PlacesInv, LinesComplete
<1> QED
  BY <1>2, <1>3 DEF PlacesInv

LEMMA InitHolds == Init => LinesInv
<1> SUFFICES ASSUME Init PROVE Core
  BY CoreIsLinesInv
<1>1. /\ wire = <<>> /\ buf = <<>> /\ v1 = FALSE /\ full = None /\ sensor = None /\ diag = FALSE
      /\ events = <<>> /\ waiter = None /\ reply = None /\ stream = <<>> /\ handled = <<>>
      /\ texts = 0 /\ answer = None /\ verdict = None
  BY DEF Init
<1>2. Len(wire) = 0 /\ Len(buf) = 0 /\ Len(stream) = 0 /\ Len(handled) = 0 /\ Len(events) = 0 /\ DOMAIN handled = {}
  BY <1>1, EmptySeq
<1>3. TypeOK
  <2>1. 0 <= FloodLimit /\ texts \in 0..MaxTexts
    BY <1>1, BoundsAssumption
  <2>2. {wire, buf, stream} \subseteq Seq(Tokens) /\ handled \in Seq([text : Seq(Tokens), at : Nat])
    BY <1>1
  <2>3. {v1, diag} \subseteq BOOLEAN
    BY <1>1, Zenon
  <2>4. Len(buf) <= FloodLimit
    BY <1>2, <2>1
  <2> QED
    BY <1>1, <2>1, <2>2, <2>3, <2>4, Zenon DEF TypeOK
<1>4. PlacesInv
  <2>1. Heard = 0 /\ Start = 1 /\ From(Len(handled) + 1) = 1
    BY <1>2 DEF Heard, Start, From
  <2>2. PlaceInv /\ DroppedInv
    BY <1>2, <2>1 DEF PlaceInv, DroppedInv
  <2>3. LinesComplete
    <3>1. \A i \in From(Len(handled) + 1)..(Len(stream) - Len(wire) - Len(buf)) : FALSE
      BY <1>2, <2>1
    <3> QED
      BY <1>2, <3>1, CompleteParts DEF Unbroken
  <2> QED
    BY <2>2, <2>3 DEF PlacesInv
<1>5. ReplyInv
  BY <1>1 DEF ReplyInv
<1>6. EventsInv /\ StoredInRange
  BY <1>1 DEF EventsInv, StoredInRange
<1>7. ViewOfLines
  <2>1. States = {} /\ Measured = {} /\ Told = {}
    BY <1>2 DEF States, Measured, Told
  <2>2. Cardinality(Told) = 0
    BY <2>1, FS_EmptySet
  <2> QED
    BY <1>1, <1>2, <2>1, <2>2 DEF ViewOfLines
<1> QED
  BY <1>3, <1>4, <1>5, <1>6, <1>7 DEF Core

LEMMA ExecuteKeeps ==
  ASSUME Core, NEW r, IsRequest(r), NEW id \in Seq(Tokens), Execute(r, id) PROVE Core'
<1>1. TypeOK /\ PlacesInv /\ ReplyInv /\ EventsInv /\ StoredInRange /\ ViewOfLines
  BY DEF Core
<1>2. UNCHANGED <<buf, view, handled>> /\ reply' = reply /\ buf' = buf /\ handled' = handled
  BY DEF Execute, view
<1>3. verdict = None /\ waiter = None /\ answer = None /\ reply = None
  BY <1>1 DEF Execute, ReplyInv
<1>4. EventsInv' /\ StoredInRange' /\ ViewOfLines'
  BY <1>1, <1>2, ViewKept
<1>5. verdict' # None /\ verdict'.since = Len(handled)
  <2>1. /\ Accepts(r) \in BOOLEAN /\ Due(r) \in BOOLEAN /\ Contract(r) \in BOOLEAN
        /\ AsWritten(r) \in BOOLEAN /\ AllFit(r) \in BOOLEAN /\ Len(handled) \in Nat
    BY <1>1, VerdictFields, Sizes
  <2>2. PICK a \in BOOLEAN, b \in BOOLEAN, c \in BOOLEAN, d \in BOOLEAN, e \in BOOLEAN, n \in Nat :
          /\ a = Accepts(r) /\ b = Due(r) /\ c = Contract(r) /\ d = AsWritten(r) /\ e = AllFit(r)
          /\ n = Len(handled)
    BY <2>1
  <2>3. verdict' = [accepted |-> a, due |-> b, promised |-> c, plain |-> d, fits |-> e, since |-> n]
    BY <2>2, Zenon DEF Execute
  <2>4. /\ verdict' \in [accepted : BOOLEAN, due : BOOLEAN, promised : BOOLEAN, plain : BOOLEAN, fits : BOOLEAN, since : Nat]
        /\ verdict'.since = n
    BY <2>3
  <2> QED
    BY <2>2, <2>4, NoneAssumption
<1>6. CASE Accepts(r) /\ r.proto = "v1" /\ IdOk(WireId(id))
  <2>1. PICK w \in Seq(Tokens) : w = WireId(id) /\ IdOk(w) /\ IdRead(w) = w /\ w # None
    BY <1>6, WireIdTyped, IdReadBack, NoneAssumption
  <2>2. /\ waiter' = w /\ texts' = texts + 1
        /\ \E word \in {<<"ACK", ":">>, <<"ERR", ":">>}, detail \in {"ok", "badarg"} :
             /\ answer' = word \o IdRead(WireId(id)) \o <<":", detail, "CR">>
             /\ BoardSends(answer' \o <<LF>>)
    BY <1>6, <2>1, Zenon DEF Execute
  <2>3. PICK front \in {<<"ACK", ":">>, <<"ERR", ":">>}, detail \in Details :
          answer' = front \o w \o <<":", detail, "CR">> /\ BoardSends(answer' \o <<LF>>)
    BY <2>1, <2>2 DEF Details
  <2>4. PICK word \in Words : front = <<word, ":">>
    BY DEF Words
  <2>5. answer' = AnswerText(word, w, detail)
    BY <2>3, <2>4 DEF AnswerText
  <2>6. answer' \in Seq(Tokens)
    BY <2>1, <2>5, AnswerRead
  <2>7. PICK text \in Seq(Tokens) : text = answer' \o <<LF>>
    <3>1. <<LF>> \in Seq(Tokens)
      BY TextsAssumption, ShortTexts
    <3> QED
      BY <2>6, <3>1, ConcatProperties
  <2>8. BoardSends(text)
    BY <2>3, <2>7
  <2>9. wire' \in Seq(Tokens) /\ stream' \in Seq(Tokens) /\ PlacesInv'
    BY <1>1, <1>2, <2>8, SendsKeep
  <2>10. TypeOK'
    <3>1. texts' \in 0..MaxTexts
      BY <1>1, <2>2, BoundsAssumption DEF Execute, TypeOK
    <3>2. v1' = v1 /\ full' = full /\ sensor' = sensor /\ diag' = diag
      BY <1>2 DEF view
    <3> QED
      BY <1>1, <1>2, <2>9, <3>1, <3>2 DEF TypeOK
  <2>11. ReplyInv'
    <3>1. reply' = None /\ waiter' # None
      BY <1>2, <1>3, <2>1, <2>2
    <3>2. ASSUME NEW k \in DOMAIN handled' PROVE ~Answers(k)'
      <4>1. DOMAIN handled' = 1..Len(handled) /\ Len(handled) \in Nat
        BY <1>1, <1>2, Sizes
      <4>2. ~(k > verdict'.since)
        BY <1>5, <4>1
      <4> QED
        BY <4>2 DEF Answers
    <3>3. verdict'.since \in 0..Len(handled')
      BY <1>1, <1>2, <1>5, Sizes
    <3>4. \E x \in {"ACK", "ERR"}, y \in {"ok", "badarg"} : answer' = <<x, ":">> \o waiter' \o <<":", y, "CR">>
      BY <2>2, <2>5 DEF AnswerText, Words, Details
    <3>5. waiter' \in Seq(Tokens) /\ IdOk(waiter)'
      BY <2>1, <2>2 DEF IdOk
    <3> QED
      BY <1>5, <3>1, <3>2, <3>3, <3>4, <3>5, Zenon DEF ReplyInv
  <2> QED
    BY <1>4, <2>9, <2>10, <2>11 DEF Core
<1>7. CASE ~(Accepts(r) /\ r.proto = "v1" /\ IdOk(WireId(id)))
  <2>1. UNCHANGED <<waiter, answer, wire, stream, texts>>
    BY <1>7, Zenon DEF Execute
  <2>2. PlacesInv'
    BY <1>1, <1>2, <2>1, PlacesKept
  <2>3. TypeOK'
    <3>1. v1' = v1 /\ full' = full /\ sensor' = sensor /\ diag' = diag
      BY <1>2 DEF view
    <3> QED
      BY <1>1, <1>2, <2>1, <3>1 DEF TypeOK
  <2>4. ReplyInv'
    BY <1>2, <1>3, <2>1 DEF ReplyInv
  <2> QED
    BY <1>4, <2>2, <2>3, <2>4 DEF Core
<1> QED
  BY <1>6, <1>7

LEMMA SpeakKeeps == ASSUME Core, Speak PROVE Core'
<1>1. TypeOK /\ PlacesInv /\ ReplyInv /\ EventsInv /\ StoredInRange /\ ViewOfLines
  BY DEF Core
<1>2. /\ UNCHANGED <<view, waiter, handled, answer, verdict>>
      /\ UNCHANGED <<view, handled>> /\ buf' = buf /\ handled' = handled
  BY DEF Speak
<1>3. PICK text \in Seq(Tokens) : BoardSends(text)
  BY TextsAssumption DEF Speak
<1>4. wire' \in Seq(Tokens) /\ stream' \in Seq(Tokens) /\ PlacesInv'
  BY <1>1, <1>2, <1>3, SendsKeep
<1>5. TypeOK'
  <2>1. texts' \in 0..MaxTexts
    BY <1>1, BoundsAssumption DEF Speak, TypeOK
  <2>2. v1' = v1 /\ full' = full /\ sensor' = sensor /\ diag' = diag
    BY <1>2 DEF view
  <2> QED
    BY <1>1, <1>2, <1>4, <2>1, <2>2 DEF TypeOK
<1>6. ReplyInv'
  BY <1>1, <1>2, ReplyKept
<1>7. EventsInv' /\ StoredInRange' /\ ViewOfLines'
  BY <1>1, <1>2, ViewKept
<1> QED
  BY <1>4, <1>5, <1>6, <1>7 DEF Core

LEMMA ReadHolds == ASSUME Core, Read PROVE Core'
<1>1. TypeOK /\ PlacesInv /\ ReplyInv /\ EventsInv /\ StoredInRange /\ ViewOfLines
  BY DEF Core
<1>2. /\ UNCHANGED <<view, waiter, handled, answer, verdict>>
      /\ UNCHANGED <<view, handled>> /\ handled' = handled /\ stream' = stream /\ texts' = texts
  BY DEF Read
<1>3. /\ wire' \in Seq(Tokens) /\ buf' \in Seq(Tokens) /\ PlacesInv'
      /\ Places(buf', LF) = {} => Len(buf') <= FloodLimit
  BY <1>1, ReadKeeps
<1>4. TypeOK'
  <2>1. v1' = v1 /\ full' = full /\ sensor' = sensor /\ diag' = diag
    BY <1>2 DEF view
  <2> QED
    BY <1>1, <1>2, <1>3, <2>1 DEF TypeOK
<1>5. ReplyInv'
  BY <1>1, <1>2, ReplyKept
<1>6. EventsInv' /\ StoredInRange' /\ ViewOfLines'
  BY <1>1, <1>2, ViewKept
<1> QED
  BY <1>3, <1>4, <1>5, <1>6 DEF Core

LEMMA TakeLineHolds == ASSUME Core, TakeLine PROVE Core'
<1>1. TypeOK /\ PlacesInv /\ ReplyInv /\ EventsInv /\ StoredInRange /\ ViewOfLines
  BY DEF Core
<1>2. PlacesInv'
  BY <1>1, TakeLineKeeps
<1>3. TypeOK' /\ ReplyInv' /\ StoredInRange'
  BY <1>1, TakeLineTyped, TakeLineReply, TakeLineRanges
<1>4. FullView /\ SensorView /\ EventsView
  BY <1>1, ViewParts
<1>5. EventsInv' /\ EventsView' /\ FullView' /\ SensorView'
  BY <1>1, <1>4, TakeLineEvents, TakeLineFullView, TakeLineSensorView
<1>6. ViewOfLines'
  BY <1>5, Zenon DEF ViewOfLines, FullView, SensorView, EventsView
<1> QED
  BY <1>2, <1>3, <1>5, <1>6 DEF Core

LEMMA StutterHolds == ASSUME Core, UNCHANGED vars PROVE Core'
<1>1. TypeOK /\ PlacesInv /\ ReplyInv /\ EventsInv /\ StoredInRange /\ ViewOfLines
  BY DEF Core
<1>2. /\ UNCHANGED <<view, waiter, handled, answer, verdict>> /\ UNCHANGED <<view, handled>>
      /\ UNCHANGED <<wire, buf, stream, handled>> /\ texts' = texts
  BY DEF vars
<1>3. TypeOK'
  BY <1>1, <1>2 DEF TypeOK, view
<1> QED
  BY <1>1, <1>2, <1>3, ReplyKept, ViewKept, PlacesKept DEF Core

LEMMA LinesInductive == LinesInv /\ [Next]_vars => LinesInv'
<1> SUFFICES ASSUME Core, [Next]_vars PROVE Core'
  <2>1. LinesInv <=> Core
    BY CoreIsLinesInv
  <2>2. Core' => LinesInv'
    BY CoreIsLinesInv, PTL
  <2> QED
    BY <2>1, <2>2
<1>1. ASSUME NEW id \in Ids, Execute(Plain, id) PROVE Core'
  BY <1>1, RequestsAssumption, TextsAssumption, ExecuteKeeps
<1>2. ASSUME NEW a \in DOMAIN Requests, NEW r \in Requests[a], Execute(r, PlainId) PROVE Core'
  BY <1>2, RequestsAssumption, TextsAssumption, ExecuteKeeps
<1>3. CASE Speak
  BY <1>3, SpeakKeeps
<1>4. CASE Read
  BY <1>4, ReadHolds
<1>5. CASE TakeLine
  BY <1>5, TakeLineHolds
<1>6. CASE UNCHANGED vars
  BY <1>6, StutterHolds
<1> QED
  BY <1>1, <1>2, <1>3, <1>4, <1>5, <1>6, Zenon DEF Next, Quiet

-----------------------------------------------------------------------------
(* The theorems. *)

\* The inductive invariant of rxLoop and handleLine (plugin/device.go:84-176)
\* holds in every reachable state (LinesInv).
THEOREM LinesHold == Spec => []LinesInv
  BY InitHolds, LinesInductive, PTL DEF Spec

\* What the board writes is tokens, a full state makes the device a v1 board, and
\* no more than the flood limit is kept without an end of line (TypeOK; plugin/
\* device.go:115).
THEOREM LinesTyped == Spec => []TypeOK
<1>1. LinesInv => TypeOK
  BY DEF LinesInv
<1> QED
  BY LinesHold, <1>1, PTL

\* Whatever the board writes and however the reads cut it, no line is lost, split
\* or handled twice, but for the front of one longer than the flood limit
\* (LinesComplete; plugin/device.go:98-118).
THEOREM LinesCompleteHolds == Spec => []LinesComplete
<1>1. LinesInv => LinesComplete
  BY DEF LinesInv
<1> QED
  BY LinesHold, <1>1, PTL

\* Whatever id the encoder lets through, cut or not, the answer that the board
\* gives to it reaches its waiter (IdsSurvive; plugin/protocol_v1.go:175).
THEOREM IdsSurviveHolds == Spec => []IdsSurvive
<1>1. LinesInv => IdsSurvive
  BY DEF LinesInv
<1> QED
  BY LinesHold, <1>1, PTL

\* Whatever the board writes, no full state is kept whose numbers are out of range
\* (StoredInRange; plugin/protocol_v1.go:38-88).
THEOREM StoredInRangeHolds == Spec => []StoredInRange
<1>1. LinesInv => StoredInRange
  BY DEF LinesInv
<1> QED
  BY LinesHold, <1>1, PTL

\* Whatever the board writes, the device keeps the latest full state and the
\* latest measurement of its lines, and publishes each event once and in order
\* (ViewOfLines; plugin/device.go:120-176).
THEOREM ViewOfLinesHolds == Spec => []ViewOfLines
<1>1. LinesInv => ViewOfLines
  BY DEF LinesInv
<1> QED
  BY LinesHold, <1>1, PTL

=============================================================================
