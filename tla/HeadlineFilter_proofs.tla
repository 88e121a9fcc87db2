------------------------- MODULE HeadlineFilter_proofs -------------------------
(***************************************************************************)
(* That the streamed and the returned reply agree, for texts of any length *)
(* in any number of chunks.  The induction this needs is on sets of        *)
(* numbers, where it follows from the order of Nat being well-founded; the *)
(* recursive functions exist because their arguments become shorter.       *)
(***************************************************************************)
EXTENDS HeadlineFilter, WellFoundedInduction, SequenceTheorems, TLAPS

(* Every set of numbers but the empty one has a least element. *)
LEMMA LeastNumber ==
    ASSUME NEW S, S \subseteq Nat, S # {}
    PROVE  \E n \in S : \A m \in S : n <= m
<1>1. PICK n \in S : \A m \in S : ~(<<m, n>> \in OpToRel(<, Nat))
  BY NatLessThanWellFounded, WFMin, Zenon
<1>2. OpToRel(<, Nat) = {mn \in Nat \X Nat : mn[1] < mn[2]}
  BY DEF OpToRel
<1>3. \A m \in S : ~(m < n)
  BY <1>1, <1>2
<1> QED
  BY <1>3

(* A set of numbers that holds 0 and all successors holds every number. *)
LEMMA Induction ==
    ASSUME NEW S, 0 \in S, \A n \in Nat : n \in S => n + 1 \in S
    PROVE  Nat \subseteq S
<1> DEFINE Bad == {n \in Nat : n \notin S}
<1>1. SUFFICES ASSUME Bad # {} PROVE FALSE
  OBVIOUS
<1>2. PICK n \in Bad : \A m \in Bad : n <= m
  BY <1>1, LeastNumber
<1>3. n # 0 /\ n - 1 \in Nat /\ n - 1 \notin Bad
  BY <1>2
<1> QED
  BY <1>2, <1>3

-------------------------------------------------------------------------------
(* Recursive definitions that descend along a measure. *)

Descends(D, R, m, Base, b, next, h) ==
    /\ m \in [D -> Nat] /\ Base \in SUBSET D /\ b \in [D -> R]
    /\ next \in [D -> D] /\ h \in [D \X R -> R]
    /\ \A x \in D \ Base : m[next[x]] < m[x]

Below(D, m, n) == {x \in D : m[x] < n}

Solves(g, S, Base, b, next, h) ==
    \A x \in S : g[x] = IF x \in Base THEN b[x] ELSE h[<<x, g[next[x]]>>]

LEMMA SolutionsAgree ==
    ASSUME NEW D, NEW R, NEW m, NEW Base, NEW b, NEW next, NEW h,
           Descends(D, R, m, Base, b, next, h),
           NEW i \in Nat, NEW j \in Nat, NEW f, NEW g,
           Solves(f, Below(D, m, i), Base, b, next, h),
           Solves(g, Below(D, m, j), Base, b, next, h),
           NEW x \in D, m[x] < i, m[x] < j
    PROVE  f[x] = g[x]
<1> USE DEF Descends, Below, Solves
<1> DEFINE Bad == {k \in Nat : \E y \in D : m[y] = k /\ k < i /\ k < j /\ f[y] # g[y]}
<1>1. SUFFICES ASSUME Bad # {} PROVE FALSE
  <2>1. m[x] \in Nat
    OBVIOUS
  <2> QED
    BY <2>1, <1>1
<1>2. PICK k \in Bad : \A l \in Bad : k <= l
  BY <1>1, LeastNumber
<1>3. PICK y \in D : m[y] = k /\ k < i /\ k < j /\ f[y] # g[y]
  BY <1>2
<1>4. y \in D \ Base
  BY <1>3
<1>5. next[y] \in D /\ m[next[y]] \in Nat /\ m[next[y]] < k
  BY <1>3, <1>4
<1>6. f[next[y]] = g[next[y]]
  BY <1>2, <1>3, <1>5
<1>7. f[y] = h[<<y, f[next[y]]>>] /\ g[y] = h[<<y, g[next[y]]>>]
  BY <1>3, <1>4
<1> QED
  BY <1>3, <1>6, <1>7

LEMMA SolutionsExist ==
    ASSUME NEW D, NEW R, NEW m, NEW Base, NEW b, NEW next, NEW h,
           Descends(D, R, m, Base, b, next, h),
           NEW n \in Nat
    PROVE  \E g \in [Below(D, m, n) -> R] : Solves(g, Below(D, m, n), Base, b, next, h)
<1> DEFINE Good == {k \in Nat : \E g \in [Below(D, m, k) -> R] : Solves(g, Below(D, m, k), Base, b, next, h)}
<1>1. 0 \in Good
  <2>1. Below(D, m, 0) = {}
    BY DEF Below, Descends
  <2>2. [y \in {} |-> y] \in [{} -> R] /\ Solves([y \in {} |-> y], {}, Base, b, next, h)
    BY DEF Solves
  <2> QED
    BY <2>1, <2>2
<1>2. ASSUME NEW k \in Nat, k \in Good PROVE k + 1 \in Good
  <2> DEFINE B == Below(D, m, k + 1)
  <2>1. PICK g \in [Below(D, m, k) -> R] : Solves(g, Below(D, m, k), Base, b, next, h)
    BY <1>2
  <2> DEFINE f == [x \in B |-> IF x \in Base THEN b[x] ELSE h[<<x, g[next[x]]>>]]
  <2>2. \A x \in B \ Base : next[x] \in Below(D, m, k) /\ next[x] \in B
    BY DEF Below, Descends
  <2>3. f \in [B -> R]
    <3>1. \A x \in B \ Base : <<x, g[next[x]]>> \in D \X R
      BY <2>2 DEF Below
    <3>2. \A x \in B \ Base : h[<<x, g[next[x]]>>] \in R
      BY <3>1 DEF Descends
    <3>3. \A x \in B : b[x] \in R
      BY DEF Below, Descends
    <3> QED
      BY <3>2, <3>3
  <2>4. \A x \in Below(D, m, k) : f[x] = g[x]
    <3>1. \A x \in Below(D, m, k) : x \in B
      BY DEF Below, Descends
    <3> QED
      BY <2>1, <3>1 DEF Solves
  <2>5. Solves(f, B, Base, b, next, h)
    BY <2>2, <2>4 DEF Solves
  <2> HIDE DEF f
  <2> QED
    BY <2>3, <2>5
<1> HIDE DEF Good
<1>3. Nat \subseteq Good
  BY <1>1, <1>2, Induction
<1> QED
  BY <1>3 DEF Good

LEMMA Recursion ==
    ASSUME NEW D, NEW R, NEW m, NEW Base, NEW b, NEW next, NEW h,
           Descends(D, R, m, Base, b, next, h)
    PROVE  \E F \in [D -> R] : F = [x \in D |-> IF x \in Base THEN b[x] ELSE h[<<x, F[next[x]]>>]]
<1> DEFINE S(n) == Below(D, m, n)
           G(n) == CHOOSE g \in [S(n) -> R] : Solves(g, S(n), Base, b, next, h)
           F == [x \in D |-> G(m[x] + 1)[x]]
<1>1. \A n \in Nat : G(n) \in [S(n) -> R] /\ Solves(G(n), S(n), Base, b, next, h)
  BY SolutionsExist
<1> HIDE DEF G
<1>2. \A x \in D : m[x] \in Nat /\ m[x] + 1 \in Nat /\ x \in S(m[x] + 1)
  BY DEF Below, Descends
<1>3. F \in [D -> R]
  BY <1>1, <1>2
<1>4. ASSUME NEW x \in D PROVE F[x] = IF x \in Base THEN b[x] ELSE h[<<x, F[next[x]]>>]
  <2>1. G(m[x] + 1)[x] = IF x \in Base THEN b[x] ELSE h[<<x, G(m[x] + 1)[next[x]]>>]
    BY <1>1, <1>2 DEF Solves
  <2>2. ASSUME x \notin Base PROVE G(m[x] + 1)[next[x]] = F[next[x]]
    <3> DEFINE y == next[x]
    <3>1. y \in D /\ m[y] \in Nat /\ m[y] < m[x] + 1 /\ m[y] < m[y] + 1
      BY <1>2, <2>2 DEF Descends
    <3> HIDE DEF y
    <3>2. Solves(G(m[x] + 1), S(m[x] + 1), Base, b, next, h) /\ Solves(G(m[y] + 1), S(m[y] + 1), Base, b, next, h)
      BY <1>1, <1>2, <3>1
    <3>3. m[x] + 1 \in Nat /\ m[y] + 1 \in Nat
      BY <1>2, <3>1
    <3>4. G(m[x] + 1)[y] = G(m[y] + 1)[y]
      BY <3>1, <3>2, <3>3, SolutionsAgree
    <3> QED
      BY <3>1, <3>4 DEF y
  <2> QED
    BY <2>1, <2>2
<1> HIDE DEF F
<1> QED
  BY <1>3, <1>4

(* Two functions are equal if they agree wherever they agree one step down. *)
AgreeByDescent(F, G, D, Base, next) ==
    /\ F = [x \in D |-> F[x]]
    /\ G = [x \in D |-> G[x]]
    /\ \A x \in D : x \in Base \/ F[next[x]] = G[next[x]] => F[x] = G[x]

LEMMA EqualByDescent ==
    ASSUME NEW D, NEW R, NEW m, NEW Base, NEW b, NEW next, NEW h,
           Descends(D, R, m, Base, b, next, h),
           NEW F, NEW G, AgreeByDescent(F, G, D, Base, next)
    PROVE  F = G
<1> USE DEF Descends, AgreeByDescent
<1> DEFINE Bad == {k \in Nat : \E y \in D : m[y] = k /\ F[y] # G[y]}
<1>1. SUFFICES ASSUME Bad # {} PROVE FALSE
  <2>1. \A x \in D : m[x] \in Nat
    OBVIOUS
  <2>2. \A x \in D : F[x] = G[x]
    BY <2>1, <1>1
  <2> QED
    BY <2>2
<1>2. PICK k \in Bad : \A l \in Bad : k <= l
  BY <1>1, LeastNumber
<1>3. PICK y \in D : m[y] = k /\ F[y] # G[y]
  BY <1>2
<1>4. y \notin Base /\ next[y] \in D /\ m[next[y]] \in Nat /\ m[next[y]] < k
  BY <1>3
<1>5. F[next[y]] = G[next[y]]
  BY <1>2, <1>3, <1>4
<1> QED
  BY <1>3, <1>5

------------------------------------------------------------------------------
(* Texts and lines. *)

(* Concatenation under a name that the provers leave alone. *)
Cat(a, b) == a \o b

LEMMA CatText ==
    ASSUME NEW S, NEW a \in Seq(S), NEW b \in Seq(S)
    PROVE  Cat(a, b) \in Seq(S)
  BY ConcatProperties DEF Cat

LEMMA CatEmpty ==
    ASSUME NEW S, NEW a \in Seq(S)
    PROVE  Cat(a, <<>>) = a /\ Cat(<<>>, a) = a
  BY ConcatEmptySeq DEF Cat

LEMMA EmptyText == <<>> \in Text
  BY DEF Text

LEMMA CatAssociative ==
    ASSUME NEW S, NEW a \in Seq(S), NEW b \in Seq(S), NEW c \in Seq(S)
    PROVE  Cat(Cat(a, b), c) = Cat(a, Cat(b, c))
  BY ConcatAssociative DEF Cat

LEMMA LineEnd ==
    ASSUME NEW s \in Text
    PROVE  /\ EndOfLine(s) \in 0..Len(s)
           /\ EndOfLine(s) = 0 => \A i \in 1..Len(s) : s[i] # "nl"
           /\ EndOfLine(s) # 0 => /\ s[EndOfLine(s)] = "nl"
                                  /\ \A i \in 1..(EndOfLine(s) - 1) : s[i] # "nl"
<1> DEFINE I == {i \in 1..Len(s) : s[i] = "nl"}
<1>1. EndOfLine(s) = IF I # {} THEN Min(I) ELSE 0
  BY DEF EndOfLine, SelectInSeq
<1>2. Len(s) \in Nat
  BY LenProperties DEF Text
<1>3. ASSUME I # {} PROVE Min(I) \in I /\ \A j \in I : Min(I) <= j
  <2>1. I \subseteq Nat
    BY <1>2
  <2>2. \E i \in I : \A j \in I : i <= j
    BY <2>1, <1>3, LeastNumber
  <2> QED
    BY <2>2 DEF Min
<1>4. CASE I = {}
  BY <1>1, <1>2, <1>4
<1>5. CASE I # {}
  <2>1. EndOfLine(s) \in I /\ \A j \in I : EndOfLine(s) <= j
    BY <1>1, <1>3, <1>5
  <2> QED
    BY <2>1, <1>2
<1> QED
  BY <1>4, <1>5

LEMMA LineEndsAt ==
    ASSUME NEW s \in Text, NEW i \in 1..Len(s), s[i] = "nl", \A j \in 1..(i - 1) : s[j] # "nl"
    PROVE  EndOfLine(s) = i
<1>1. Len(s) \in Nat
  BY LenProperties DEF Text
<1> QED
  BY <1>1, LineEnd

LEMMA NoLineEnd ==
    ASSUME NEW s \in Text, \A i \in 1..Len(s) : s[i] # "nl"
    PROVE  EndOfLine(s) = 0
<1>1. Len(s) \in Nat
  BY LenProperties DEF Text
<1> QED
  BY <1>1, LineEnd

LEMMA LineParts ==
    ASSUME NEW s \in Text
    PROVE  /\ FirstLine(s) \in Text /\ Len(FirstLine(s)) = EndOfLine(s)
           /\ OtherLines(s) \in Text /\ Len(OtherLines(s)) = Len(s) - EndOfLine(s)
           /\ \A i \in 1..EndOfLine(s) : FirstLine(s)[i] = s[i]
           /\ \A i \in 1..(Len(s) - EndOfLine(s)) : OtherLines(s)[i] = s[i + EndOfLine(s)]
<1>1. Len(s) \in Nat /\ EndOfLine(s) \in 0..Len(s) /\ \A i \in 1..Len(s) : s[i] \in Symbols
  BY LenProperties, ElementOfSeq, LineEnd DEF Text
<1>2. /\ FirstLine(s) \in Text
      /\ Len(FirstLine(s)) = EndOfLine(s)
      /\ \A i \in 1..EndOfLine(s) : FirstLine(s)[i] = s[i]
  BY <1>1, SubSeqProperties DEF FirstLine, Text
<1>3. /\ OtherLines(s) \in Text
      /\ Len(OtherLines(s)) = Len(s) - EndOfLine(s)
      /\ \A i \in 1..(Len(s) - EndOfLine(s)) : OtherLines(s)[i] = s[i + EndOfLine(s)]
  BY <1>1, SubSeqProperties DEF OtherLines, Text
<1> QED
  BY <1>2, <1>3

LEMMA ShownType ==
    ASSUME NEW s \in Text
    PROVE  Bare(s) \in Text /\ Shown(s) \in Seq(Text)
<1>1. Len(s) \in Nat /\ \A i \in 1..Len(s) : s[i] \in Symbols
  BY LenProperties, ElementOfSeq DEF Text
<1>2. Front(s) \in Text
  BY <1>1, SubSeqProperties DEF Front, Text
<1>3. Bare(s) \in Text
  BY <1>2 DEF Bare
<1>4. <<>> \in Seq(Text) /\ <<Bare(s)>> \in Seq(Text)
  BY <1>3
<1> QED
  BY <1>3, <1>4 DEF Shown

LEMMA NothingShown == Shown(<<>>) = <<>>
  BY DEF Shown, Bare

-------------------------------------------------------------------------------
(* The three recursive functions are what their definitions say. *)

LEMMA StripDef ==
    /\ StripHeadlineText \in [Text -> Seq(Text)]
    /\ \A s \in Text : StripHeadlineText[s] =
           IF EndOfLine(s) = 0 THEN Shown(s)
           ELSE Shown(FirstLine(s)) \o StripHeadlineText[OtherLines(s)]
<1> DEFINE Base == {s \in Text : EndOfLine(s) = 0}
           m == [s \in Text |-> Len(s)]
           b == [s \in Text |-> Shown(s)]
           next == [s \in Text |-> OtherLines(s)]
           h == [x \in Text \X Seq(Text) |-> Shown(FirstLine(x[1])) \o x[2]]
<1>1. Descends(Text, Seq(Text), m, Base, b, next, h)
  <2>1. m \in [Text -> Nat]
    BY LenProperties DEF Text
  <2>2. b \in [Text -> Seq(Text)] /\ next \in [Text -> Text]
    BY ShownType, LineParts
  <2>3. h \in [Text \X Seq(Text) -> Seq(Text)]
    <3>1. ASSUME NEW s \in Text, NEW r \in Seq(Text) PROVE Shown(FirstLine(s)) \o r \in Seq(Text)
      BY ShownType, LineParts, ConcatProperties
    <3> QED
      BY <3>1
  <2>4. \A s \in Text \ Base : m[next[s]] < m[s]
    <3>1. \A s \in Text : Len(s) \in Nat
      BY LenProperties DEF Text
    <3> QED
      BY <3>1, LineEnd, LineParts
  <2> QED
    BY <2>1, <2>2, <2>3, <2>4 DEF Descends
<1> HIDE DEF Base, m, b, next, h
<1>2. PICK F \in [Text -> Seq(Text)] :
           F = [s \in Text |-> IF s \in Base THEN b[s] ELSE h[<<s, F[next[s]]>>]]
  BY <1>1, Recursion
<1>3. F = [s \in Text |-> IF EndOfLine(s) = 0 THEN Shown(s)
                          ELSE Shown(FirstLine(s)) \o F[OtherLines(s)]]
  <2>1. \A s \in Text : F[OtherLines(s)] \in Seq(Text)
    BY LineParts
  <2> QED
    BY <1>2, <2>1 DEF Base, b, next, h
<1>4. StripHeadlineText = [s \in Text |-> IF EndOfLine(s) = 0 THEN Shown(s)
                          ELSE Shown(FirstLine(s)) \o StripHeadlineText[OtherLines(s)]]
  BY <1>3, Zenon DEF StripHeadlineText
<1>5. StripHeadlineText = F
  <2>1. \A s \in Text : s \in Base \/ StripHeadlineText[next[s]] = F[next[s]]
                        => StripHeadlineText[s] = F[s]
    BY <1>3, <1>4 DEF Base, next
  <2>2. F = [s \in Text |-> F[s]] /\ StripHeadlineText = [s \in Text |-> StripHeadlineText[s]]
    BY <1>4
  <2>3. AgreeByDescent(StripHeadlineText, F, Text, Base, next)
    BY <2>1, <2>2 DEF AgreeByDescent
  <2> QED
    BY <1>1, <2>3, EqualByDescent
<1> QED
  BY <1>3, <1>5

LEMMA EmitType ==
    ASSUME NEW f \in Filter, NEW line \in Text
    PROVE  /\ Emit(f, line) \in Filter
           /\ Emit(f, line).buffer = <<>>
           /\ Emit(f, line).out = f.out \o Shown(f.buffer \o line)
<1>1. f.buffer \o line \in Text
  BY ConcatProperties DEF Filter, Text
<1>2. f.out \o Shown(f.buffer \o line) \in Seq(Text)
  BY <1>1, ShownType, ConcatProperties DEF Filter
<1>3. <<>> \in Text
  BY DEF Text
<1> QED
  BY <1>2, <1>3 DEF Emit, Filter

(* The two branches of the loop. *)
Keep(f) == [f EXCEPT !.buffer = @ \o f.rest, !.rest = <<>>]
TakeLine(f) == [Emit(f, FirstLine(f.rest)) EXCEPT !.rest = OtherLines(f.rest)]

LEMMA LoopTypes ==
    ASSUME NEW f \in Filter
    PROVE  /\ Keep(f) \in Filter /\ TakeLine(f) \in Filter
           /\ TakeLine(f).rest = OtherLines(f.rest)
<1>1. f.buffer \o f.rest \in Text /\ <<>> \in Text
  BY ConcatProperties DEF Filter, Text
<1>2. f.rest \in Text
  BY DEF Filter
<1>3. Emit(f, FirstLine(f.rest)) \in Filter /\ OtherLines(f.rest) \in Text
  BY <1>2, EmitType, LineParts
<1> QED
  BY <1>1, <1>3 DEF Filter, Keep, TakeLine

LEMMA WriteDef ==
    /\ WriteLoop \in [Filter -> Filter]
    /\ \A f \in Filter : WriteLoop[f] =
           IF EndOfLine(f.rest) = 0 THEN Keep(f) ELSE WriteLoop[TakeLine(f)]
<1> DEFINE Base == {f \in Filter : EndOfLine(f.rest) = 0}
           m == [f \in Filter |-> Len(f.rest)]
           b == [f \in Filter |-> Keep(f)]
           next == [f \in Filter |-> TakeLine(f)]
           h == [x \in Filter \X Filter |-> x[2]]
<1>1. Descends(Filter, Filter, m, Base, b, next, h)
  <2>1. \A f \in Filter : f.rest \in Text /\ Len(f.rest) \in Nat
    BY LenProperties DEF Text, Filter
  <2>2. m \in [Filter -> Nat]
    BY <2>1
  <2>3. b \in [Filter -> Filter] /\ next \in [Filter -> Filter]
    BY LoopTypes
  <2>4. \A f \in Filter \ Base : m[next[f]] < m[f]
    <3>1. ASSUME NEW f \in Filter, EndOfLine(f.rest) # 0 PROVE Len(TakeLine(f).rest) < Len(f.rest)
      <4>1. f.rest \in Text /\ Len(f.rest) \in Nat
        BY <2>1
      <4>2. EndOfLine(f.rest) \in 1..Len(f.rest)
        BY <4>1, <3>1, LineEnd
      <4>3. Len(OtherLines(f.rest)) = Len(f.rest) - EndOfLine(f.rest)
        BY <4>1, LineParts
      <4> QED
        BY <4>1, <4>2, <4>3, LoopTypes
    <3> QED
      BY <3>1, LoopTypes
  <2>5. h \in [Filter \X Filter -> Filter]
    OBVIOUS
  <2> QED
    BY <2>2, <2>3, <2>4, <2>5 DEF Descends
<1> HIDE DEF Base, m, b, next, h
<1>2. PICK F \in [Filter -> Filter] :
           F = [f \in Filter |-> IF f \in Base THEN b[f] ELSE h[<<f, F[next[f]]>>]]
  BY <1>1, Recursion
<1>3. F = [f \in Filter |-> IF EndOfLine(f.rest) = 0 THEN Keep(f) ELSE F[TakeLine(f)]]
  <2>1. \A f \in Filter : F[TakeLine(f)] \in Filter
    BY LoopTypes
  <2> QED
    BY <1>2, <2>1 DEF Base, b, next, h
<1>4. WriteLoop = [f \in Filter |-> IF EndOfLine(f.rest) = 0 THEN Keep(f) ELSE WriteLoop[TakeLine(f)]]
  BY <1>3, Zenon DEF WriteLoop, Keep, TakeLine
<1>5. WriteLoop = F
  <2>1. \A f \in Filter : f \in Base \/ WriteLoop[next[f]] = F[next[f]] => WriteLoop[f] = F[f]
    BY <1>3, <1>4 DEF Base, next
  <2>2. F = [f \in Filter |-> F[f]] /\ WriteLoop = [f \in Filter |-> WriteLoop[f]]
    BY <1>4
  <2>3. AgreeByDescent(WriteLoop, F, Filter, Base, next)
    BY <2>1, <2>2 DEF AgreeByDescent
  <2> QED
    BY <1>1, <2>3, EqualByDescent
<1> QED
  BY <1>3, <1>5

Hearing == [reply : Text, filter : Filter]

(* What one more chunk makes of what has been heard. *)
Hear(x, chunk) == [reply |-> x.reply \o chunk, filter |-> Write(x.filter, chunk)]

LEMMA HearType ==
    ASSUME NEW x \in Hearing, NEW chunk \in Text
    PROVE  Hear(x, chunk) \in Hearing
<1>1. x.reply \o chunk \in Text
  BY ConcatProperties DEF Hearing, Text
<1>2. Write(x.filter, chunk) \in Filter
  <2>1. x.filter \in Filter
    BY DEF Hearing
  <2>2. [x.filter EXCEPT !.rest = chunk] \in Filter
    BY <2>1 DEF Filter
  <2> QED
    BY <2>2, WriteDef DEF Write
<1> QED
  BY <1>1, <1>2 DEF Hear, Hearing

LEMMA ChunksParts ==
    ASSUME NEW chunks \in Seq(Text), chunks # <<>>
    PROVE  /\ Front(chunks) \in Seq(Text) /\ Last(chunks) \in Text
           /\ Len(chunks) \in Nat /\ Len(Front(chunks)) \in Nat
           /\ Len(Front(chunks)) < Len(chunks)
<1>1. Len(chunks) \in Nat \ {0} /\ \A i \in 1..Len(chunks) : chunks[i] \in Text
  BY EmptySeq, LenProperties, ElementOfSeq
<1>2. Front(chunks) \in Seq(Text) /\ Len(Front(chunks)) = Len(chunks) - 1
  <2>1. PICK n \in Nat : n = Len(chunks) - 1
    BY <1>1
  <2>2. \A i \in 1..n : chunks[i] \in Text
    BY <1>1, <2>1
  <2>3. SubSeq(chunks, 1, n) \in Seq(Text) /\ Len(SubSeq(chunks, 1, n)) = IF 1 <= n THEN n - 1 + 1 ELSE 0
    BY <2>2, SubSeqProperties
  <2>4. Len(SubSeq(chunks, 1, n)) = n
    BY <2>3
  <2>5. Front(chunks) = SubSeq(chunks, 1, n)
    BY <2>1 DEF Front
  <2> QED
    BY <2>1, <2>3, <2>4, <2>5, Zenon
<1> QED
  BY <1>1, <1>2 DEF Last

Nothing == [reply |-> <<>>, filter |-> EmptyFilter]

LEMMA HeardDef ==
    /\ Heard \in [Seq(Text) -> Hearing]
    /\ \A chunks \in Seq(Text) : Heard[chunks] =
           IF chunks = <<>> THEN Nothing ELSE Hear(Heard[Front(chunks)], Last(chunks))
<1> DEFINE Base == {<<>>}
           m == [c \in Seq(Text) |-> Len(c)]
           b == [c \in Seq(Text) |-> Nothing]
           next == [c \in Seq(Text) |-> IF c = <<>> THEN <<>> ELSE Front(c)]
           h == [x \in Seq(Text) \X Hearing |-> IF x[1] = <<>> THEN Nothing ELSE Hear(x[2], Last(x[1]))]
<1>0. Nothing \in Hearing
  BY DEF Nothing, Hearing, EmptyFilter, Filter, Text
<1>1. Descends(Seq(Text), Hearing, m, Base, b, next, h)
  <2>1. m \in [Seq(Text) -> Nat]
    BY LenProperties
  <2>2. Base \in SUBSET Seq(Text) /\ b \in [Seq(Text) -> Hearing]
    BY <1>0
  <2>3. next \in [Seq(Text) -> Seq(Text)]
    BY ChunksParts
  <2>4. \A c \in Seq(Text) \ Base : m[next[c]] < m[c]
    BY ChunksParts
  <2>5. h \in [Seq(Text) \X Hearing -> Hearing]
    <3>1. ASSUME NEW c \in Seq(Text), NEW x \in Hearing, c # <<>> PROVE Hear(x, Last(c)) \in Hearing
      BY <3>1, HearType, ChunksParts
    <3> QED
      BY <1>0, <3>1
  <2> QED
    BY <2>1, <2>2, <2>3, <2>4, <2>5 DEF Descends
<1> HIDE DEF Base, m, b, next, h
<1>2. PICK F \in [Seq(Text) -> Hearing] :
           F = [c \in Seq(Text) |-> IF c \in Base THEN b[c] ELSE h[<<c, F[next[c]]>>]]
  BY <1>1, Recursion
<1>3. F = [c \in Seq(Text) |-> IF c = <<>> THEN Nothing ELSE Hear(F[Front(c)], Last(c))]
  <2>1. \A c \in Seq(Text) : c # <<>> => F[Front(c)] \in Hearing
    BY ChunksParts
  <2> QED
    BY <1>2, <2>1 DEF Base, b, next, h
<1>4. Heard = [c \in Seq(Text) |-> IF c = <<>> THEN Nothing ELSE Hear(Heard[Front(c)], Last(c))]
  BY <1>3, Zenon DEF Heard, Hear, Nothing
<1>5. Heard = F
  <2>1. \A c \in Seq(Text) : c \in Base \/ Heard[next[c]] = F[next[c]] => Heard[c] = F[c]
    BY <1>3, <1>4 DEF Base, next
  <2>2. F = [c \in Seq(Text) |-> F[c]] /\ Heard = [c \in Seq(Text) |-> Heard[c]]
    BY <1>4
  <2>3. AgreeByDescent(Heard, F, Seq(Text), Base, next)
    BY <2>1, <2>2 DEF AgreeByDescent
  <2> QED
    BY <1>1, <2>3, EqualByDescent
<1> QED
  BY <1>3, <1>5

-------------------------------------------------------------------------------
(* The filter. *)

Unfinished(s) == \A i \in 1..Len(s) : s[i] # "nl"

LEMMA StillUnfinished ==
    ASSUME NEW a \in Text, NEW b \in Text, Unfinished(a), Unfinished(b)
    PROVE  Unfinished(a \o b)
<1>1. PICK m \in Nat, n \in Nat : m = Len(a) /\ n = Len(b)
  BY LenProperties DEF Text
<1>2. /\ Len(a \o b) = m + n
      /\ \A i \in 1..(m + n) : (a \o b)[i] = IF i <= m THEN a[i] ELSE b[i - m]
  BY <1>1, ConcatProperties DEF Text
<1>3. ASSUME NEW i \in 1..(m + n) PROVE (a \o b)[i] # "nl"
  <2>1. (i <= m => i \in 1..m) /\ (~(i <= m) => i - m \in 1..n)
    OBVIOUS
  <2>2. (\A j \in 1..m : a[j] # "nl") /\ (\A j \in 1..n : b[j] # "nl")
    BY <1>1 DEF Unfinished
  <2> QED
    BY <1>2, <2>1, <2>2
<1> QED
  BY <1>2, <1>3, Zenon DEF Unfinished

LEMMA StripAfterBuffer ==
    ASSUME NEW buf \in Text, Unfinished(buf), NEW s \in Text, NEW t \in Text, EndOfLine(s) # 0
    PROVE  StripHeadlineText[buf \o (s \o t)]
             = Shown(buf \o FirstLine(s)) \o StripHeadlineText[OtherLines(s) \o t]
<1> DEFINE u == buf \o (s \o t)
           e == EndOfLine(s)
           l == Len(buf)
<1>1. /\ l \in Nat /\ Len(s) \in Nat /\ Len(t) \in Nat
      /\ e \in 1..Len(s) /\ s[e] = "nl" /\ \A i \in 1..(e - 1) : s[i] # "nl"
  BY LenProperties, LineEnd DEF Text
<1>2. /\ s \o t \in Text /\ Len(s \o t) = Len(s) + Len(t)
      /\ \A i \in 1..(Len(s) + Len(t)) : (s \o t)[i] = IF i <= Len(s) THEN s[i] ELSE t[i - Len(s)]
  BY ConcatProperties DEF Text
<1>3. /\ u \in Text /\ Len(u) = l + Len(s) + Len(t)
      /\ \A i \in 1..(l + Len(s) + Len(t)) : u[i] = IF i <= l THEN buf[i] ELSE (s \o t)[i - l]
  BY <1>1, <1>2, ConcatProperties DEF Text
<1>4. \A i \in 1..(l + Len(s) + Len(t)) :
           u[i] = IF i <= l THEN buf[i] ELSE IF i <= l + Len(s) THEN s[i - l] ELSE t[i - (l + Len(s))]
  BY <1>1, <1>2, <1>3
<1> HIDE DEF u, e, l
<1>5. PICK k \in Nat : k = l + e
  BY <1>1
<1>6. PICK n \in Nat : n = Len(s) + Len(t) - e
  BY <1>1
<1>7. EndOfLine(u) = k
  <2>1. k \in 1..Len(u) /\ u[k] = "nl"
    BY <1>1, <1>3, <1>4, <1>5
  <2>2. ASSUME NEW i \in 1..(k - 1) PROVE u[i] # "nl"
    <3>1. \A j \in 1..l : buf[j] # "nl"
      BY DEF Unfinished, l
    <3>2. i \in 1..(l + Len(s) + Len(t)) /\ i <= l + Len(s) /\ (i > l => i - l \in 1..(e - 1))
      BY <1>1, <1>5
    <3>3. u[i] = IF i <= l THEN buf[i] ELSE s[i - l]
      BY <1>4, <3>2
    <3> QED
      BY <1>1, <3>1, <3>2, <3>3
  <2> QED
    BY <1>3, <2>1, <2>2, LineEndsAt
<1>8. /\ FirstLine(s) \in Text /\ Len(FirstLine(s)) = e
      /\ OtherLines(s) \in Text /\ Len(OtherLines(s)) = Len(s) - e
      /\ \A i \in 1..e : FirstLine(s)[i] = s[i]
      /\ \A i \in 1..(Len(s) - e) : OtherLines(s)[i] = s[i + e]
  BY LineParts DEF e
<1>9. /\ FirstLine(u) \in Text /\ Len(FirstLine(u)) = k
      /\ OtherLines(u) \in Text /\ Len(OtherLines(u)) = n
      /\ \A i \in 1..k : FirstLine(u)[i] = u[i]
      /\ \A i \in 1..n : OtherLines(u)[i] = u[i + k]
  <2>1. Len(u) - k = n
    BY <1>1, <1>3, <1>5, <1>6
  <2> QED
    BY <1>3, <1>7, <2>1, LineParts
<1>10. FirstLine(u) = buf \o FirstLine(s)
  <2>1. /\ buf \o FirstLine(s) \in Text /\ Len(buf \o FirstLine(s)) = k
        /\ \A i \in 1..k : (buf \o FirstLine(s))[i] = IF i <= l THEN buf[i] ELSE FirstLine(s)[i - l]
    BY <1>5, <1>8, ConcatProperties DEF Text, l
  <2>2. ASSUME NEW i \in 1..k PROVE FirstLine(u)[i] = (buf \o FirstLine(s))[i]
    <3>1. i \in 1..(l + Len(s) + Len(t)) /\ i <= l + Len(s)
      BY <1>1, <1>5
    <3>2. i > l => i - l \in 1..e
      BY <1>1, <1>5
    <3>3. FirstLine(u)[i] = IF i <= l THEN buf[i] ELSE s[i - l]
      BY <1>4, <1>9, <3>1
    <3> QED
      BY <1>8, <2>1, <3>2, <3>3, <1>1
  <2> QED
    BY <1>9, <2>1, <2>2, SeqEqual DEF Text
<1>11. OtherLines(u) = OtherLines(s) \o t
  <2>1. Len(OtherLines(s)) + Len(t) = n
    BY <1>1, <1>6, <1>8
  <2>2. /\ OtherLines(s) \o t \in Text /\ Len(OtherLines(s) \o t) = n
        /\ \A i \in 1..n : (OtherLines(s) \o t)[i] =
              IF i <= Len(OtherLines(s)) THEN OtherLines(s)[i] ELSE t[i - Len(OtherLines(s))]
    <3>1. OtherLines(s) \in Seq(Symbols) /\ t \in Seq(Symbols)
      BY <1>8 DEF Text
    <3> QED
      BY <2>1, <3>1, ConcatProperties DEF Text
  <2>3. ASSUME NEW i \in 1..n PROVE OtherLines(u)[i] = (OtherLines(s) \o t)[i]
    <3>1. /\ i + k \in 1..(l + Len(s) + Len(t)) /\ ~(i + k <= l)
          /\ i + k <= l + Len(s) <=> i <= Len(s) - e
          /\ i + k - l = i + e /\ i + k - (l + Len(s)) = i - (Len(s) - e)
      BY <1>1, <1>5, <1>6
    <3>2. OtherLines(u)[i] = IF i <= Len(s) - e THEN s[i + e] ELSE t[i - (Len(s) - e)]
      <4>1. OtherLines(u)[i] = u[i + k]
        BY <1>9
      <4>2. PICK j \in 1..(l + Len(s) + Len(t)) : j = i + k
        BY <3>1
      <4>3. u[j] = IF j <= l + Len(s) THEN s[j - l] ELSE t[j - (l + Len(s))]
        BY <1>4, <3>1, <4>2
      <4>4. /\ j <= l + Len(s) <=> i <= Len(s) - e
            /\ j - l = i + e /\ j - (l + Len(s)) = i - (Len(s) - e)
        BY <1>1, <1>5, <3>1, <4>2
      <4> QED
        BY <4>1, <4>2, <4>3, <4>4, Zenon
    <3>3. i <= Len(s) - e => OtherLines(s)[i] = s[i + e]
      BY <1>1, <1>8
    <3> QED
      BY <1>8, <2>2, <3>2, <3>3
  <2> QED
    BY <1>9, <2>2, <2>3, SeqEqual DEF Text
<1> QED
  <2>1. EndOfLine(u) # 0
    BY <1>1, <1>5, <1>7
  <2> QED
    BY <1>3, <2>1, <1>10, <1>11, StripDef DEF u

LEMMA StripAfter ==
    ASSUME NEW buf \in Text, Unfinished(buf), NEW s \in Text, NEW t \in Text, EndOfLine(s) # 0
    PROVE  StripHeadlineText[Cat(buf, Cat(s, t))]
             = Cat(Shown(Cat(buf, FirstLine(s))), StripHeadlineText[Cat(OtherLines(s), t)])
  BY StripAfterBuffer DEF Cat

(* What the loop keeps: whatever text t follows, the client has been shown *)
(* and will be shown the same, and the buffer holds no complete line.      *)
Faithful(f) ==
    LET g == WriteLoop[f] IN
    /\ Unfinished(g.buffer)
    /\ \A t \in Text : Cat(g.out, StripHeadlineText[Cat(g.buffer, t)])
                       = Cat(f.out, StripHeadlineText[Cat(f.buffer, Cat(f.rest, t))])

LEMMA LoopIsFaithful ==
    ASSUME NEW f \in Filter, Unfinished(f.buffer)
    PROVE  Faithful(f)
<1> DEFINE Bad == {k \in Nat : \E g \in Filter : Len(g.rest) = k /\ Unfinished(g.buffer) /\ ~Faithful(g)}
<1>1. SUFFICES ASSUME Bad # {} PROVE FALSE
  <2>1. Len(f.rest) \in Nat
    BY LenProperties DEF Filter, Text
  <2> QED
    BY <2>1, <1>1
<1>2. PICK k \in Bad : \A l \in Bad : k <= l
  BY <1>1, LeastNumber
<1>3. PICK g \in Filter : Len(g.rest) = k /\ Unfinished(g.buffer) /\ ~Faithful(g)
  BY <1>2
<1>4. /\ g.buffer \in Text /\ g.rest \in Text /\ g.out \in Seq(Text)
      /\ Len(g.buffer) \in Nat /\ Len(g.rest) \in Nat
  BY LenProperties DEF Filter, Text
<1>5. CASE EndOfLine(g.rest) = 0
  <2>1. WriteLoop[g] = Keep(g)
    BY <1>5, WriteDef
  <2>2. Keep(g).buffer = Cat(g.buffer, g.rest) /\ Keep(g).out = g.out
    BY DEF Keep, Filter, Cat
  <2>3. Unfinished(Cat(g.buffer, g.rest))
    <3>1. Unfinished(g.rest)
      BY <1>4, <1>5, LineEnd DEF Unfinished
    <3> QED
      BY <1>3, <1>4, <3>1, StillUnfinished DEF Cat
  <2>4. \A t \in Text : Cat(Cat(g.buffer, g.rest), t) = Cat(g.buffer, Cat(g.rest, t))
    BY <1>4, CatAssociative DEF Text
  <2> QED
    BY <1>3, <2>1, <2>2, <2>3, <2>4 DEF Faithful
<1>6. CASE EndOfLine(g.rest) # 0
  <2> DEFINE n == TakeLine(g)
             line == FirstLine(g.rest)
  <2>1. /\ line \in Text /\ OtherLines(g.rest) \in Text
        /\ Len(OtherLines(g.rest)) \in Nat /\ Len(OtherLines(g.rest)) < k
    <3>1. EndOfLine(g.rest) \in 1..Len(g.rest)
      BY <1>4, <1>6, LineEnd
    <3>2. line \in Text /\ OtherLines(g.rest) \in Text /\ Len(OtherLines(g.rest)) = Len(g.rest) - EndOfLine(g.rest)
      BY <1>4, LineParts
    <3> QED
      BY <1>3, <1>4, <3>1, <3>2
  <2>2. /\ n \in Filter /\ n.rest = OtherLines(g.rest) /\ n.buffer = <<>>
        /\ n.out = Cat(g.out, Shown(Cat(g.buffer, line)))
    <3>1. /\ Emit(g, line) \in Filter /\ Emit(g, line).buffer = <<>>
          /\ Emit(g, line).out = Cat(g.out, Shown(Cat(g.buffer, line)))
      BY <2>1, EmitType DEF Cat
    <3> QED
      BY <2>1, <3>1, LoopTypes DEF TakeLine, Filter
  <2> HIDE DEF n, line
  <2>3. Unfinished(n.buffer)
    BY <2>2 DEF Unfinished
  <2>4. Faithful(n)
    BY <1>2, <2>1, <2>2, <2>3
  <2>5. WriteLoop[g] = WriteLoop[n]
    BY <1>6, WriteDef DEF n
  <2>6. ASSUME NEW t \in Text
        PROVE  Cat(n.out, StripHeadlineText[Cat(n.buffer, Cat(n.rest, t))])
                 = Cat(g.out, StripHeadlineText[Cat(g.buffer, Cat(g.rest, t))])
    <3> DEFINE shown == Shown(Cat(g.buffer, line))
               strip == StripHeadlineText[Cat(n.rest, t)]
    <3>1. Cat(n.rest, t) \in Text /\ Cat(n.buffer, Cat(n.rest, t)) = Cat(n.rest, t)
      BY <2>1, <2>2, CatText, CatEmpty DEF Text
    <3>2. shown \in Seq(Text) /\ strip \in Seq(Text)
      <4>1. Cat(g.buffer, line) \in Text
        BY <1>4, <2>1, CatText DEF Text
      <4> QED
        BY <4>1, <3>1, ShownType, StripDef
    <3>3. StripHeadlineText[Cat(g.buffer, Cat(g.rest, t))] = Cat(shown, strip)
      BY <1>3, <1>4, <1>6, <2>2, StripAfter DEF line
    <3> HIDE DEF shown, strip
    <3>4. Cat(Cat(g.out, shown), strip) = Cat(g.out, Cat(shown, strip))
      BY <1>4, <3>2, CatAssociative
    <3> QED
      BY <2>2, <3>1, <3>3, <3>4 DEF shown, strip
  <2>7. Faithful(g)
    BY <2>4, <2>5, <2>6 DEF Faithful
  <2> QED
    BY <1>3, <2>7
<1> QED
  BY <1>5, <1>6

(* The same of Engine.Chat, chunk by chunk. *)
Balanced(x) ==
    /\ Unfinished(x.filter.buffer)
    /\ \A t \in Text : Cat(x.filter.out, StripHeadlineText[Cat(x.filter.buffer, t)])
                       = StripHeadlineText[Cat(x.reply, t)]

LEMMA HearingKeepsBalance ==
    ASSUME NEW x \in Hearing, Balanced(x), NEW chunk \in Text
    PROVE  Balanced(Hear(x, chunk))
<1> DEFINE f == [x.filter EXCEPT !.rest = chunk]
<1>1. x.filter \in Filter /\ x.reply \in Text
  BY DEF Hearing
<1>2. f \in Filter /\ f.buffer = x.filter.buffer /\ f.out = x.filter.out /\ f.rest = chunk
  BY <1>1 DEF Filter
<1>3. Hear(x, chunk).reply = Cat(x.reply, chunk) /\ Hear(x, chunk).filter = WriteLoop[f]
  BY DEF Hear, Write, Cat
<1> HIDE DEF f
<1>4. Faithful(f)
  BY <1>2, LoopIsFaithful DEF Balanced
<1>5. ASSUME NEW t \in Text
      PROVE  Cat(x.filter.out, StripHeadlineText[Cat(x.filter.buffer, Cat(chunk, t))])
               = StripHeadlineText[Cat(Cat(x.reply, chunk), t)]
  <2>1. Cat(chunk, t) \in Text
    BY CatText DEF Text
  <2>2. Cat(Cat(x.reply, chunk), t) = Cat(x.reply, Cat(chunk, t))
    BY <1>1, CatAssociative DEF Text
  <2> QED
    BY <2>1, <2>2 DEF Balanced
<1> QED
  BY <1>2, <1>3, <1>4, <1>5 DEF Balanced, Faithful

LEMMA HeardIsBalanced ==
    ASSUME NEW chunks \in Seq(Text)
    PROVE  Heard[chunks] \in Hearing /\ Balanced(Heard[chunks])
<1> DEFINE Bad == {k \in Nat : \E c \in Seq(Text) : Len(c) = k /\ ~Balanced(Heard[c])}
<1>1. SUFFICES ASSUME Bad # {} PROVE FALSE
  <2>1. Len(chunks) \in Nat
    BY LenProperties
  <2> QED
    BY <2>1, <1>1, HeardDef
<1>2. PICK k \in Bad : \A l \in Bad : k <= l
  BY <1>1, LeastNumber
<1>3. PICK c \in Seq(Text) : Len(c) = k /\ ~Balanced(Heard[c])
  BY <1>2
<1>4. CASE c = <<>>
  <2>1. Heard[c] = Nothing
    BY <1>4, HeardDef
  <2>2. /\ Nothing.filter.buffer = <<>> /\ Nothing.filter.out = <<>> /\ Nothing.reply = <<>>
    BY DEF Nothing, EmptyFilter
  <2>3. \A t \in Text : Cat(<<>>, t) = t /\ Cat(<<>>, StripHeadlineText[t]) = StripHeadlineText[t]
    BY StripDef, CatEmpty DEF Text
  <2>4. Unfinished(<<>>)
    BY DEF Unfinished
  <2> QED
    BY <1>3, <2>1, <2>2, <2>3, <2>4 DEF Balanced
<1>5. CASE c # <<>>
  <2>1. Balanced(Heard[Front(c)]) /\ Heard[Front(c)] \in Hearing
    <3>1. /\ Front(c) \in Seq(Text) /\ Len(Front(c)) \in Nat /\ Len(Front(c)) < k
      BY <1>3, <1>5, ChunksParts
    <3>2. Len(Front(c)) \notin Bad
      BY <1>2, <3>1
    <3> QED
      BY <3>1, <3>2, HeardDef
  <2>2. Heard[c] = Hear(Heard[Front(c)], Last(c)) /\ Last(c) \in Text
    BY <1>5, HeardDef, ChunksParts
  <2> QED
    BY <1>3, <2>1, <2>2, HearingKeepsBalance
<1> QED
  BY <1>4, <1>5

(* A client is shown the reply that is logged and returned, in however     *)
(* many chunks and wherever cut the kernel sends it (headline.go,          *)
(* qwenpaw/engine.go:131-184).                                             *)
THEOREM StreamedIsReturned ==
    \A chunks \in Seq(Text) : Streamed(chunks) = Returned(chunks)
<1>1. SUFFICES ASSUME NEW chunks \in Seq(Text) PROVE Streamed(chunks) = Returned(chunks)
  OBVIOUS
<1> DEFINE x == Heard[chunks]
           f == x.filter
<1>2. x \in Hearing /\ Balanced(x)
  BY HeardIsBalanced
<1>3. f \in Filter /\ f.buffer \in Text /\ f.out \in Seq(Text) /\ x.reply \in Text
  BY <1>2 DEF Hearing, Filter
<1>4. Cat(f.out, StripHeadlineText[f.buffer]) = StripHeadlineText[x.reply]
  <2>1. Cat(f.buffer, <<>>) = f.buffer /\ Cat(x.reply, <<>>) = x.reply
    BY <1>3, CatEmpty DEF Text
  <2> QED
    BY <1>2, <2>1, EmptyText DEF Balanced
<1>5. StripHeadlineText[f.buffer] = Shown(f.buffer)
  BY <1>2, <1>3, NoLineEnd, StripDef DEF Balanced, Unfinished
<1>6. Flush(f).out = Cat(f.out, Shown(f.buffer))
  <2>1. CASE f.buffer = <<>>
    BY <2>1, <1>3, NothingShown, CatEmpty DEF Flush
  <2>2. CASE f.buffer # <<>>
    <3>1. Cat(f.buffer, <<>>) = f.buffer
      BY <1>3, CatEmpty DEF Text
    <3>2. Emit(f, <<>>).out = Cat(f.out, Shown(Cat(f.buffer, <<>>)))
      BY <1>3, EmptyText, EmitType DEF Cat
    <3> QED
      BY <2>2, <3>1, <3>2 DEF Flush
  <2> QED
    BY <2>1, <2>2
<1> QED
  BY <1>4, <1>5, <1>6 DEF Streamed, Returned
===============================================================================
