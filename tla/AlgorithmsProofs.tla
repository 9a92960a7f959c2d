-------------------------- MODULE AlgorithmsProofs --------------------------
(***************************************************************************)
(* The fallback patcher puts every hunk where it belongs, for any text and *)
(* any number of hunks, and reads back any diff as it was written; a search*)
(* finds the best of any files, and a localisation names what it found.    *)
(***************************************************************************)
EXTENDS Algorithms, TLAPS, SequenceTheorems, FiniteSetTheorems, FunctionTheorems,
        WellFoundedInduction

-----------------------------------------------------------------------------
(* Induction, in the form in which the provers can use it: over a set.     *)
LEMMA LeastOf ==
  ASSUME NEW T \in SUBSET Nat, T # {}
  PROVE  \E n \in T : \A m \in T : n <= m
<1> DEFINE R == OpToRel(<, Nat)
<1>1. \A m, n \in Nat : <<m, n>> \in R <=> m < n
  BY DEF OpToRel
<1>2. IsWellFoundedOn(R, Nat)
  BY NatLessThanWellFounded
<1> HIDE DEF R
<1>3. PICK n \in T : \A m \in T : ~(<<m, n>> \in R)
  BY <1>2, WFMin
<1>4. ASSUME NEW m \in T PROVE n <= m
  <2>1. m \in Nat /\ n \in Nat /\ ~(m < n)
    BY <1>1, <1>3
  <2> QED BY <2>1
<1> QED BY <1>4

LEMMA Induction ==
  ASSUME NEW G, 0 \in G, \A n \in Nat : n \in G => n + 1 \in G
  PROVE  \A n \in Nat : n \in G
<1> SUFFICES ASSUME Nat \ G # {} PROVE FALSE
  OBVIOUS
<1>1. PICK n \in Nat \ G : \A m \in Nat \ G : n <= m
  BY LeastOf
<1>2. n # 0 /\ n - 1 \in Nat /\ n - 1 \in G
  BY <1>1
<1> QED BY <1>1, <1>2

(* Folds take the highest index first.                                     *)
LEMMA TopOfInterval ==
  ASSUME NEW n \in Nat, NEW s \in SUBSET (1 .. n + 1), n + 1 \in s
  PROVE  Max(s) = n + 1
<1>1. \A y \in s : n + 1 >= y
  OBVIOUS
<1>2. \A x \in s : (\A y \in s : x >= y) => x = n + 1
  BY <1>1
<1> QED BY <1>1, <1>2 DEF Max

-----------------------------------------------------------------------------
(* The folds of the model.  No lemma can be about an operator it is given,  *)
(* so these are about those that are folded, as one: what work `w` makes of  *)
(* what there is so far, `a`, and the next item.                            *)
Hunks == [does |-> "hunks"]                    \* ApplyHunks
Reading == [does |-> "reading"]                \* ParseDiff
Taking(marks) == [does |-> "taking", marks |-> marks]   \* Part
Choosing == [does |-> "choosing"]              \* BestUnit
Matching(files) == [does |-> "matching", files |-> files]   \* Matches
Offering == [does |-> "offering"]              \* RankCandidates, Localise

Work(w, a, x) ==
  CASE w.does = "hunks" -> ApplyHunk(a, x)
    [] w.does = "reading" -> ReadLine(a, x)
    [] w.does = "taking" -> IF x.mark \in w.marks THEN Append(a, x.rest) ELSE a
    [] w.does = "choosing" -> IF x.score > a.score THEN x ELSE a
    [] w.does = "matching" ->
         LET unit == BestUnit(w.files[x].units)
         IN  IF w.files[x].readable /\ BetterThanNothing(unit.score)
             THEN Append(a, Match(x, unit)) ELSE a
    [] w.does = "offering" -> Offer(a, x)

(* The items are worked through one after the other.                        *)
Path(w, b, s, g) ==
  /\ g[0] = b
  /\ \A k \in 1 .. Len(s) : g[k] = Work(w, g[k - 1], s[k])

Makes(w, b, s, e) == \E g : Path(w, b, s, g) /\ g[Len(s)] = e

(* A fold is a recursive function on the subsets of the indices.            *)
Fold(w, b, s, D, f) ==
  f = [t \in SUBSET D |-> IF t = {} THEN b ELSE Work(w, f[t \ {Max(t)}], s[Max(t)])]

(* There is one for any number of items: the last is on top of all.        *)
LEMMA FoldExists ==
  ASSUME NEW w, NEW b, NEW s
  PROVE  \A n \in Nat : \E f : Fold(w, b, s, 1 .. n, f)
<1> DEFINE Step(f, t) == IF t = {} THEN b ELSE Work(w, f[t \ {Max(t)}], s[Max(t)])
           G == {n \in Nat : \E f : Fold(w, b, s, 1 .. n, f)}
<1>1. 0 \in G
  <2> DEFINE F == [t \in SUBSET (1 .. 0) |-> b]
  <2>1. \A t \in SUBSET (1 .. 0) : t = {}
    OBVIOUS
  <2>2. Fold(w, b, s, 1 .. 0, F)
    BY <2>1 DEF Fold
  <2> QED BY <2>2
<1>2. ASSUME NEW n \in Nat, n \in G PROVE n + 1 \in G
  <2>1. PICK f : Fold(w, b, s, 1 .. n, f)
    BY <1>2
  <2>2. \A t \in SUBSET (1 .. n) : f[t] = Step(f, t)
    BY <2>1 DEF Fold
  <2> DEFINE F == [t \in SUBSET (1 .. n + 1) |->
                     IF n + 1 \in t THEN Work(w, f[t \ {n + 1}], s[n + 1]) ELSE f[t]]
  <2>3. ASSUME NEW t \in SUBSET (1 .. n + 1) PROVE F[t] = Step(F, t)
    <3>1. CASE n + 1 \in t
      <4>1. Max(t) = n + 1
        BY <3>1, TopOfInterval
      <4>2. F[t \ {n + 1}] = f[t \ {n + 1}]
        OBVIOUS
      <4>3. F[t] = Work(w, f[t \ {n + 1}], s[n + 1])
        BY <3>1
      <4> HIDE DEF F
      <4> QED BY <3>1, <4>1, <4>2, <4>3
    <3>2. CASE n + 1 \notin t
      <4>1. t \in SUBSET (1 .. n) /\ t \ {Max(t)} \in SUBSET (1 .. n)
        <5>1. \A x \in t : x \in 1 .. n
          BY <3>2
        <5> QED BY <5>1
      <4>2. F[t] = f[t] /\ F[t \ {Max(t)}] = f[t \ {Max(t)}]
        BY <3>2, <4>1
      <4>3. f[t] = Step(f, t)
        BY <2>2, <4>1
      <4> HIDE DEF F
      <4> QED BY <4>2, <4>3
    <3> QED BY <3>1, <3>2
  <2>4. F = [t \in SUBSET (1 .. n + 1) |-> F[t]]
    OBVIOUS
  <2>5. Fold(w, b, s, 1 .. n + 1, F)
    <3> HIDE DEF F
    <3> QED BY <2>3, <2>4 DEF Fold
  <2> QED BY <2>5
<1>3. \A n \in Nat : n \in G
  <2> HIDE DEF G
  <2> QED BY <1>1, <1>2, Induction
<1> QED BY <1>3

(* What it has for all indices is what the work makes of the items.         *)
LEMMA FoldMakes ==
  ASSUME NEW w, NEW b, NEW S, NEW s \in Seq(S), NEW f, Fold(w, b, s, DOMAIN s, f)
  PROVE  Makes(w, b, s, f[DOMAIN s])
<1> DEFINE D == DOMAIN s
           g == [k \in 0 .. Len(s) |-> f[1 .. k]]
<1>1. D = 1 .. Len(s) /\ Len(s) \in Nat
  OBVIOUS
<1> HIDE DEF D
<1>2. \A t \in SUBSET D : f[t] = IF t = {} THEN b ELSE Work(w, f[t \ {Max(t)}], s[Max(t)])
  BY DEF Fold, D
<1>3. g[0] = b
  <2>1. {} \in SUBSET D /\ f[{}] = b
    BY <1>2
  <2>2. 0 \in 0 .. Len(s) /\ 1 .. 0 = {}
    BY <1>1
  <2>3. g[0] = f[1 .. 0]
    BY <2>2
  <2> HIDE DEF g
  <2> QED BY <2>1, <2>2, <2>3
<1>4. ASSUME NEW k \in 1 .. Len(s) PROVE g[k] = Work(w, g[k - 1], s[k])
  <2>1. k - 1 \in Nat /\ (k - 1) + 1 = k /\ 1 .. k \in SUBSET D /\ k \in 1 .. k
    BY <1>1
  <2>2. Max(1 .. k) = k
    BY <2>1, TopOfInterval
  <2>3. (1 .. k) \ {k} = 1 .. k - 1
    OBVIOUS
  <2>4. f[1 .. k] = Work(w, f[1 .. k - 1], s[k])
    BY <1>2, <2>1, <2>2, <2>3
  <2> QED BY <1>1, <2>4
<1>5. g[Len(s)] = f[D]
  BY <1>1
<1> HIDE DEF g
<1>6. Path(w, b, s, g)
  BY <1>3, <1>4 DEF Path
<1> QED BY <1>5, <1>6 DEF Makes, D

LEMMA HunksFold ==
  ASSUME NEW S, NEW s \in Seq(S), NEW b
  PROVE  Makes(Hunks, b, s, FoldLeft(ApplyHunk, b, s))
<1> DEFINE P(e) == e = [t \in SUBSET DOMAIN s |-> IF t = {} THEN b ELSE ApplyHunk(e[t \ {Max(t)}], s[Max(t)])]
           f == CHOOSE e : P(e)
<1>1. \A a, x : Work(Hunks, a, x) = ApplyHunk(a, x)
  BY DEF Work, Hunks
<1>2. FoldLeft(ApplyHunk, b, s) = f[DOMAIN s]
  BY DEF FoldLeft, MapThenFoldSet
<1>3. \E e : Fold(Hunks, b, s, DOMAIN s, e)
  <2>1. DOMAIN s = 1 .. Len(s) /\ Len(s) \in Nat
    OBVIOUS
  <2> QED BY <2>1, FoldExists
<1>4. \A e : P(e) <=> Fold(Hunks, b, s, DOMAIN s, e)
  BY <1>1 DEF Fold
<1> HIDE DEF P
<1>5. P(f)
  BY <1>3, <1>4
<1> QED BY <1>2, <1>4, <1>5, FoldMakes

LEMMA ReadingFold ==
  ASSUME NEW S, NEW s \in Seq(S), NEW b
  PROVE  Makes(Reading, b, s, FoldLeft(ReadLine, b, s))
<1> DEFINE P(e) == e = [t \in SUBSET DOMAIN s |-> IF t = {} THEN b ELSE ReadLine(e[t \ {Max(t)}], s[Max(t)])]
           f == CHOOSE e : P(e)
<1>1. \A a, x : Work(Reading, a, x) = ReadLine(a, x)
  BY DEF Work, Reading
<1>2. FoldLeft(ReadLine, b, s) = f[DOMAIN s]
  BY DEF FoldLeft, MapThenFoldSet
<1>3. \E e : Fold(Reading, b, s, DOMAIN s, e)
  <2>1. DOMAIN s = 1 .. Len(s) /\ Len(s) \in Nat
    OBVIOUS
  <2> QED BY <2>1, FoldExists
<1>4. \A e : P(e) <=> Fold(Reading, b, s, DOMAIN s, e)
  BY <1>1 DEF Fold
<1> HIDE DEF P
<1>5. P(f)
  BY <1>3, <1>4
<1> QED BY <1>2, <1>4, <1>5, FoldMakes

LEMMA TakingFold ==
  ASSUME NEW S, NEW s \in Seq(S), NEW marks
  PROVE  Makes(Taking(marks), <<>>, s, Part(s, marks))
<1> DEFINE w == Taking(marks)
           Take(a, x) == IF x.mark \in marks THEN Append(a, x.rest) ELSE a
           P(e) == e = [t \in SUBSET DOMAIN s |-> IF t = {} THEN <<>> ELSE Take(e[t \ {Max(t)}], s[Max(t)])]
           f == CHOOSE e : P(e)
<1>1. \A a, x : Work(w, a, x) = Take(a, x)
  BY DEF Work, Taking
<1>2. Part(s, marks) = f[DOMAIN s]
  BY DEF Part, FoldLeft, MapThenFoldSet
<1>3. \E e : Fold(w, <<>>, s, DOMAIN s, e)
  <2>1. DOMAIN s = 1 .. Len(s) /\ Len(s) \in Nat
    OBVIOUS
  <2> QED BY <2>1, FoldExists
<1> HIDE DEF w, Take
<1>4. \A e : P(e) <=> Fold(w, <<>>, s, DOMAIN s, e)
  BY <1>1 DEF Fold
<1> HIDE DEF P
<1>5. P(f)
  BY <1>3, <1>4
<1>6. Makes(w, <<>>, s, f[DOMAIN s])
  BY <1>4, <1>5, FoldMakes
<1> QED BY <1>2, <1>6 DEF w

(* What the work makes of the items is one thing only, ...                  *)
LEMMA OneResult ==
  ASSUME NEW w, NEW b, NEW S, NEW s \in Seq(S), NEW d, NEW e, Makes(w, b, s, d), Makes(w, b, s, e)
  PROVE  d = e
<1>1. PICK g : Path(w, b, s, g) /\ g[Len(s)] = d
  BY DEF Makes
<1>2. PICK h : Path(w, b, s, h) /\ h[Len(s)] = e
  BY DEF Makes
<1> DEFINE n == Len(s)
           G == {k \in Nat : k <= n => g[k] = h[k]}
<1>3. n \in Nat
  OBVIOUS
<1> HIDE DEF n
<1>4. 0 \in G
  BY <1>1, <1>2 DEF Path
<1>5. ASSUME NEW k \in Nat, k \in G PROVE k + 1 \in G
  <2> SUFFICES ASSUME k + 1 <= n PROVE g[k + 1] = h[k + 1]
    OBVIOUS
  <2>1. k + 1 \in 1 .. n /\ (k + 1) - 1 = k /\ g[k] = h[k]
    BY <1>3, <1>5
  <2>2. g[k + 1] = Work(w, g[k], s[k + 1])
    BY <1>1, <2>1 DEF Path, n
  <2>3. h[k + 1] = Work(w, h[k], s[k + 1])
    BY <1>2, <2>1 DEF Path, n
  <2> QED BY <2>1, <2>2, <2>3
<1>6. n \in G
  <2> HIDE DEF G
  <2> QED BY <1>3, <1>4, <1>5, Induction
<1> QED BY <1>1, <1>2, <1>3, <1>6 DEF n

(* ... and of two sequences what it makes of the second after the first.    *)
LEMMA InTurn ==
  ASSUME NEW w, NEW b, NEW S, NEW x \in Seq(S), NEW y \in Seq(S), NEW d, NEW e,
         Makes(w, b, x, d), Makes(w, d, y, e)
  PROVE  Makes(w, b, x \o y, e)
<1>1. PICK g : Path(w, b, x, g) /\ g[Len(x)] = d
  BY DEF Makes
<1>2. PICK h : Path(w, d, y, h) /\ h[Len(y)] = e
  BY DEF Makes
<1> DEFINE m == Len(x)
           n == Len(y)
           z == x \o y
           f == [k \in 0 .. m + n |-> IF k <= m THEN g[k] ELSE h[k - m]]
<1>3. m \in Nat /\ n \in Nat /\ Len(z) = m + n
  OBVIOUS
<1>4. /\ \A k \in 1 .. m : z[k] = x[k]
      /\ \A k \in m + 1 .. m + n : z[k] = y[k - m]
  OBVIOUS
<1>5. /\ g[0] = b /\ g[m] = d /\ h[0] = d /\ h[n] = e
      /\ \A k \in 1 .. m : g[k] = Work(w, g[k - 1], x[k])
      /\ \A k \in 1 .. n : h[k] = Work(w, h[k - 1], y[k])
  BY <1>1, <1>2 DEF Path
<1> HIDE DEF z, m, n
<1>6. f[0] = b
  BY <1>3, <1>5
<1>7. ASSUME NEW k \in 1 .. m + n PROVE f[k] = Work(w, f[k - 1], z[k])
  <2>1. CASE k <= m
    <3>1. k \in 1 .. m /\ k - 1 \in 0 .. m + n /\ k - 1 <= m /\ k \in 0 .. m + n
      BY <1>3, <2>1
    <3>2. f[k] = g[k] /\ f[k - 1] = g[k - 1]
      BY <3>1
    <3> HIDE DEF f
    <3> QED BY <1>4, <1>5, <3>1, <3>2
  <2>2. CASE k > m
    <3>1. /\ k \in m + 1 .. m + n /\ k - m \in 1 .. n /\ k - 1 \in 0 .. m + n /\ k \in 0 .. m + n
          /\ (k - 1) - m = (k - m) - 1
      BY <1>3, <2>2
    <3>2. f[k] = h[k - m]
      BY <2>2, <3>1, <1>3
    <3>3. f[k - 1] = h[(k - m) - 1]
      <4>1. CASE k - 1 > m
        BY <3>1, <4>1, <1>3
      <4>2. CASE k - 1 <= m
        <5>1. k - 1 = m /\ (k - m) - 1 = 0
          BY <1>3, <2>2, <3>1, <4>2
        <5>2. f[k - 1] = g[m]
          BY <3>1, <5>1, <1>3
        <5> QED BY <1>5, <5>1, <5>2
      <4> QED BY <1>3, <3>1, <4>1, <4>2
    <3> HIDE DEF f
    <3> QED BY <1>4, <1>5, <3>1, <3>2, <3>3
  <2> QED BY <1>3, <2>1, <2>2
<1>8. f[m + n] = e
  <2>1. m + n \in 0 .. m + n /\ (m + n) - m = n
    BY <1>3
  <2>2. CASE n = 0
    <3>1. f[m + n] = g[m] /\ d = e
      BY <1>3, <1>5, <2>1, <2>2
    <3> QED BY <1>5, <3>1
  <2>3. CASE n # 0
    <3>1. f[m + n] = h[n]
      BY <1>3, <2>1, <2>3
    <3> QED BY <1>5, <3>1
  <2> QED BY <2>2, <2>3
<1>9. Path(w, b, z, f)
  <2> HIDE DEF f
  <2> QED BY <1>3, <1>6, <1>7 DEF Path
<1>10. Makes(w, b, z, e)
  <2> HIDE DEF f
  <2> QED BY <1>3, <1>8, <1>9 DEF Makes
<1> QED BY <1>10 DEF z

LEMMA OneItem ==
  ASSUME NEW w, NEW b, NEW x
  PROVE  Makes(w, b, <<x>>, Work(w, b, x))
<1> DEFINE e == Work(w, b, x)
           s == <<x>>
           g == [k \in 0 .. 1 |-> IF k = 0 THEN b ELSE e]
<1>1. Len(s) = 1 /\ s[1] = x
  OBVIOUS
<1>2. g[0] = b /\ g[1] = e
  OBVIOUS
<1> HIDE DEF g, e, s
<1>3. Path(w, b, s, g)
  BY <1>1, <1>2 DEF Path, e
<1> QED BY <1>1, <1>2, <1>3 DEF Makes, e, s

-----------------------------------------------------------------------------
(* One hunk.  A block of lines with what stands before and after it:        *)
Around(pre, block, post) == pre \o block \o post

(* where each line of the three is, ...                                     *)
LEMMA Standing ==
  ASSUME NEW L, NEW pre \in Seq(L), NEW old \in Seq(L), NEW post \in Seq(L)
  PROVE  /\ Around(pre, old, post) \in Seq(L)
         /\ Len(Around(pre, old, post)) = Len(pre) + Len(old) + Len(post)
         /\ \A i \in 1 .. Len(pre) : Around(pre, old, post)[i] = pre[i]
         /\ \A i \in 1 .. Len(old) : Around(pre, old, post)[Len(pre) + i] = old[i]
         /\ \A i \in 1 .. Len(post) : Around(pre, old, post)[Len(pre) + Len(old) + i] = post[i]
<1>1. /\ pre \o old \in Seq(L) /\ Len(pre \o old) = Len(pre) + Len(old)
      /\ \A i \in 1 .. Len(pre) : (pre \o old)[i] = pre[i]
      /\ \A i \in 1 .. Len(old) : (pre \o old)[Len(pre) + i] = old[i]
  OBVIOUS
<1> QED BY <1>1 DEF Around

(* ... that the block sits there as _locate compares it, ...                *)
LEMMA Sitting ==
  ASSUME NEW L, NEW pre \in Seq(L), NEW old \in Seq(L), NEW post \in Seq(L)
  PROVE  Sits(old, Around(pre, old, post), Len(pre))
<1> DEFINE lines == Around(pre, old, post)
           part == SubSeq(lines, Len(pre) + 1, Len(pre) + Len(old))
<1> HIDE DEF lines
<1>1. /\ lines \in Seq(L) /\ Len(lines) = Len(pre) + Len(old) + Len(post)
      /\ \A i \in 1 .. Len(old) : lines[Len(pre) + i] = old[i]
  BY Standing DEF lines
<1>2. /\ part \in Seq(L) /\ Len(part) = Len(old)
      /\ \A i \in 1 .. Len(old) : part[i] = lines[Len(pre) + i]
  BY <1>1
<1>3. part = old
  <2> HIDE DEF part
  <2> QED BY <1>1, <1>2, SeqEqual
<1>4. Sits(old, lines, Len(pre))
  BY <1>1, <1>3 DEF Sits
<1> QED BY <1>4 DEF lines

(* ... what the text is when another block has taken its place, ...         *)
LEMMA Swapping ==
  ASSUME NEW L, NEW pre \in Seq(L), NEW old \in Seq(L), NEW new \in Seq(L), NEW post \in Seq(L)
  PROVE  Replaced(Around(pre, old, post), Len(pre), Len(old), new) = Around(pre, new, post)
<1> DEFINE lines == Around(pre, old, post)
           head == SubSeq(lines, 1, Len(pre))
           tail == SubSeq(lines, Len(pre) + Len(old) + 1, Len(lines))
<1> HIDE DEF lines
<1>1. /\ lines \in Seq(L) /\ Len(lines) = Len(pre) + Len(old) + Len(post)
      /\ \A i \in 1 .. Len(pre) : lines[i] = pre[i]
      /\ \A i \in 1 .. Len(post) : lines[Len(pre) + Len(old) + i] = post[i]
  <2>1. /\ lines \in Seq(L) /\ Len(lines) = Len(pre) + Len(old) + Len(post)
        /\ \A i \in 1 .. Len(pre) : lines[i] = pre[i]
    BY Standing DEF lines
  <2>2. \A i \in 1 .. Len(post) : lines[Len(pre) + Len(old) + i] = post[i]
    BY Standing DEF lines
  <2> QED BY <2>1, <2>2
<1>2. head = pre
  <2>1. /\ head \in Seq(L) /\ Len(head) = Len(pre)
        /\ \A i \in 1 .. Len(pre) : head[i] = lines[i]
    BY <1>1
  <2> HIDE DEF head
  <2> QED BY <1>1, <2>1, SeqEqual
<1>3. tail = post
  <2>1. /\ tail \in Seq(L) /\ Len(tail) = Len(post)
        /\ \A i \in 1 .. Len(post) : tail[i] = lines[Len(pre) + Len(old) + i]
    BY <1>1
  <2> HIDE DEF tail
  <2> QED BY <1>1, <2>1, SeqEqual
<1> QED BY <1>2, <1>3, Zenon DEF Replaced, Around, lines

(* ... and that the search ends there if the hint is right, or the block    *)
(* stands nowhere else, or nothing is looked for and the hint lies before   *)
(* the top.                                                                 *)
StandsOnly(old, lines, at) == old # <<>> /\ Places(old, lines) = {at}
AtTheTop(old, hint, at) == old = <<>> /\ hint <= 0 /\ at = 0

LEMMA Locating ==
  ASSUME NEW L, NEW pre \in Seq(L), NEW old \in Seq(L), NEW post \in Seq(L), NEW hint \in Int,
         \/ hint = Len(pre)
         \/ StandsOnly(old, Around(pre, old, post), Len(pre))
         \/ AtTheTop(old, hint, Len(pre))
  PROVE  Locate(Around(pre, old, post), old, hint) = Len(pre)
<1> DEFINE lines == Around(pre, old, post)
<1>1. /\ Len(lines) \in Nat /\ Len(pre) \in Nat /\ Len(pre) <= Len(lines)
  <2>1. Len(lines) = Len(pre) + Len(old) + Len(post)
    BY Standing
  <2> HIDE DEF lines
  <2> QED BY <2>1
<1>2. Sits(old, lines, Len(pre))
  BY Sitting
<1> SUFFICES Locate(lines, old, hint) = Len(pre)
  OBVIOUS
<1> HIDE DEF lines
<1>3. CASE old = <<>>
  <2>1. hint = Len(pre) \/ (hint <= 0 /\ Len(pre) = 0)
    BY <1>3 DEF StandsOnly, AtTheTop
  <2>2. Min({hint, Len(lines)}) = hint
    BY <1>1, <2>1 DEF Min
  <2>3. Max({0, hint}) = Len(pre)
    BY <1>1, <2>1 DEF Max
  <2> QED BY <1>3, <2>2, <2>3 DEF Locate
<1>4. CASE old # <<>> /\ Sits(old, lines, hint)
  <2>1. hint \in Places(old, lines)
    BY <1>1, <1>4 DEF Places, Sits
  <2>2. hint = Len(pre)
    BY <1>4, <2>1 DEF lines, StandsOnly, AtTheTop
  <2> QED BY <1>4, <2>2 DEF Locate
<1>5. CASE old # <<>> /\ ~Sits(old, lines, hint)
  <2>1. Places(old, lines) = {Len(pre)}
    BY <1>2, <1>5 DEF lines, StandsOnly, AtTheTop
  <2>2. Min({Len(pre)}) = Len(pre)
    BY <1>1 DEF Min
  <2> QED BY <1>5, <2>1, <2>2 DEF Locate
<1> QED BY <1>3, <1>4, <1>5

(* What hunk h is meant to do to a text that hunks before it have changed.  *)
Meant(h, L, first, before, after) ==
  /\ OldBlock(h) \in Seq(L) /\ NewBlock(h) \in Seq(L) /\ h.start \in Int
  /\ \E pre, post \in Seq(L) :
       /\ before = Around(pre, OldBlock(h), post)
       /\ after = Around(pre, NewBlock(h), post)
       /\ \/ h.start - 1 + (Len(before) - Len(first)) = Len(pre)
          \/ StandsOnly(OldBlock(h), before, Len(pre))
          \/ AtTheTop(OldBlock(h), h.start - 1 + (Len(before) - Len(first)), Len(pre))

(* Where ApplyHunks should be when `text` is what it has made of `first`.   *)
Reached(first, text) == [out |-> text, offset |-> Len(text) - Len(first), ok |-> TRUE]

(* A hunk does what it is meant to do, and accounts for it in the offset.   *)
LEMMA OneHunk ==
  ASSUME NEW L, NEW h, NEW first \in Seq(L), NEW before \in Seq(L), NEW after,
         Meant(h, L, first, before, after)
  PROVE  ApplyHunk(Reached(first, before), h) = Reached(first, after)
<1> DEFINE old == OldBlock(h)
           new == NewBlock(h)
           hint == h.start - 1 + (Len(before) - Len(first))
<1>1. old \in Seq(L) /\ new \in Seq(L) /\ h.start \in Int
  BY DEF Meant
<1>2. PICK pre \in Seq(L), post \in Seq(L) :
        /\ before = Around(pre, old, post)
        /\ after = Around(pre, new, post)
        /\ hint = Len(pre) \/ StandsOnly(old, before, Len(pre)) \/ AtTheTop(old, hint, Len(pre))
  BY DEF Meant
<1> HIDE DEF old, new
<1>3. /\ Len(before) = Len(pre) + Len(old) + Len(post)
      /\ Len(after) = Len(pre) + Len(new) + Len(post)
      /\ Len(first) \in Nat /\ Len(pre) \in Nat /\ Len(old) \in Nat /\ Len(new) \in Nat /\ Len(post) \in Nat
  <2>1. Len(Around(pre, old, post)) = Len(pre) + Len(old) + Len(post)
    BY <1>1, Standing
  <2>2. Len(Around(pre, new, post)) = Len(pre) + Len(new) + Len(post)
    BY <1>1, Standing
  <2> QED BY <1>1, <1>2, <2>1, <2>2
<1>4. hint \in Int
  BY <1>1, <1>3
<1> HIDE DEF hint
<1>5. Locate(before, old, hint) = Len(pre)
  <2> SUFFICES Locate(Around(pre, old, post), old, hint) = Len(pre)
    BY <1>2
  <2>1. \/ hint = Len(pre) \/ StandsOnly(old, Around(pre, old, post), Len(pre))
        \/ AtTheTop(old, hint, Len(pre))
    BY <1>2
  <2>2. CASE hint = Len(pre)
    <3>1. Locate(Around(pre, old, post), old, Len(pre)) = Len(pre)
      BY <1>1, <1>3, Locating
    <3> QED BY <2>2, <3>1, Zenon
  <2>3. CASE StandsOnly(old, Around(pre, old, post), Len(pre))
    BY <1>1, <1>4, <2>3, Locating
  <2>4. CASE AtTheTop(old, hint, Len(pre))
    BY <1>1, <1>4, <2>4, Locating
  <2> QED BY <2>1, <2>2, <2>3, <2>4, Zenon
<1>6. Replaced(before, Len(pre), Len(old), new) = after
  BY <1>1, <1>2, Swapping
<1>7. Len(before) - Len(first) + Len(new) - Len(old) = Len(after) - Len(first)
  BY <1>3
<1> DEFINE state == Reached(first, before)
<1>8. /\ state.out = before /\ state.offset = Len(before) - Len(first) /\ state.ok
      /\ Len(pre) # Nowhere
  BY <1>3 DEF Nowhere, Reached
<1>9. h.start - 1 + state.offset = hint
  BY <1>8 DEF hint
<1> HIDE DEF state
<1>10. ApplyHunk(state, h) = [out |-> Replaced(before, Len(pre), Len(old), new),
                              offset |-> Len(before) - Len(first) + Len(new) - Len(old), ok |-> TRUE]
  BY <1>5, <1>8, <1>9 DEF ApplyHunk, old, new
<1> QED BY <1>6, <1>7, <1>10 DEF state, Reached

(* The patcher's promise for whole diffs, for any number of hunks of any    *)
(* size: if each hunk is for the text as the hunks before it leave it, and  *)
(* has the right line number in the *original* text or old lines that stand *)
(* there once, or adds lines at the top, applying them one after the other  *)
(* gives the text they were made for (_apply_hunks, with the running offset)*)
THEOREM HunksLand ==
  ASSUME NEW L, NEW H, NEW hs \in Seq(H), NEW text \in [0 .. Len(hs) -> Seq(L)],
         \A k \in 1 .. Len(hs) : Meant(hs[k], L, text[0], text[k - 1], text[k])
  PROVE  ApplyHunks(text[0], hs) = Reached(text[0], text[Len(hs)])
<1> DEFINE n == Len(hs)
           b == [out |-> text[0], offset |-> 0, ok |-> TRUE]
<1>1. n \in Nat
  OBVIOUS
<1>2. \A k \in 0 .. n : text[k] \in Seq(L) /\ Len(text[k]) \in Nat
  OBVIOUS
<1>3. b = Reached(text[0], text[0])
  <2>1. Len(text[0]) - Len(text[0]) = 0
    BY <1>1, <1>2
  <2> QED BY <2>1 DEF Reached
<1> HIDE DEF b
<1>4. PICK g : /\ g[0] = b
               /\ \A k \in 1 .. n : g[k] = ApplyHunk(g[k - 1], hs[k])
               /\ FoldLeft(ApplyHunk, b, hs) = g[n]
  <2>1. Makes(Hunks, b, hs, FoldLeft(ApplyHunk, b, hs))
    BY HunksFold
  <2>2. \A c, x : Work(Hunks, c, x) = ApplyHunk(c, x)
    BY DEF Work, Hunks
  <2>3. PICK g : Path(Hunks, b, hs, g) /\ g[n] = FoldLeft(ApplyHunk, b, hs)
    BY <2>1 DEF Makes
  <2> HIDE DEF n
  <2>4. g[0] = b /\ \A k \in 1 .. n : g[k] = ApplyHunk(g[k - 1], hs[k])
    BY <2>2, <2>3 DEF Path, n
  <2> QED BY <2>3, <2>4
<1> HIDE DEF n
<1> DEFINE G == {k \in Nat : k <= n => g[k] = Reached(text[0], text[k])}
<1>5. 0 \in G
  BY <1>3, <1>4
<1>6. ASSUME NEW k \in Nat, k \in G PROVE k + 1 \in G
  <2> SUFFICES ASSUME k + 1 <= n PROVE g[k + 1] = Reached(text[0], text[k + 1])
    OBVIOUS
  <2>1. k \in 0 .. n /\ k + 1 \in 1 .. n /\ (k + 1) - 1 = k /\ 0 \in 0 .. n
    BY <1>1
  <2>2. g[k] = Reached(text[0], text[k])
    BY <1>6, <2>1
  <2>3. Meant(hs[k + 1], L, text[0], text[k], text[k + 1])
    BY <2>1 DEF n
  <2>4. text[0] \in Seq(L) /\ text[k] \in Seq(L)
    BY <1>2, <2>1
  <2>5. ApplyHunk(Reached(text[0], text[k]), hs[k + 1]) = Reached(text[0], text[k + 1])
    BY <2>3, <2>4, OneHunk
  <2>6. g[k + 1] = ApplyHunk(g[k], hs[k + 1])
    BY <1>4, <2>1
  <2> QED BY <2>2, <2>5, <2>6
<1>7. n \in G
  <2> HIDE DEF G
  <2> QED BY <1>1, <1>5, <1>6, Induction
<1>8. g[n] = Reached(text[0], text[n])
  BY <1>1, <1>7
<1>9. ApplyHunks(text[0], hs) = Reached(text[0], text[n])
  BY <1>4, <1>8 DEF ApplyHunks, b
<1> QED BY <1>9 DEF n

-----------------------------------------------------------------------------
(* A block holds lines, without their marks.                                *)
LEMMA PartType ==
  ASSUME NEW L, NEW M, NEW lines \in Seq([mark : M, rest : L]), NEW marks
  PROVE  Part(lines, marks) \in Seq(L)
<1> DEFINE n == Len(lines)
           Take(block, line) == IF line.mark \in marks THEN Append(block, line.rest) ELSE block
<1>1. n \in Nat
  OBVIOUS
<1>2. PICK g : Path(Taking(marks), <<>>, lines, g) /\ g[n] = Part(lines, marks)
  BY TakingFold DEF Makes
<1>3. \A a, x : Work(Taking(marks), a, x) = Take(a, x)
  BY DEF Work, Taking
<1>4. ASSUME NEW k \in 1 .. n PROVE lines[k].rest \in L
  <2>1. lines[k] \in [mark : M, rest : L]
    BY <1>4, ElementOfSeq
  <2> QED BY <2>1
<1> HIDE DEF n
<1>5. g[0] = <<>> /\ \A k \in 1 .. n : g[k] = Take(g[k - 1], lines[k])
  <2> HIDE DEF Take
  <2> QED BY <1>2, <1>3 DEF Path, n
<1> DEFINE G == {k \in Nat : k <= n => g[k] \in Seq(L)}
<1>6. 0 \in G
  <2>1. <<>> \in Seq(L)
    OBVIOUS
  <2> QED BY <1>5, <2>1, Zenon
<1>7. ASSUME NEW k \in Nat, k \in G PROVE k + 1 \in G
  <2> SUFFICES ASSUME k + 1 <= n PROVE g[k + 1] \in Seq(L)
    OBVIOUS
  <2>1. g[k] \in Seq(L) /\ k + 1 \in 1 .. n /\ (k + 1) - 1 = k
    BY <1>1, <1>7
  <2>2. g[k + 1] = Take(g[k], lines[k + 1])
    <3> HIDE DEF Take
    <3> QED BY <1>5, <2>1
  <2>3. lines[k + 1].rest \in L
    BY <1>4, <2>1
  <2> QED BY <2>1, <2>2, <2>3
<1>8. n \in G
  <2> HIDE DEF G
  <2> QED BY <1>1, <1>6, <1>7, Induction
<1> QED BY <1>1, <1>2, <1>8

-----------------------------------------------------------------------------
(* The two-hunk diffs of the questions, over any letters.                   *)

(* A block that stands in a text once stands where it was put.              *)
LEMMA OnlyPlace ==
  ASSUME NEW L, NEW pre \in Seq(L), NEW old \in Seq(L), NEW post \in Seq(L),
         Once(old, Around(pre, old, post))
  PROVE  Places(old, Around(pre, old, post)) = {Len(pre)}
<1> DEFINE lines == Around(pre, old, post)
<1>1. Len(lines) \in Nat /\ Len(old) \in Nat /\ Len(pre) \in Nat
  <2>1. Len(lines) = Len(pre) + Len(old) + Len(post)
    BY Standing
  <2> HIDE DEF lines
  <2> QED BY <2>1
<1>2. Sits(old, lines, Len(pre)) /\ Once(old, lines)
  BY Sitting
<1> HIDE DEF lines
<1>3. Len(pre) \in Places(old, lines)
  BY <1>1, <1>2 DEF Places, Sits
<1>4. IsFiniteSet(Places(old, lines))
  <2> DEFINE I == 0 .. Len(lines) - Len(old)
  <2>1. IsFiniteSet(I)
    BY <1>1, FS_Interval
  <2>2. Places(old, lines) \subseteq I
    BY DEF Places
  <2> HIDE DEF I
  <2> QED BY <2>1, <2>2, FS_Subset
<1>5. PICK x : Places(old, lines) = {x}
  BY <1>2, <1>4, FS_Singleton DEF Once
<1>6. Places(old, lines) = {Len(pre)}
  BY <1>3, <1>5
<1> QED BY <1>6 DEF lines

(* Two blocks and the gaps around them, seen from the first one.            *)
Glued(a, b) == a \o b

LEMMA Gluing ==
  ASSUME NEW L, NEW a \in Seq(L), NEW b \in Seq(L), NEW c \in Seq(L)
  PROVE  Glued(Glued(a, b), c) = Glued(a, Glued(b, c))
BY ConcatAssociative, SMTT(60) DEF Glued

LEMMA Regroup ==
  ASSUME NEW L, NEW a \in Seq(L), NEW b \in Seq(L), NEW c \in Seq(L), NEW d \in Seq(L)
  PROVE  Glued(Around(a, b, c), d) = Glued(a, Around(b, c, d))
<1>1. Glued(Glued(a, b), c) = Glued(a, Glued(b, c))
  BY Gluing
<1>2. PICK y \in Seq(L) : y = b \o c
  BY ConcatProperties
<1>3. Glued(Glued(a, y), d) = Glued(a, Glued(y, d))
  BY Gluing
<1> QED BY <1>1, <1>2, <1>3, Zenon DEF Around, Glued

(* What UpTo enumerates are sequences.                                      *)
LEMMA UpToSeq ==
  ASSUME NEW S, NEW n \in Nat, NEW s \in UpTo(n, S)
  PROVE  s \in Seq(S)
<1>1. PICK m \in 0 .. n : s \in [1 .. m -> S]
  BY DEF UpTo
<1> QED BY <1>1

(* A text is what stands before its last line, and that line.               *)
LEMMA Parting ==
  ASSUME NEW L, NEW text \in Seq(L), text # <<>>
  PROVE  /\ Front(text) \in Seq(L) /\ <<Last(text)>> \in Seq(L)
         /\ Len(Front(text)) = Len(text) - 1
         /\ Front(text) \o <<Last(text)>> = text
<1>1. PICK n \in Nat \ {0} : n = Len(text) /\ \A i \in 1 .. n : text[i] \in L
  OBVIOUS
<1> DEFINE front == SubSeq(text, 1, n - 1)
           last == <<text[n]>>
<1>2. n - 1 \in Int /\ n \in Int /\ 1 \in Int
  OBVIOUS
<1>3. front \in Seq(L) /\ Len(front) = n - 1
  <2>1. \A i \in 1 .. n - 1 : text[i] \in L
    BY <1>1
  <2>2. /\ front \in Seq(L)
        /\ Len(front) = IF 1 <= n - 1 THEN n - 1 - 1 + 1 ELSE 0
    BY <1>2, <2>1, SubSeqProperties
  <2> HIDE DEF front
  <2> QED BY <2>2
<1>4. last \in Seq(L)
  BY <1>1
<1>5. front \o last = text
  <2>1. SubSeq(text, 1, n) = SubSeq(text, 1, n - 1) \o <<text[n]>>
    BY <1>1, SubSeqRecursiveSecond
  <2>2. SubSeq(text, 1, n) = text
    BY <1>1, SubSeqFull
  <2> QED BY <2>1, <2>2
<1> QED BY <1>1, <1>3, <1>4, <1>5, Zenon DEF Front, Last

LEMMA PutType ==
  ASSUME NEW L, NEW h, NEW text \in Seq(L), OldBlock(h) \in Seq(L), NewBlock(h) \in Seq(L)
  PROVE  Put(text, h) \in Seq(L) /\ Len(Put(text, h)) = Len(text) + Len(NewBlock(h))
<1> DEFINE new == NewBlock(h)
<1>1. new \in Seq(L)
  OBVIOUS
<1> HIDE DEF new
<1>2. CASE ~Inserts(h)
  <2>1. Put(text, h) = text \o new
    BY <1>2 DEF Put, new
  <2> QED BY <1>1, <2>1 DEF new
<1>3. CASE Inserts(h) /\ text = <<>>
  <2>1. Put(text, h) = new
    BY <1>3 DEF Put, Early, new
  <2> QED BY <1>1, <1>3, <2>1 DEF new
<1>4. CASE Inserts(h) /\ text # <<>>
  <2>1. PICK front \in Seq(L), last \in Seq(L) :
          /\ front = Front(text) /\ last = <<Last(text)>>
          /\ Len(front) = Len(text) - 1 /\ front \o last = text
    BY <1>4, Parting
  <2>2. Put(text, h) = Around(front, new, last)
    BY <1>4, <2>1, Zenon DEF Put, Early, Around, new
  <2>3. /\ Around(front, new, last) \in Seq(L)
        /\ Len(Around(front, new, last)) = Len(front) + Len(new) + Len(last)
    BY <1>1, Standing
  <2>4. Len(text) = Len(front) + Len(last)
    BY <2>1
  <2>5. Len(front) \in Nat /\ Len(new) \in Nat /\ Len(last) \in Nat
    BY <1>1
  <2> QED BY <2>2, <2>3, <2>4, <2>5 DEF new
<1> QED BY <1>2, <1>3, <1>4

(* A hunk with its right number, or old lines that stand once, is meant to  *)
(* do what Put says.                                                        *)
LEMMA Putting ==
  ASSUME NEW L, NEW h, OldBlock(h) \in Seq(L), NewBlock(h) \in Seq(L), h.start \in Int,
         NEW first \in Seq(L), NEW text \in Seq(L), NEW post \in Seq(L), NEW before \in Seq(L),
         before = Around(text, OldBlock(h), post),
         \/ h.start - 1 + (Len(before) - Len(first)) = Line(h, Len(text))
         \/ Once(OldBlock(h), before)
  PROVE  Meant(h, L, first, before, Put(text, h) \o post)
<1> DEFINE old == OldBlock(h)
           new == NewBlock(h)
           hint == h.start - 1 + (Len(before) - Len(first))
<1>1. old \in Seq(L) /\ new \in Seq(L)
  OBVIOUS
<1>2. CASE ~Inserts(h)
  <2>1. Put(text, h) \o post = Around(text, new, post)
    BY <1>2 DEF Put, Around
  <2>2. hint = Len(text) \/ StandsOnly(old, before, Len(text))
    <3>1. CASE Once(old, before)
      <4>1. Places(old, before) = {Len(text)}
        BY <1>1, <3>1, OnlyPlace
      <4> QED BY <1>2, <4>1 DEF StandsOnly, Inserts
    <3>2. CASE ~Once(old, before)
      BY <1>2, <3>2 DEF Line
    <3> QED BY <3>1, <3>2
  <2> QED BY <2>1, <2>2 DEF Meant
<1>3. CASE Inserts(h) /\ text = <<>>
  <2>1. old = <<>> /\ Put(text, h) = new /\ hint = Len(text) - 1 /\ Len(text) = 0
    BY <1>3 DEF Inserts, Put, Early, Line, Once
  <2>2. Put(text, h) \o post = Around(text, new, post)
    <3>1. text \o new = new
      BY <1>1, <1>3
    <3> QED BY <2>1, <3>1, Zenon DEF Around
  <2>3. AtTheTop(old, hint, Len(text))
    BY <2>1 DEF AtTheTop
  <2> QED BY <2>2, <2>3 DEF Meant
<1>4. CASE Inserts(h) /\ text # <<>>
  <2>1. PICK front \in Seq(L), last \in Seq(L) :
          /\ front = Front(text) /\ last = <<Last(text)>>
          /\ Len(front) = Len(text) - 1 /\ front \o last = text
    BY <1>4, Parting
  <2>2. old = <<>> /\ hint = Len(front)
    BY <1>4, <2>1 DEF Inserts, Line, Once
  <2>3. last \o post \in Seq(L)
    BY ConcatProperties
  <2>4. before = Around(front, old, last \o post)
    <3>1. before = text \o post
      <4>1. text \o old = text
        BY <2>2
      <4> QED BY <4>1, Zenon DEF Around
    <3>2. Glued(Glued(front, last), post) = Glued(front, Glued(last, post))
      BY Gluing
    <3>3. front \o old = front
      BY <2>2
    <3> QED BY <2>1, <3>1, <3>2, <3>3, Zenon DEF Around, Glued
  <2>5. Put(text, h) \o post = Around(front, new, last \o post)
    <3>1. Put(text, h) = Around(front, new, last)
      BY <1>4, <2>1, Zenon DEF Put, Early, Around
    <3>2. PICK x \in Seq(L) : x = front \o new
      BY <1>1, ConcatProperties
    <3>3. Glued(Glued(x, last), post) = Glued(x, Glued(last, post))
      BY Gluing
    <3> QED BY <3>1, <3>2, <3>3, Zenon DEF Around, Glued
  <2> HIDE DEF old, new, hint
  <2>6. PICK tail \in Seq(L) : tail = last \o post
    BY <2>3
  <2>7. before = Around(front, old, tail) /\ Put(text, h) \o post = Around(front, new, tail)
    BY <2>4, <2>5, <2>6
  <2> QED BY <2>1, <2>2, <2>6, <2>7 DEF Meant, old, new, hint
<1> QED BY <1>2, <1>3, <1>4

(* Line numbers are counted from anywhere.                                  *)
LEMMA Counts ==
  ASSUME NEW h, NEW n \in Int, NEW m \in Int
  PROVE  Line(h, n) \in Int /\ Line(h, n + m) = Line(h, n) + m
BY DEF Line

(* Two hunks as the questions number them are meant as HunksLand asks.      *)
LEMMA TwoHunks ==
  ASSUME NEW q \in HunkQuestions,
         \/ q.off = <<0, 0>>
         \/ Once(OldBlock(q.hunks[1]), OldText(q)) /\ Once(OldBlock(q.hunks[2]), HalfWay(q))
  PROVE  ApplyHunks(OldText(q), Numbered(q)) = Reached(OldText(q), NewText(q))
<1> DEFINE L == Letters
           hs == Numbered(q)
<1>1. PICK o1 \in Seq(L), n1 \in Seq(L), o2 \in Seq(L), n2 \in Seq(L) :
        /\ o1 = OldBlock(q.hunks[1]) /\ n1 = NewBlock(q.hunks[1])
        /\ o2 = OldBlock(q.hunks[2]) /\ n2 = NewBlock(q.hunks[2])
  <2>1. PICK u \in HunkLines, v \in HunkLines : q.hunks = <<[lines |-> u], [lines |-> v]>>
    BY DEF HunkQuestions
  <2>2. u \in Seq([mark : Marks, rest : L]) /\ v \in Seq([mark : Marks, rest : L])
    BY UpToSeq DEF HunkLines
  <2>3. q.hunks[1].lines = u /\ q.hunks[2].lines = v
    BY <2>1
  <2> QED BY <2>2, <2>3, PartType DEF OldBlock, NewBlock
<1>2. PICK a \in Seq(L), c \in Seq(L), e \in Seq(L) :
        a = q.gaps[1] /\ c = q.gaps[2] /\ e = q.gaps[3]
  <2>1. q.gaps \in [1 .. 3 -> Gaps]
    BY DEF HunkQuestions
  <2>2. \A g \in Gaps : g \in Seq(L)
    BY UpToSeq DEF Gaps
  <2>3. q.gaps[1] \in Seq(L) /\ q.gaps[2] \in Seq(L) /\ q.gaps[3] \in Seq(L)
    BY <2>1, <2>2
  <2> QED BY <2>3
<1>3. PICK x1 \in Int, x2 \in Int :
        x1 = q.off[1] /\ x2 = q.off[2] /\ (q.off = <<0, 0>> => x1 = 0 /\ x2 = 0)
  <2>1. q.off \in Shifts
    BY DEF HunkQuestions
  <2>2. q.off[1] \in Int /\ q.off[2] \in Int
    BY <2>1 DEF Shifts
  <2>3. q.off = <<0, 0>> => q.off[1] = 0 /\ q.off[2] = 0
    OBVIOUS
  <2> QED BY <2>2, <2>3
<1>4. PICK h1, h2 : hs = <<h1, h2>> /\ h1 = hs[1] /\ h2 = hs[2]
  BY DEF Numbered
<1>5. /\ OldBlock(h1) = OldBlock(q.hunks[1]) /\ NewBlock(h1) = NewBlock(q.hunks[1])
      /\ OldBlock(h2) = OldBlock(q.hunks[2]) /\ NewBlock(h2) = NewBlock(q.hunks[2])
      /\ h1.start = FirstLine(q) + q.off[1] /\ h2.start = SecondLine(q) + q.off[2]
  BY <1>4 DEF Numbered, OldBlock, NewBlock
<1> HIDE DEF hs
<1>6. /\ \A n : Line(h1, n) = Line(q.hunks[1], n) /\ Line(h2, n) = Line(q.hunks[2], n)
      /\ \A text : Put(text, h1) = Put(text, q.hunks[1]) /\ Put(text, h2) = Put(text, q.hunks[2])
  BY <1>5, Zenon DEF Line, Put, Inserts
<1>7. /\ h1.start = Line(h1, Len(a) + 1) + x1
      /\ h2.start = Line(h2, Len(a) + Len(o1) + Len(c) + 1) + x2
  BY <1>1, <1>2, <1>3, <1>5, <1>6, Zenon DEF FirstLine, SecondLine
<1>8. PICK half : half = Put(a, h1) \o c
  OBVIOUS
<1> DEFINE first == OldText(q)
           middle == HalfWay(q)
           last == NewText(q)
<1>10. first = a \o o1 \o c \o o2 \o e /\ middle = half \o o2 \o e /\ last = Put(half, h2) \o e
  BY <1>1, <1>2, <1>6, <1>8, Zenon DEF OldText, HalfWay, Begun, NewText
<1>11. /\ o1 = OldBlock(h1) /\ n1 = NewBlock(h1) /\ o2 = OldBlock(h2) /\ n2 = NewBlock(h2)
  BY <1>1, <1>5
<1>12. \/ x1 = 0 /\ x2 = 0
       \/ Once(OldBlock(h1), first) /\ Once(OldBlock(h2), middle)
  BY <1>3, <1>5
<1> HIDE DEF first, middle, last
<1>13. /\ Len(a) \in Int /\ Len(o1) \in Int /\ Len(n1) \in Int /\ Len(c) \in Int
       /\ Len(o2) \in Int /\ Len(e) \in Int
  OBVIOUS
<1>14. PICK put \in Seq(L) : put = Put(a, h1) /\ Len(put) = Len(a) + Len(n1)
  BY <1>11, PutType
<1>15. PICK rest \in Seq(L) : rest = Around(c, o2, e)
  BY Standing
<1>16. half \in Seq(L) /\ Len(half) = Len(a) + Len(n1) + Len(c)
  <2>1. put \o c \in Seq(L) /\ Len(put \o c) = Len(put) + Len(c)
    BY ConcatProperties
  <2> QED BY <1>8, <1>14, <2>1
<1>17. first = Around(a, o1, rest)
  <2>1. PICK x \in Seq(L) : x = a \o o1
    BY ConcatProperties
  <2>2. Glued(Around(x, c, o2), e) = Glued(x, Around(c, o2, e))
    BY Regroup
  <2> QED BY <1>10, <1>15, <2>1, <2>2, Zenon DEF Around, Glued
<1>18. middle = Around(half, o2, e) /\ middle = put \o rest
  <2>1. Glued(Around(put, c, o2), e) = Glued(put, Around(c, o2, e))
    BY Regroup
  <2> QED BY <1>8, <1>10, <1>14, <1>15, <2>1, Zenon DEF Around, Glued
<1>19. first \in Seq(L) /\ Len(first) = Len(a) + Len(o1) + Len(rest)
  <2>1. Around(a, o1, rest) \in Seq(L) /\ Len(Around(a, o1, rest)) = Len(a) + Len(o1) + Len(rest)
    BY Standing
  <2> QED BY <1>17, <2>1, Zenon
<1>20. middle \in Seq(L) /\ Len(middle) = Len(a) + Len(n1) + Len(rest)
  <2>1. put \o rest \in Seq(L) /\ Len(put \o rest) = Len(put) + Len(rest)
    BY ConcatProperties
  <2>2. middle \in Seq(L) /\ Len(middle) = Len(put) + Len(rest)
    BY <1>18, <2>1, Zenon
  <2> QED BY <1>14, <2>2
<1>21. last \in Seq(L)
  <2>1. PICK all \in Seq(L) : all = Put(half, h2)
    BY <1>11, <1>16, PutType
  <2>2. all \o e \in Seq(L)
    BY ConcatProperties
  <2> QED BY <1>10, <2>1, <2>2, Zenon
<1>22. /\ Line(h1, Len(a) + 1) = Line(h1, Len(a)) + 1 /\ Line(h1, Len(a)) \in Int
       /\ h1.start \in Int
  <2>1. PICK n \in Int : n = Len(a)
    BY <1>13
  <2>2. Line(h1, n + 1) = Line(h1, n) + 1 /\ Line(h1, n) \in Int
    BY Counts
  <2>3. h1.start = Line(h1, n + 1) + x1
    BY <1>7, <2>1, Zenon
  <2>4. h1.start \in Int
    BY <2>2, <2>3
  <2> QED BY <2>1, <2>2, <2>4, Zenon
<1>23. Meant(h1, L, first, first, middle)
  <2>1. \/ h1.start - 1 + (Len(first) - Len(first)) = Line(h1, Len(a))
        \/ Once(OldBlock(h1), first)
    <3>1. CASE x1 = 0
      <4>1. Len(first) - Len(first) = 0
        BY <1>19
      <4> QED BY <1>7, <1>22, <3>1, <4>1
    <3> QED BY <1>12, <3>1
  <2>2. first = Around(a, OldBlock(h1), rest)
    BY <1>11, <1>17
  <2>3. OldBlock(h1) \in Seq(L) /\ NewBlock(h1) \in Seq(L)
    BY <1>11
  <2>4. Meant(h1, L, first, first, Put(a, h1) \o rest)
    BY <1>19, <1>22, <2>1, <2>2, <2>3, Putting
  <2> QED BY <1>14, <1>18, <2>4, Zenon
<1>24. PICK at \in Int, shift \in Int :
         /\ at = Len(a) + Len(o1) + Len(c) /\ shift = Len(n1) - Len(o1)
         /\ Len(middle) - Len(first) = shift /\ at + shift = Len(half)
  <2>1. Len(rest) \in Int
    OBVIOUS
  <2>2. Len(middle) - Len(first) = Len(n1) - Len(o1)
    BY <1>13, <1>19, <1>20, <2>1
  <2>3. Len(a) + Len(o1) + Len(c) + (Len(n1) - Len(o1)) = Len(half)
    BY <1>13, <1>16
  <2>4. Len(a) + Len(o1) + Len(c) \in Int /\ Len(n1) - Len(o1) \in Int
    BY <1>13
  <2> QED BY <2>2, <2>3, <2>4, Zenon
<1>25. /\ Line(h2, at) \in Int /\ Line(h2, at + 1) = Line(h2, at) + 1
       /\ Line(h2, at + shift) = Line(h2, at) + shift
  BY Counts
<1>26. h2.start = Line(h2, at) + 1 + x2
  BY <1>7, <1>24, <1>25
<1>27. Meant(h2, L, first, middle, last)
  <2>1. \/ h2.start - 1 + (Len(middle) - Len(first)) = Line(h2, Len(half))
        \/ Once(OldBlock(h2), middle)
    <3>1. CASE x2 = 0
      <4>1. Line(h2, Len(half)) = Line(h2, at) + shift
        BY <1>24, <1>25, Zenon
      <4>2. Len(middle) - Len(first) = shift
        BY <1>24
      <4>3. PICK m \in Int : m = Line(h2, at)
        BY <1>25
      <4>4. h2.start - 1 + shift = m + shift
        BY <1>26, <3>1, <4>3
      <4> QED BY <4>1, <4>2, <4>3, <4>4, Zenon
    <3> QED BY <1>12, <3>1
  <2>2. h2.start \in Int
    BY <1>25, <1>26
  <2>3. middle = Around(half, OldBlock(h2), e)
    BY <1>11, <1>18
  <2>4. OldBlock(h2) \in Seq(L) /\ NewBlock(h2) \in Seq(L)
    BY <1>11
  <2>5. Meant(h2, L, first, middle, Put(half, h2) \o e)
    BY <1>16, <1>19, <1>20, <2>1, <2>2, <2>3, <2>4, Putting
  <2> QED BY <1>10, <2>5
<1>28. hs \in Seq({h1, h2}) /\ Len(hs) = 2
  BY <1>4
<1> DEFINE text == [k \in 0 .. 2 |-> IF k = 0 THEN first ELSE IF k = 1 THEN middle ELSE last]
<1>29. text \in [0 .. Len(hs) -> Seq(L)] /\ text[0] = first /\ text[1] = middle /\ text[2] = last
  BY <1>19, <1>20, <1>21, <1>28
<1> HIDE DEF text
<1>30. \A k \in 1 .. Len(hs) : Meant(hs[k], L, text[0], text[k - 1], text[k])
  BY <1>4, <1>23, <1>27, <1>28, <1>29
<1>31. ApplyHunks(text[0], hs) = Reached(text[0], text[2])
  BY <1>28, <1>29, <1>30, HunksLand
<1> QED BY <1>29, <1>31 DEF hs, first, last

-----------------------------------------------------------------------------
(* Reading a diff back.  How many of the first k lines of a hunk have one   *)
(* of the marks:                                                            *)
Counted(lines, marks, k) == Cardinality({i \in 1 .. k : lines[i].mark \in marks})

One(line, marks) == IF line.mark \in marks THEN 1 ELSE 0

LEMMA Counting ==
  ASSUME NEW S, NEW lines \in Seq(S), NEW marks
  PROVE  /\ Counted(lines, marks, 0) = 0
         /\ Counted(lines, marks, Len(lines)) = Count(lines, marks) /\ Count(lines, marks) \in Nat
         /\ \A k \in 0 .. Len(lines) :
              Counted(lines, marks, k) \in Nat /\ Counted(lines, marks, k) <= Count(lines, marks)
         /\ \A k \in 1 .. Len(lines) :
              Counted(lines, marks, k) =
                Counted(lines, marks, k - 1) + One(lines[k], marks)
<1> DEFINE n == Len(lines)
           C(k) == {i \in 1 .. k : lines[i].mark \in marks}
<1>1. n \in Nat /\ DOMAIN lines = 1 .. n
  OBVIOUS
<1> HIDE DEF n
<1>2. ASSUME NEW k \in 0 .. n PROVE IsFiniteSet(C(k)) /\ C(k) \subseteq C(n)
  <2>1. IsFiniteSet(1 .. k)
    BY <1>1, FS_Interval
  <2>2. C(k) \subseteq 1 .. k
    OBVIOUS
  <2>3. IsFiniteSet(C(k))
    <3> HIDE DEF C
    <3> QED BY <2>1, <2>2, FS_Subset
  <2> QED BY <2>3, <1>1
<1>3. Counted(lines, marks, 0) = 0
  <2>1. C(0) = {}
    OBVIOUS
  <2>2. Counted(lines, marks, 0) = Cardinality(C(0))
    BY DEF Counted
  <2> QED BY <2>1, <2>2, FS_EmptySet
<1>4. \A k : Counted(lines, marks, k) = Cardinality(C(k))
  BY DEF Counted
<1>5. Count(lines, marks) = Cardinality(C(n))
  BY <1>1 DEF Count
<1>6. ASSUME NEW k \in 0 .. n
      PROVE  Cardinality(C(k)) \in Nat /\ Cardinality(C(k)) <= Cardinality(C(n))
  <2>1. IsFiniteSet(C(k)) /\ IsFiniteSet(C(n)) /\ C(k) \subseteq C(n)
    BY <1>1, <1>2
  <2> HIDE DEF C
  <2> QED BY <2>1, FS_CardinalityType, FS_Subset
<1>7. ASSUME NEW k \in 1 .. n
      PROVE  Cardinality(C(k)) = Cardinality(C(k - 1)) + One(lines[k], marks)
  <2>1. k - 1 \in 0 .. n /\ k \notin C(k - 1)
    BY <1>1
  <2>2. IsFiniteSet(C(k - 1))
    BY <1>2, <2>1
  <2>3. CASE lines[k].mark \in marks
    <3>1. C(k) = C(k - 1) \cup {k}
      BY <1>1, <2>3
    <3> HIDE DEF C
    <3>2. Cardinality(C(k - 1) \cup {k}) = Cardinality(C(k - 1)) + 1
      BY <2>1, <2>2, FS_AddElement
    <3> QED BY <2>3, <3>1, <3>2 DEF One
  <2>4. CASE lines[k].mark \notin marks
    <3>1. C(k) = C(k - 1)
      BY <1>1, <2>4
    <3>2. Cardinality(C(k - 1)) \in Nat
      BY <1>6, <2>1
    <3> HIDE DEF C
    <3> QED BY <2>4, <3>1, <3>2 DEF One
  <2> QED BY <2>3, <2>4
<1> HIDE DEF C
<1> QED BY <1>1, <1>3, <1>4, <1>5, <1>6, <1>7 DEF n

(* The last of a list, and another one in its place.                        *)
LEMMA AtTheEnd ==
  ASSUME NEW S, NEW s \in Seq(S), NEW x, NEW y
  PROVE  /\ Append(s, x) # <<>> /\ Last(Append(s, x)) = x
         /\ Len(Append(s, x)) = Len(s) + 1
         /\ [Append(s, x) EXCEPT ![Len(Append(s, x))] = y] = Append(s, y)
<1> DEFINE T == S \cup {x, y}
           sx == Append(s, x)
           sy == Append(s, y)
           ex == [sx EXCEPT ![Len(sx)] = y]
<1>1. s \in Seq(T) /\ Len(s) \in Nat
  OBVIOUS
<1>2. /\ sx \in Seq(T) /\ Len(sx) = Len(s) + 1 /\ sx[Len(s) + 1] = x
      /\ \A i \in 1 .. Len(s) : sx[i] = s[i]
  BY <1>1
<1>3. /\ sy \in Seq(T) /\ Len(sy) = Len(s) + 1 /\ sy[Len(s) + 1] = y
      /\ \A i \in 1 .. Len(s) : sy[i] = s[i]
  BY <1>1
<1> HIDE DEF sx, sy
<1>4. sx # <<>> /\ Last(sx) = x
  BY <1>1, <1>2 DEF Last
<1>5. ex = sy
  <2>1. DOMAIN sx = 1 .. Len(s) + 1 /\ DOMAIN sy = 1 .. Len(s) + 1
    BY <1>1, <1>2, <1>3
  <2>2. ex \in Seq(T) /\ Len(ex) = Len(s) + 1
    BY <1>1, <1>2, <2>1
  <2>3. \A i \in 1 .. Len(s) + 1 : ex[i] = sy[i]
    BY <1>1, <1>2, <1>3, <2>1
  <2> HIDE DEF ex
  <2> QED BY <1>3, <2>2, <2>3, SeqEqual
<1> QED BY <1>2, <1>4, <1>5 DEF sx, sy, ex

(* The beginning of a list, and one more of it.                             *)
LEMMA OneMore ==
  ASSUME NEW S, NEW s \in Seq(S), NEW k \in 1 .. Len(s)
  PROVE  Append(SubSeq(s, 1, k - 1), s[k]) = SubSeq(s, 1, k)
<1> DEFINE a == Append(SubSeq(s, 1, k - 1), s[k])
           b == SubSeq(s, 1, k)
<1>1. a \in Seq(S) /\ Len(a) = k /\ \A i \in 1 .. k : a[i] = s[i]
  OBVIOUS
<1>2. b \in Seq(S) /\ Len(b) = k /\ \A i \in 1 .. k : b[i] = s[i]
  OBVIOUS
<1> HIDE DEF a, b
<1>3. a = b
  BY <1>1, <1>2, SeqEqual
<1> QED BY <1>3 DEF a, b

(* A parser between two lines, without an error; its files; and one that     *)
(* has read those files and wants no more lines of a hunk.                  *)
Yes == TRUE
No == FALSE
Parser(files, inside, seen) ==
  [files |-> files, inside |-> inside, seen |-> seen, error |-> No]
Entry(old, new, hunks) == [old |-> old, new |-> new, hunks |-> hunks]
Block(start, old, new, lines) == [start |-> start, old |-> old, new |-> new, lines |-> lines]

HasRead(state, files) ==
  \E inside, seen :
    /\ inside \in {Yes, No} /\ state = Parser(files, inside, seen)
    /\ inside => LET hunk == Last(Last(files).hunks)
                 IN  ~(seen[1] < hunk.old) /\ ~(seen[2] < hunk.new)

(* What the branches of the parser make of these records.                   *)
Left(state, files, inside) == [state EXCEPT !.files = files, !.inside = inside]
Entered(state, files, inside, seen) ==
  [state EXCEPT !.inside = inside, !.seen = seen, !.files = files]
Renamed(entry, old, new) == [entry EXCEPT !.old = old, !.new = new]

LEMMA Leaving ==
  \A files, inside, seen, more, now :
    Left(Parser(files, inside, seen), more, now) = Parser(more, now, seen)
<1> TAKE files, inside, seen, more, now
<1> DEFINE p == [Parser(files, inside, seen) EXCEPT !.files = more]
<1>1. p = Parser(more, inside, seen)
  BY DEF Parser
<1>2. [p EXCEPT !.inside = now] = Parser(more, now, seen)
  <2> HIDE DEF p
  <2> QED BY <1>1 DEF Parser
<1>3. Left(Parser(files, inside, seen), more, now) = [p EXCEPT !.inside = now]
  BY DEF Left
<1> QED BY <1>2, <1>3

LEMMA Entering ==
  \A files, inside, seen, more, now, none :
    Entered(Parser(files, inside, seen), more, now, none) = Parser(more, now, none)
<1> TAKE files, inside, seen, more, now, none
<1> DEFINE p == [Parser(files, inside, seen) EXCEPT !.inside = now]
           q == [p EXCEPT !.seen = none]
<1>1. p = Parser(files, now, seen)
  BY DEF Parser
<1>2. q = Parser(files, now, none)
  <2> HIDE DEF p
  <2> QED BY <1>1 DEF Parser
<1>3. [q EXCEPT !.files = more] = Parser(more, now, none)
  <2> HIDE DEF q
  <2> QED BY <1>2 DEF Parser
<1>4. Entered(Parser(files, inside, seen), more, now, none) = [q EXCEPT !.files = more]
  BY DEF Entered
<1> QED BY <1>3, <1>4

LEMMA Renaming ==
  \A a, b, old, new, hunks : Renamed(Entry(a, b, hunks), old, new) = Entry(old, new, hunks)
<1> TAKE a, b, old, new, hunks
<1> DEFINE p == [Entry(a, b, hunks) EXCEPT !.old = old]
<1>1. p = Entry(old, b, hunks)
  BY DEF Entry
<1>2. [p EXCEPT !.new = new] = Entry(old, new, hunks)
  <2> HIDE DEF p
  <2> QED BY <1>1 DEF Entry
<1>3. Renamed(Entry(a, b, hunks), old, new) = [p EXCEPT !.new = new]
  BY DEF Renamed
<1> QED BY <1>2, <1>3

Grown(entry, hunks) == [entry EXCEPT !.hunks = hunks]
Lengthened(hunk, lines) == [hunk EXCEPT !.lines = lines]

LEMMA Growing ==
  /\ \A a, b, hs, more : Grown(Entry(a, b, hs), more) = Entry(a, b, more)
  /\ \A a, b, hs : Entry(a, b, hs).hunks = hs
<1>1. ASSUME NEW a, NEW b, NEW hs, NEW more PROVE Grown(Entry(a, b, hs), more) = Entry(a, b, more)
  BY DEF Grown, Entry
<1>2. \A a, b, hs : Entry(a, b, hs).hunks = hs
  BY DEF Entry
<1> QED BY <1>1, <1>2

LEMMA Lengthening ==
  /\ \A s, o, n, ls, more : Lengthened(Block(s, o, n, ls), more) = Block(s, o, n, more)
  /\ \A s, o, n, ls :
       Block(s, o, n, ls).old = o /\ Block(s, o, n, ls).new = n /\ Block(s, o, n, ls).lines = ls
<1>1. ASSUME NEW s, NEW o, NEW n, NEW ls, NEW more
      PROVE  Lengthened(Block(s, o, n, ls), more) = Block(s, o, n, more)
  BY DEF Lengthened, Block
<1>2. \A s, o, n, ls :
        Block(s, o, n, ls).old = o /\ Block(s, o, n, ls).new = n /\ Block(s, o, n, ls).lines = ls
  BY DEF Block
<1> QED BY <1>1, <1>2

(* To such a parser the next line is a header.                              *)
LEMMA NextIsHeader ==
  ASSUME NEW state, NEW files, HasRead(state, files)
  PROVE  /\ \A raw : Work(Reading, state, raw) = Header(state, raw)
         /\ \A more : HasRead(Outside(state, more), more)
         /\ state.files = files
         /\ \A more : Entered(state, more, Yes, <<0, 0>>) = Parser(more, Yes, <<0, 0>>)
<1>1. PICK inside, seen :
        /\ inside \in {Yes, No} /\ state = Parser(files, inside, seen)
        /\ inside => ~(seen[1] < Last(Last(files).hunks).old) /\ ~(seen[2] < Last(Last(files).hunks).new)
  BY DEF HasRead
<1>2. state.files = files /\ state.inside = inside /\ state.seen = seen /\ state.error = No
  BY <1>1 DEF Parser
<1>3. ASSUME NEW raw PROVE Work(Reading, state, raw) = Header(state, raw)
  <2>1. ~Wants(state, raw)
    BY <1>1, <1>2 DEF Wants, Current
  <2>2. ReadLine(state, raw) = Header(state, raw)
    BY <1>2, <2>1 DEF ReadLine, No
  <2> QED BY <2>2 DEF Work, Reading
<1>4. ASSUME NEW more PROVE HasRead(Outside(state, more), more)
  <2>1. Left(Parser(files, inside, seen), more, No) = Parser(more, No, seen)
    BY Leaving
  <2>2. Outside(state, more) = Parser(more, No, seen)
    BY <1>1, <2>1, Zenon DEF Outside, Left, No
  <2> QED BY <2>2 DEF HasRead, No
<1>5. ASSUME NEW more
      PROVE  Entered(state, more, Yes, <<0, 0>>) = Parser(more, Yes, <<0, 0>>)
  BY <1>1, Entering
<1> QED BY <1>2, <1>3, <1>4, <1>5

(* What some lines of a diff do to the files that have been read.           *)
Reads(raws, before, after) ==
  /\ \E S : raws \in Seq(S)
  /\ \A state : HasRead(state, before) =>
       \E end : Makes(Reading, state, raws, end) /\ HasRead(end, after)

LEMMA ReadsInTurn ==
  ASSUME NEW x, NEW y, NEW a, NEW b, NEW c, Reads(x, a, b), Reads(y, b, c)
  PROVE  Reads(x \o y, a, c)
<1>1. PICK S : x \in Seq(S)
  BY DEF Reads
<1>2. PICK T : y \in Seq(T)
  BY DEF Reads
<1> DEFINE U == S \cup T
<1>3. x \in Seq(U) /\ y \in Seq(U)
  BY <1>1, <1>2
<1>4. x \o y \in Seq(U)
  BY <1>3
<1>5. ASSUME NEW state, HasRead(state, a)
      PROVE  \E end : Makes(Reading, state, x \o y, end) /\ HasRead(end, c)
  <2>1. PICK d : Makes(Reading, state, x, d) /\ HasRead(d, b)
    BY <1>5 DEF Reads
  <2>2. PICK e : Makes(Reading, d, y, e) /\ HasRead(e, c)
    BY <2>1 DEF Reads
  <2>3. Makes(Reading, state, x \o y, e)
    BY <1>3, <2>1, <2>2, InTurn
  <2> QED BY <2>2, <2>3
<1> QED BY <1>4, <1>5 DEF Reads

LEMMA ReadsOne ==
  ASSUME NEW raw, NEW a, NEW b, \A state : HasRead(state, a) => HasRead(Header(state, raw), b)
  PROVE  Reads(<<raw>>, a, b)
<1>1. <<raw>> \in Seq({raw})
  OBVIOUS
<1>2. ASSUME NEW state, HasRead(state, a)
      PROVE  \E end : Makes(Reading, state, <<raw>>, end) /\ HasRead(end, b)
  <2>1. Work(Reading, state, raw) = Header(state, raw)
    BY <1>2, NextIsHeader
  <2>2. Makes(Reading, state, <<raw>>, Header(state, raw))
    BY <2>1, OneItem
  <2> QED BY <1>2, <2>2
<1> QED BY <1>1, <1>2 DEF Reads

(* The lines before the hunks, ...                                          *)
GitHeader(old, new) == [mark |-> "d", rest |-> <<"iff --git ", old, new>>]

LEMMA GitLine ==
  ASSUME NEW S, NEW fs \in Seq(S), NEW old, NEW new
  PROVE  Reads(<<GitHeader(old, new)>>, fs, Append(fs, Entry(old, new, <<>>)))
<1> DEFINE raw == GitHeader(old, new)
<1>1. ASSUME NEW state, HasRead(state, fs)
      PROVE  HasRead(Header(state, raw), Append(fs, Entry(old, new, <<>>)))
  <2>1. state.files = fs /\ \A more : HasRead(Outside(state, more), more)
    BY <1>1, NextIsHeader
  <2>2. IsGit(raw) /\ NamesAll(raw, 2) /\ ~IsOld(raw) /\ ~IsNew(raw) /\ ~IsAt(raw)
    <3>1. raw.rest # <<>> /\ Head(raw.rest) = "iff --git " /\ Len(raw.rest) = 3
      BY DEF GitHeader
    <3> QED BY <3>1 DEF IsGit, IsOld, IsNew, IsAt, Begins, NamesAll, GitHeader
  <2>3. [Unnamed EXCEPT !.old = raw.rest[2], !.new = raw.rest[3]] = Entry(old, new, <<>>)
    <3>1. Renamed(Entry(NoPath, NoPath, <<>>), old, new) = Entry(old, new, <<>>)
      BY Renaming
    <3>2. raw.rest[2] = old /\ raw.rest[3] = new
      BY DEF GitHeader
    <3> HIDE DEF raw
    <3> QED BY <3>1, <3>2, Zenon DEF Renamed, Unnamed, Entry
  <2> HIDE DEF raw
  <2>4. Header(state, raw) = Outside(state, Append(fs, Entry(old, new, <<>>)))
    <3>1. Header(state, raw) = StartFile(state, raw)
      BY <2>2 DEF Header
    <3> QED BY <3>1, <2>1, <2>2, <2>3, Zenon DEF StartFile
  <2> QED BY <2>1, <2>4
<1> QED BY <1>1, ReadsOne

LEMMA OtherLine ==
  ASSUME NEW fs, NEW raw, ~IsGit(raw), ~IsOld(raw), ~IsNew(raw), ~IsAt(raw)
  PROVE  Reads(<<raw>>, fs, fs)
<1>1. ASSUME NEW state, HasRead(state, fs) PROVE HasRead(Header(state, raw), fs)
  <2>1. state.files = fs /\ \A more : HasRead(Outside(state, more), more)
    BY <1>1, NextIsHeader
  <2>2. Header(state, raw) = Outside(state, fs)
    BY <2>1 DEF Header
  <2> QED BY <2>1, <2>2
<1> QED BY <1>1, ReadsOne

OldName(old) == [mark |-> "-", rest |-> <<"-- ", old>>]
NewName(new) == [mark |-> "+", rest |-> <<"++ ", new>>]

LEMMA OldNameLine ==
  ASSUME NEW S, NEW fs \in Seq(S), NEW old
  PROVE  /\ (fs = <<>> \/ Last(fs).hunks # <<>>) =>
              Reads(<<OldName(old)>>, fs, Append(fs, Entry(old, NoPath, <<>>)))
         /\ \A a, b : Reads(<<OldName(old)>>, Append(fs, Entry(a, b, <<>>)),
                                             Append(fs, Entry(old, b, <<>>)))
<1> DEFINE raw == OldName(old)
<1>1. ~IsGit(raw) /\ IsOld(raw) /\ ~IsNew(raw) /\ ~IsAt(raw) /\ raw.rest[2] = old
  <2>1. raw.rest # <<>> /\ Head(raw.rest) = "-- "
    BY DEF OldName
  <2> QED BY <2>1 DEF IsGit, IsOld, IsNew, IsAt, Begins, OldName
<1> HIDE DEF raw
<1>2. ASSUME fs = <<>> \/ Last(fs).hunks # <<>>, NEW state, HasRead(state, fs)
      PROVE  HasRead(Header(state, raw), Append(fs, Entry(old, NoPath, <<>>)))
  <2>1. state.files = fs /\ \A more : HasRead(Outside(state, more), more)
    BY <1>2, NextIsHeader
  <2>2. [Unnamed EXCEPT !.old = raw.rest[2]] = Entry(old, NoPath, <<>>)
    BY <1>1 DEF Unnamed, Entry
  <2>3. ~HasFile(state) \/ Current(state).hunks # <<>>
    BY <1>2, <2>1 DEF HasFile, Current
  <2>4. Header(state, raw) = Outside(state, Append(fs, Entry(old, NoPath, <<>>)))
    <3>1. Header(state, raw) = NameOld(state, raw)
      BY <1>1 DEF Header
    <3> QED BY <3>1, <2>1, <2>2, <2>3, Zenon DEF NameOld
  <2> QED BY <2>1, <2>4
<1>3. ASSUME NEW a, NEW b, NEW state, HasRead(state, Append(fs, Entry(a, b, <<>>)))
      PROVE  HasRead(Header(state, raw), Append(fs, Entry(old, b, <<>>)))
  <2> DEFINE now == Append(fs, Entry(a, b, <<>>))
  <2>1. state.files = now /\ \A more : HasRead(Outside(state, more), more)
    BY <1>3, NextIsHeader
  <2>2. /\ now # <<>> /\ Last(now) = Entry(a, b, <<>>)
        /\ [now EXCEPT ![Len(now)] = Entry(old, b, <<>>)] = Append(fs, Entry(old, b, <<>>))
    BY AtTheEnd
  <2> HIDE DEF now
  <2>3. HasFile(state) /\ Current(state) = Entry(a, b, <<>>) /\ Current(state).hunks = <<>>
    BY <2>1, <2>2 DEF HasFile, Current, Entry
  <2>4. [Current(state) EXCEPT !.old = raw.rest[2]] = Entry(old, b, <<>>)
    BY <1>1, <2>3 DEF Entry
  <2>5. SetCurrent(state, Entry(old, b, <<>>)) = Append(fs, Entry(old, b, <<>>))
    BY <2>1, <2>2 DEF SetCurrent
  <2>6. Header(state, raw) = Outside(state, Append(fs, Entry(old, b, <<>>)))
    <3>1. Header(state, raw) = NameOld(state, raw)
      BY <1>1 DEF Header
    <3> QED BY <3>1, <2>3, <2>4, <2>5, Zenon DEF NameOld
  <2> QED BY <2>1, <2>6
<1> QED BY <1>2, <1>3, ReadsOne DEF raw

LEMMA NewNameLine ==
  ASSUME NEW S, NEW fs \in Seq(S), NEW a, NEW b, NEW new
  PROVE  Reads(<<NewName(new)>>, Append(fs, Entry(a, b, <<>>)), Append(fs, Entry(a, new, <<>>)))
<1> DEFINE raw == NewName(new)
           now == Append(fs, Entry(a, b, <<>>))
<1>1. ~IsGit(raw) /\ ~IsOld(raw) /\ IsNew(raw) /\ ~IsAt(raw) /\ raw.rest[2] = new
  <2>1. raw.rest # <<>> /\ Head(raw.rest) = "++ "
    BY DEF NewName
  <2> QED BY <2>1 DEF IsGit, IsOld, IsNew, IsAt, Begins, NewName
<1>2. /\ now # <<>> /\ Last(now) = Entry(a, b, <<>>)
      /\ [now EXCEPT ![Len(now)] = Entry(a, new, <<>>)] = Append(fs, Entry(a, new, <<>>))
  BY AtTheEnd
<1> HIDE DEF raw, now
<1>3. ASSUME NEW state, HasRead(state, now)
      PROVE  HasRead(Header(state, raw), Append(fs, Entry(a, new, <<>>)))
  <2>1. state.files = now /\ \A more : HasRead(Outside(state, more), more)
    BY <1>3, NextIsHeader
  <2>2. HasFile(state) /\ Current(state) = Entry(a, b, <<>>)
    BY <1>2, <2>1 DEF HasFile, Current
  <2>3. [Current(state) EXCEPT !.new = raw.rest[2]] = Entry(a, new, <<>>)
    BY <1>1, <2>2 DEF Entry
  <2>4. SetCurrent(state, Entry(a, new, <<>>)) = Append(fs, Entry(a, new, <<>>))
    BY <1>2, <2>1 DEF SetCurrent
  <2>5. Header(state, raw) = Outside(state, Append(fs, Entry(a, new, <<>>)))
    <3>1. Header(state, raw) = NameNew(state, raw)
      BY <1>1 DEF Header
    <3> QED BY <3>1, <2>2, <2>3, <2>4, Zenon DEF NameNew
  <2> QED BY <2>1, <2>5
<1> QED BY <1>3, ReadsOne DEF raw, now

(* ... a hunk that is as its header counts it, ...                          *)
Olds == {" ", "-"}
News == {" ", "+"}
Whole(h, R) ==
  /\ h = Block(h.start, h.old, h.new, h.lines)
  /\ h.lines \in Seq([mark : Marks, rest : R]) /\ h.lines # <<>>
  /\ h.old = Count(h.lines, Olds) /\ h.new = Count(h.lines, News)

LEMMA WholeParts ==
  ASSUME NEW R, NEW h, Whole(h, R)
  PROVE  /\ h = Block(h.start, h.old, h.new, h.lines)
         /\ h.lines \in Seq([mark : Marks, rest : R]) /\ Len(h.lines) \in Nat \ {0}
         /\ h.old = Count(h.lines, Olds) /\ h.new = Count(h.lines, News)
<1>1. /\ h = Block(h.start, h.old, h.new, h.lines)
      /\ h.lines \in Seq([mark : Marks, rest : R]) /\ h.lines # <<>>
      /\ h.old = Count(h.lines, Olds) /\ h.new = Count(h.lines, News)
  BY Zenon DEF Whole
<1>2. \A S : \A lines \in Seq(S) : lines # <<>> => Len(lines) \in Nat \ {0}
  OBVIOUS
<1>3. Len(h.lines) \in Nat \ {0}
  BY <1>1, <1>2, Zenon
<1> QED BY <1>1, <1>3, Zenon

(* ... when k of its lines have been read, ...                              *)
Opened(h, k) == Block(h.start, h.old, h.new, SubSeq(h.lines, 1, k))
Tallied(h, k) == <<Counted(h.lines, Olds, k), Counted(h.lines, News, k)>>
WithHunk(fs, old, new, hs, hunk) == Append(fs, Entry(old, new, Append(hs, hunk)))
Midway(fs, old, new, hs, h, k) ==
  Parser(WithHunk(fs, old, new, hs, Opened(h, k)), Yes, Tallied(h, k))

AtLine(h) == [mark |-> "@", rest |-> <<"@", h.start, h.old, h.new>>]

LEMMA OpensHunk ==
  ASSUME NEW S, NEW fs \in Seq(S), NEW old, NEW new, NEW T, NEW hs \in Seq(T),
         NEW R, NEW h, Whole(h, R), NEW state, HasRead(state, Append(fs, Entry(old, new, hs)))
  PROVE  Work(Reading, state, AtLine(h)) = Midway(fs, old, new, hs, h, 0)
<1> DEFINE raw == AtLine(h)
           now == Append(fs, Entry(old, new, hs))
           hunk == Opened(h, 0)
           more == WithHunk(fs, old, new, hs, hunk)
<1>1. ~IsGit(raw) /\ ~IsOld(raw) /\ ~IsNew(raw) /\ IsAt(raw) /\ NamesAll(raw, 3)
  <2>1. raw.rest # <<>> /\ Head(raw.rest) = "@" /\ Len(raw.rest) = 4
    BY DEF AtLine
  <2> QED BY <2>1 DEF IsGit, IsOld, IsNew, IsAt, Begins, NamesAll, AtLine
<1>2. hunk = [start |-> raw.rest[2], old |-> raw.rest[3], new |-> raw.rest[4], lines |-> <<>>]
  <2>1. SubSeq(h.lines, 1, 0) = <<>>
    OBVIOUS
  <2>2. raw.rest[2] = h.start /\ raw.rest[3] = h.old /\ raw.rest[4] = h.new
    BY DEF AtLine
  <2> HIDE DEF raw
  <2> QED BY <2>1, <2>2, Zenon DEF Opened, Block
<1>3. /\ now # <<>> /\ Last(now) = Entry(old, new, hs)
      /\ [now EXCEPT ![Len(now)] = Entry(old, new, Append(hs, hunk))] = more
  BY AtTheEnd DEF WithHunk
<1>4. Tallied(h, 0) = <<0, 0>>
  BY Counting DEF Tallied, Whole
<1> HIDE DEF raw, now, hunk, more
<1>5. /\ state.files = now /\ Work(Reading, state, raw) = Header(state, raw)
      /\ Entered(state, more, Yes, <<0, 0>>) = Parser(more, Yes, <<0, 0>>)
  BY NextIsHeader DEF now
<1>6. HasFile(state) /\ Current(state) = Entry(old, new, hs)
  BY <1>3, <1>5 DEF HasFile, Current
<1>7. [Current(state) EXCEPT !.hunks = Append(@, hunk)] = Entry(old, new, Append(hs, hunk))
  <2>1. Grown(Entry(old, new, hs), Append(hs, hunk)) = Entry(old, new, Append(hs, hunk))
    BY Growing
  <2>2. Entry(old, new, hs).hunks = hs
    BY Growing
  <2> QED BY <1>6, <2>1, <2>2, Zenon DEF Grown
<1>8. SetCurrent(state, Entry(old, new, Append(hs, hunk))) = more
  BY <1>3, <1>5 DEF SetCurrent
<1>9. Header(state, raw) = OpenHunk(state, raw)
  BY <1>1 DEF Header
<1>10. OpenHunk(state, raw) = Entered(state, more, Yes, <<0, 0>>)
  BY <1>1, <1>2, <1>6, <1>7, <1>8, Zenon DEF OpenHunk, Entered, Yes
<1> QED BY <1>4, <1>5, <1>9, <1>10, Zenon DEF Midway, raw, more, hunk

Filled(state, seen, files) == [state EXCEPT !.seen = seen, !.files = files]

LEMMA Filling ==
  \A files, inside, seen, more, now :
    Filled(Parser(files, inside, seen), now, more) = Parser(more, inside, now)
<1> TAKE files, inside, seen, more, now
<1> DEFINE p == [Parser(files, inside, seen) EXCEPT !.seen = now]
<1>1. p = Parser(files, inside, now)
  BY DEF Parser
<1>2. [p EXCEPT !.files = more] = Parser(more, inside, now)
  <2> HIDE DEF p
  <2> QED BY <1>1 DEF Parser
<1>3. Filled(Parser(files, inside, seen), now, more) = [p EXCEPT !.files = more]
  BY DEF Filled
<1> QED BY <1>2, <1>3

(* ... and its next line, although it may look like a header.               *)
LEMMA TakesLine ==
  ASSUME NEW S, NEW fs \in Seq(S), NEW old, NEW new, NEW T, NEW hs \in Seq(T),
         NEW R, NEW h, Whole(h, R), NEW k \in 1 .. Len(h.lines), NEW bare \in BOOLEAN
  PROVE  Work(Reading, Midway(fs, old, new, hs, h, k - 1), RenderLine(h.lines[k], bare))
           = Midway(fs, old, new, hs, h, k)
<1> DEFINE line == h.lines[k]
           raw == RenderLine(line, bare)
           before == Opened(h, k - 1)
           after == Opened(h, k)
           state == Midway(fs, old, new, hs, h, k - 1)
           file == Entry(old, new, Append(hs, before))
           o == Counted(h.lines, Olds, k - 1)
           n == Counted(h.lines, News, k - 1)
<1> DEFINE L == [mark : Marks, rest : R]
<1>0. h.lines \in Seq(L) /\ Len(h.lines) \in Nat
  BY WholeParts
<1>1. line \in L
  BY <1>0, ElementOfSeq
<1>2. /\ line = [mark |-> line.mark, rest |-> line.rest] /\ line.mark \in {" ", "-", "+"}
      /\ raw.rest = line.rest
      /\ line.mark = IF raw.mark = "" THEN " " ELSE raw.mark
  <2> HIDE DEF line
  <2>1. line = [mark |-> line.mark, rest |-> line.rest] /\ line.mark \in {" ", "-", "+"}
    BY <1>1 DEF Marks
  <2>2. CASE bare /\ line = [mark |-> " ", rest |-> <<>>]
    <3>1. raw.mark = "" /\ raw.rest = line.rest /\ line.mark = " "
      BY <2>2 DEF RenderLine
    <3> QED BY <2>1, <3>1
  <2>3. CASE ~(bare /\ line = [mark |-> " ", rest |-> <<>>])
    <3>1. raw = line
      BY <2>3 DEF RenderLine
    <3> HIDE DEF raw
    <3> QED BY <2>1, <3>1
  <2> QED BY <2>2, <2>3
<1>3. /\ o \in Nat /\ n \in Nat
      /\ Tallied(h, k) = <<o + One(line, Olds),
                           n + One(line, News)>>
      /\ o < h.old \/ n < h.new
  <2>2. k \in 0 .. Len(h.lines) /\ k - 1 \in 0 .. Len(h.lines)
    BY <1>0
  <2>3. ASSUME NEW marks
        PROVE  /\ Counted(h.lines, marks, k - 1) \in Nat
               /\ Counted(h.lines, marks, k) \in Nat
               /\ Count(h.lines, marks) \in Nat
               /\ Counted(h.lines, marks, k) <= Count(h.lines, marks)
               /\ Counted(h.lines, marks, k) =
                    Counted(h.lines, marks, k - 1) + One(line, marks)
    <3> HIDE DEF L, line
    <3>1. /\ Count(h.lines, marks) \in Nat
          /\ \A i \in 0 .. Len(h.lines) :
               Counted(h.lines, marks, i) \in Nat /\ Counted(h.lines, marks, i) <= Count(h.lines, marks)
      BY <1>0, Counting
    <3>2. \A i \in 1 .. Len(h.lines) :
            Counted(h.lines, marks, i) =
              Counted(h.lines, marks, i - 1) + One(h.lines[i], marks)
      BY <1>0, Counting
    <3>3. Counted(h.lines, marks, k) =
            Counted(h.lines, marks, k - 1) + One(line, marks)
      BY <3>2 DEF line
    <3> QED BY <2>2, <3>1, <3>3
  <2>5. h.old = Count(h.lines, Olds) /\ h.new = Count(h.lines, News)
    BY WholeParts
  <2>4. o < h.old \/ n < h.new
    <3>1. CASE line.mark \in Olds
      <4>1. Counted(h.lines, Olds, k) = o + 1
        BY <2>3, <3>1 DEF One
      <4> HIDE DEF line
      <4> QED BY <2>3, <2>5, <4>1
    <3>2. CASE line.mark \in News
      <4>1. Counted(h.lines, News, k) = n + 1
        BY <2>3, <3>2 DEF One
      <4> HIDE DEF line
      <4> QED BY <2>3, <2>5, <4>1
    <3> HIDE DEF line
    <3> QED BY <1>2, <3>1, <3>2 DEF Olds, News
  <2> HIDE DEF line
  <2> QED BY <2>3, <2>4 DEF Tallied
<1>4. /\ before.old = h.old /\ before.new = h.new
      /\ [before EXCEPT !.lines = Append(@, line)] = after
  <2>2. Append(SubSeq(h.lines, 1, k - 1), line) = SubSeq(h.lines, 1, k)
    <3> HIDE DEF L
    <3> QED BY <1>0, OneMore
  <2>3. before.old = h.old /\ before.new = h.new /\ before.lines = SubSeq(h.lines, 1, k - 1)
    <3>1. \A s, o1, n1, ls :
            Block(s, o1, n1, ls).old = o1 /\ Block(s, o1, n1, ls).new = n1 /\ Block(s, o1, n1, ls).lines = ls
      BY Lengthening
    <3>2. \A ls : LET block == Block(h.start, h.old, h.new, ls)
                  IN  block.old = h.old /\ block.new = h.new /\ block.lines = ls
      BY <3>1
    <3> QED BY <3>2, Zenon DEF Opened
  <2>4. Lengthened(before, SubSeq(h.lines, 1, k)) = after
    BY Lengthening DEF Opened
  <2> HIDE DEF line, before, after
  <2> QED BY <2>2, <2>3, <2>4, Zenon DEF Lengthened
<1> HIDE DEF line, raw, before, after, L
<1>5. /\ state.files = Append(fs, file) /\ state.inside = Yes
      /\ state.seen = <<o, n>> /\ state.error = No
      /\ state = Parser(state.files, Yes, state.seen)
  BY DEF Midway, Parser, WithHunk, Tallied, before
<1>6. /\ Last(Append(fs, file)) = file
      /\ [Append(fs, file) EXCEPT ![Len(Append(fs, file))] = Entry(old, new, Append(hs, after))]
           = WithHunk(fs, old, new, hs, after)
  BY AtTheEnd DEF WithHunk
<1>7. /\ Last(Append(hs, before)) = before
      /\ [Append(hs, before) EXCEPT ![Len(Append(hs, before))] = after] = Append(hs, after)
  BY AtTheEnd
<1>8. Current(state) = file /\ Current(state).hunks = Append(hs, before)
  <2> HIDE DEF state
  <2>1. Current(state) = file
    BY <1>5, <1>6 DEF Current
  <2> QED BY <2>1 DEF Entry
<1> HIDE DEF state, o, n
<1>9. Wants(state, raw)
  <2>1. state.inside /\ state.seen[1] = o /\ state.seen[2] = n
    <3>1. state.inside
      BY <1>5, Zenon DEF Yes
    <3>2. state.seen = <<o, n>>
      BY <1>5, Zenon
    <3> QED BY <3>1, <3>2
  <2> QED BY <1>3, <1>4, <1>7, <1>8, <2>1 DEF Wants
<1>10. [Current(state) EXCEPT !.hunks[Len(Current(state).hunks)].lines = Append(@, line)]
          = Entry(old, new, Append(hs, after))
  <2> DEFINE list == Append(hs, before)
             at == Len(list)
             taken == [list[at] EXCEPT !.lines = Append(@, line)]
  <2>1. list[at] = before /\ at \in DOMAIN list
    <3>1. list[at] = before
      BY <1>7 DEF Last
    <3>2. list \in Seq(T \cup {before})
      OBVIOUS
    <3>3. Len(list) = Len(hs) + 1 /\ Len(hs) \in Nat
      OBVIOUS
    <3> QED BY <3>1, <3>2, <3>3
  <2>2. taken = after
    BY <2>1, <1>4, Zenon
  <2> HIDE DEF list, at
  <2>3. [list EXCEPT ![at] = after] = Append(hs, after)
    BY <1>7 DEF list, at
  <2>4. Grown(Entry(old, new, list), [list EXCEPT ![at] = taken]) = Entry(old, new, [list EXCEPT ![at] = taken])
    BY Growing
  <2>5. Entry(old, new, list).hunks = list
    BY Growing
  <2>6. [Entry(old, new, list) EXCEPT !.hunks[at].lines = Append(@, line)]
          = Grown(Entry(old, new, list), [list EXCEPT ![at] = taken])
    BY <2>5, Zenon DEF Grown
  <2> QED BY <1>8, <2>2, <2>3, <2>4, <2>6, Zenon DEF list, at
<1>11. SetCurrent(state, Entry(old, new, Append(hs, after))) = WithHunk(fs, old, new, hs, after)
  BY <1>5, <1>6, Zenon DEF SetCurrent
<1>12. TakeLine(state, line) = Filled(state, Tallied(h, k), WithHunk(fs, old, new, hs, after))
  <2>1. state.seen[1] = o /\ state.seen[2] = n
    BY <1>5
  <2> QED BY <1>3, <1>10, <1>11, <2>1, Zenon DEF TakeLine, Filled, One, Olds, News
<1>13. Body(state, raw) = TakeLine(state, line)
  <2>1. line.mark # "\\"
    BY <1>2
  <2> QED BY <1>2, <2>1, Zenon DEF Body
<1>14. ReadLine(state, raw) = Body(state, raw)
  BY <1>5, <1>9 DEF ReadLine, No
<1>15. Filled(state, Tallied(h, k), WithHunk(fs, old, new, hs, after))
         = Parser(WithHunk(fs, old, new, hs, after), Yes, Tallied(h, k))
  BY <1>5, Filling
<1>16. Work(Reading, state, raw) = ReadLine(state, raw)
  BY DEF Work, Reading
<1>17. Work(Reading, state, raw) = Midway(fs, old, new, hs, h, k)
  BY <1>12, <1>13, <1>14, <1>15, <1>16, Zenon DEF Midway, after
<1> QED BY <1>17 DEF state, raw, line

(* ... and all of it, to where it is read as it was written.                *)
Written(h, style) == [i \in DOMAIN h.lines |-> RenderLine(h.lines[i], style.bare)]

LEMMA TakesLines ==
  ASSUME NEW S, NEW fs \in Seq(S), NEW old, NEW new, NEW T, NEW hs \in Seq(T),
         NEW R, NEW h, Whole(h, R), NEW style \in Styles
  PROVE  /\ \E U : Written(h, style) \in Seq(U)
         /\ Makes(Reading, Midway(fs, old, new, hs, h, 0), Written(h, style),
                  Midway(fs, old, new, hs, h, Len(h.lines)))
         /\ HasRead(Midway(fs, old, new, hs, h, Len(h.lines)), WithHunk(fs, old, new, hs, h))
<1> DEFINE n == Len(h.lines)
           L == [mark : Marks, rest : R]
           raws == Written(h, style)
           At(k) == Midway(fs, old, new, hs, h, k)
           g == [k \in 0 .. n |-> At(k)]
<1>1. /\ h = Block(h.start, h.old, h.new, h.lines) /\ h.lines \in Seq(L) /\ n \in Nat
      /\ h.old = Count(h.lines, Olds) /\ h.new = Count(h.lines, News)
  BY WholeParts
<1>2. style.bare \in BOOLEAN
  BY DEF Styles
<1> HIDE DEF L
<1>3. DOMAIN h.lines = 1 .. n
  BY <1>1
<1> HIDE DEF n
<1> DEFINE U == {RenderLine(h.lines[i], style.bare) : i \in 1 .. n}
<1>4. /\ raws \in Seq(U) /\ Len(raws) = n
      /\ \A i \in 1 .. n : raws[i] = RenderLine(h.lines[i], style.bare)
  <2>1. raws = [i \in 1 .. n |-> RenderLine(h.lines[i], style.bare)]
    BY <1>3, Zenon DEF Written
  <2> HIDE DEF raws
  <2>2. \A i \in 1 .. n : raws[i] = RenderLine(h.lines[i], style.bare)
    BY <2>1, Zenon
  <2>3. raws \in [1 .. n -> U]
    BY <2>1
  <2> HIDE DEF U
  <2>4. raws \in Seq(U) /\ Len(raws) = n
    BY <1>1, <2>3
  <2> QED BY <2>2, <2>4
<1> HIDE DEF raws, U
<1>5. ASSUME NEW k \in 1 .. n PROVE At(k) = Work(Reading, At(k - 1), raws[k])
  BY <1>2, <1>4, <1>5, TakesLine DEF n
<1>6. Path(Reading, At(0), raws, g)
  <2>1. g[0] = At(0)
    BY <1>1
  <2>2. ASSUME NEW k \in 1 .. Len(raws) PROVE g[k] = Work(Reading, g[k - 1], raws[k])
    <3>1. k \in 1 .. n /\ k \in 0 .. n /\ k - 1 \in 0 .. n
      BY <1>1, <1>4
    <3>2. g[k] = At(k) /\ g[k - 1] = At(k - 1)
      BY <3>1
    <3> HIDE DEF g, At
    <3> QED BY <1>5, <3>1, <3>2
  <2> HIDE DEF g, At
  <2> QED BY <2>1, <2>2 DEF Path
<1>7. Makes(Reading, At(0), raws, At(n))
  <2>1. g[n] = At(n)
    BY <1>1
  <2> HIDE DEF g, At
  <2> QED BY <1>4, <1>6, <2>1 DEF Makes
<1>8. HasRead(At(n), WithHunk(fs, old, new, hs, h))
  <2> DEFINE o == Counted(h.lines, Olds, n)
             m == Counted(h.lines, News, n)
  <2>1. o = h.old /\ m = h.new /\ o \in Nat /\ m \in Nat
    BY <1>1, Counting DEF n
  <2>2. Opened(h, n) = h
    <3>1. SubSeq(h.lines, 1, n) = h.lines
      BY <1>1, SubSeqFull DEF n
    <3> QED BY <1>1, <3>1, Zenon DEF Opened
  <2> DEFINE entry == Entry(old, new, Append(hs, h))
  <2>3. Last(Append(fs, entry)) = entry
    BY AtTheEnd
  <2>4. Last(Append(hs, h)) = h
    BY AtTheEnd
  <2>5. entry.hunks = Append(hs, h)
    BY Growing
  <2> HIDE DEF entry, o, m
  <2>6. Last(Last(Append(fs, entry)).hunks) = h
    BY <2>3, <2>4, <2>5
  <2>7. /\ At(n) = Parser(Append(fs, entry), Yes, <<o, m>>)
        /\ WithHunk(fs, old, new, hs, h) = Append(fs, entry)
    BY <2>2, Zenon DEF Midway, WithHunk, Tallied, entry, o, m
  <2>8. ~(<<o, m>>[1] < h.old) /\ ~(<<o, m>>[2] < h.new)
    BY <2>1
  <2> HIDE DEF At
  <2> QED BY <2>6, <2>7, <2>8 DEF HasRead
<1> QED BY <1>4, <1>7, <1>8 DEF raws, n

LEMMA HunkReads ==
  ASSUME NEW S, NEW fs \in Seq(S), NEW old, NEW new, NEW T, NEW hs \in Seq(T),
         NEW R, NEW h, Whole(h, R), NEW style \in Styles
  PROVE  Reads(RenderHunk(h, style), Append(fs, Entry(old, new, hs)),
               Append(fs, Entry(old, new, Append(hs, h))))
<1> DEFINE at == <<AtLine(h)>>
           raws == Written(h, style)
           none == Midway(fs, old, new, hs, h, 0)
           all == Midway(fs, old, new, hs, h, Len(h.lines))
           now == Append(fs, Entry(old, new, hs))
           more == WithHunk(fs, old, new, hs, h)
           eof == IF style.noEol
                  THEN <<[mark |-> "\\", rest |-> <<" No newline at end of file">>]>> ELSE <<>>
<1>1. /\ \E U : raws \in Seq(U)
      /\ Makes(Reading, none, raws, all) /\ HasRead(all, more)
  BY TakesLines
<1>2. PICK U : raws \in Seq(U)
  BY <1>1
<1>3. ASSUME NEW state, HasRead(state, now) PROVE Makes(Reading, state, at, none)
  <2>1. Work(Reading, state, AtLine(h)) = none
    BY <1>3, OpensHunk
  <2>2. Makes(Reading, state, <<AtLine(h)>>, Work(Reading, state, AtLine(h)))
    BY OneItem
  <2> QED BY <2>1, <2>2, Zenon
<1> HIDE DEF raws, none, all, now, more
<1>4. Reads(at \o raws, now, more)
  <2> DEFINE V == U \cup {AtLine(h)}
  <2>1. at \in Seq(V) /\ raws \in Seq(V)
    BY <1>2
  <2>2. at \o raws \in Seq(V)
    BY <2>1
  <2> HIDE DEF at, V
  <2>3. ASSUME NEW state, HasRead(state, now) PROVE Makes(Reading, state, at \o raws, all)
    BY <1>1, <1>3, <2>1, <2>3, InTurn
  <2> QED BY <1>1, <2>2, <2>3 DEF Reads
<1>5. Reads((at \o raws) \o eof, now, more)
  <2>1. CASE style.noEol
    <3> DEFINE raw == [mark |-> "\\", rest |-> <<" No newline at end of file">>]
    <3>1. Reads(<<raw>>, more, more)
      <4>1. ~IsGit(raw) /\ ~IsOld(raw) /\ ~IsNew(raw) /\ ~IsAt(raw)
        BY DEF IsGit, IsOld, IsNew, IsAt, Begins
      <4> HIDE DEF raw
      <4> QED BY <4>1, OtherLine
    <3>2. eof = <<raw>>
      BY <2>1
    <3> HIDE DEF eof, at, raw
    <3> QED BY <1>4, <3>1, <3>2, ReadsInTurn
  <2>2. CASE ~style.noEol
    <3>1. \A V : \A s \in Seq(V) : s \o <<>> = s
      OBVIOUS
    <3>2. PICK V : at \o raws \in Seq(V)
      BY <1>4 DEF Reads
    <3>3. (at \o raws) \o <<>> = at \o raws
      BY <3>1, <3>2, Zenon
    <3> QED BY <1>4, <2>2, <3>3, Zenon
  <2> QED BY <2>1, <2>2
<1>6. RenderHunk(h, style) = (at \o raws) \o eof
  BY Zenon DEF RenderHunk, AtLine, Written, raws
<1> QED BY <1>5, <1>6, Zenon DEF now, more, WithHunk

(* Several texts in a row are read in turn: FlattenSeq is recursive too.    *)
Flat(segs, n, f) == f = [i \in 1 .. n |-> IF i = 1 THEN segs[i] ELSE f[i - 1] \o segs[i]]

LEMMA FlatExists ==
  ASSUME NEW segs
  PROVE  \A n \in Nat : \E f : Flat(segs, n, f)
<1> DEFINE Next1(f, i) == IF i = 1 THEN segs[i] ELSE f[i - 1] \o segs[i]
           G == {n \in Nat : \E f : Flat(segs, n, f)}
<1>1. 0 \in G
  <2> DEFINE F == [i \in 1 .. 0 |-> segs[i]]
  <2>1. \A i \in 1 .. 0 : FALSE
    OBVIOUS
  <2>2. Flat(segs, 0, F)
    BY <2>1 DEF Flat
  <2> QED BY <2>2
<1>2. ASSUME NEW n \in Nat, n \in G PROVE n + 1 \in G
  <2>1. PICK f : Flat(segs, n, f)
    BY <1>2
  <2>2. \A i \in 1 .. n : f[i] = Next1(f, i)
    BY <2>1 DEF Flat
  <2> DEFINE F == [i \in 1 .. n + 1 |-> IF i = n + 1 THEN Next1(f, i) ELSE f[i]]
  <2>3. ASSUME NEW i \in 1 .. n + 1 PROVE F[i] = Next1(F, i)
    <3>1. CASE i = 1
      <4>1. F[i] = Next1(f, i)
        BY <2>2, <3>1
      <4>2. Next1(f, i) = segs[i] /\ Next1(F, i) = segs[i]
        BY <3>1
      <4> HIDE DEF F, Next1
      <4> QED BY <4>1, <4>2
    <3>2. CASE i # 1
      <4>1. i - 1 \in 1 .. n /\ i - 1 # n + 1 /\ i - 1 \in 1 .. n + 1
        BY <3>2
      <4>2. F[i - 1] = f[i - 1]
        BY <4>1
      <4>3. F[i] = Next1(f, i)
        <5>1. CASE i = n + 1
          BY <5>1
        <5>2. CASE i # n + 1
          <6>1. i \in 1 .. n /\ F[i] = f[i]
            BY <5>2
          <6> HIDE DEF F, Next1
          <6> QED BY <2>2, <6>1
        <5> QED BY <5>1, <5>2
      <4>4. Next1(f, i) = f[i - 1] \o segs[i] /\ Next1(F, i) = F[i - 1] \o segs[i]
        BY <3>2
      <4> HIDE DEF F, Next1
      <4> QED BY <4>2, <4>3, <4>4, Zenon
    <3> QED BY <3>1, <3>2
  <2>4. F = [i \in 1 .. n + 1 |-> F[i]]
    OBVIOUS
  <2>5. Flat(segs, n + 1, F)
    <3>1. [i \in 1 .. n + 1 |-> F[i]] = [i \in 1 .. n + 1 |-> Next1(F, i)]
      <4> HIDE DEF F, Next1
      <4> QED BY <2>3
    <3> HIDE DEF F
    <3> QED BY <2>4, <3>1, Zenon DEF Flat
  <2> QED BY <2>5
<1>3. \A n \in Nat : n \in G
  <2> HIDE DEF G
  <2> QED BY <1>1, <1>2, Induction
<1> QED BY <1>3

LEMMA ReadsAll ==
  ASSUME NEW T, NEW segs \in Seq(T), segs # <<>>, NEW files,
         \A k \in 1 .. Len(segs) : Reads(segs[k], files[k - 1], files[k])
  PROVE  Reads(FlattenSeq(segs), files[0], files[Len(segs)])
<1> DEFINE n == Len(segs)
           P(e) == e = [i \in 1 .. n |-> IF i = 1 THEN segs[i] ELSE e[i - 1] \o segs[i]]
           f == CHOOSE e : P(e)
<1>1. n \in Nat /\ n # 0
  OBVIOUS
<1>2. FlattenSeq(segs) = f[n]
  BY <1>1, Zenon DEF FlattenSeq
<1> HIDE DEF n
<1>3. \E e : P(e)
  BY <1>1, FlatExists, Zenon DEF Flat
<1> HIDE DEF P
<1>4. P(f)
  BY <1>3, Zenon
<1> HIDE DEF f
<1>5. \A i \in 1 .. n : f[i] = IF i = 1 THEN segs[i] ELSE f[i - 1] \o segs[i]
  BY <1>4, Zenon DEF P
<1> DEFINE G == {k \in Nat : k + 1 <= n => Reads(f[k + 1], files[0], files[k + 1])}
<1>6. 0 \in G
  <2>1. 1 \in 1 .. n /\ 1 - 1 = 0
    BY <1>1
  <2>2. f[1] = segs[1]
    BY <1>5, <2>1, Zenon
  <2>3. Reads(segs[1], files[0], files[1])
    BY <2>1 DEF n
  <2> QED BY <2>2, <2>3
<1>7. ASSUME NEW k \in Nat, k \in G PROVE k + 1 \in G
  <2> DEFINE i == k + 2
  <2> SUFFICES ASSUME i <= n PROVE Reads(f[i], files[0], files[i])
    BY (k + 1) + 1 = i
  <2>1. i \in 1 .. n /\ i # 1 /\ i - 1 = k + 1 /\ k + 1 <= n
    BY <1>1
  <2>2. Reads(f[i - 1], files[0], files[i - 1])
    BY <1>7, <2>1
  <2> HIDE DEF i
  <2>3. Reads(segs[i], files[i - 1], files[i])
    BY <2>1 DEF n
  <2>4. f[i] = f[i - 1] \o segs[i]
    BY <1>5, <2>1, Zenon
  <2>5. Reads(f[i - 1] \o segs[i], files[0], files[i])
    BY <2>2, <2>3, ReadsInTurn
  <2> QED BY <2>4, <2>5, Zenon
<1>8. n - 1 \in G
  <2>1. n - 1 \in Nat
    BY <1>1
  <2> HIDE DEF G
  <2> QED BY <2>1, <1>6, <1>7, Induction
<1>9. Reads(f[n], files[0], files[n])
  <2>1. (n - 1) + 1 = n
    BY <1>1
  <2> QED BY <1>1, <1>8, <2>1
<1> QED BY <1>2, <1>9, Zenon DEF n

(* One file of a diff, ...                                                  *)
WholeFile(file, R) ==
  /\ file = Entry(file.old, file.new, file.hunks) /\ {file.old, file.new} # {NoPath}
  /\ file.hunks # <<>> /\ \E H : file.hunks \in Seq(H) /\ \A h \in H : Whole(h, R)

LEMMA HunksRead ==
  ASSUME NEW S, NEW fs \in Seq(S), NEW R, NEW file, WholeFile(file, R), NEW style \in Styles
  PROVE  Reads(FlattenSeq([i \in DOMAIN file.hunks |-> RenderHunk(file.hunks[i], style)]),
               Append(fs, Entry(file.old, file.new, <<>>)), Append(fs, file))
<1>1. /\ file = Entry(file.old, file.new, file.hunks) /\ file.hunks # <<>>
      /\ \E H : file.hunks \in Seq(H) /\ \A h \in H : Whole(h, R)
  BY Zenon DEF WholeFile
<1>2. PICK H : file.hunks \in Seq(H) /\ \A h \in H : Whole(h, R)
  BY <1>1
<1> DEFINE hs == file.hunks
           n == Len(hs)
           segs == [i \in DOMAIN hs |-> RenderHunk(hs[i], style)]
           T == {RenderHunk(hs[i], style) : i \in 1 .. n}
           fold == [k \in 0 .. n |-> Append(fs, Entry(file.old, file.new, SubSeq(hs, 1, k)))]
<1> HIDE DEF hs
<1>3. hs \in Seq(H) /\ n \in Nat /\ n # 0 /\ DOMAIN hs = 1 .. n
  <2>1. hs \in Seq(H) /\ hs # <<>>
    BY <1>1, <1>2 DEF hs
  <2> QED BY <2>1
<1> HIDE DEF n
<1>4. /\ segs \in Seq(T) /\ Len(segs) = n /\ segs # <<>>
      /\ \A i \in 1 .. n : segs[i] = RenderHunk(hs[i], style)
  <2>1. segs = [i \in 1 .. n |-> RenderHunk(hs[i], style)]
    BY <1>3, Zenon
  <2> HIDE DEF segs
  <2>2. \A i \in 1 .. n : segs[i] = RenderHunk(hs[i], style)
    BY <2>1, Zenon
  <2>3. segs \in [1 .. n -> T]
    BY <2>1
  <2> HIDE DEF T
  <2>4. segs \in Seq(T) /\ Len(segs) = n
    BY <1>3, <2>3
  <2>5. segs # <<>>
    BY <1>3, <2>4
  <2> QED BY <2>2, <2>4, <2>5
<1> HIDE DEF segs, T
<1>5. ASSUME NEW k \in 1 .. Len(segs) PROVE Reads(segs[k], fold[k - 1], fold[k])
  <2> DEFINE before == SubSeq(hs, 1, k - 1)
             after == SubSeq(hs, 1, k)
  <2>1. k \in 1 .. n /\ k - 1 \in 0 .. n /\ k \in 0 .. n
    BY <1>3, <1>4
  <2>2. before \in Seq(H) /\ hs[k] \in H
    BY <1>3, <2>1 DEF n
  <2>3. Append(before, hs[k]) = after
    BY <1>3, <2>1, OneMore DEF n
  <2>4. /\ fold[k - 1] = Append(fs, Entry(file.old, file.new, before))
        /\ fold[k] = Append(fs, Entry(file.old, file.new, after))
    BY <2>1, Zenon
  <2> HIDE DEF before, after, fold
  <2>5. Whole(hs[k], R)
    BY <1>2, <2>2
  <2>6. Reads(RenderHunk(hs[k], style), Append(fs, Entry(file.old, file.new, before)),
              Append(fs, Entry(file.old, file.new, Append(before, hs[k]))))
    BY <2>2, <2>5, HunkReads
  <2>7. segs[k] = RenderHunk(hs[k], style)
    BY <1>4, <2>1
  <2> QED BY <2>3, <2>4, <2>6, <2>7, Zenon
<1>6. /\ fold[0] = Append(fs, Entry(file.old, file.new, <<>>))
      /\ fold[n] = Append(fs, file)
  <2>1. SubSeq(hs, 1, 0) = <<>>
    BY <1>3
  <2>2. SubSeq(hs, 1, n) = hs
    BY <1>3, SubSeqFull DEF n
  <2>3. 0 \in 0 .. n /\ n \in 0 .. n
    BY <1>3
  <2>4. /\ fold[0] = Append(fs, Entry(file.old, file.new, SubSeq(hs, 1, 0)))
        /\ fold[n] = Append(fs, Entry(file.old, file.new, SubSeq(hs, 1, n)))
    BY <2>3, Zenon
  <2> HIDE DEF fold
  <2> QED BY <1>1, <2>1, <2>2, <2>4, Zenon DEF hs
<1> HIDE DEF fold
<1>7. Reads(FlattenSeq(segs), fold[0], fold[n])
  BY <1>4, <1>5, ReadsAll
<1> QED BY <1>6, <1>7, Zenon DEF segs, hs

(* Texts written down in parts.                                             *)
LEMMA InParts ==
  /\ \A a, b : <<a>> \o <<b>> = <<a, b>>
  /\ \A a, b, c, d : ((<<a>> \o <<b>>) \o <<c>>) \o <<d>> = <<a, b>> \o <<c, d>>
  /\ \A c, d : <<c>> \o <<d>> = <<>> \o <<c, d>>
<1>1. \A T : \A x, y, z \in Seq(T) : (x \o y) \o z = x \o (y \o z)
  <2> SUFFICES ASSUME NEW T, NEW x \in Seq(T), NEW y \in Seq(T), NEW z \in Seq(T)
               PROVE  (x \o y) \o z = x \o (y \o z)
    OBVIOUS
  <2> DEFINE a == (x \o y) \o z
             b == x \o (y \o z)
             n == Len(x) + Len(y) + Len(z)
  <2>1. a \in Seq(T) /\ Len(a) = n
    OBVIOUS
  <2>2. b \in Seq(T) /\ Len(b) = n
    OBVIOUS
  <2>3. \A i \in 1 .. n : a[i] = b[i]
    OBVIOUS
  <2> HIDE DEF a, b, n
  <2> QED BY <2>1, <2>2, <2>3, SeqEqual
<1>2. ASSUME NEW a, NEW b PROVE <<a>> \o <<b>> = <<a, b>>
  <2> DEFINE T == {a, b}
             x == <<a>> \o <<b>>
             y == <<a, b>>
  <2>1. x \in Seq(T) /\ Len(x) = 2 /\ x[1] = a /\ x[2] = b
    OBVIOUS
  <2>2. y \in Seq(T) /\ Len(y) = 2 /\ y[1] = a /\ y[2] = b
    OBVIOUS
  <2> HIDE DEF T, x, y
  <2>3. Len(x) = Len(y) /\ \A i \in 1 .. Len(x) : x[i] = y[i]
    BY <2>1, <2>2
  <2>4. x = y
    BY <2>1, <2>2, <2>3, SeqEqual
  <2> QED BY <2>4, Zenon DEF x, y
<1>3. ASSUME NEW a, NEW b, NEW c, NEW d
      PROVE  ((<<a>> \o <<b>>) \o <<c>>) \o <<d>> = <<a, b>> \o <<c, d>>
  <2> DEFINE T == {a, b, c, d}
             x == <<a, b>>
             y == <<c>>
             z == <<d>>
  <2>1. x \in Seq(T) /\ y \in Seq(T) /\ z \in Seq(T)
    OBVIOUS
  <2> HIDE DEF T, x, y, z
  <2>2. (x \o y) \o z = x \o (y \o z)
    BY <1>1, <2>1
  <2>3. <<a>> \o <<b>> = <<a, b>> /\ <<c>> \o <<d>> = <<c, d>>
    BY <1>2, Zenon
  <2> QED BY <2>2, <2>3, Zenon DEF x, y, z
<1>4. ASSUME NEW c, NEW d PROVE <<c>> \o <<d>> = <<>> \o <<c, d>>
  <2>1. \A T : \A s \in Seq(T) : <<>> \o s = s
    OBVIOUS
  <2>2. <<c, d>> \in Seq({c, d})
    OBVIOUS
  <2>3. <<>> \o <<c, d>> = <<c, d>>
    BY <2>1, <2>2, Zenon
  <2>4. <<c>> \o <<d>> = <<c, d>>
    BY <1>2, Zenon
  <2> QED BY <2>3, <2>4, Zenon
<1> QED BY <1>2, <1>3, <1>4, Zenon

LEMMA FileReads ==
  ASSUME NEW S, NEW fs \in Seq(S), fs = <<>> \/ Last(fs).hunks # <<>>,
         NEW R, NEW file, WholeFile(file, R), NEW style \in Styles
  PROVE  Reads(RenderFile(file, style), fs, Append(fs, file))
<1> DEFINE name == Name(file)
           git == GitHeader(name, name)
           index == Metadata(file)
           intro == IF style.git THEN <<git, index>> ELSE <<>>
           old == OldName(file.old)
           new == NewName(file.new)
           named == Append(fs, Entry(file.old, file.new, <<>>))
           hunks == FlattenSeq([i \in DOMAIN file.hunks |-> RenderHunk(file.hunks[i], style)])
<1>1. Reads(hunks, named, Append(fs, file))
  BY HunksRead
<1>2. \A b : Reads(<<new>>, Append(fs, Entry(file.old, b, <<>>)), named)
  BY NewNameLine
<1>3. Reads(intro \o <<old, new>>, fs, named)
  <2> HIDE DEF old, new, named, name
  <2>1. CASE style.git
    <3> DEFINE first == Append(fs, Entry(name, name, <<>>))
               second == Append(fs, Entry(file.old, name, <<>>))
    <3>1. Reads(<<git>>, fs, first)
      BY GitLine
    <3>2. Reads(<<index>>, first, first)
      <4>1. ~IsGit(index) /\ ~IsOld(index) /\ ~IsNew(index) /\ ~IsAt(index)
        <5>1. CASE file.new = NoPath
          <6>1. index.mark = "d" /\ Head(index.rest) = "eleted file mode "
            BY <5>1 DEF Metadata
          <6> HIDE DEF index
          <6> QED BY <6>1 DEF IsGit, IsOld, IsNew, IsAt, Begins
        <5>2. CASE file.new # NoPath
          <6>1. index.mark = "i"
            BY <5>2 DEF Metadata
          <6> HIDE DEF index
          <6> QED BY <6>1 DEF IsGit, IsOld, IsNew, IsAt, Begins
        <5> QED BY <5>1, <5>2
      <4> HIDE DEF index
      <4> QED BY <4>1, OtherLine
    <3>3. Reads(<<old>>, first, second)
      BY OldNameLine DEF old
    <3>4. Reads(<<new>>, second, named)
      BY <1>2
    <3> HIDE DEF git, index, first, second
    <3>5. Reads(<<git>> \o <<index>>, fs, first)
      BY <3>1, <3>2, ReadsInTurn
    <3>6. Reads((<<git>> \o <<index>>) \o <<old>>, fs, second)
      BY <3>3, <3>5, ReadsInTurn
    <3>7. Reads(((<<git>> \o <<index>>) \o <<old>>) \o <<new>>, fs, named)
      BY <3>4, <3>6, ReadsInTurn
    <3>8. ((<<git>> \o <<index>>) \o <<old>>) \o <<new>> = <<git, index>> \o <<old, new>>
      BY InParts
    <3>9. intro = <<git, index>>
      BY <2>1, Zenon
    <3> QED BY <3>7, <3>8, <3>9, Zenon
  <2>2. CASE ~style.git
    <3> DEFINE first == Append(fs, Entry(file.old, NoPath, <<>>))
    <3>1. Reads(<<old>>, fs, first)
      BY OldNameLine DEF old
    <3>2. Reads(<<new>>, first, named)
      BY <1>2
    <3> HIDE DEF first
    <3>3. Reads(<<old>> \o <<new>>, fs, named)
      BY <3>1, <3>2, ReadsInTurn
    <3>4. <<old>> \o <<new>> = <<>> \o <<old, new>>
      BY InParts, Zenon
    <3>5. intro = <<>>
      BY <2>2, Zenon
    <3> QED BY <3>3, <3>4, <3>5, Zenon
  <2> QED BY <2>1, <2>2
<1> HIDE DEF intro, hunks, named, old, new
<1>4. Reads((intro \o <<old, new>>) \o hunks, fs, Append(fs, file))
  BY <1>1, <1>3, ReadsInTurn
<1>5. RenderFile(file, style) = (intro \o <<old, new>>) \o hunks
  BY Zenon DEF RenderFile, intro, old, new, hunks, OldName, NewName, GitHeader
<1> QED BY <1>4, <1>5, Zenon

(* ... and all the files of a diff.                                         *)
LEMMA FilesRead ==
  ASSUME NEW R, NEW F, NEW files \in Seq(F), files # <<>>, \A f \in F : WholeFile(f, R),
         NEW style \in Styles
  PROVE  Reads(Rendered(files, style), <<>>, files)
<1> DEFINE n == Len(files)
           segs == [i \in DOMAIN files |-> RenderFile(files[i], style)]
           T == {RenderFile(files[i], style) : i \in 1 .. n}
           fold == [k \in 0 .. n |-> SubSeq(files, 1, k)]
<1>1. n \in Nat /\ n # 0 /\ DOMAIN files = 1 .. n
  OBVIOUS
<1> HIDE DEF n
<1>2. /\ segs \in Seq(T) /\ Len(segs) = n /\ segs # <<>>
      /\ \A i \in 1 .. n : segs[i] = RenderFile(files[i], style)
  <2>1. segs = [i \in 1 .. n |-> RenderFile(files[i], style)]
    BY <1>1, Zenon
  <2> HIDE DEF segs
  <2>2. \A i \in 1 .. n : segs[i] = RenderFile(files[i], style)
    BY <2>1, Zenon
  <2>3. segs \in [1 .. n -> T]
    BY <2>1
  <2> HIDE DEF T
  <2>4. segs \in Seq(T) /\ Len(segs) = n
    BY <1>1, <2>3
  <2>5. segs # <<>>
    BY <1>1, <2>4
  <2> QED BY <2>2, <2>4, <2>5
<1>3. ASSUME NEW f \in F PROVE f.hunks # <<>>
  BY <1>3, Zenon DEF WholeFile
<1> HIDE DEF segs, T
<1>4. ASSUME NEW k \in 1 .. Len(segs) PROVE Reads(segs[k], fold[k - 1], fold[k])
  <2> DEFINE before == SubSeq(files, 1, k - 1)
             after == SubSeq(files, 1, k)
  <2>1. k \in 1 .. n /\ k - 1 \in 0 .. n /\ k \in 0 .. n
    BY <1>1, <1>2
  <2>2. before \in Seq(F) /\ files[k] \in F
    BY <1>1, <2>1 DEF n
  <2>3. Append(before, files[k]) = after
    BY <1>1, <2>1, OneMore DEF n
  <2>4. fold[k - 1] = before /\ fold[k] = after
    BY <2>1, Zenon
  <2> HIDE DEF before, after, fold
  <2>5. before = <<>> \/ Last(before).hunks # <<>>
    <3>1. before # <<>> => Last(before) \in F
      BY <2>2 DEF Last
    <3> QED BY <1>3, <3>1
  <2>6. WholeFile(files[k], R)
    BY <2>2
  <2>7. Reads(RenderFile(files[k], style), before, Append(before, files[k]))
    BY <2>2, <2>5, <2>6, FileReads
  <2>8. segs[k] = RenderFile(files[k], style)
    BY <1>2, <2>1
  <2> QED BY <2>3, <2>4, <2>7, <2>8, Zenon
<1>5. fold[0] = <<>> /\ fold[n] = files
  <2>1. SubSeq(files, 1, 0) = <<>>
    BY <1>1
  <2>2. SubSeq(files, 1, n) = files
    BY <1>1, SubSeqFull DEF n
  <2>3. 0 \in 0 .. n /\ n \in 0 .. n
    BY <1>1
  <2> QED BY <2>1, <2>2, <2>3, Zenon
<1> HIDE DEF fold
<1>6. Reads(FlattenSeq(segs), fold[0], fold[n])
  BY <1>2, <1>4, ReadsAll
<1> QED BY <1>5, <1>6, Zenon DEF segs, Rendered

(* "Hunk bodies are consumed by COUNT", for every diff (parse_diff): files   *)
(* of whole hunks, in any number and whatever their lines look like, are    *)
(* read back as they were written, in every style of writing them.          *)
THEOREM DiffsReadBack ==
  ASSUME NEW R, NEW F, NEW files \in Seq(F), files # <<>>, \A f \in F : WholeFile(f, R),
         NEW style \in Styles
  PROVE  /\ ~ParseDiff(Rendered(files, style)).error
         /\ ParseDiff(Rendered(files, style)).files = files
<1> DEFINE raws == Rendered(files, style)
           read == FoldLeft(ReadLine, Start, raws)
<1>1. Reads(raws, <<>>, files)
  BY FilesRead
<1> HIDE DEF raws
<1>2. HasRead(Start, <<>>)
  <2>1. Start = Parser(<<>>, No, <<0, 0>>) /\ ~No
    BY DEF Start, Parser, No
  <2> QED BY <2>1 DEF HasRead
<1>3. PICK end : Makes(Reading, Start, raws, end) /\ HasRead(end, files)
  BY <1>1, <1>2 DEF Reads
<1>4. PICK S : raws \in Seq(S)
  BY <1>1 DEF Reads
<1>5. Makes(Reading, Start, raws, read)
  BY <1>4, ReadingFold
<1>6. read = end
  BY <1>3, <1>4, <1>5, OneResult
<1>7. read.files = files /\ ~read.error
  <2>1. PICK inside, seen : end = Parser(files, inside, seen)
    BY <1>3 DEF HasRead
  <2> QED BY <1>6, <2>1 DEF Parser, No
<1> HIDE DEF read
<1>8. ASSUME NEW i \in DOMAIN files
      PROVE  /\ {files[i].old, files[i].new} # {NoPath} /\ files[i].hunks # <<>>
             /\ \A j \in DOMAIN files[i].hunks : files[i].hunks[j].lines # <<>>
  <2>1. WholeFile(files[i], R)
    OBVIOUS
  <2>2. /\ {files[i].old, files[i].new} # {NoPath} /\ files[i].hunks # <<>>
        /\ \E H : files[i].hunks \in Seq(H) /\ \A h \in H : Whole(h, R)
    BY <2>1, Zenon DEF WholeFile
  <2>3. PICK H : files[i].hunks \in Seq(H) /\ \A h \in H : Whole(h, R)
    BY <2>2
  <2>4. \A h \in H : h.lines # <<>>
    BY <2>3, Zenon DEF Whole
  <2>5. ASSUME NEW j \in DOMAIN files[i].hunks PROVE files[i].hunks[j] \in H
    BY <2>3
  <2> QED BY <2>2, <2>4, <2>5
<1>9. ParseDiff(raws) = read
  BY <1>7, <1>8 DEF ParseDiff, read
<1> QED BY <1>7, <1>9 DEF raws

(* A diff that breaks off in a header, after whatever files, is refused.    *)
THEOREM DiffsCutShort ==
  ASSUME NEW R, NEW F, NEW files \in Seq(F), files # <<>>, \A f \in F : WholeFile(f, R),
         NEW style \in Styles, NEW ending \in CutShort
  PROVE  ParseDiff(Rendered(files, style) \o ending).error
<1> DEFINE raws == Rendered(files, style)
<1>1. PICK cut : ending = <<cut>> /\ (\A state : Header(state, cut) = Bad(state))
  <2>1. CASE ending = <<[mark |-> "d", rest |-> <<"iff --git ">>]>>
    <3> DEFINE cut == [mark |-> "d", rest |-> <<"iff --git ">>]
    <3>1. cut.rest # <<>> /\ Head(cut.rest) = "iff --git " /\ Len(cut.rest) = 1 /\ cut.mark = "d"
      OBVIOUS
    <3>2. ending = <<cut>>
      BY <2>1, Zenon
    <3> HIDE DEF cut
    <3>3. IsGit(cut) /\ ~NamesAll(cut, 2)
      <4>1. IsGit(cut)
        BY <3>1 DEF IsGit, Begins
      <4>2. 1 # 1 + 2
        OBVIOUS
      <4>3. ~NamesAll(cut, 2)
        BY <3>1, <4>2, Zenon DEF NamesAll
      <4> QED BY <4>1, <4>3
    <3>4. ~IsOld(cut) /\ ~IsNew(cut) /\ ~IsAt(cut)
      BY <3>1 DEF IsOld, IsNew, IsAt, Begins
    <3>5. \A state : Header(state, cut) = Bad(state)
      BY <3>3, <3>4, Zenon DEF Header, StartFile
    <3> QED BY <3>2, <3>5, Zenon
  <2>2. CASE ending = <<[mark |-> "@", rest |-> <<"@">>]>>
    <3> DEFINE cut == [mark |-> "@", rest |-> <<"@">>]
    <3>1. cut.rest # <<>> /\ Head(cut.rest) = "@" /\ Len(cut.rest) = 1 /\ cut.mark = "@"
      OBVIOUS
    <3>2. ending = <<cut>>
      BY <2>2, Zenon
    <3> HIDE DEF cut
    <3>3. IsAt(cut) /\ ~NamesAll(cut, 3)
      <4>1. IsAt(cut)
        BY <3>1 DEF IsAt, Begins
      <4>2. 1 # 1 + 3
        OBVIOUS
      <4>3. ~NamesAll(cut, 3)
        BY <3>1, <4>2, Zenon DEF NamesAll
      <4> QED BY <4>1, <4>3
    <3>4. ~IsOld(cut) /\ ~IsNew(cut) /\ ~IsGit(cut)
      BY <3>1 DEF IsOld, IsNew, IsGit, Begins
    <3>5. \A state : Header(state, cut) = Bad(state)
      BY <3>3, <3>4, Zenon DEF Header, OpenHunk
    <3> QED BY <3>2, <3>5, Zenon
  <2> QED BY <2>1, <2>2 DEF CutShort
<1>2. Reads(raws, <<>>, files)
  BY FilesRead
<1> HIDE DEF raws
<1>3. HasRead(Start, <<>>)
  <2>1. Start = Parser(<<>>, No, <<0, 0>>) /\ ~No
    BY DEF Start, Parser, No
  <2> QED BY <2>1 DEF HasRead
<1>4. PICK end : Makes(Reading, Start, raws, end) /\ HasRead(end, files)
  BY <1>2, <1>3 DEF Reads
<1>5. PICK S : raws \in Seq(S) /\ cut \in S
  <2>1. PICK T : raws \in Seq(T)
    BY <1>2 DEF Reads
  <2>2. raws \in Seq(T \cup {cut})
    BY <2>1
  <2> QED BY <2>2
<1>6. Makes(Reading, end, <<cut>>, Bad(end))
  <2>1. Work(Reading, end, cut) = Header(end, cut)
    BY <1>4, NextIsHeader
  <2>2. Makes(Reading, end, <<cut>>, Work(Reading, end, cut))
    BY OneItem
  <2> QED BY <1>1, <2>1, <2>2, Zenon
<1> DEFINE all == raws \o <<cut>>
           read == FoldLeft(ReadLine, Start, all)
<1>7. all \in Seq(S) /\ <<cut>> \in Seq(S)
  BY <1>5
<1>8. Makes(Reading, Start, all, Bad(end))
  <2> DEFINE one == <<cut>>
  <2>1. one \in Seq(S)
    BY <1>7
  <2>2. Makes(Reading, end, one, Bad(end))
    BY <1>6
  <2> HIDE DEF one
  <2>3. Makes(Reading, Start, raws \o one, Bad(end))
    BY <1>4, <1>5, <2>1, <2>2, InTurn
  <2> QED BY <2>3 DEF one
<1> HIDE DEF all
<1>9. Makes(Reading, Start, all, read)
  BY <1>7, ReadingFold
<1>10. read = Bad(end)
  BY <1>7, <1>8, <1>9, OneResult
<1>11. read.error
  <2>1. PICK inside, seen : end = Parser(files, inside, seen)
    BY <1>4 DEF HasRead
  <2>2. Bad(end).error
    BY <2>1 DEF Bad, Parser
  <2> QED BY <1>10, <2>2, Zenon
<1> HIDE DEF read
<1>12. ParseDiff(all) = [Start EXCEPT !.error = TRUE]
  BY <1>11, Zenon DEF ParseDiff, read
<1>13. ParseDiff(all).error
  BY <1>12 DEF Start
<1> QED BY <1>1, <1>13 DEF all, raws

-----------------------------------------------------------------------------
(* The diffs of the questions are such diffs.                               *)
LEMMA WholeHunks ==
  ASSUME NEW lines \in Bodies
  PROVE  Whole(WholeHunk(lines), Texts)
<1> DEFINE o == Count(lines, Olds)
           n == Count(lines, News)
           h == WholeHunk(lines)
<1>1. lines \in Seq([mark : Marks, rest : Texts]) /\ lines # <<>>
  <2>1. lines \in UpTo(2, [mark : Marks, rest : Texts]) /\ lines # <<>>
    BY Zenon DEF Bodies
  <2> QED BY <2>1, UpToSeq
<1>4. h = Block(1, o, n, lines)
  BY Zenon DEF WholeHunk, Block, Olds, News
<1>5. h.start = 1 /\ h.old = o /\ h.new = n /\ h.lines = lines
  <2> HIDE DEF o, n, h
  <2> QED BY <1>4 DEF Block
<1> HIDE DEF h
<1>6. Whole(h, Texts)
  BY <1>1, <1>4, <1>5, Zenon DEF Whole
<1> QED BY <1>6 DEF h

LEMMA WholeFiles ==
  ASSUME NEW old, NEW new, {old, new} # {NoPath}, NEW bodies \in Seq(Bodies), bodies # <<>>
  PROVE  WholeFile(File(old, new, bodies), Texts)
<1> DEFINE H == {WholeHunk(lines) : lines \in Bodies}
           hunks == [i \in DOMAIN bodies |-> WholeHunk(bodies[i])]
           file == File(old, new, bodies)
<1>1. hunks \in Seq(H) /\ hunks # <<>>
  <2>1. Len(bodies) \in Nat /\ Len(bodies) # 0 /\ DOMAIN bodies = 1 .. Len(bodies)
    OBVIOUS
  <2>2. \A i \in 1 .. Len(bodies) : bodies[i] \in Bodies
    OBVIOUS
  <2>3. hunks \in [1 .. Len(bodies) -> H]
    <3> HIDE DEF H
    <3>1. \A i \in 1 .. Len(bodies) : WholeHunk(bodies[i]) \in H
      BY <2>2 DEF H
    <3> QED BY <2>1, <3>1
  <2> HIDE DEF hunks, H
  <2> QED BY <2>1, <2>3
<1>2. \A h \in H : Whole(h, Texts)
  BY WholeHunks
<1> HIDE DEF H, hunks
<1>3. file = Entry(old, new, hunks)
  BY Zenon DEF File, Entry, hunks
<1>4. file.old = old /\ file.new = new /\ file.hunks = hunks
  <2> HIDE DEF file
  <2> QED BY <1>3 DEF Entry
<1> HIDE DEF file
<1>5. WholeFile(file, Texts)
  BY <1>1, <1>2, <1>3, <1>4, Zenon DEF WholeFile
<1> QED BY <1>5 DEF file

LEMMA AboutDiffs ==
  ASSUME NEW q \in DiffQuestions
  PROVE  /\ q.about = "diff" /\ q.style \in Styles /\ q.files \in WrittenFiles
         /\ q.ending = <<>> \/ q.ending \in CutShort
<1>1. Plain \subseteq Styles
  BY Zenon DEF Plain
<1>2. CASE q \in [about : {"diff"}, style : Styles, files : WrittenFiles, ending : {<<>>}]
  BY <1>2
<1>3. CASE q \in [about : {"diff"}, style : Plain, files : WrittenFiles, ending : CutShort]
  BY <1>1, <1>3
<1> QED BY <1>2, <1>3 DEF DiffQuestions

LEMMA AskedDiffs ==
  ASSUME NEW q \in DiffQuestions
  PROVE  /\ q.style \in Styles /\ q.files # <<>> /\ (q.ending = <<>> \/ q.ending \in CutShort)
         /\ \E F : q.files \in Seq(F) /\ \A f \in F : WholeFile(f, Texts)
<1>1. /\ q.style \in Styles /\ (q.ending = <<>> \/ q.ending \in CutShort)
      /\ (\E a, b \in Bodies : q.files = Changed(a, b)) \/ (\E a, b \in Bodies : q.files = Swapped(a, b))
  <2>1. q.files \in WrittenFiles /\ (q.ending = <<>> \/ q.ending \in CutShort)
    BY AboutDiffs
  <2>2. q.style \in Styles
    BY AboutDiffs
  <2> QED BY <2>1, <2>2 DEF WrittenFiles
<1>2. {"f", "f"} # {NoPath} /\ {NoPath, "f"} # {NoPath} /\ {"g", NoPath} # {NoPath}
  BY DEF NoPath
<1>3. CASE \E a, b \in Bodies : q.files = Changed(a, b)
  <2>1. PICK a \in Bodies, b \in Bodies : q.files = <<File("f", "f", <<a, b>>)>>
    BY <1>3 DEF Changed
  <2> DEFINE f == File("f", "f", <<a, b>>)
             bodies == <<a, b>>
  <2>2. bodies \in Seq(Bodies) /\ bodies # <<>>
    OBVIOUS
  <2> HIDE DEF bodies
  <2>3. WholeFile(File("f", "f", bodies), Texts)
    BY <1>2, <2>2, WholeFiles
  <2>4. WholeFile(f, Texts) /\ q.files = <<f>>
    BY <2>1, <2>3, Zenon DEF bodies
  <2> HIDE DEF f
  <2> DEFINE F == {f}
  <2>5. q.files \in Seq(F) /\ q.files # <<>>
    BY <2>4
  <2>6. \A x \in F : WholeFile(x, Texts)
    BY <2>4, Zenon
  <2> HIDE DEF F
  <2> QED BY <1>1, <2>5, <2>6
<1>4. CASE \E a, b \in Bodies : q.files = Swapped(a, b)
  <2>1. PICK a \in Bodies, b \in Bodies :
          q.files = <<File(NoPath, "f", <<a>>), File("g", NoPath, <<b>>)>>
    BY <1>4 DEF Swapped
  <2> DEFINE f == File(NoPath, "f", <<a>>)
             g == File("g", NoPath, <<b>>)
             first == <<a>>
             second == <<b>>
  <2>2. first \in Seq(Bodies) /\ first # <<>> /\ second \in Seq(Bodies) /\ second # <<>>
    OBVIOUS
  <2> HIDE DEF first, second
  <2>3. WholeFile(File(NoPath, "f", first), Texts) /\ WholeFile(File("g", NoPath, second), Texts)
    BY <1>2, <2>2, WholeFiles
  <2>4. WholeFile(f, Texts) /\ WholeFile(g, Texts) /\ q.files = <<f, g>>
    BY <2>1, <2>3, Zenon DEF first, second
  <2> HIDE DEF f, g
  <2> DEFINE F == {f, g}
  <2>5. q.files \in Seq(F) /\ q.files # <<>>
    BY <2>4
  <2>6. \A x \in F : WholeFile(x, Texts)
    BY <2>4, Zenon
  <2> HIDE DEF F
  <2> QED BY <1>1, <2>5, <2>6
<1> QED BY <1>1, <1>3, <1>4

-----------------------------------------------------------------------------
(* A strict total order puts 1 .. n in a row, each as many places on as      *)
(* there are before it.                                                     *)
LEMMA InARow ==
  ASSUME NEW n \in Nat, NEW R,
         \A i \in 1 .. n : <<i, i>> \notin R,
         \A i, j \in 1 .. n : i # j => <<i, j>> \in R \/ <<j, i>> \in R,
         \A i, j, k \in 1 .. n : <<i, j>> \in R /\ <<j, k>> \in R => <<i, k>> \in R
  PROVE  \E p \in Bijection(1 .. n, 1 .. n) :
           \A i, j \in 1 .. n : i < j => <<p[i], p[j]>> \in R
<1> DEFINE D == 1 .. n
           Before(i) == {j \in D : <<j, i>> \in R}
           rank == [i \in D |-> Cardinality(Before(i)) + 1]
<1>1. IsFiniteSet(D) /\ Cardinality(D) = n
  BY FS_Interval
<1>2. ASSUME NEW i \in D
      PROVE  IsFiniteSet(Before(i)) /\ Cardinality(Before(i)) \in 0 .. n - 1
  <2>1. IsFiniteSet(D \ {i}) /\ Cardinality(D \ {i}) = n - 1
    BY <1>1, FS_RemoveElement
  <2>2. Before(i) \subseteq D \ {i}
    OBVIOUS
  <2> HIDE DEF D, Before
  <2>3. IsFiniteSet(Before(i)) /\ Cardinality(Before(i)) <= n - 1
    BY <2>1, <2>2, FS_Subset
  <2>4. Cardinality(Before(i)) \in Nat
    BY <2>3, FS_CardinalityType
  <2> QED BY <2>3, <2>4
<1>3. ASSUME NEW i \in D, NEW j \in D, <<i, j>> \in R PROVE rank[i] < rank[j]
  <2>1. Before(i) \subseteq Before(j) /\ i \in Before(j) /\ i \notin Before(i)
    BY <1>3
  <2>2. IsFiniteSet(Before(j)) /\ Cardinality(Before(i)) \in Nat /\ Cardinality(Before(j)) \in Nat
    <3>1. /\ IsFiniteSet(Before(j)) /\ Cardinality(Before(i)) \in 0 .. n - 1
          /\ Cardinality(Before(j)) \in 0 .. n - 1
      <4> HIDE DEF Before
      <4> QED BY <1>2
    <3> HIDE DEF Before
    <3> QED BY <3>1
  <2>3. rank[i] = Cardinality(Before(i)) + 1 /\ rank[j] = Cardinality(Before(j)) + 1
    OBVIOUS
  <2> HIDE DEF Before, D, rank
  <2>4. Cardinality(Before(i)) < Cardinality(Before(j))
    BY <2>1, <2>2, FS_Subset
  <2> QED BY <2>2, <2>3, <2>4
<1>4. rank \in [D -> D]
  <2>1. \A i \in D : Cardinality(Before(i)) + 1 \in D
    <3> HIDE DEF Before
    <3> QED BY <1>2
  <2> HIDE DEF Before, D
  <2> QED BY <2>1
<1>5. \A i, j \in D : rank[i] = rank[j] => i = j
  <2> SUFFICES ASSUME NEW i \in D, NEW j \in D, i # j PROVE rank[i] # rank[j]
    OBVIOUS
  <2>1. rank[i] < rank[j] \/ rank[j] < rank[i]
    <3> HIDE DEF rank
    <3> QED BY <1>3
  <2>2. rank[i] \in Int /\ rank[j] \in Int
    <3> HIDE DEF rank
    <3> QED BY <1>4
  <2> HIDE DEF rank
  <2> QED BY <2>1, <2>2
<1> HIDE DEF rank
<1>6. rank \in Bijection(D, D)
  <2> HIDE DEF D
  <2>1. rank \in Injection(D, D)
    BY <1>4, <1>5, Fun_IsInj
  <2>2. rank \in Surjection(D, D)
    BY <1>1, <2>1, FS_Injection
  <2> QED BY <2>1, <2>2, Fun_IsBij
<1> DEFINE p == Inverse(rank, D, D)
<1>7. p \in Bijection(D, D)
  <2> HIDE DEF D
  <2> QED BY <1>6, Fun_BijInverse
<1>8. p \in [D -> D] /\ \A i \in D : rank[p[i]] = i
  <2> HIDE DEF D
  <2>1. p \in [D -> D]
    BY <1>7, Fun_BijectionProperties
  <2>2. Inverse(p, D, D) = rank
    BY <1>6, Fun_BijInverse
  <2>3. \A i \in D : Inverse(p, D, D)[p[i]] = i
    BY <1>7, Fun_BijInverse
  <2> QED BY <2>1, <2>2, <2>3
<1> HIDE DEF p
<1>9. ASSUME NEW i \in D, NEW j \in D, i < j PROVE <<p[i], p[j]>> \in R
  <2>1. p[i] \in D /\ p[j] \in D /\ rank[p[i]] = i /\ rank[p[j]] = j
    BY <1>8
  <2>2. p[i] # p[j]
    BY <1>9, <2>1
  <2>3. ASSUME <<p[j], p[i]>> \in R PROVE FALSE
    <3>1. j < i
      BY <1>3, <2>1, <2>3
    <3> QED BY <1>9, <3>1
  <2> QED BY <2>1, <2>2, <2>3
<1> QED BY <1>7, <1>9

-----------------------------------------------------------------------------
(* Lists of what is found in files, no file twice, ...                      *)

Listed(s) == \A i, j \in DOMAIN s : s[i].path = s[j].path => i = j
(* ... and in order.                                                        *)
Ordered(s) == \A i, j \in DOMAIN s : i < j => ByScoreThenPath(s[i], s[j])

(* sorted() puts such a list in order and neither loses nor adds an entry.  *)
LEMMA InOrderIs ==
  ASSUME NEW E, \A e \in E : e.path \in Int /\ e.score \in Int, NEW s \in Seq(E), Listed(s)
  PROVE  /\ InOrder(s) \in Seq(E) /\ Len(InOrder(s)) = Len(s)
         /\ Listed(InOrder(s)) /\ Ordered(InOrder(s))
         /\ \A e : (\E i \in DOMAIN InOrder(s) : e = InOrder(s)[i]) <=> (\E i \in DOMAIN s : e = s[i])
<1> DEFINE n == Len(s)
           D == 1 .. n
           c == CHOOSE p \in [DOMAIN s -> DOMAIN s] : Sorts(p, s)
           r == InOrder(s)
           B(i, j) == ByScoreThenPath(s[i], s[j])
           R == {q \in D \X D : B(q[1], q[2])}
<1>1. n \in Nat /\ DOMAIN s = D /\ \A i \in D : s[i] \in E
  OBVIOUS
<1> HIDE DEF n
<1>2. /\ \A i \in D : ~B(i, i)
      /\ \A i, j \in D : i # j => B(i, j) \/ B(j, i)
      /\ \A i, j, k \in D : B(i, j) /\ B(j, k) => B(i, k)
  <2>1. \A i \in D : s[i].path \in Int /\ s[i].score \in Int
    BY <1>1
  <2>2. \A i, j \in D : i # j => s[i].path # s[j].path
    BY <1>1 DEF Listed
  <2> HIDE DEF D
  <2> QED BY <2>1, <2>2 DEF ByScoreThenPath, Ahead
<1>3. \E p \in Bijection(D, D) : \A i, j \in D : i < j => B(p[i], p[j])
  <2>1. \A i, j \in D : <<i, j>> \in R <=> B(i, j)
    <3> HIDE DEF B
    <3> QED OBVIOUS
  <2> HIDE DEF B, R
  <2>2. \E p \in Bijection(D, D) : \A i, j \in D : i < j => <<p[i], p[j]>> \in R
    BY <1>1, <1>2, <2>1, InARow
  <2>3. PICK p \in Bijection(D, D) : \A i, j \in D : i < j => <<p[i], p[j]>> \in R
    BY <2>2
  <2>4. \A i \in D : p[i] \in D
    <3> HIDE DEF D
    <3> QED BY <2>3, Fun_BijectionProperties
  <2> HIDE DEF D
  <2> QED BY <2>1, <2>3, <2>4
<1>4. \E p \in [DOMAIN s -> DOMAIN s] : Sorts(p, s)
  <2>1. PICK p \in Bijection(D, D) : \A i, j \in D : i < j => B(p[i], p[j])
    BY <1>3
  <2> HIDE DEF D
  <2>2. p \in [D -> D] /\ \A i, j \in D : p[i] = p[j] => i = j
    BY <2>1, Fun_BijectionProperties
  <2>3. DOMAIN p = D /\ IsInjective(p)
    BY <2>2 DEF IsInjective
  <2>4. Sorts(p, s)
    BY <2>1, <2>3 DEF Sorts
  <2> QED BY <1>1, <2>2, <2>4
<1>5. c \in [D -> D] /\ Sorts(c, s)
  BY <1>1, <1>4
<1>6. r = [i \in D |-> s[c[i]]]
  BY <1>1, Zenon DEF InOrder
<1> HIDE DEF c, r
<1>7. /\ \A i, j \in D : c[i] = c[j] => i = j
      /\ \A j \in D : \E i \in D : c[i] = j
      /\ \A i \in D : c[i] \in D
  <2>1. DOMAIN c = D /\ IsInjective(c)
    BY <1>5 DEF Sorts
  <2>2. IsFiniteSet(D)
    <3>1. n \in Nat
      BY <1>1
    <3> QED BY <3>1, FS_Interval
  <2> HIDE DEF D
  <2>3. c \in Injection(D, D)
    BY <1>5, <2>1, Fun_IsInj DEF IsInjective
  <2>4. c \in Surjection(D, D)
    BY <2>2, <2>3, FS_Injection
  <2> QED BY <1>5, <2>3, <2>4, Fun_InjectionProperties, Fun_SurjectionProperties
<1>8. /\ r \in Seq(E) /\ Len(r) = n /\ DOMAIN r = D /\ \A i \in D : r[i] = s[c[i]]
  <2>1. \A i \in D : r[i] = s[c[i]]
    BY <1>6, Zenon
  <2>2. r \in [D -> E]
    BY <1>1, <1>6, <1>7
  <2> QED BY <1>1, <2>1, <2>2
<1>9. Listed(r)
  <2> SUFFICES ASSUME NEW i \in D, NEW j \in D, r[i].path = r[j].path PROVE i = j
    BY <1>8 DEF Listed
  <2>1. c[i] \in DOMAIN s /\ c[j] \in DOMAIN s /\ s[c[i]].path = s[c[j]].path
    BY <1>1, <1>7, <1>8
  <2> HIDE DEF D
  <2> QED BY <1>7, <2>1 DEF Listed
<1>10. Ordered(r)
  <2> SUFFICES ASSUME NEW i \in D, NEW j \in D, i < j PROVE ByScoreThenPath(r[i], r[j])
    BY <1>8 DEF Ordered
  <2>1. DOMAIN c = D /\ c[i] \in D /\ c[j] \in D /\ c[i] # c[j] /\ r[i] = s[c[i]] /\ r[j] = s[c[j]]
    BY <1>5, <1>7, <1>8
  <2>2. B(c[i], c[j]) \/ ~B(c[j], c[i])
    <3> HIDE DEF D
    <3> QED BY <1>5, <2>1 DEF Sorts
  <2>3. B(c[i], c[j])
    <3> HIDE DEF B, D
    <3> QED BY <1>2, <2>1, <2>2
  <2> QED BY <2>1, <2>3
<1>11. \A e : (\E i \in DOMAIN r : e = r[i]) <=> (\E i \in DOMAIN s : e = s[i])
  <2>1. ASSUME NEW i \in D PROVE \E j \in D : r[i] = s[j]
    BY <1>7, <1>8
  <2>2. ASSUME NEW j \in D PROVE \E i \in D : s[j] = r[i]
    <3>1. PICK i \in D : c[i] = j
      BY <1>7
    <3> QED BY <1>8, <3>1
  <2>3. DOMAIN r = D /\ DOMAIN s = D
    BY <1>1, <1>8
  <2> HIDE DEF D
  <2> QED BY <2>1, <2>2, <2>3, Zenon
<1> QED BY <1>8, <1>9, <1>10, <1>11 DEF r, n

(* How many files the first n of a list are of, ...                         *)
LEMMA FilesOf ==
  ASSUME NEW s, NEW n \in Nat, 1 .. n \subseteq DOMAIN s, Listed(s),
         NEW P, \A q : q \in P <=> \E i \in 1 .. n : q = s[i].path
  PROVE  IsFiniteSet(P) /\ Cardinality(P) = n
<1> DEFINE D == 1 .. n
           f == [i \in D |-> s[i].path]
<1>1. IsFiniteSet(D) /\ Cardinality(D) = n
  BY FS_Interval
<1> HIDE DEF D
<1>2. f \in [D -> P] /\ \A q \in P : \E i \in D : f[i] = q
  BY DEF D
<1>3. \A i, j \in D : f[i] = f[j] => i = j
  BY DEF Listed, D
<1> HIDE DEF f
<1>4. f \in Bijection(D, P)
  BY <1>2, <1>3, Fun_IsBij
<1>5. ExistsBijection(D, P)
  BY <1>4, Fun_ExistsBij
<1> QED BY <1>1, <1>5, FS_Bijection

(* ... and so many that come before the i-th of an ordered one.             *)
LEMMA PlacedAt ==
  ASSUME NEW E, \A e \in E : e.path \in Int /\ e.score \in Int,
         NEW s \in Seq(E), Listed(s), Ordered(s), NEW i \in 1 .. Len(s),
         NEW P, \A q : q \in P <=> \E j \in 1 .. Len(s) : q = s[j].path /\ ByScoreThenPath(s[j], s[i])
  PROVE  Cardinality(P) = i - 1
<1>1. \A j \in 1 .. Len(s) : s[j].path \in Int /\ s[j].score \in Int
  OBVIOUS
<1>2. ASSUME NEW j \in 1 .. Len(s) PROVE ByScoreThenPath(s[j], s[i]) <=> j < i
  <2>1. j < i => ByScoreThenPath(s[j], s[i])
    BY DEF Ordered
  <2>2. i < j => ByScoreThenPath(s[i], s[j])
    BY DEF Ordered
  <2>3. ByScoreThenPath(s[i], s[j]) => ~ByScoreThenPath(s[j], s[i])
    BY <1>1 DEF ByScoreThenPath, Ahead
  <2>4. ~ByScoreThenPath(s[i], s[i])
    BY <1>1 DEF ByScoreThenPath, Ahead
  <2> QED BY <2>1, <2>2, <2>3, <2>4
<1>3. i - 1 \in Nat /\ 1 .. i - 1 \subseteq DOMAIN s
  OBVIOUS
<1>4. \A q : q \in P <=> \E j \in 1 .. i - 1 : q = s[j].path
  BY <1>2
<1> QED BY <1>3, <1>4, FilesOf

-----------------------------------------------------------------------------
(* A listing of the paths, in any order, and what the model knows of files. *)
Listing(paths) ==
  /\ paths \in Seq(Paths)
  /\ \A i, j \in DOMAIN paths : paths[i] = paths[j] => i = j
  /\ \A p \in Paths : \E i \in DOMAIN paths : paths[i] = p

Sourced(files, Y) ==
  \A p \in Paths :
    files[p].relevance \in Int /\ files[p].units \in Seq([symbol : Y, score : Int])

(* What is read is what is chosen: none is read that fewer than MaxFiles    *)
(* fit better than, in whatever order the directory is listed.              *)
LEMMA ChosenAreRead ==
  ASSUME NEW files, NEW Y, Sourced(files, Y), NEW paths, Listing(paths)
  PROVE  LET read == Prioritise(files, paths)
         IN  /\ read \in Seq(Paths)
             /\ \A i, j \in DOMAIN read : read[i] = read[j] => i = j
             /\ \A p : (\E i \in DOMAIN read : read[i] = p) <=> p \in Chosen(files)
<1> DEFINE n == Len(paths)
           D == 1 .. n
           entry(p) == [path |-> p, score |-> files[p].relevance]
           s == [i \in DOMAIN paths |-> [path |-> paths[i], score |-> files[paths[i]].relevance]]
           E == {entry(p) : p \in Paths}
           read == Prioritise(files, paths)
           Better(p) == {q \in Paths : Ahead(files[q].relevance, q, files[p].relevance, p)}
<1>1. /\ paths \in Seq(Paths) /\ n \in Nat /\ DOMAIN paths = D /\ \A i \in D : paths[i] \in Paths
      /\ \A i, j \in D : paths[i] = paths[j] => i = j
      /\ \A p \in Paths : \E i \in D : paths[i] = p
  BY DEF Listing
<1>2. /\ MaxFiles \in Nat /\ IsFiniteSet(Paths)
      /\ \A p \in Paths : p \in Int /\ files[p].relevance \in Int
  BY BoundsAssumption, RepositoryAssumption DEF Sourced
<1> HIDE DEF n
<1>3. \A p : entry(p).path = p /\ entry(p).score = files[p].relevance
  OBVIOUS
<1>4. s = [i \in D |-> entry(paths[i])]
  BY <1>1
<1> HIDE DEF s, entry
<1>5. /\ s \in Seq(E) /\ Len(s) = n /\ DOMAIN s = D /\ \A i \in D : s[i] = entry(paths[i])
  <2>1. \A i \in D : s[i] = entry(paths[i])
    BY <1>4, Zenon
  <2>2. \A i \in D : s[i] \in E
    BY <1>1, <2>1
  <2> HIDE DEF E
  <2>3. s \in [D -> E]
    BY <1>4, <2>1, <2>2
  <2> QED BY <1>1, <2>1, <2>3
<1>6. \A e \in E : e.path \in Int /\ e.score \in Int
  BY <1>2, <1>3
<1>7. Listed(s)
  BY <1>1, <1>3, <1>5 DEF Listed
<1>8. Cardinality(Paths) = n
  <2>1. \A q : q \in Paths <=> \E i \in 1 .. n : q = s[i].path
    BY <1>1, <1>3, <1>5
  <2>2. n \in Nat /\ 1 .. n \subseteq DOMAIN s
    BY <1>1, <1>5
  <2> QED BY <1>7, <2>1, <2>2, FilesOf
<1> HIDE DEF E
<1>9. \A p : p \in Chosen(files) <=> p \in Paths /\ Cardinality(Better(p)) < MaxFiles
  BY DEF Chosen
<1>10. CASE n <= MaxFiles
  <2>1. read = paths
    BY <1>10 DEF Prioritise, n
  <2>2. ASSUME NEW p \in Paths PROVE Cardinality(Better(p)) < MaxFiles
    <3>1. IsFiniteSet(Paths \ {p}) /\ Cardinality(Paths \ {p}) = n - 1
      BY <1>2, <1>8, FS_RemoveElement
    <3>2. Better(p) \subseteq Paths \ {p}
      BY <1>2 DEF Ahead
    <3> HIDE DEF Better
    <3>3. Cardinality(Better(p)) \in Nat /\ Cardinality(Better(p)) <= n - 1
      BY <3>1, <3>2, FS_Subset, FS_CardinalityType
    <3> QED BY <1>1, <1>2, <1>10, <3>3
  <2>3. \A p : (\E i \in D : paths[i] = p) <=> p \in Chosen(files)
    <3> HIDE DEF Better, D
    <3> QED BY <1>1, <1>9, <2>2
  <2> HIDE DEF D, Better, read
  <2> QED BY <1>1, <2>1, <2>3 DEF read
<1>11. CASE ~(n <= MaxFiles)
  <2> DEFINE r == InOrder(s)
  <2>1. /\ r \in Seq(E) /\ Len(r) = n /\ Listed(r) /\ Ordered(r)
        /\ \A e : (\E i \in DOMAIN r : e = r[i]) <=> (\E i \in DOMAIN s : e = s[i])
    BY <1>5, <1>6, <1>7, InOrderIs
  <2>2. read = [i \in 1 .. MaxFiles |-> r[i].path]
    <3>1. ~(Len(paths) <= MaxFiles)
      BY <1>11 DEF n
    <3>2. read = LET ranked == InOrder(s) IN [i \in 1 .. MaxFiles |-> ranked[i].path]
      BY <3>1, Zenon DEF Prioritise, s
    <3> QED BY <3>2, Zenon
  <2> HIDE DEF r, read
  <2>3. DOMAIN r = D /\ 1 .. MaxFiles \subseteq D
    BY <1>1, <1>2, <1>11, <2>1
  <2>4. ASSUME NEW i \in D
        PROVE  r[i].path \in Paths /\ r[i].score = files[r[i].path].relevance
    <3>1. PICK j \in D : r[i] = s[j]
      BY <1>5, <2>1, <2>3
    <3> QED BY <1>1, <1>3, <1>5, <3>1
  <2>5. ASSUME NEW p \in Paths PROVE \E i \in D : r[i].path = p
    <3>1. PICK j \in D : paths[j] = p
      BY <1>1
    <3>2. s[j].path = p
      BY <1>3, <1>5, <3>1
    <3>3. PICK i \in D : s[j] = r[i]
      BY <1>5, <2>1, <2>3
    <3> QED BY <3>2, <3>3
  <2>6. ASSUME NEW i \in D PROVE Cardinality(Better(r[i].path)) = i - 1
    <3>1. ASSUME NEW q
          PROVE  q \in Better(r[i].path) <=>
                   \E j \in 1 .. Len(r) : q = r[j].path /\ ByScoreThenPath(r[j], r[i])
      <4>1. ASSUME NEW j \in D
            PROVE  ByScoreThenPath(r[j], r[i]) <=> r[j].path \in Better(r[i].path)
        BY <2>4 DEF ByScoreThenPath
      <4>2. q \in Better(r[i].path) => q \in Paths
        OBVIOUS
      <4> HIDE DEF Better, D
      <4>3. D = 1 .. Len(r)
        BY <2>1 DEF D
      <4> QED BY <2>5, <4>1, <4>2, <4>3
    <3> HIDE DEF Better
    <3> QED BY <1>6, <2>1, <3>1, PlacedAt
  <2>7. /\ read \in Seq(Paths) /\ DOMAIN read = 1 .. MaxFiles
        /\ \A i \in 1 .. MaxFiles : read[i] = r[i].path
    <3> HIDE DEF D
    <3> QED BY <1>2, <2>2, <2>3, <2>4
  <2>8. ASSUME NEW p PROVE (\E i \in 1 .. MaxFiles : r[i].path = p) <=> p \in Chosen(files)
    <3>1. ASSUME NEW i \in D PROVE r[i].path \in Chosen(files) <=> i \in 1 .. MaxFiles
      <4>1. r[i].path \in Paths /\ Cardinality(Better(r[i].path)) = i - 1
        BY <2>4, <2>6
      <4> HIDE DEF Better
      <4> QED BY <1>1, <1>2, <1>9, <4>1
    <3>2. p \in Chosen(files) => p \in Paths
      BY <1>9
    <3> HIDE DEF D
    <3> QED BY <2>3, <2>5, <3>1, <3>2
  <2>9. \A i, j \in 1 .. MaxFiles : read[i] = read[j] => i = j
    BY <2>1, <2>3, <2>7 DEF Listed
  <2> HIDE DEF D, Better
  <2> QED BY <2>7, <2>8, <2>9 DEF read
<1> QED BY <1>10, <1>11

-----------------------------------------------------------------------------
(* The best unit of a file, and the highest score in it.                    *)
LEMMA ChoosingFold ==
  ASSUME NEW S, NEW s \in Seq(S)
  PROVE  Makes(Choosing, NoUnit, s, BestUnit(s))
<1> DEFINE Take(a, x) == IF x.score > a.score THEN x ELSE a
           P(e) == e = [t \in SUBSET DOMAIN s |-> IF t = {} THEN NoUnit ELSE Take(e[t \ {Max(t)}], s[Max(t)])]
           f == CHOOSE e : P(e)
<1>1. \A a, x : Work(Choosing, a, x) = Take(a, x)
  BY DEF Work, Choosing
<1>2. BestUnit(s) = f[DOMAIN s]
  BY DEF BestUnit, FoldLeft, MapThenFoldSet
<1>3. \E e : Fold(Choosing, NoUnit, s, DOMAIN s, e)
  <2>1. DOMAIN s = 1 .. Len(s) /\ Len(s) \in Nat
    OBVIOUS
  <2> QED BY <2>1, FoldExists
<1> HIDE DEF Take
<1>4. \A e : P(e) <=> Fold(Choosing, NoUnit, s, DOMAIN s, e)
  BY <1>1 DEF Fold
<1> HIDE DEF P
<1>5. P(f)
  BY <1>3, <1>4
<1> QED BY <1>2, <1>4, <1>5, FoldMakes

(* It is the first item or one of those that follow, and none is better.    *)
LEMMA Choice ==
  ASSUME NEW S, \A x \in S : x.score \in Int, NEW s \in Seq(S), NEW b, b.score \in Int,
         NEW e, Makes(Choosing, b, s, e)
  PROVE  /\ e.score \in Int /\ b.score <= e.score
         /\ \A i \in DOMAIN s : s[i].score <= e.score
         /\ e = b \/ \E i \in DOMAIN s : e = s[i]
<1> DEFINE n == Len(s)
           Best1(a, k) == /\ a.score \in Int /\ b.score <= a.score
                          /\ \A i \in 1 .. k : s[i].score <= a.score
                          /\ a = b \/ \E i \in 1 .. k : a = s[i]
<1>1. n \in Nat /\ DOMAIN s = 1 .. n /\ \A i \in 1 .. n : s[i].score \in Int
  OBVIOUS
<1>2. PICK g : Path(Choosing, b, s, g) /\ g[n] = e
  BY DEF Makes
<1>3. \A a, x : Work(Choosing, a, x) = IF x.score > a.score THEN x ELSE a
  BY DEF Work, Choosing
<1> HIDE DEF n
<1>4. g[0] = b /\ \A k \in 1 .. n : g[k] = IF s[k].score > g[k - 1].score THEN s[k] ELSE g[k - 1]
  BY <1>2, <1>3 DEF Path, n
<1> DEFINE G == {k \in Nat : k <= n => Best1(g[k], k)}
<1>5. 0 \in G
  BY <1>4
<1>6. ASSUME NEW k \in Nat, k \in G PROVE k + 1 \in G
  <2> SUFFICES ASSUME k + 1 <= n PROVE Best1(g[k + 1], k + 1)
    OBVIOUS
  <2>1. Best1(g[k], k) /\ k + 1 \in 1 .. n /\ (k + 1) - 1 = k
    BY <1>1, <1>6
  <2>2. g[k + 1] = IF s[k + 1].score > g[k].score THEN s[k + 1] ELSE g[k]
    BY <1>4, <2>1
  <2>3. CASE s[k + 1].score > g[k].score
    BY <1>1, <2>1, <2>2, <2>3
  <2>4. CASE ~(s[k + 1].score > g[k].score)
    BY <1>1, <2>1, <2>2, <2>4
  <2> QED BY <2>3, <2>4
<1>7. n \in G
  <2> HIDE DEF G
  <2> QED BY <1>1, <1>5, <1>6, Induction
<1>8. Best1(e, n)
  BY <1>1, <1>2, <1>7
<1> QED BY <1>1, <1>8

(* So the best unit has the highest score of the file, if that is above 0.  *)
LEMMA BestOfFile ==
  ASSUME NEW file, NEW Y, file.units \in Seq([symbol : Y, score : Int])
  PROVE  LET unit == BestUnit(file.units)
         IN  /\ unit.score \in Int /\ Best(file) \in Int
             /\ BetterThanNothing(unit.score) <=> Best(file) > 0
             /\ BetterThanNothing(unit.score) =>
                  unit.score = Best(file) /\ \E i \in DOMAIN file.units : file.units[i] = unit
<1> DEFINE S == [symbol : Y, score : Int]
           s == file.units
           unit == BestUnit(s)
           Top == {s[i].score : i \in DOMAIN s}
<1>1. s \in Seq(S) /\ \A x \in S : x.score \in Int
  OBVIOUS
<1>2. NoUnit.score = 0
  BY DEF NoUnit
<1> HIDE DEF S
<1>3. Makes(Choosing, NoUnit, s, unit)
  BY <1>1, ChoosingFold
<1>4. /\ unit.score \in Int /\ 0 <= unit.score
      /\ \A i \in DOMAIN s : s[i].score <= unit.score
      /\ unit = NoUnit \/ \E i \in DOMAIN s : unit = s[i]
  <2>1. NoUnit.score \in Int
    BY <1>2
  <2> HIDE DEF s, unit
  <2> QED BY <1>1, <1>2, <1>3, <2>1, Choice
<1>5. Best(file) = IF s = <<>> THEN 0 ELSE Max(Top)
  BY DEF Best
<1> HIDE DEF unit
<1>6. CASE s = <<>>
  <2>1. DOMAIN s = {}
    BY <1>6
  <2> HIDE DEF s
  <2> QED BY <1>2, <1>4, <1>5, <1>6, <2>1 DEF BetterThanNothing, unit, s
<1>7. CASE s # <<>>
  <2>1. 1 \in DOMAIN s /\ DOMAIN s = 1 .. Len(s) /\ Len(s) \in Nat
    BY <1>1, <1>7
  <2>2. s[1].score \in Int /\ \A i \in DOMAIN s : s[i].score \in Int
    BY <1>1, <2>1
  <2> HIDE DEF s
  <2>3. PICK f : Fold(Choosing, s[1], s, DOMAIN s, f)
    BY <2>1, FoldExists
  <2>4. Makes(Choosing, s[1], s, f[DOMAIN s])
    BY <1>1, <2>3, FoldMakes
  <2> DEFINE e == f[DOMAIN s]
  <2>5. e.score \in Int /\ (\A i \in DOMAIN s : s[i].score <= e.score) /\ \E i \in DOMAIN s : e = s[i]
    <3>1. Makes(Choosing, s[1], s, e)
      BY <2>4
    <3> HIDE DEF e
    <3> DEFINE b == s[1]
    <3>2. b.score \in Int /\ Makes(Choosing, b, s, e)
      BY <2>1, <2>2, <3>1
    <3>3. b = s[1]
      OBVIOUS
    <3> HIDE DEF b
    <3>4. /\ e.score \in Int /\ \A i \in DOMAIN s : s[i].score <= e.score
          /\ e = b \/ \E i \in DOMAIN s : e = s[i]
      BY <1>1, <3>2, Choice
    <3> QED BY <2>1, <3>3, <3>4
  <2> HIDE DEF e
  <2>6. e.score \in Top /\ \A y \in Top : e.score >= y
    BY <2>2, <2>5
  <2>7. Max(Top) = e.score
    <3>1. \A x \in Top : (\A y \in Top : x >= y) => x = e.score
      <4> SUFFICES ASSUME NEW x \in Top, \A y \in Top : x >= y PROVE x = e.score
        OBVIOUS
      <4>1. x \in Int /\ x <= e.score
        BY <2>2, <2>5
      <4>2. x >= e.score
        <5> HIDE DEF Top
        <5> QED BY <2>6
      <4> QED BY <2>5, <4>1, <4>2
    <3> HIDE DEF Top
    <3> QED BY <2>6, <3>1 DEF Max
  <2>8. Best(file) = e.score
    BY <1>5, <1>7, <2>7
  <2>9. unit.score > 0 => unit.score = e.score /\ \E i \in DOMAIN s : s[i] = unit
    <3> SUFFICES ASSUME unit.score > 0 PROVE unit.score = e.score /\ \E i \in DOMAIN s : s[i] = unit
      OBVIOUS
    <3>1. PICK i \in DOMAIN s : unit = s[i]
      BY <1>2, <1>4
    <3>2. PICK j \in DOMAIN s : e = s[j]
      BY <2>5
    <3>3. unit.score <= e.score /\ e.score <= unit.score
      BY <1>4, <2>5, <3>1, <3>2
    <3> QED BY <1>4, <2>5, <3>1, <3>3
  <2>10. e.score <= unit.score
    BY <1>4, <2>5
  <2> QED BY <1>4, <2>5, <2>8, <2>9, <2>10 DEF BetterThanNothing, unit, s
<1> QED BY <1>6, <1>7

(* What is found in a file, and whether anything is.                        *)
Of(files, p) == Match(p, BestUnit(files[p].units))
Hit(files, p) == files[p].readable /\ BetterThanNothing(BestUnit(files[p].units).score)

(* What is found in a list of files is found in one after the other.        *)
LEMMA MatchingFold ==
  ASSUME NEW S, NEW s \in Seq(S), NEW files
  PROVE  Makes(Matching(files), <<>>, s, Matches(files, s))
<1> DEFINE w == Matching(files)
           Take(a, x) == LET unit == BestUnit(files[x].units)
                         IN  IF files[x].readable /\ BetterThanNothing(unit.score)
                             THEN Append(a, Match(x, unit)) ELSE a
           P(e) == e = [t \in SUBSET DOMAIN s |-> IF t = {} THEN <<>> ELSE Take(e[t \ {Max(t)}], s[Max(t)])]
           f == CHOOSE e : P(e)
<1>1. \A a, x : Work(w, a, x) = Take(a, x)
  BY Zenon DEF Work, Matching
<1>2. Matches(files, s) = f[DOMAIN s]
  BY DEF Matches, FoldLeft, MapThenFoldSet
<1>3. \E e : Fold(w, <<>>, s, DOMAIN s, e)
  <2>1. DOMAIN s = 1 .. Len(s) /\ Len(s) \in Nat
    OBVIOUS
  <2> QED BY <2>1, FoldExists
<1> HIDE DEF w, Take
<1>4. \A e : P(e) <=> Fold(w, <<>>, s, DOMAIN s, e)
  BY <1>1 DEF Fold
<1> HIDE DEF P
<1>5. P(f)
  BY <1>3, <1>4
<1>6. Makes(w, <<>>, s, f[DOMAIN s])
  BY <1>4, <1>5, FoldMakes
<1> QED BY <1>2, <1>6 DEF w

(* Every file that is read and fits is there once, and nothing else.        *)
LEMMA Matched ==
  ASSUME NEW files, NEW read \in Seq(Paths), \A i, j \in DOMAIN read : read[i] = read[j] => i = j
  PROVE  LET ms == Matches(files, read)
         IN  /\ ms \in Seq({Of(files, p) : p \in Paths}) /\ Listed(ms)
             /\ \A e : (\E i \in DOMAIN ms : e = ms[i])
                       <=> \E i \in DOMAIN read : Hit(files, read[i]) /\ e = Of(files, read[i])
<1> DEFINE n == Len(read)
           E == {Of(files, p) : p \in Paths}
           Take(a, x) == IF Hit(files, x) THEN Append(a, Of(files, x)) ELSE a
           Has(a, e) == \E i \in DOMAIN a : e = a[i]
           So(k, e) == \E i \in 1 .. k : Hit(files, read[i]) /\ e = Of(files, read[i])
           Good(a, k) == a \in Seq(E) /\ Listed(a) /\ \A e : Has(a, e) <=> So(k, e)
<1>1. /\ n \in Nat /\ DOMAIN read = 1 .. n /\ \A i \in 1 .. n : read[i] \in Paths
      /\ \A i, j \in 1 .. n : read[i] = read[j] => i = j
  OBVIOUS
<1>2. PICK g : Path(Matching(files), <<>>, read, g) /\ g[Len(read)] = Matches(files, read)
  BY MatchingFold DEF Makes
<1>3. \A a, x : Work(Matching(files), a, x) = Take(a, x)
  BY Zenon DEF Work, Matching, Of, Hit
<1>4. \A p : Of(files, p).path = p
  BY DEF Of, Match
<1> HIDE DEF n, Take, E
<1>5. g[0] = <<>> /\ \A k \in 1 .. n : g[k] = Take(g[k - 1], read[k])
  BY <1>2, <1>3 DEF Path, n
<1> DEFINE G == {k \in Nat : k <= n => Good(g[k], k)}
<1>6. 0 \in G
  <2>1. <<>> \in Seq(E) /\ Listed(<<>>)
    BY DEF Listed
  <2>2. \A e : ~Has(<<>>, e) /\ ~So(0, e)
    OBVIOUS
  <2> HIDE DEF Has, So
  <2> QED BY <1>5, <2>1, <2>2, Zenon
<1>7. ASSUME NEW k \in Nat, k \in G PROVE k + 1 \in G
  <2> SUFFICES ASSUME k + 1 <= n PROVE Good(g[k + 1], k + 1)
    OBVIOUS
  <2> DEFINE a == g[k]
             p == read[k + 1]
             x == Of(files, p)
             b == Append(a, x)
  <2>1. Good(a, k) /\ k + 1 \in 1 .. n /\ (k + 1) - 1 = k
    BY <1>1, <1>7
  <2>2. g[k + 1] = Take(a, p)
    BY <1>5, <2>1
  <2>3. p \in Paths /\ x \in E /\ x.path = p
    BY <1>1, <1>4, <2>1 DEF E
  <2>4. ASSUME NEW e PROVE So(k + 1, e) <=> So(k, e) \/ (Hit(files, p) /\ e = x)
    <3>1. \A i : i \in 1 .. k + 1 <=> i \in 1 .. k \/ i = k + 1
      OBVIOUS
    <3> QED BY <3>1
  <2> HIDE DEF a, p, So
  <2>5. CASE Hit(files, p)
    <3>1. g[k + 1] = b
      BY <2>2, <2>5 DEF Take
    <3>2. a \in Seq(E) /\ Listed(a) /\ \A e : Has(a, e) <=> So(k, e)
      BY <2>1
    <3>3. \A i \in DOMAIN a : a[i].path # p
      <4> SUFFICES ASSUME NEW i \in DOMAIN a PROVE a[i].path # p
        OBVIOUS
      <4>1. So(k, a[i])
        BY <3>2
      <4>2. PICK j \in 1 .. k : a[i] = Of(files, read[j])
        BY <4>1 DEF So
      <4>3. j \in 1 .. n /\ j # k + 1 /\ read[j] # read[k + 1]
        BY <1>1, <2>1, <4>2
      <4>4. a[i].path = read[j]
        BY <1>4, <4>2
      <4> QED BY <4>3, <4>4 DEF p
    <3> HIDE DEF x
    <3>4. /\ b \in Seq(E) /\ Len(b) = Len(a) + 1 /\ DOMAIN b = 1 .. Len(a) + 1
          /\ DOMAIN a = 1 .. Len(a) /\ Len(a) \in Nat
          /\ b[Len(a) + 1] = x /\ \A i \in 1 .. Len(a) : b[i] = a[i]
      BY <2>3, <3>2
    <3> HIDE DEF b
    <3>5. Listed(b)
      <4> SUFFICES ASSUME NEW i \in DOMAIN b, NEW j \in DOMAIN b, b[i].path = b[j].path PROVE i = j
        BY DEF Listed
      <4>1. (i \in DOMAIN a /\ b[i] = a[i]) \/ (i = Len(a) + 1 /\ b[i] = x)
        BY <3>4
      <4>2. (j \in DOMAIN a /\ b[j] = a[j]) \/ (j = Len(a) + 1 /\ b[j] = x)
        BY <3>4
      <4> QED BY <2>3, <3>2, <3>3, <4>1, <4>2 DEF Listed
    <3>6. ASSUME NEW e PROVE Has(b, e) <=> Has(a, e) \/ e = x
      <4>1. \A i : i \in DOMAIN b <=> i \in DOMAIN a \/ i = Len(a) + 1
        BY <3>4
      <4> QED BY <3>4, <4>1
    <3> HIDE DEF Has
    <3> QED BY <2>4, <2>5, <3>1, <3>2, <3>4, <3>5, <3>6
  <2>6. CASE ~Hit(files, p)
    <3>1. g[k + 1] = a
      BY <2>2, <2>6 DEF Take
    <3> HIDE DEF Has
    <3> QED BY <2>1, <2>4, <2>6, <3>1
  <2> QED BY <2>5, <2>6
<1>8. n \in G
  <2> HIDE DEF G
  <2> QED BY <1>1, <1>6, <1>7, Induction
<1>9. Good(Matches(files, read), n)
  <2>1. g[n] = Matches(files, read)
    BY <1>2 DEF n
  <2> HIDE DEF Good
  <2>2. Good(g[n], n)
    BY <1>1, <1>8
  <2> QED BY <2>1, <2>2
<1> QED BY <1>1, <1>9 DEF E

(* Its path and its score are numbers.                                      *)
LEMMA MatchesAreMeasured ==
  ASSUME NEW files, NEW Y, Sourced(files, Y)
  PROVE  \A e \in {Of(files, p) : p \in Paths} : e.path \in Int /\ e.score \in Int
<1> SUFFICES ASSUME NEW p \in Paths PROVE Of(files, p).path \in Int /\ Of(files, p).score \in Int
  OBVIOUS
<1> DEFINE file == files[p]
           unit == BestUnit(file.units)
<1>1. p \in Int /\ file.units \in Seq([symbol : Y, score : Int])
  BY RepositoryAssumption DEF Sourced
<1> HIDE DEF file
<1>2. unit.score \in Int
  BY <1>1, BestOfFile
<1>3. Of(files, p) = Match(p, unit)
  BY Zenon DEF Of, file
<1> HIDE DEF unit
<1> QED BY <1>1, <1>2, <1>3 DEF Match

(* Hits are as many as were asked for or, if that is less, as were found.   *)
LEMMA Smaller ==
  ASSUME NEW a \in Int, NEW b \in Int
  PROVE  Min({a, b}) = IF a <= b THEN a ELSE b
<1> DEFINE m == IF a <= b THEN a ELSE b
<1>1. m \in {a, b} /\ \A y \in {a, b} : m <= y
  OBVIOUS
<1>2. \A x \in {a, b} : (\A y \in {a, b} : x <= y) => x = m
  OBVIOUS
<1> HIDE DEF m
<1>3. Min({a, b}) = m
  BY <1>1, <1>2 DEF Min
<1> QED BY <1>3 DEF m

(* What is found, in order: every file that is found, once.                 *)
LEMMA Ranked ==
  ASSUME NEW files, NEW Y, Sourced(files, Y), NEW paths, Listing(paths)
  PROVE  LET ranked == InOrder(Matches(files, Prioritise(files, paths)))
         IN  /\ ranked \in Seq({Of(files, p) : p \in Paths}) /\ Listed(ranked) /\ Ordered(ranked)
             /\ \A i \in DOMAIN ranked :
                  /\ ranked[i] = Of(files, ranked[i].path) /\ ranked[i].path \in Found(files)
                  /\ ranked[i].score = Best(files[ranked[i].path])
             /\ \A p \in Found(files) : \E i \in DOMAIN ranked : ranked[i].path = p
<1> DEFINE E == {Of(files, p) : p \in Paths}
           read == Prioritise(files, paths)
           ms == Matches(files, read)
           ranked == InOrder(ms)
<1>1. /\ read \in Seq(Paths)
      /\ \A i, j \in DOMAIN read : read[i] = read[j] => i = j
      /\ \A p : (\E i \in DOMAIN read : read[i] = p) <=> p \in Chosen(files)
  BY ChosenAreRead
<1> HIDE DEF read
<1>2. /\ ms \in Seq(E) /\ Listed(ms)
      /\ \A e : (\E i \in DOMAIN ms : e = ms[i])
                <=> \E i \in DOMAIN read : Hit(files, read[i]) /\ e = Of(files, read[i])
  BY <1>1, Matched
<1> HIDE DEF ms
<1>3. ASSUME NEW p \in Paths
      PROVE  /\ Of(files, p).path = p /\ p \in Int /\ Of(files, p).score \in Int
             /\ Hit(files, p) <=> files[p].readable /\ Best(files[p]) > 0
             /\ Hit(files, p) => Of(files, p).score = Best(files[p])
  <2> DEFINE file == files[p]
             unit == BestUnit(file.units)
  <2>1. p \in Int /\ file.units \in Seq([symbol : Y, score : Int])
    BY RepositoryAssumption DEF Sourced
  <2> HIDE DEF file
  <2>2. /\ unit.score \in Int /\ Best(file) \in Int
        /\ BetterThanNothing(unit.score) <=> Best(file) > 0
        /\ BetterThanNothing(unit.score) => unit.score = Best(file)
    BY <2>1, BestOfFile
  <2>3. Of(files, p) = Match(p, unit)
    BY Zenon DEF Of, file
  <2>4. Hit(files, p) <=> file.readable /\ BetterThanNothing(unit.score)
    BY Zenon DEF Hit, file
  <2> HIDE DEF unit
  <2>5. Of(files, p).path = p /\ Of(files, p).score = unit.score
    BY <2>3 DEF Match
  <2> QED BY <2>1, <2>2, <2>4, <2>5 DEF file
<1>4. \A e \in E : e.path \in Int /\ e.score \in Int
  BY <1>3
<1> HIDE DEF E
<1>5. /\ ranked \in Seq(E) /\ Listed(ranked) /\ Ordered(ranked)
      /\ \A e : (\E i \in DOMAIN ranked : e = ranked[i]) <=> (\E i \in DOMAIN ms : e = ms[i])
  BY <1>2, <1>4, InOrderIs
<1> HIDE DEF ranked
<1>6. \A p : p \in Found(files) <=> p \in Paths /\ p \in Chosen(files) /\ Hit(files, p)
  <2>1. \A p \in Chosen(files) : p \in Paths
    BY DEF Chosen
  <2> QED BY <1>3, <2>1 DEF Found
<1>7. ASSUME NEW i \in DOMAIN ranked
      PROVE  /\ ranked[i] = Of(files, ranked[i].path) /\ ranked[i].path \in Found(files)
             /\ ranked[i].score = Best(files[ranked[i].path])
  <2>1. PICK j \in DOMAIN read : Hit(files, read[j]) /\ ranked[i] = Of(files, read[j])
    BY <1>2, <1>5
  <2>2. read[j] \in Paths /\ read[j] \in Chosen(files)
    BY <1>1
  <2> QED BY <1>3, <1>6, <2>1, <2>2
<1>8. ASSUME NEW p \in Found(files) PROVE \E i \in DOMAIN ranked : ranked[i].path = p
  <2>1. p \in Paths /\ p \in Chosen(files) /\ Hit(files, p)
    BY <1>6
  <2>2. PICK j \in DOMAIN read : read[j] = p
    BY <1>1, <2>1
  <2>3. PICK i \in DOMAIN ranked : Of(files, p) = ranked[i]
    BY <1>2, <1>5, <2>1, <2>2
  <2> QED BY <1>3, <2>1, <2>3
<1> QED BY <1>5, <1>7, <1>8 DEF E, ranked, ms, read

(* A search finds what there is to find, for any files, however their       *)
(* directory is listed and however many hits are asked for.                 *)
THEOREM SearchFindsTheBest ==
  ASSUME NEW files, NEW Y, Sourced(files, Y), NEW paths, Listing(paths), NEW k \in Nat
  PROVE  TheBest(files, k, Search(files, paths, k))
<1> DEFINE E == {Of(files, p) : p \in Paths}
           ranked == InOrder(Matches(files, Prioritise(files, paths)))
           n == Len(ranked)
           m == Min({k, n})
           hits == Search(files, paths, k)
<1>1. /\ ranked \in Seq(E) /\ Listed(ranked) /\ Ordered(ranked)
      /\ \A i \in DOMAIN ranked :
           /\ ranked[i] = Of(files, ranked[i].path) /\ ranked[i].path \in Found(files)
           /\ ranked[i].score = Best(files[ranked[i].path])
      /\ \A p \in Found(files) : \E i \in DOMAIN ranked : ranked[i].path = p
  BY Ranked
<1>2. hits = [i \in 1 .. m |-> Rounded(ranked[i])]
  BY Zenon DEF Search
<1> HIDE DEF ranked, hits
<1>3. n \in Nat /\ DOMAIN ranked = 1 .. n
  BY <1>1
<1>4. Cardinality(Found(files)) = n
  <2>1. 1 .. n \subseteq DOMAIN ranked
    BY <1>3
  <2>2. \A q : q \in Found(files) <=> \E i \in 1 .. n : q = ranked[i].path
    BY <1>1, <1>3
  <2> HIDE DEF n
  <2> QED BY <1>1, <1>3, <2>1, <2>2, FilesOf
<1>5. m = (IF k <= n THEN k ELSE n)
  <2> HIDE DEF n
  <2> QED BY <1>3, Smaller
<1>6. m = Min({k, Cardinality(Found(files))})
  BY <1>4
<1> HIDE DEF m, n
<1>7. m \in Nat /\ m <= n
  BY <1>3, <1>5
<1>8. Len(hits) = m /\ DOMAIN hits = 1 .. m /\ \A i \in 1 .. m : hits[i] = Rounded(ranked[i])
  <2>1. \A i \in 1 .. m : hits[i] = Rounded(ranked[i])
    BY <1>2, Zenon
  <2>2. DOMAIN hits = 1 .. m
    BY <1>2
  <2> QED BY <1>2, <1>7, <2>1, <2>2
<1>9. \A e \in E : e.path \in Int /\ e.score \in Int
  BY MatchesAreMeasured
<1> HIDE DEF E
<1>10. ASSUME NEW i \in 1 .. m
       PROVE  LET file == files[hits[i].path]
              IN  /\ hits[i].path \in Found(files) /\ Place(files, hits[i].path) = i
                  /\ hits[i].score = Best(file) \div Resolution
                  /\ \E u \in DOMAIN file.units :
                       file.units[u].symbol = hits[i].symbol /\ file.units[u].score = Best(file)
  <2> DEFINE p == ranked[i].path
             file == files[p]
             unit == BestUnit(file.units)
  <2>1. /\ i \in 1 .. n /\ i \in DOMAIN ranked /\ hits[i] = Rounded(ranked[i])
        /\ ranked[i] = Of(files, p) /\ p \in Found(files) /\ ranked[i].score = Best(file)
    BY <1>1, <1>3, <1>7, <1>8
  <2>2. p \in Paths /\ Best(file) > 0
    BY <2>1 DEF Found, Chosen
  <2>3. ranked[i] = Match(p, unit)
    BY <2>1, Zenon DEF Of
  <2> HIDE DEF p, unit
  <2>4. unit.score = Best(file)
    BY <2>1, <2>3 DEF Match
  <2>5. /\ hits[i].path = p /\ hits[i].symbol = unit.symbol
        /\ hits[i].score = Best(file) \div Resolution
    BY <2>1, <2>3, <2>4 DEF Match, Rounded
  <2>6. \E u \in DOMAIN file.units : file.units[u] = unit
    <3>1. file.units \in Seq([symbol : Y, score : Int]) /\ BetterThanNothing(unit.score)
      BY <2>2, <2>4 DEF Sourced, BetterThanNothing
    <3> HIDE DEF file
    <3> QED BY <3>1, BestOfFile DEF unit
  <2>7. Place(files, p) = i
    <3> DEFINE P == {q \in Found(files) : Ahead(Best(files[q]), q, Best(files[p]), p)}
    <3>1. ASSUME NEW q
          PROVE  q \in P <=> \E j \in 1 .. Len(ranked) : q = ranked[j].path /\ ByScoreThenPath(ranked[j], ranked[i])
      <4>1. ASSUME NEW j \in 1 .. n
            PROVE  ByScoreThenPath(ranked[j], ranked[i]) <=> ranked[j].path \in P
        <5>1. /\ ranked[j].path \in Found(files) /\ ranked[j].score = Best(files[ranked[j].path])
          BY <1>1, <1>3
        <5> QED BY <2>1, <5>1 DEF ByScoreThenPath, p
      <4>2. q \in P => q \in Found(files)
        OBVIOUS
      <4> HIDE DEF P
      <4> QED BY <1>1, <1>3, <4>1, <4>2 DEF n
    <3>2. Place(files, p) = Cardinality(P) + 1
      BY DEF Place
    <3> HIDE DEF P
    <3>3. Cardinality(P) = i - 1
      BY <1>1, <1>9, <2>1, <3>1, PlacedAt DEF n
    <3> QED BY <2>1, <3>2, <3>3
  <2>8. \E u \in DOMAIN file.units :
          file.units[u].symbol = hits[i].symbol /\ file.units[u].score = Best(file)
    <3> HIDE DEF file
    <3> QED BY <2>4, <2>5, <2>6
  <2> HIDE DEF file
  <2>9. files[hits[i].path] = file
    BY <2>5 DEF file
  <2>10. hits[i].path \in Found(files) /\ Place(files, hits[i].path) = i
    BY <2>1, <2>5, <2>7, Zenon
  <2>11. hits[i].score = Best(files[hits[i].path]) \div Resolution
    BY <2>5, <2>9, Zenon
  <2>12. \E u \in DOMAIN files[hits[i].path].units :
           /\ files[hits[i].path].units[u].symbol = hits[i].symbol
           /\ files[hits[i].path].units[u].score = Best(files[hits[i].path])
    BY <2>8, <2>9, Zenon
  <2> QED BY <2>10, <2>11, <2>12
<1>11. TheBest(files, k, hits)
  BY <1>6, <1>8, <1>10, Zenon DEF TheBest
<1> QED BY <1>11 DEF hits

(* Lists in which nothing is named twice.                                   *)
Unique(list) == \A i, j \in DOMAIN list : Key(list[i]) = Key(list[j]) => i = j
Names(list, h) == \E i \in DOMAIN list : Key(list[i]) = Key(h)

(* Offers are made one after the other.                                     *)
LEMMA OfferingFold ==
  ASSUME NEW S, NEW s \in Seq(S), NEW b
  PROVE  Makes(Offering, b, s, FoldLeft(Offer, b, s))
<1> DEFINE P(e) == e = [t \in SUBSET DOMAIN s |-> IF t = {} THEN b ELSE Offer(e[t \ {Max(t)}], s[Max(t)])]
           f == CHOOSE e : P(e)
<1>1. \A a, x : Work(Offering, a, x) = Offer(a, x)
  BY Zenon DEF Work, Offering
<1>2. FoldLeft(Offer, b, s) = f[DOMAIN s]
  BY DEF FoldLeft, MapThenFoldSet
<1>3. \E e : Fold(Offering, b, s, DOMAIN s, e)
  <2>1. DOMAIN s = 1 .. Len(s) /\ Len(s) \in Nat
    OBVIOUS
  <2> QED BY <2>1, FoldExists
<1>4. \A e : P(e) <=> Fold(Offering, b, s, DOMAIN s, e)
  BY <1>1 DEF Fold
<1> HIDE DEF P
<1>5. P(f)
  BY <1>3, <1>4
<1> QED BY <1>2, <1>4, <1>5, FoldMakes

(* One is offered to such a list.                                           *)
LEMMA OneOffer ==
  ASSUME NEW H, NEW list \in Seq(H), NEW h \in H, Unique(list), Len(list) <= MaxCandidates
  PROVE  LET new == Offer(list, h)
         IN  /\ new \in Seq(H) /\ Unique(new) /\ Len(list) <= Len(new) /\ Len(new) <= MaxCandidates
             /\ \A i \in DOMAIN list : i \in DOMAIN new /\ new[i] = list[i]
             /\ Len(new) < MaxCandidates => Names(new, h)
<1> DEFINE n == Len(list)
           new == Offer(list, h)
<1>1. n \in Nat /\ DOMAIN list = 1 .. n /\ MaxCandidates \in Nat
  BY BoundsAssumption
<1>2. new = IF n >= MaxCandidates \/ Names(list, h) THEN list ELSE Append(list, h)
  BY Zenon DEF Offer, Names
<1>3. CASE n >= MaxCandidates \/ Names(list, h)
  <2>1. new = list
    BY <1>2, <1>3
  <2> HIDE DEF new
  <2> QED BY <1>1, <1>3, <2>1 DEF new
<1>4. CASE ~(n >= MaxCandidates \/ Names(list, h))
  <2> DEFINE b == Append(list, h)
  <2>1. new = b
    BY <1>2, <1>4
  <2>2. /\ b \in Seq(H) /\ Len(b) = n + 1 /\ DOMAIN b = 1 .. n + 1
        /\ b[n + 1] = h /\ \A i \in 1 .. n : b[i] = list[i]
    OBVIOUS
  <2> HIDE DEF b, new, n
  <2>3. Unique(b)
    <3> SUFFICES ASSUME NEW i \in DOMAIN b, NEW j \in DOMAIN b, Key(b[i]) = Key(b[j]) PROVE i = j
      BY DEF Unique
    <3>1. (i \in DOMAIN list /\ b[i] = list[i]) \/ (i = n + 1 /\ b[i] = h)
      BY <1>1, <2>2
    <3>2. (j \in DOMAIN list /\ b[j] = list[j]) \/ (j = n + 1 /\ b[j] = h)
      BY <1>1, <2>2
    <3>3. \A x \in DOMAIN list : Key(list[x]) # Key(h)
      BY <1>4 DEF Names
    <3> QED BY <3>1, <3>2, <3>3 DEF Unique
  <2>4. Names(b, h)
    <3>1. n + 1 \in DOMAIN b
      BY <1>1, <2>2
    <3> QED BY <2>2, <3>1 DEF Names
  <2> QED BY <1>1, <1>4, <2>1, <2>2, <2>3, <2>4 DEF new, n
<1> QED BY <1>3, <1>4

(* All are, one after the other: nothing is lost while there is room.       *)
LEMMA Offered ==
  ASSUME NEW H, NEW b \in Seq(H), NEW s \in Seq(H), Unique(b), Len(b) <= MaxCandidates
  PROVE  LET e == FoldLeft(Offer, b, s)
         IN  /\ e \in Seq(H) /\ Unique(e) /\ Len(b) <= Len(e) /\ Len(e) <= MaxCandidates
             /\ \A i \in DOMAIN b : e[i] = b[i]
             /\ Len(e) < MaxCandidates => \A i \in DOMAIN s : Names(e, s[i])
<1> DEFINE n == Len(s)
           Full(a) == Len(a) >= MaxCandidates
           Good(a, k) == /\ a \in Seq(H) /\ Unique(a) /\ Len(b) <= Len(a) /\ Len(a) <= MaxCandidates
                         /\ \A i \in DOMAIN b : a[i] = b[i]
                         /\ ~Full(a) => \A i \in 1 .. k : Names(a, s[i])
<1>1. n \in Nat /\ DOMAIN s = 1 .. n /\ (\A i \in 1 .. n : s[i] \in H) /\ MaxCandidates \in Nat
  BY BoundsAssumption
<1>2. PICK g : Path(Offering, b, s, g) /\ g[Len(s)] = FoldLeft(Offer, b, s)
  BY OfferingFold DEF Makes
<1>3. \A a, x : Work(Offering, a, x) = Offer(a, x)
  BY Zenon DEF Work, Offering
<1> HIDE DEF n
<1>4. g[0] = b /\ \A k \in 1 .. n : g[k] = Offer(g[k - 1], s[k])
  BY <1>2, <1>3 DEF Path, n
<1> DEFINE G == {k \in Nat : k <= n => Good(g[k], k)}
<1>5. 0 \in G
  BY <1>4
<1>6. ASSUME NEW k \in Nat, k \in G PROVE k + 1 \in G
  <2> SUFFICES ASSUME k + 1 <= n PROVE Good(g[k + 1], k + 1)
    OBVIOUS
  <2> DEFINE a == g[k]
             h == s[k + 1]
             new == Offer(a, h)
  <2>1. Good(a, k) /\ k + 1 \in 1 .. n /\ (k + 1) - 1 = k /\ h \in H
    BY <1>1, <1>6
  <2>2. g[k + 1] = new
    BY <1>4, <2>1
  <2> HIDE DEF a, h
  <2>3. /\ new \in Seq(H) /\ Unique(new) /\ Len(a) <= Len(new) /\ Len(new) <= MaxCandidates
        /\ \A i \in DOMAIN a : i \in DOMAIN new /\ new[i] = a[i]
        /\ Len(new) < MaxCandidates => Names(new, h)
    BY <2>1, OneOffer
  <2> HIDE DEF new
  <2>4. /\ Len(a) \in Nat /\ Len(b) \in Nat /\ Len(new) \in Nat
        /\ DOMAIN b = 1 .. Len(b) /\ DOMAIN a = 1 .. Len(a)
    BY <2>1, <2>3
  <2>5. Len(b) <= Len(new) /\ \A i \in DOMAIN b : new[i] = b[i]
    BY <2>1, <2>3, <2>4
  <2>6. ASSUME ~Full(new), NEW i \in 1 .. k + 1 PROVE Names(new, s[i])
    <3>1. CASE i = k + 1
      BY <1>1, <2>3, <2>4, <2>6, <3>1 DEF h
    <3>2. CASE i # k + 1
      <4>1. i \in 1 .. k /\ ~Full(a)
        BY <1>1, <2>3, <2>4, <2>6, <3>2
      <4>2. Names(a, s[i])
        BY <2>1, <4>1
      <4> QED BY <2>3, <4>2 DEF Names
    <3> QED BY <3>1, <3>2
  <2> QED BY <2>2, <2>3, <2>5, <2>6
<1>7. n \in G
  <2> HIDE DEF G
  <2> QED BY <1>1, <1>5, <1>6, Induction
<1>8. Good(g[n], n)
  <2> HIDE DEF Good
  <2> QED BY <1>1, <1>7
<1>10. g[n] = FoldLeft(Offer, b, s)
  BY <1>2 DEF n
<1> DEFINE e == FoldLeft(Offer, b, s)
<1> HIDE DEF e
<1>11. Good(e, n)
  BY <1>8, <1>10 DEF e
<1>9. Len(e) \in Nat
  BY <1>11
<1> QED BY <1>1, <1>11, <1>9 DEF e

(* A list without doubles, all of whose names another has, is not longer.   *)
LEMMA NotLonger ==
  ASSUME NEW H, NEW c \in Seq(H), NEW e \in Seq(H), Unique(c), \A i \in DOMAIN c : Names(e, c[i])
  PROVE  Len(c) <= Len(e)
<1> DEFINE C == 1 .. Len(c)
           D == 1 .. Len(e)
           f == [i \in C |-> CHOOSE j \in D : Key(e[j]) = Key(c[i])]
<1>1. DOMAIN c = C /\ DOMAIN e = D /\ Len(c) \in Nat /\ Len(e) \in Nat
  OBVIOUS
<1>2. \A n \in Nat : IsFiniteSet(1 .. n) /\ Cardinality(1 .. n) = n
  <2> TAKE n \in Nat
  <2> QED BY FS_Interval
<1>3. /\ IsFiniteSet(C) /\ Cardinality(C) = Len(c)
      /\ IsFiniteSet(D) /\ Cardinality(D) = Len(e)
  BY <1>1, <1>2
<1> HIDE DEF C, D
<1>4. \A i \in C : f[i] \in D /\ Key(e[f[i]]) = Key(c[i])
  BY <1>1 DEF Names
<1>5. f \in [C -> D]
  BY <1>4
<1> HIDE DEF f
<1>6. \A i, j \in C : f[i] = f[j] => i = j
  BY <1>1, <1>4 DEF Unique
<1>7. f \in Injection(C, D)
  BY <1>5, <1>6, Fun_IsInj
<1>8. Cardinality(C) <= Cardinality(D)
  BY <1>3, <1>7, FS_Injection
<1> QED BY <1>3, <1>8

(* What is answered starts with the model's choice and names every hit      *)
(* while there is room, each once, whatever was found and chosen.           *)
THEOREM HypothesesNameTheHits ==
  ASSUME NEW E, \A e \in E : e.path \in Int /\ e.score \in Int,
         NEW hits \in Seq(E), Listed(hits), NEW best
  PROVE  Named(best, hits, Localise(best, hits))
<1> DEFINE H == E \cup {best}
           one == <<best>>
           ordered == InOrder(hits)
           c == RankCandidates(hits)
           e == FoldLeft(Offer, one, c)
           all == FoldLeft(Offer, <<>>, ordered)
<1>1. /\ ordered \in Seq(E) /\ Len(ordered) = Len(hits) /\ Ordered(ordered)
      /\ \A x : (\E i \in DOMAIN ordered : x = ordered[i]) <=> (\E i \in DOMAIN hits : x = hits[i])
  BY InOrderIs
<1>2. c = IF hits = <<>> \/ ~BetterThanNothing(Head(ordered).score) THEN <<>> ELSE all
  BY Zenon DEF RankCandidates
<1>3. Localise(best, hits) = e
  BY Zenon DEF Localise
<1> HIDE DEF c, ordered
<1>4. ordered \in Seq(H) /\ hits \in Seq(H)
  BY <1>1
<1>5. <<>> \in Seq(H) /\ Unique(<<>>) /\ Len(<<>>) = 0
  BY DEF Unique
<1>6. MaxCandidates \in Nat /\ 0 <= MaxCandidates /\ 1 <= MaxCandidates
  BY BoundsAssumption
<1>7. /\ one \in Seq(H) /\ Len(one) = 1 /\ one[1] = best /\ DOMAIN one = 1 .. 1
      /\ Unique(one)
  BY DEF Unique
<1> HIDE DEF H, one
<1>8. all \in Seq(H) /\ Unique(all) /\ (Len(all) < MaxCandidates => \A i \in DOMAIN ordered : Names(all, ordered[i]))
  BY <1>4, <1>5, <1>6, Offered
<1> HIDE DEF all
<1>10. c \in Seq(H) /\ Unique(c)
  BY <1>2, <1>5, <1>8
<1>11. /\ e \in Seq(H) /\ Unique(e) /\ Len(one) <= Len(e) /\ Len(e) <= MaxCandidates
       /\ \A i \in DOMAIN one : e[i] = one[i]
       /\ Len(e) < MaxCandidates => \A i \in DOMAIN c : Names(e, c[i])
  BY <1>6, <1>7, <1>10, Offered
<1> HIDE DEF e
<1>9. e[1] = best
  BY <1>7, <1>11
<1>12. IsInjective([i \in DOMAIN e |-> Key(e[i])])
  BY <1>11 DEF IsInjective, Unique
<1>13. ASSUME hits # <<>>, hits[1].score > 0, Len(e) < MaxCandidates, NEW h \in Range(hits)
       PROVE  \E i \in DOMAIN e : Key(e[i]) = Key(h)
  <2>1. BetterThanNothing(Head(ordered).score)
    <3>1. 1 \in DOMAIN hits /\ 1 \in DOMAIN ordered /\ DOMAIN ordered = 1 .. Len(ordered)
      BY <1>1, <1>13
    <3>2. PICK j \in DOMAIN ordered : hits[1] = ordered[j]
      BY <1>1, <3>1
    <3>3. ordered[1].score \in Int /\ ordered[j].score \in Int
      BY <1>1, <3>1, <3>2
    <3>4. j = 1 \/ ByScoreThenPath(ordered[1], ordered[j])
      BY <1>1, <3>1 DEF Ordered
    <3>5. ordered[1].score >= ordered[j].score
      BY <3>3, <3>4 DEF ByScoreThenPath, Ahead
    <3>6. Head(ordered) = ordered[1]
      <4>1. ordered \in Seq(E) /\ ordered # <<>>
        BY <1>1, <3>1
      <4> QED BY <4>1
    <3> QED BY <1>13, <3>2, <3>3, <3>5, <3>6 DEF BetterThanNothing
  <2>2. c = all
    BY <1>2, <1>13, <2>1
  <2>3. Len(c) <= Len(e)
    BY <1>10, <1>11, <1>13, NotLonger
  <2>4. Len(c) \in Nat /\ Len(e) \in Nat
    BY <1>10, <1>11
  <2>5. PICK i \in DOMAIN ordered : h = ordered[i]
    BY <1>1, <1>13 DEF Range
  <2>6. Names(all, h)
    BY <1>6, <1>8, <1>13, <2>2, <2>3, <2>4, <2>5
  <2>7. PICK j \in DOMAIN c : Key(c[j]) = Key(h)
    BY <2>2, <2>6 DEF Names
  <2>8. Names(e, c[j])
    BY <1>11, <1>13, <2>7
  <2> QED BY <2>7, <2>8 DEF Names
<1>14. Named(best, hits, e)
  BY <1>11, <1>9, <1>12, <1>13 DEF Named
<1> QED BY <1>3, <1>14

(* Hits are a list in which no file is twice.                               *)
LEMMA HitsAreListed ==
  ASSUME NEW files, NEW Y, Sourced(files, Y), NEW paths, Listing(paths), NEW k \in Nat
  PROVE  LET hits == Search(files, paths, k)
         IN  \E E : hits \in Seq(E) /\ Listed(hits) /\ \A h \in E : h.path \in Int /\ h.score \in Int
<1> DEFINE ranked == InOrder(Matches(files, Prioritise(files, paths)))
           n == Len(ranked)
           m == Min({k, n})
           hits == Search(files, paths, k)
           E == {hits[i] : i \in 1 .. m}
<1>1. hits = [i \in 1 .. m |-> Rounded(ranked[i])]
  BY Zenon DEF Search
<1>2. TheBest(files, k, hits)
  BY SearchFindsTheBest
<1>3. n \in Nat
  <2>1. ranked \in Seq({Of(files, p) : p \in Paths})
    BY Ranked
  <2> HIDE DEF ranked
  <2> QED BY <2>1
<1> HIDE DEF hits, n
<1>4. m \in Nat
  <2>1. m = IF k <= n THEN k ELSE n
    BY <1>3, Smaller
  <2> QED BY <1>3, <2>1
<1> HIDE DEF m, ranked
<1>5. DOMAIN hits = 1 .. m /\ hits \in [1 .. m -> E]
  <2>1. DOMAIN hits = 1 .. m /\ hits = [i \in 1 .. m |-> hits[i]]
    BY <1>1
  <2> QED BY <2>1
<1>6. hits \in Seq(E)
  <2> HIDE DEF E
  <2> QED BY <1>4, <1>5
<1>7. \A i \in DOMAIN hits :
        /\ hits[i].path \in Found(files) /\ Place(files, hits[i].path) = i
        /\ hits[i].score = Best(files[hits[i].path]) \div Resolution
  BY <1>2 DEF TheBest
<1>8. Listed(hits)
  <2> SUFFICES ASSUME NEW i \in DOMAIN hits, NEW j \in DOMAIN hits, hits[i].path = hits[j].path
               PROVE  i = j
    BY DEF Listed
  <2> QED BY <1>7, Zenon
<1>9. ASSUME NEW i \in 1 .. m PROVE hits[i].path \in Int /\ hits[i].score \in Int
  <2> DEFINE p == hits[i].path
             file == files[p]
  <2>1. p \in Found(files) /\ hits[i].score = Best(file) \div Resolution
    BY <1>5, <1>7
  <2> HIDE DEF p
  <2>2. p \in Paths
    BY <2>1 DEF Found, Chosen
  <2>3. file.units \in Seq([symbol : Y, score : Int])
    BY <2>2 DEF Sourced
  <2> HIDE DEF file
  <2>4. Best(file) \in Int
    BY <2>3, BestOfFile
  <2>5. p \in Int /\ Best(file) \div Resolution \in Int
    BY <2>2, <2>4, BoundsAssumption, RepositoryAssumption
  <2> QED BY <2>1, <2>5 DEF p
<1>10. \A h \in E : h.path \in Int /\ h.score \in Int
  BY <1>9
<1> HIDE DEF E
<1> QED BY <1>6, <1>8, <1>10 DEF hits

(* The searches that are asked for are such searches.                       *)
LEMMA AskedSearches ==
  ASSUME NEW q \in SearchQuestions
  PROVE  \E Y : Sourced(q.files, Y) /\ Listing(q.order) /\ q.k \in Nat
<1> DEFINE Y == {"f", "g"}
           U == [symbol : Y, score : Int]
<1>1. q.files \in [Paths -> Sources] /\ q.order \in SetToSeqs(Paths) /\ q.k \in Tops
  BY DEF SearchQuestions
<1>2. ASSUME NEW u \in Units PROVE u \in Seq(U)
  <2>1. \A s \in Scores : s \in Int
    BY RepositoryAssumption
  <2>2. CASE u = <<>>
    BY <2>2
  <2>3. CASE \E s \in Scores : u = <<[symbol |-> "f", score |-> s]>>
    <3>1. PICK s \in Scores : u = <<[symbol |-> "f", score |-> s]>>
      BY <2>3
    <3> DEFINE a == [symbol |-> "f", score |-> s]
    <3>2. a \in U /\ u = <<a>>
      BY <2>1, <3>1
    <3> HIDE DEF a, U
    <3> QED BY <3>2
  <2>4. CASE \E s, t \in Scores \ {0, 1} :
               u = <<[symbol |-> "f", score |-> s], [symbol |-> "g", score |-> t]>>
    <3>1. PICK s \in Scores \ {0, 1}, t \in Scores \ {0, 1} :
            u = <<[symbol |-> "f", score |-> s], [symbol |-> "g", score |-> t]>>
      BY <2>4
    <3> DEFINE a == [symbol |-> "f", score |-> s]
               b == [symbol |-> "g", score |-> t]
    <3>2. a \in U /\ b \in U /\ u = <<a, b>>
      BY <2>1, <3>1
    <3> HIDE DEF a, b, U
    <3> QED BY <3>2
  <2> HIDE DEF U
  <2> QED BY <2>2, <2>3, <2>4 DEF Units
<1>3. Sourced(q.files, Y)
  <2> SUFFICES ASSUME NEW p \in Paths
               PROVE  q.files[p].relevance \in Int /\ q.files[p].units \in Seq(U)
    BY DEF Sourced
  <2>1. q.files[p] \in Sources
    BY <1>1
  <2>2. <<>> \in Units
    BY DEF Units
  <2> DEFINE x == q.files[p]
  <2> HIDE DEF x
  <2>3. \/ x \in [relevance : {0, 1}, readable : {TRUE}, units : Units]
        \/ x = [relevance |-> 1, readable |-> FALSE, units |-> <<>>]
    BY <2>1, Zenon DEF Sources, x
  <2>4. x.relevance \in {0, 1} /\ x.units \in Units
    <3>1. CASE x = [relevance |-> 1, readable |-> FALSE, units |-> <<>>]
      BY <2>2, <3>1, Zenon
    <3>2. CASE x \in [relevance : {0, 1}, readable : {TRUE}, units : Units]
      BY <3>2
    <3> QED BY <2>3, <3>1, <3>2
  <2>5. q.files[p].relevance \in Int /\ q.files[p].units \in Units
    BY <2>4 DEF x
  <2> HIDE DEF U
  <2> QED BY <1>2, <2>5
<1>4. Listing(q.order)
  <2> DEFINE n == Cardinality(Paths)
             D == 1 .. n
             o == q.order
  <2>1. n \in Nat
    BY RepositoryAssumption, FS_CardinalityType
  <2>2. o \in [D -> Paths] /\ \A i, j \in D : o[i] = o[j] => i = j
    BY <1>1 DEF SetToSeqs
  <2> HIDE DEF o, n
  <2>3. IsFiniteSet(D) /\ Cardinality(D) = n
    BY <2>1, FS_Interval
  <2>4. o \in Seq(Paths) /\ DOMAIN o = D
    BY <2>1, <2>2
  <2> HIDE DEF D
  <2>5. o \in Injection(D, Paths)
    BY <2>2, Fun_IsInj
  <2>6. o \in Surjection(D, Paths)
    BY <2>3, <2>5, RepositoryAssumption, FS_Injection DEF n
  <2>7. \A p \in Paths : \E i \in D : o[i] = p
    BY <2>6, Fun_SurjectionProperties
  <2> QED BY <2>2, <2>4, <2>7 DEF Listing, o
<1>5. q.k \in Nat
  BY <1>1, RepositoryAssumption
<1> QED BY <1>3, <1>4, <1>5

-----------------------------------------------------------------------------
(* What has been answered, and to what.                                     *)
Hits(q) == Search(q.files, q.order, q.k)

Answered ==
  /\ question \in HunkQuestions \cup DiffQuestions \cup SearchQuestions
  /\ \/ answer = NoAnswer
     \/ /\ question.about = "hunks"
        /\ answer = [of |-> "hunks", result |-> ApplyHunks(OldText(question), Numbered(question))]
     \/ /\ question.about = "diff"
        /\ answer = [of |-> "diff",
                      result |-> ParseDiff(Rendered(question.files, question.style) \o question.ending)]
     \/ /\ question.about = "search"
        /\ answer = [of |-> "search", hits |-> Hits(question),
                      hypotheses |-> Localise(question.best, Hits(question))]

(* Answers are answers to the question that was asked.                      *)
LEMMA EveryAnswer == Spec => []Answered
<1>1. Init => Answered
  BY DEF Init, Answered
<1>2. Answered /\ [Next]_vars => Answered'
  <2> SUFFICES ASSUME Answered, [Next]_vars PROVE Answered'
    OBVIOUS
  <2>1. CASE AnswerHunks
    BY <2>1 DEF AnswerHunks, Answered
  <2>2. CASE AnswerDiff
    <3>1. answer' = [of |-> "diff",
                     result |-> ParseDiff(Rendered(question.files, question.style) \o question.ending)]
      BY <2>2, Zenon DEF AnswerDiff
    <3> QED BY <2>2, <3>1 DEF AnswerDiff, Answered
  <2>3. CASE AnswerSearch
    <3>1. answer' = [of |-> "search", hits |-> Hits(question),
                     hypotheses |-> Localise(question.best, Hits(question))]
      BY <2>3, Zenon DEF AnswerSearch, Hits
    <3> QED BY <2>3, <3>1 DEF AnswerSearch, Answered
  <2>4. CASE UNCHANGED vars
    BY <2>4 DEF vars, Answered
  <2> QED BY <2>1, <2>2, <2>3, <2>4 DEF Next
<1> QED BY <1>1, <1>2, PTL DEF Spec

(* "At the hint, else the first exact match": with right line numbers every *)
(* hunk that has old lines lands where it belongs, whatever the text and the*)
(* other hunk, and one of added lines alone lands a line early unless it is *)
(* for the top; with wrong ones a hunk lands where it belongs if its old    *)
(* lines stand in the file once.                                            *)
THEOREM HunksLandWhereMeant == Spec => []HunksLandRight
<1>1. Answered => HunksLandRight
  <2> SUFFICES ASSUME Answered, answer.of = "hunks",
                      \/ question.off = <<0, 0>>
                      \/ /\ Once(OldBlock(question.hunks[1]), OldText(question))
                         /\ Once(OldBlock(question.hunks[2]), HalfWay(question))
               PROVE  answer.result.ok /\ answer.result.out = NewText(question)
    BY DEF HunksLandRight
  <2>1. question \in HunkQuestions /\ answer.result = ApplyHunks(OldText(question), Numbered(question))
    <3>1. question.about = "hunks" /\ answer.result = ApplyHunks(OldText(question), Numbered(question))
      BY DEF Answered, NoAnswer
    <3>2. question \notin DiffQuestions /\ question \notin SearchQuestions
      BY <3>1, AboutDiffs DEF SearchQuestions
    <3> QED BY <3>1, <3>2 DEF Answered
  <2>2. answer.result = Reached(OldText(question), NewText(question))
    BY <2>1, TwoHunks
  <2> QED BY <2>2 DEF Reached
<1> QED BY <1>1, EveryAnswer, PTL

(* "Hunk bodies are consumed by COUNT": what was written is what is read,   *)
(* although a removed or added line may look like the header of a file; and *)
(* a diff that breaks off in a header is refused.                           *)
THEOREM DiffsAreReadBack == Spec => []DiffReadsBack
<1>1. Answered => DiffReadsBack
  <2> SUFFICES ASSUME Answered, answer.of = "diff"
               PROVE  IF question.ending = <<>>
                      THEN ~answer.result.error /\ answer.result.files = question.files
                      ELSE answer.result.error
    BY DEF DiffReadsBack
  <2> DEFINE raws == Rendered(question.files, question.style)
             result == ParseDiff(raws \o question.ending)
  <2>1. question \in DiffQuestions /\ answer.result = result
    <3>1. question.about = "diff" /\ answer.result = result
      <4> HIDE DEF result
      <4> QED BY DEF Answered, NoAnswer, result
    <3>2. question \notin HunkQuestions /\ question \notin SearchQuestions
      BY <3>1 DEF HunkQuestions, SearchQuestions
    <3> QED BY <3>1, <3>2 DEF Answered
  <2>2. /\ question.style \in Styles /\ question.files # <<>>
        /\ question.ending = <<>> \/ question.ending \in CutShort
        /\ \E F : question.files \in Seq(F) /\ \A f \in F : WholeFile(f, Texts)
    BY <2>1, AskedDiffs
  <2>3. PICK F : question.files \in Seq(F) /\ \A f \in F : WholeFile(f, Texts)
    BY <2>2
  <2>4. CASE question.ending = <<>>
    <3>1. ~ParseDiff(raws).error /\ ParseDiff(raws).files = question.files
      BY <2>2, <2>3, DiffsReadBack
    <3>2. PICK S : raws \in Seq(S)
      <4>1. Reads(raws, <<>>, question.files)
        BY <2>2, <2>3, FilesRead
      <4> QED BY <4>1 DEF Reads
    <3> HIDE DEF raws
    <3>3. raws \o <<>> = raws
      BY <3>2
    <3>4. result = ParseDiff(raws)
      BY <2>4, <3>3, Zenon
    <3> HIDE DEF result
    <3> QED BY <2>1, <2>4, <3>1, <3>4, Zenon
  <2>5. CASE question.ending \in CutShort
    <3>1. result.error
      BY <2>2, <2>3, <2>5, DiffsCutShort
    <3>2. question.ending # <<>>
      <4>1. \A x : <<x>> # <<>>
        OBVIOUS
      <4> QED BY <2>5, <4>1, Zenon DEF CutShort
    <3> HIDE DEF raws, result
    <3> QED BY <2>1, <3>1, <3>2, Zenon
  <2> QED BY <2>2, <2>4, <2>5
<1> QED BY <1>1, EveryAnswer, PTL

(* Searches find the best of what could be read, one hit per file and       *)
(* placed by what is in the files alone; the model's choice comes first and *)
(* every hit is named while there is room.                                  *)
THEOREM BestAreFound == Spec => []HitsAreTheBest
<1>1. Answered => HitsAreTheBest
  <2> SUFFICES ASSUME Answered, answer.of = "search"
               PROVE  /\ TheBest(question.files, question.k, answer.hits)
                      /\ Named(question.best, answer.hits, answer.hypotheses)
    BY DEF HitsAreTheBest
  <2> DEFINE hits == Hits(question)
             named == Localise(question.best, hits)
  <2>1. question \in SearchQuestions /\ answer.hits = hits /\ answer.hypotheses = named
    <3>1. question.about = "search" /\ answer.hits = hits /\ answer.hypotheses = named
      <4> HIDE DEF hits, named
      <4> QED BY DEF Answered, NoAnswer, hits, named
    <3>2. question \notin HunkQuestions /\ question \notin DiffQuestions
      BY <3>1, AboutDiffs DEF HunkQuestions
    <3> QED BY <3>1, <3>2 DEF Answered
  <2>2. \E Y : Sourced(question.files, Y) /\ Listing(question.order) /\ question.k \in Nat
    BY <2>1, AskedSearches
  <2>3. PICK Y : Sourced(question.files, Y) /\ Listing(question.order) /\ question.k \in Nat
    BY <2>2
  <2>4. TheBest(question.files, question.k, hits)
    BY <2>3, SearchFindsTheBest DEF Hits
  <2>5. \E E : hits \in Seq(E) /\ Listed(hits) /\ \A h \in E : h.path \in Int /\ h.score \in Int
    BY <2>3, HitsAreListed DEF Hits
  <2>6. PICK E : hits \in Seq(E) /\ Listed(hits) /\ \A h \in E : h.path \in Int /\ h.score \in Int
    BY <2>5
  <2>7. Named(question.best, hits, named)
    BY <2>6, HypothesesNameTheHits
  <2> HIDE DEF hits, named
  <2> QED BY <2>1, <2>4, <2>7
<1> QED BY <1>1, EveryAnswer, PTL
=============================================================================
