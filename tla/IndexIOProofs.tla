--------------------------- MODULE IndexIOProofs ----------------------------
(***************************************************************************)
(* Proofs about the index in memory and its file, for any words, documents *)
(* and counts, any width of int, files that are torn or that someone else  *)
(* has written: an index never has two entries of a word nor two postings  *)
(* for a document, its numbers are ints, its counts are the sums of what   *)
(* was added, a file that is whole loads as the index that was saved, and  *)
(* one that is torn as a part of it.                                       *)
(***************************************************************************)
EXTENDS IndexIO, Lemmas

\* No index is the NULL pointer.
LEMMA NoIndexIsNone == NoIndex \notin Seq(IndexEntries(Words))
<1>1. PICK A, B : A = [docid : 1..IntMax, count : Ints] /\ B = [docid : 1..IntMax, count : Int]
  OBVIOUS
<1>2. Seq(A) \subseteq Seq(B)
  <2>1. A \subseteq B
    BY <1>1 DEF Ints
  <2> QED
    BY <2>1, SeqMonotonic
<1>3. PICK C, D : C = IndexEntries(Words) /\ D = [word : Words, postings : Seq(B)]
  OBVIOUS
<1>4. Seq(C) \subseteq Seq(D)
  <2>1. C \subseteq D
    BY <1>1, <1>2, <1>3 DEF IndexEntries, PostingLists
  <2> QED
    BY <2>1, SeqMonotonic
<1> QED
  BY <1>1, <1>3, <1>4, IndexIOAssumption

-----------------------------------------------------------------------------
(***************************************************************************)
(* The two loops of indexload.                                             *)
(***************************************************************************)
LoadPairs(idx, w, ps) == FoldLeft(LAMBDA i, pair : LoadPair(i, w, pair), idx, ps)

LoadLines(idx, W, f) == FoldLeft(LAMBDA i, line : LoadLine(i, line, W), idx, f)

\* The pairs of a line are loaded one after another; what each keeps they all keep.
LoadsPairs(g, V, w, ps, base) ==
  /\ g[0] = base /\ \A i \in 0..Len(ps) : g[i] \in V
  /\ \A i \in 1..Len(ps) : g[i] = LoadPair(g[i - 1], w, ps[i])
  /\ LoadPairs(base, w, ps) = g[Len(ps)]

\* The fold over the pairs is the last of a sequence of values, from base, a step for each.
LEMMA PairsSteps ==
  ASSUME NEW V, NEW P, NEW w, NEW ps \in Seq(P), NEW base \in V,
         \A v \in V, p \in P : LoadPair(v, w, p) \in V
  PROVE  \E g : LoadsPairs(g, V, w, ps, base)
<1> DEFINE PairFold(f) == f = [t \in SUBSET (DOMAIN ps) |->
             IF t = {} THEN base ELSE LoadPair(f[t \ {Max(t)}], w, ps[Max(t)])]
<1>1. PICK n \in Nat : DOMAIN ps = 1..n /\ Len(ps) = n /\ \A i \in 1..n : ps[i] \in P
  OBVIOUS
<1>2. PICK h : h = [x \in (1..n) \X V |-> LoadPair(x[2], w, ps[x[1]])]
  OBVIOUS
<1>3. h \in [(1..n) \X V -> V] /\ \A i \in 1..n, v \in V : h[<<i, v>>] = LoadPair(v, w, ps[i])
  BY <1>1, <1>2
<1>4. PICK f \in [SUBSET (1..n) -> V] : IsFold(f, n, base, h)
  BY <1>3, FoldExists
<1>5. \E e : PairFold(e)
  <2>1. ASSUME NEW t \in SUBSET (1..n), t # {}
        PROVE  h[<<Max(t), f[t \ {Max(t)}]>>] = LoadPair(f[t \ {Max(t)}], w, ps[Max(t)])
    BY <1>3, <1>4, <2>1, BeforeMax
  <2>2. PairFold(f)
    BY <1>1, <1>4, <2>1 DEF IsFold
  <2> QED
    BY <2>2
<1>6. PICK e : PairFold(e) /\ LoadPairs(base, w, ps) = e[1..n]
  <2>1. LoadPairs(base, w, ps) = (CHOOSE e : PairFold(e))[1..n]
    BY <1>1 DEF LoadPairs, FoldLeft, MapThenFoldSet
  <2> HIDE DEF PairFold
  <2> QED
    BY <1>5, <2>1
<1>7. e[{}] = base
  BY <1>6
<1>8. ASSUME NEW t \in SUBSET (1..n), t # {}, e[t \ {Max(t)}] \in V
       PROVE  e[t] = h[<<Max(t), e[t \ {Max(t)}]>>]
  <2>1. Max(t) \in 1..n
    BY <1>8, BeforeMax
  <2>2. e[t] = LoadPair(e[t \ {Max(t)}], w, ps[Max(t)])
    BY <1>1, <1>6, <1>8
  <2> QED
    BY <1>3, <1>8, <2>1, <2>2
<1>9. PICK g : Runs(g, n, V, base, h, e[1..n])
  BY <1>3, <1>7, <1>8, FoldSteps
<1>10. g[0] = base /\ (\A i \in 0..n : g[i] \in V) /\ g[n] = LoadPairs(base, w, ps)
  BY <1>6, <1>9 DEF Runs
<1>11. ASSUME NEW i \in 1..n PROVE g[i] = LoadPair(g[i - 1], w, ps[i])
  <2>1. i - 1 \in 0..n
    OBVIOUS
  <2>2. g[i] = h[<<i, g[i - 1]>>] /\ g[i - 1] \in V
    BY <1>9, <2>1 DEF Runs
  <2> QED
    BY <1>3, <2>2
<1> QED
  BY <1>1, <1>10, <1>11 DEF LoadsPairs

\* The same for the lines of a file.
LoadsLines(g, V, W, ps, base) ==
  /\ g[0] = base /\ \A i \in 0..Len(ps) : g[i] \in V
  /\ \A i \in 1..Len(ps) : g[i] = LoadLine(g[i - 1], ps[i], W)
  /\ LoadLines(base, W, ps) = g[Len(ps)]

\* The fold over the lines of a file is the last of such a sequence.
LEMMA LinesSteps ==
  ASSUME NEW V, NEW P, NEW W, NEW ps \in Seq(P), NEW base \in V,
         \A v \in V, p \in P : LoadLine(v, p, W) \in V
  PROVE  \E g : LoadsLines(g, V, W, ps, base)
<1> DEFINE LineFold(f) == f = [t \in SUBSET (DOMAIN ps) |->
             IF t = {} THEN base ELSE LoadLine(f[t \ {Max(t)}], ps[Max(t)], W)]
<1>1. PICK n \in Nat : DOMAIN ps = 1..n /\ Len(ps) = n /\ \A i \in 1..n : ps[i] \in P
  OBVIOUS
<1>2. PICK h : h = [x \in (1..n) \X V |-> LoadLine(x[2], ps[x[1]], W)]
  OBVIOUS
<1>3. h \in [(1..n) \X V -> V] /\ \A i \in 1..n, v \in V : h[<<i, v>>] = LoadLine(v, ps[i], W)
  BY <1>1, <1>2
<1>4. PICK f \in [SUBSET (1..n) -> V] : IsFold(f, n, base, h)
  BY <1>3, FoldExists
<1>5. \E e : LineFold(e)
  <2>1. ASSUME NEW t \in SUBSET (1..n), t # {}
        PROVE  h[<<Max(t), f[t \ {Max(t)}]>>] = LoadLine(f[t \ {Max(t)}], ps[Max(t)], W)
    BY <1>3, <1>4, <2>1, BeforeMax
  <2>2. LineFold(f)
    BY <1>1, <1>4, <2>1 DEF IsFold
  <2> QED
    BY <2>2
<1>6. PICK e : LineFold(e) /\ LoadLines(base, W, ps) = e[1..n]
  <2>1. LoadLines(base, W, ps) = (CHOOSE e : LineFold(e))[1..n]
    BY <1>1 DEF LoadLines, FoldLeft, MapThenFoldSet
  <2> HIDE DEF LineFold
  <2> QED
    BY <1>5, <2>1
<1>7. e[{}] = base
  BY <1>6
<1>8. ASSUME NEW t \in SUBSET (1..n), t # {}, e[t \ {Max(t)}] \in V
       PROVE  e[t] = h[<<Max(t), e[t \ {Max(t)}]>>]
  <2>1. Max(t) \in 1..n
    BY <1>8, BeforeMax
  <2>2. e[t] = LoadLine(e[t \ {Max(t)}], ps[Max(t)], W)
    BY <1>1, <1>6, <1>8
  <2> QED
    BY <1>3, <1>8, <2>1, <2>2
<1>9. PICK g : Runs(g, n, V, base, h, e[1..n])
  BY <1>3, <1>7, <1>8, FoldSteps
<1>10. g[0] = base /\ (\A i \in 0..n : g[i] \in V) /\ g[n] = LoadLines(base, W, ps)
  BY <1>6, <1>9 DEF Runs
<1>11. ASSUME NEW i \in 1..n PROVE g[i] = LoadLine(g[i - 1], ps[i], W)
  <2>1. i - 1 \in 0..n
    OBVIOUS
  <2>2. g[i] = h[<<i, g[i - 1]>>] /\ g[i - 1] \in V
    BY <1>9, <2>1 DEF Runs
  <2> QED
    BY <1>3, <2>2
<1> QED
  BY <1>1, <1>10, <1>11 DEF LoadsLines

-----------------------------------------------------------------------------
(***************************************************************************)
(* Files.                                                                  *)
(***************************************************************************)
AllLines == [word : Words \cup OddWords, numbers : Seq(Int)]

\* The pairs of a line are pairs of numbers.
LEMMA PairsType ==
  ASSUME NEW line \in AllLines
  PROVE  Pairs(line) \in Seq(Int \X Int)
<1>1. PICK ns : ns = line.numbers /\ ns \in Seq(Int)
  BY DEF AllLines
<1>2. PICK m : m = Len(ns) \div 2
  OBVIOUS
<1>3. m \in Nat /\ \A j \in 1..m : 2 * j - 1 \in 1..Len(ns) /\ 2 * j \in 1..Len(ns)
  <2>1. Len(ns) \in Nat
    BY <1>1
  <2> QED
    BY <1>2, <2>1
<1>4. \A j \in 1..m : <<ns[2 * j - 1], ns[2 * j]>> \in Int \X Int
  <2> SUFFICES ASSUME NEW j \in 1..m PROVE ns[2 * j - 1] \in Int /\ ns[2 * j] \in Int
    OBVIOUS
  <2>1. PICK a, b : a = 2 * j - 1 /\ b = 2 * j
    OBVIOUS
  <2>2. a \in 1..Len(ns) /\ b \in 1..Len(ns)
    BY <1>3, <2>1
  <2>3. ns[a] \in Int /\ ns[b] \in Int
    BY <1>1, <2>2
  <2> QED
    BY <2>1, <2>3
<1>5. [j \in 1..m |-> <<ns[2 * j - 1], ns[2 * j]>>] \in Seq(Int \X Int)
  BY <1>3, <1>4
<1> QED
  BY <1>1, <1>2, <1>5 DEF Pairs

\* One pair, one line and all lines of a file make an index of an index, or none.
LEMMA LoadPairKeeps ==
  ASSUME NEW idx \in Indexes(Words) \cup {NoIndex}, NEW w \in Words, NEW p \in Int \X Int
  PROVE  LoadPair(idx, w, p) \in Indexes(Words) \cup {NoIndex}
<1>1. PICK d, c : d = ToInt(p[1]) /\ c = ToInt(p[2])
  OBVIOUS
<1>2. d \in Ints /\ c \in Ints
  BY <1>1, ToIntIsInt
<1>3. CASE idx # NoIndex /\ Accepts(d, c)
  <2>1. d \in 1..IntMax /\ c \in 1..IntMax
    BY <1>2, <1>3, IndexAssumption DEF Ints, Accepts
  <2>2. AddPosting(idx, w, d, c) \in Indexes(Words)
    BY <1>3, <2>1, AddPostingAdds
  <2>3. LoadPair(idx, w, p) \in {idx, AddPosting(idx, w, d, c)}
    BY <1>1, <1>3 DEF LoadPair
  <2> QED
    BY <2>2, <2>3
<1>4. CASE ~(idx # NoIndex /\ Accepts(d, c))
  <2>1. LoadPair(idx, w, p) \in {idx, NoIndex}
    BY <1>1, <1>4 DEF LoadPair
  <2> QED
    BY <2>1
<1> QED
  BY <1>3, <1>4

\* A line, of a word or not, keeps the type of an index, or ends the load.
LEMMA LoadLineKeeps ==
  ASSUME NEW idx \in Indexes(Words) \cup {NoIndex}, NEW line \in AllLines
  PROVE  LoadLine(idx, line, Words) \in Indexes(Words) \cup {NoIndex}
<1>1. CASE line.word \notin Words
  <2>1. LoadLine(idx, line, Words) = idx
    BY <1>1 DEF LoadLine
  <2> QED
    BY <2>1
<1>2. CASE line.word \in Words
  <2>1. PICK V, P, w, ps : /\ V = Indexes(Words) \cup {NoIndex} /\ P = Int \X Int
                           /\ w = line.word /\ ps = Pairs(line)
    OBVIOUS
  <2>2. ps \in Seq(P) /\ idx \in V /\ \A v \in V, p \in P : LoadPair(v, w, p) \in V
    BY <1>2, <2>1, PairsType, LoadPairKeeps
  <2>3. LoadPairs(idx, w, ps) \in V
    <3>1. PICK g : LoadsPairs(g, V, w, ps, idx)
      BY <2>2, PairsSteps
    <3>2. Len(ps) \in 0..Len(ps)
      BY <2>2, LenProperties
    <3> QED
      BY <3>1, <3>2 DEF LoadsPairs
  <2>4. LoadLine(idx, line, Words) = LoadPairs(idx, line.word, Pairs(line))
    BY <1>2, Zenon DEF LoadLine, LoadPairs
  <2> QED
    BY <2>1, <2>3, <2>4
<1> QED
  BY <1>1, <1>2

\* So does a file.
LEMMA LoadType ==
  ASSUME NEW f \in Seq(AllLines)
  PROVE  Load(f, Words) \in Indexes(Words) \cup {NoIndex}
<1>1. PICK V, P, W : V = Indexes(Words) \cup {NoIndex} /\ P = AllLines /\ W = Words
  OBVIOUS
<1>2. <<>> \in Indexes(Words)
  BY DEF Indexes, NoDuplicates
<1>3. f \in Seq(P) /\ <<>> \in V /\ \A v \in V, p \in P : LoadLine(v, p, W) \in V
  BY <1>1, <1>2, LoadLineKeeps
<1>4. LoadLines(<<>>, W, f) \in V
  <2>1. PICK g : /\ \A i \in 0..Len(f) : g[i] \in V
                 /\ LoadLines(<<>>, W, f) = g[Len(f)]
    <3>1. PICK base : base = <<>>
      OBVIOUS
    <3>2. base \in V /\ f \in Seq(P)
      BY <1>3, <3>1
    <3>3. \E g : LoadsLines(g, V, W, f, base)
      BY <1>3, <3>2, LinesSteps
    <3> QED
      BY <3>1, <3>3 DEF LoadsLines
  <2>2. Len(f) \in 0..Len(f)
    BY <1>3, LenProperties
  <2> QED
    BY <2>1, <2>2
<1>5. Load(f, Words) = LoadLines(<<>>, Words, f)
  BY Zenon DEF Load, LoadLines
<1> QED
  BY <1>1, <1>4, <1>5


\* What indexsave writes for an entry, and for an index.
LEMMA LineType ==
  ASSUME NEW e \in IndexEntries(Words)
  PROVE  Line(e) \in AllLines
<1>1. e.word \in Words /\ e.postings \in PostingLists
  BY DEF IndexEntries
<1>2. PICK ps : ps = e.postings
  OBVIOUS
<1>3. /\ ps \in PostingLists /\ Len(ps) \in Nat /\ DOMAIN ps = 1..Len(ps)
      /\ \A j \in DOMAIN ps : ps[j].docid \in Int /\ ps[j].count \in Int
  BY <1>1, <1>2, PostingType DEF Ints
<1>4. PICK seqs : seqs = [j \in DOMAIN ps |-> <<ps[j].docid, ps[j].count>>]
  OBVIOUS
<1>5. \A j \in DOMAIN ps : <<ps[j].docid, ps[j].count>> \in Seq(Int)
  <2> SUFFICES ASSUME NEW a \in Int, NEW b \in Int PROVE <<a, b>> \in Seq(Int)
    BY <1>3
  <2> QED
    OBVIOUS
<1>6. seqs \in Seq(Seq(Int))
  BY <1>3, <1>4, <1>5
<1>7. FlattenSeq(seqs) \in Seq(Int)
  BY <1>6, FlattenType
<1>8. Line(e) = [word |-> e.word, numbers |-> FlattenSeq(seqs)]
  BY <1>2, <1>4 DEF Line
<1> QED
  BY <1>1, <1>7, <1>8 DEF AllLines

\* The file of an index has a line for every entry.
LEMMA LinesType ==
  ASSUME NEW idx \in Indexes(Words)
  PROVE  Lines(idx) \in Seq(AllLines) /\ Len(Lines(idx)) = Len(idx) /\ Len(idx) \in Nat
<1>1. idx \in Seq(IndexEntries(Words)) /\ Len(idx) \in Nat /\ DOMAIN idx = 1..Len(idx)
  BY DEF Indexes
<1>2. \A i \in DOMAIN idx : Line(idx[i]) \in AllLines
  BY <1>1, LineType
<1>3. [i \in DOMAIN idx |-> Line(idx[i])] \in Seq(AllLines)
  BY <1>1, <1>2
<1>4. Len([i \in DOMAIN idx |-> Line(idx[i])]) = Len(idx)
  BY <1>1
<1> QED
  BY <1>1, <1>3, <1>4 DEF Lines

\* What is left of a line, and of a file, when the write stops.
LEMMA TornLineType ==
  ASSUME NEW line \in AllLines, NEW part \in TornLines(line, Words, Powers)
  PROVE  part \in AllLines
<1>1. line.word \in Words \cup OddWords /\ line.numbers \in Seq(Int)
  BY DEF AllLines
<1>2. PICK ns : ns = line.numbers /\ ns \in Seq(Int) /\ Len(ns) \in Nat /\ DOMAIN ns = 1..Len(ns)
  BY <1>1
<1>3. CASE part \in {[word |-> w, numbers |-> <<>>] : w \in Words}
  <2>1. PICK none : none = <<>> /\ none \in Seq(Int)
    <3>1. <<>> \in Seq(Int)
      OBVIOUS
    <3> QED
      BY <3>1
  <2>2. PICK w \in Words : part = [word |-> w, numbers |-> none]
    BY <1>3, <2>1
  <2> QED
    BY <2>1, <2>2 DEF AllLines
<1>4. CASE part \in {[line EXCEPT !.numbers = SubSeq(@, 1, k)] : k \in DOMAIN line.numbers}
  <2>1. PICK k \in DOMAIN ns : part = [line EXCEPT !.numbers = SubSeq(ns, 1, k)]
    BY <1>2, <1>4
  <2>2. SubSeq(ns, 1, k) \in Seq(Int)
    BY <1>2
  <2> QED
    BY <2>1, <2>2 DEF AllLines
<1>5. ASSUME NEW B \in Powers,
             part \in {[line EXCEPT !.numbers = Append(SubSeq(@, 1, k - 1), CutNumber(@[k], B))] :
                         k \in {k \in DOMAIN line.numbers : CutNumber(line.numbers[k], B) # 0}}
      PROVE  part \in AllLines
  <2>1. PICK k \in DOMAIN ns :
          part = [line EXCEPT !.numbers = Append(SubSeq(ns, 1, k - 1), CutNumber(ns[k], B))]
    BY <1>2, <1>5
  <2>2. ns[k] \in Int
    BY <1>2
  <2>3. CutNumber(ns[k], B) \in Int
    BY <1>5, <2>2, IndexIOAssumption DEF CutNumber
  <2>4. SubSeq(ns, 1, k - 1) \in Seq(Int)
    BY <1>2
  <2>5. Append(SubSeq(ns, 1, k - 1), CutNumber(ns[k], B)) \in Seq(Int)
    BY <2>3, <2>4
  <2> QED
    BY <2>1, <2>5 DEF AllLines
<1>6. \/ part \in {[word |-> w, numbers |-> <<>>] : w \in Words}
      \/ part \in {[line EXCEPT !.numbers = SubSeq(@, 1, k)] : k \in DOMAIN line.numbers}
      \/ \E B \in Powers :
           part \in {[line EXCEPT !.numbers = Append(SubSeq(@, 1, k - 1), CutNumber(@[k], B))] :
                       k \in {k \in DOMAIN line.numbers : CutNumber(line.numbers[k], B) # 0}}
  BY DEF TornLines
<1> QED
  BY <1>3, <1>4, <1>5, <1>6

\* A file that is torn is a list of lines as well.
LEMMA TornFileType ==
  ASSUME NEW idx \in Indexes(Words), NEW f \in TornFile(idx, [w \in Words |-> Words], Powers)
  PROVE  f \in Seq(AllLines)
<1>1. PICK ls : ls = Lines(idx) /\ ls \in Seq(AllLines) /\ Len(ls) = Len(idx) /\ Len(idx) \in Nat
  BY LinesType
<1>2. \A n \in 0..Len(idx) : SubSeq(ls, 1, n) \in Seq(AllLines)
  BY <1>1
<1>3. CASE f \in {SubSeq(Lines(idx), 1, n) : n \in 0..Len(idx)}
  BY <1>1, <1>2, <1>3
<1>4. CASE f \in UNION {{Append(SubSeq(Lines(idx), 1, n), part) : part \in
                           TornLines(Line(idx[n + 1]), [w \in Words |-> Words][idx[n + 1].word], Powers)} :
                          n \in 0..(Len(idx) - 1)}
  <2>1. PICK n \in 0..(Len(idx) - 1) :
          f \in {Append(SubSeq(Lines(idx), 1, n), part) : part \in
                   TornLines(Line(idx[n + 1]), [w \in Words |-> Words][idx[n + 1].word], Powers)}
    BY <1>4
  <2>2. PICK part \in TornLines(Line(idx[n + 1]), [w \in Words |-> Words][idx[n + 1].word], Powers) :
          f = Append(SubSeq(Lines(idx), 1, n), part)
    BY <2>1
  <2>3. PICK i \in DOMAIN idx : i = n + 1
    BY <1>1, <2>1 DEF Indexes
  <2>4. idx[i] \in IndexEntries(Words) /\ idx[i].word \in Words
    BY EntryType
  <2>5. [w \in Words |-> Words][idx[i].word] = Words /\ Line(idx[i]) \in AllLines
    BY <2>4, LineType
  <2>6. part \in AllLines
    BY <2>2, <2>3, <2>5, TornLineType
  <2>7. n \in 0..Len(idx)
    BY <1>1, <2>1
  <2>8. SubSeq(ls, 1, n) \in Seq(AllLines)
    BY <1>2, <2>7
  <2> QED
    BY <1>1, <2>2, <2>6, <2>8
<1> QED
  BY <1>3, <1>4 DEF TornFile

-----------------------------------------------------------------------------
(***************************************************************************)
(* Loading what was written.                                               *)
(***************************************************************************)
Entry(w, ps) == [word |-> w, postings |-> ps]

\* One more posting for a word whose entry is the last.
LEMMA AddLast ==
  ASSUME NEW acc \in Seq(IndexEntries(Words)), NEW w \in Words, \A i \in DOMAIN acc : acc[i].word # w,
         NEW ps \in PostingLists, NEW d \in 1..IntMax, NEW c \in 1..IntMax, DocAt(ps, d) = {}
  PROVE  /\ AddPosting(Append(acc, Entry(w, ps)), w, d, c) = Append(acc, Entry(w, Append(ps, Posting(d, c))))
         /\ ps = <<>> => AddPosting(acc, w, d, c) = Append(acc, Entry(w, Append(ps, Posting(d, c))))
<1>1. PICK n, x, e, f, y : /\ n = Len(acc) /\ e = Entry(w, ps) /\ x = Append(acc, e)
                           /\ f = Entry(w, Append(ps, Posting(d, c))) /\ y = Append(acc, f)
  OBVIOUS
<1>2. Append(ps, Posting(d, c)) \in PostingLists
  BY IndexAssumption DEF PostingLists, Posting, Ints
<1>3. e \in IndexEntries(Words) /\ f \in IndexEntries(Words) /\ e.word = w /\ e.postings = ps
  BY <1>1, <1>2 DEF IndexEntries, Entry
<1>4. n \in Nat /\ DOMAIN acc = 1..n
  BY <1>1
<1>5. /\ x \in Seq(IndexEntries(Words)) /\ Len(x) = n + 1 /\ DOMAIN x = 1..(n + 1)
      /\ \A i \in 1..n : x[i] = acc[i] /\ x[i].word # w
      /\ x[n + 1] = e
  BY <1>1, <1>3, <1>4, AppendProperties
<1>6. /\ y \in Seq(IndexEntries(Words)) /\ Len(y) = n + 1
      /\ \A i \in 1..n : y[i] = acc[i]
      /\ y[n + 1] = f
  BY <1>1, <1>3, <1>4, AppendProperties
<1>7. PICK z : z = [i \in DOMAIN x |-> IF x[i].word = w THEN [x[i] EXCEPT !.postings = AddToPostings(@, d, c)]
                                       ELSE x[i]]
  OBVIOUS
<1>8. Accepts(d, c)
  BY IndexAssumption DEF Accepts
<1>9. WithEntry(x, w) = x
  <2>1. n + 1 \in WordAt(x, w)
    BY <1>3, <1>4, <1>5 DEF WordAt
  <2> QED
    BY <2>1 DEF WithEntry
<1>10. AddPosting(x, w, d, c) = z
  BY <1>7, <1>8, <1>9 DEF AddPosting
<1>11. ASSUME ps = <<>> PROVE AddPosting(acc, w, d, c) = z
  <2>1. WordAt(acc, w) = {}
    BY DEF WordAt
  <2>2. WithEntry(acc, w) = x
    BY <1>1, <1>11, <2>1 DEF WithEntry, Entry
  <2> QED
    BY <1>7, <1>8, <2>2 DEF AddPosting
<1>12. AddToPostings(ps, d, c) = Append(ps, Posting(d, c))
  BY DEF AddToPostings
<1>13. /\ \A i \in 1..n : z[i] = acc[i]
       /\ z[n + 1] = [e EXCEPT !.postings = Append(ps, Posting(d, c))]
  <2>1. \A i \in 1..n : z[i] = acc[i]
    <3>1. \A i \in 1..n : i \in DOMAIN x
      BY <1>4, <1>5
    <3> QED
      BY <1>5, <1>7, <3>1
  <2>2. n + 1 \in DOMAIN x
    BY <1>4, <1>5
  <2>3. z[n + 1] = [e EXCEPT !.postings = AddToPostings(@, d, c)]
    BY <1>3, <1>5, <1>7, <2>2
  <2> QED
    BY <1>3, <1>12, <2>1, <2>3
<1>14. z[n + 1] = f
  BY <1>1, <1>13 DEF Entry
<1>15. z = y
  <2>1. z \in Seq(IndexEntries(Words)) /\ Len(z) = n + 1
    <3>1. \A i \in 1..(n + 1) : z[i] \in IndexEntries(Words)
      BY <1>3, <1>4, <1>13, <1>14
    <3>2. z = [i \in 1..(n + 1) |-> z[i]]
      BY <1>5, <1>7
    <3> QED
      BY <1>4, <3>1, <3>2
  <2>2. \A i \in 1..(n + 1) : z[i] = y[i]
    BY <1>4, <1>6, <1>13, <1>14
  <2> QED
    BY <1>6, <2>1, <2>2, SeqEqual
<1> QED
  BY <1>1, <1>10, <1>11, <1>15

\* A list of postings up to one of them.
LEMMA PostingPrefix ==
  ASSUME NEW ps \in PostingLists, OneEach(ps), NEW j \in 1..Len(ps), NEW p, p = SubSeq(ps, 1, j - 1)
  PROVE  /\ p \in PostingLists /\ DocAt(p, ps[j].docid) = {} /\ (j = 1 => p = <<>>)
         /\ SubSeq(ps, 1, j) = Append(p, Posting(ps[j].docid, ps[j].count))
<1>1. PICK T : T = [docid : 1..IntMax, count : Ints]
  OBVIOUS
<1>2. ps \in Seq(T) /\ Len(ps) \in Nat /\ DOMAIN ps = 1..Len(ps) /\ ps[j] \in T
  BY <1>1, PostingType DEF PostingLists
<1>3. p \in Seq(T) /\ Len(p) = j - 1 /\ DOMAIN p = 1..(j - 1) /\ \A i \in 1..(j - 1) : p[i] = ps[i]
  BY <1>2
<1>4. ps[j] = Posting(ps[j].docid, ps[j].count)
  BY <1>1, <1>2 DEF Posting
<1>5. SubSeq(ps, 1, j) = Append(p, ps[j])
  BY <1>2, PrefixAppend
<1>6. DocAt(p, ps[j].docid) = {}
  <2> SUFFICES ASSUME NEW i \in DOMAIN p, p[i].docid = ps[j].docid PROVE FALSE
    BY DEF DocAt
  <2>1. i \in 1..(j - 1) /\ ps[i].docid = ps[j].docid
    BY <1>3
  <2>2. i \in DOMAIN ps /\ j \in DOMAIN ps /\ i # j
    BY <1>2, <2>1
  <2> QED
    BY <2>1, <2>2 DEF OneEach
<1>7. j = 1 => p = <<>>
  BY <1>3, EmptySeq
<1> QED
  BY <1>1, <1>3, <1>4, <1>5, <1>6, <1>7 DEF PostingLists

\* Loading a line for a new word appends an entry with its postings.
LineLoaded(y, acc, w, ps) == y = IF ps = <<>> THEN acc ELSE Append(acc, Entry(w, ps))

\* Loading a line for a word that is not in the index appends an entry with the postings.
LEMMA LoadAppends ==
  ASSUME NEW acc \in Indexes(Words), NEW w \in Words, \A i \in DOMAIN acc : acc[i].word # w,
         NEW ps \in PostingLists, OneEach(ps), Positive(ps),
         NEW line, line.word = w, Pairs(line) = PairsOf(ps), NEW y, y = LoadLine(acc, line, Words)
  PROVE  LineLoaded(y, acc, w, ps)
<1>1. PICK n, prs : n = Len(ps) /\ prs = PairsOf(ps)
  OBVIOUS
<1>2. /\ n \in Nat /\ DOMAIN ps = 1..n
      /\ \A j \in 1..n : ps[j].docid \in 1..IntMax /\ ps[j].count \in 1..IntMax
  <2>1. ASSUME NEW x \in Ints, x > 0 PROVE x \in 1..IntMax
    BY <2>1, IndexAssumption DEF Ints
  <2> QED
    BY <1>1, <2>1, PostingType DEF Positive
<1>3. PICK V, P : V = Indexes(Words) \cup {NoIndex} /\ P = Int \X Int
  OBVIOUS
<1>4. prs \in Seq(P) /\ Len(prs) = n /\ \A j \in 1..n : prs[j] = <<ps[j].docid, ps[j].count>>
  <2>1. \A j \in 1..n : <<ps[j].docid, ps[j].count>> \in P
    BY <1>2, <1>3
  <2> QED
    BY <1>1, <1>2, <2>1 DEF PairsOf
<1>5. acc \in V /\ \A v \in V, p \in P : LoadPair(v, w, p) \in V
  BY <1>3, LoadPairKeeps
<1>6. PICK g : LoadsPairs(g, V, w, prs, acc)
  BY <1>4, <1>5, PairsSteps
<1>7. /\ g[0] = acc /\ \A j \in 1..n : g[j] = LoadPair(g[j - 1], w, prs[j])
      /\ LoadPairs(acc, w, prs) = g[n]
  BY <1>4, <1>6 DEF LoadsPairs
<1>8. LoadLine(acc, line, Words) = g[n]
  <2>1. LoadLine(acc, line, Words) = LoadPairs(acc, line.word, Pairs(line))
    BY Zenon DEF LoadLine, LoadPairs
  <2> QED
    BY <1>1, <1>7, <2>1
<1>9. acc \in Seq(IndexEntries(Words))
  BY DEF Indexes
<1> DEFINE R == {j \in Nat : j \in 1..n => g[j] = Append(acc, Entry(w, SubSeq(ps, 1, j)))}
<1>10. 0 \in R
  OBVIOUS
<1>11. ASSUME NEW i \in Nat, i \in R PROVE i + 1 \in R
  <2> SUFFICES ASSUME i + 1 \in 1..n PROVE g[i + 1] = Append(acc, Entry(w, SubSeq(ps, 1, i + 1)))
    OBVIOUS
  <2>1. PICK j, d, c, p : j = i + 1 /\ d = ps[j].docid /\ c = ps[j].count /\ p = SubSeq(ps, 1, j - 1)
    OBVIOUS
  <2>2. j \in 1..Len(ps) /\ j \in 1..n /\ d \in 1..IntMax /\ c \in 1..IntMax /\ j - 1 = i
    BY <1>1, <1>2, <2>1
  <2>3. /\ p \in PostingLists /\ DocAt(p, d) = {} /\ (j = 1 => p = <<>>)
        /\ SubSeq(ps, 1, j) = Append(p, Posting(d, c))
    BY <2>1, <2>2, PostingPrefix, ZenonT(30)
  <2>4. /\ AddPosting(Append(acc, Entry(w, p)), w, d, c) = Append(acc, Entry(w, Append(p, Posting(d, c))))
        /\ p = <<>> => AddPosting(acc, w, d, c) = Append(acc, Entry(w, Append(p, Posting(d, c))))
    BY <1>9, <2>2, <2>3, AddLast
  <2>5. PICK x, pr : x = g[i] /\ pr = prs[j]
    OBVIOUS
  <2>6. AddPosting(x, w, d, c) = Append(acc, Entry(w, SubSeq(ps, 1, j))) /\ x \in Seq(IndexEntries(Words))
    <3>1. CASE i = 0
      <4>1. j = 1 /\ x = acc
        BY <1>7, <2>1, <2>5, <3>1
      <4> QED
        BY <1>9, <2>3, <2>4, <4>1
    <3>2. CASE i # 0
      <4>1. x = Append(acc, Entry(w, p))
        <5>1. i \in 1..n
          BY <1>2, <2>1, <2>2, <3>2
        <5>2. g[i] = Append(acc, Entry(w, SubSeq(ps, 1, i)))
          BY <1>11, <5>1
        <5> QED
          BY <2>1, <2>2, <2>5, <5>2
      <4>2. Entry(w, p) \in IndexEntries(Words)
        BY <2>3 DEF Entry, IndexEntries
      <4> QED
        BY <1>9, <2>3, <2>4, <4>1, <4>2, AppendProperties
    <3> QED
      BY <3>1, <3>2
  <2>7. LoadPair(x, w, pr) = AddPosting(x, w, d, c)
    <3>1. pr = <<d, c>> /\ pr[1] = d /\ pr[2] = c
      BY <1>4, <2>1, <2>2, <2>5
    <3>2. ToInt(d) = d /\ ToInt(c) = c
      <4>1. d \in Ints /\ c \in Ints /\ d \in Int /\ c \in Int
        BY <2>2, IndexAssumption DEF Ints
      <4> QED
        BY <4>1, ToIntIsInt
    <3>3. Accepts(d, c)
      BY <2>2, IndexAssumption DEF Accepts
    <3>4. x # NoIndex
      BY <2>6, NoIndexIsNone
    <3> QED
      BY <3>1, <3>2, <3>3, <3>4 DEF LoadPair
  <2>8. g[j] = LoadPair(x, w, pr)
    BY <1>7, <2>2, <2>5
  <2> QED
    BY <2>1, <2>6, <2>7, <2>8
<1>12. \A j \in Nat : j \in R
  <2> HIDE DEF R
  <2> QED
    BY <1>10, <1>11, SetInduction
<1>13. CASE ps = <<>>
  <2>1. n = 0
    BY <1>1, <1>13
  <2> QED
    BY <1>7, <1>8, <1>13, <2>1 DEF LineLoaded
<1>14. CASE ps # <<>>
  <2>1. n \in 1..n /\ n \in Nat
    <3>1. n # 0
      BY <1>1, <1>14, EmptySeq DEF PostingLists
    <3> QED
      BY <1>2, <3>1
  <2>2. SubSeq(ps, 1, n) = ps
    BY <1>1, SubSeqFull DEF PostingLists
  <2>3. g[n] = Append(acc, Entry(w, SubSeq(ps, 1, n)))
    BY <1>12, <2>1
  <2> QED
    BY <1>8, <1>14, <2>2, <2>3 DEF LineLoaded
<1> QED
  BY <1>13, <1>14

\* The entries of an index with postings, one after another.
Wanted(idx) == {e \in Range(idx) : e.postings # <<>>}

Kept(h, idx) ==
  /\ h[0] = <<>>
  /\ \A i \in 1..Len(idx) : h[i] = IF idx[i] \in Wanted(idx) THEN Append(h[i - 1], idx[i]) ELSE h[i - 1]

\* What comes from the first k entries of an index.
FromFirst(x, idx, k) ==
  x \in Indexes(Words) /\ \A i \in DOMAIN x : \E l \in 1..k : x[i] = idx[l]

NextLoaded(y, x, idx, k) == y = IF idx[k] \in Wanted(idx) THEN Append(x, idx[k]) ELSE x

\* Loading the line of the next entry of an index, when there is none of its word yet.
LEMMA LoadNext ==
  ASSUME NEW idx \in Indexes(Words), ~Overflown(idx), NEW k \in 1..Len(idx),
         NEW x, FromFirst(x, idx, k - 1), NEW y, y = LoadLine(x, Line(idx[k]), Words)
  PROVE  NextLoaded(y, x, idx, k)
<1>1. PICK e, w, ps : e = idx[k] /\ w = e.word /\ ps = e.postings
  OBVIOUS
<1>2. Len(idx) \in Nat /\ DOMAIN idx = 1..Len(idx)
  BY DEF Indexes
<1>3. /\ e \in IndexEntries(Words) /\ w \in Words /\ ps \in PostingLists /\ OneEach(ps)
      /\ \A i \in DOMAIN idx : idx[i].word = w => i = k
  BY <1>1, <1>2, EntryType
<1>4. \A i \in DOMAIN x : x[i].word # w
  <2> SUFFICES ASSUME NEW i \in DOMAIN x, x[i].word = w PROVE FALSE
    OBVIOUS
  <2>1. PICK l \in 1..(k - 1) : x[i] = idx[l]
    BY DEF FromFirst
  <2>2. l \in DOMAIN idx /\ l # k
    BY <1>2
  <2> QED
    BY <1>3, <2>1, <2>2
<1>5. Positive(ps)
  <2> SUFFICES ASSUME NEW j \in DOMAIN ps PROVE ps[j].count > 0
    BY DEF Positive
  <2>1. ~(ps[j].count <= 0)
    BY <1>1, <1>2 DEF Overflown
  <2>2. ps[j].count \in Int
    BY <1>3, PostingType DEF Ints
  <2> QED
    BY <2>1, <2>2
<1>6. PICK line : line = Line(e) /\ line.word = w /\ Pairs(line) = PairsOf(ps)
  BY <1>1, <1>3, LinePairs
<1>7. x \in Indexes(Words)
  BY DEF FromFirst
<1>8. y = IF ps = <<>> THEN x ELSE Append(x, Entry(w, ps))
  <2>1. y = LoadLine(x, line, Words)
    BY <1>1, <1>6
  <2>2. LineLoaded(y, x, w, ps)
    BY <1>3, <1>4, <1>5, <1>6, <1>7, <2>1, LoadAppends
  <2> QED
    BY <2>2 DEF LineLoaded
<1>9. Entry(w, ps) = e
  BY <1>1, <1>3 DEF Entry, IndexEntries
<1>10. e \in Wanted(idx) <=> ps # <<>>
  BY <1>1, <1>2 DEF Wanted, Range
<1> QED
  BY <1>1, <1>8, <1>9, <1>10 DEF NextLoaded

\* Loading the lines of the first entries of an index makes those with postings.
LEMMA LoadsFirst ==
  ASSUME NEW idx \in Indexes(Words), ~Overflown(idx), NEW h, Kept(h, idx),
         NEW f \in Seq(AllLines), NEW n \in 0..Len(idx), n <= Len(f),
         \A i \in 1..n : f[i] = Line(idx[i]),
         NEW V, V = Indexes(Words) \cup {NoIndex}, NEW g, LoadsLines(g, V, Words, f, <<>>)
  PROVE  \A k \in 0..n : g[k] = h[k] /\ FromFirst(g[k], idx, k)
<1>1. Len(idx) \in Nat /\ Len(f) \in Nat /\ n \in Nat /\ DOMAIN idx = 1..Len(idx)
  BY DEF Indexes
<1>2. /\ g[0] = <<>> /\ \A i \in 0..Len(f) : g[i] \in V
      /\ \A i \in 1..Len(f) : g[i] = LoadLine(g[i - 1], f[i], Words)
  BY DEF LoadsLines
<1> DEFINE R == {k \in Nat : k \in 0..n => g[k] = h[k] /\ FromFirst(g[k], idx, k)}
<1>3. 0 \in R
  <2>1. FromFirst(<<>>, idx, 0)
    BY EmptyIndex DEF FromFirst
  <2> QED
    BY <1>2, <2>1 DEF Kept
<1>4. ASSUME NEW i \in Nat, i \in R PROVE i + 1 \in R
  <2> SUFFICES ASSUME i + 1 \in 0..n PROVE g[i + 1] = h[i + 1] /\ FromFirst(g[i + 1], idx, i + 1)
    OBVIOUS
  <2>1. PICK k, x, y, z : k = i + 1 /\ x = g[i] /\ y = g[k] /\ z = idx[k]
    OBVIOUS
  <2>2. k \in 1..Len(idx) /\ k \in 1..Len(f) /\ k \in 0..Len(f) /\ k \in 1..n /\ k - 1 = i
        /\ k \in DOMAIN idx
    BY <1>1, <2>1
  <2>3. x = h[k - 1] /\ FromFirst(x, idx, k - 1)
    BY <1>1, <1>4, <2>1, <2>2
  <2>4. y = LoadLine(x, Line(idx[k]), Words)
    BY <1>2, <2>1, <2>2
  <2>5. y = IF z \in Wanted(idx) THEN Append(x, z) ELSE x
    <3>1. NextLoaded(y, x, idx, k)
      BY <2>2, <2>3, <2>4, LoadNext
    <3> QED
      BY <2>1, <3>1 DEF NextLoaded
  <2>6. y = h[k]
    BY <2>1, <2>2, <2>3, <2>5 DEF Kept
  <2>7. y \in Indexes(Words)
    <3>1. y \in V
      BY <1>2, <2>1, <2>2
    <3>2. x \in Seq(IndexEntries(Words)) /\ z \in IndexEntries(Words)
      BY <2>1, <2>2, <2>3, EntryType DEF FromFirst, Indexes
    <3>3. y \in Seq(IndexEntries(Words))
      BY <2>5, <3>2, AppendProperties
    <3>4. y # NoIndex
      BY <3>3, NoIndexIsNone
    <3> QED
      BY <3>1, <3>4
  <2>8. \A j \in DOMAIN y : \E l \in 1..k : y[j] = idx[l]
    <3>1. \A j \in DOMAIN x : \E l \in 1..k : x[j] = idx[l]
      <4>1. \A l \in 1..(k - 1) : l \in 1..k
        BY <2>2
      <4> QED
        BY <2>3, <4>1 DEF FromFirst
    <3>2. CASE y = x
      BY <3>1, <3>2
    <3>3. CASE y = Append(x, z)
      <4>1. x \in Seq(IndexEntries(Words)) /\ z \in IndexEntries(Words)
        BY <2>1, <2>2, <2>3, EntryType DEF FromFirst, Indexes
      <4>2. /\ Len(x) \in Nat /\ DOMAIN x = 1..Len(x) /\ DOMAIN y = 1..(Len(x) + 1)
            /\ \A j \in 1..Len(x) : y[j] = x[j]
            /\ y[Len(x) + 1] = z
        BY <3>3, <4>1
      <4>3. \A j \in DOMAIN y : j \in DOMAIN x \/ j = Len(x) + 1
        BY <4>2
      <4>4. k \in 1..k
        BY <2>2
      <4> QED
        BY <2>1, <3>1, <4>2, <4>3, <4>4
    <3> QED
      BY <2>5, <3>2, <3>3
  <2> QED
    BY <2>1, <2>6, <2>7, <2>8 DEF FromFirst
<1>5. \A k \in Nat : k \in R
  <2> HIDE DEF R
  <2> QED
    BY <1>3, <1>4, SetInduction
<1> QED
  BY <1>1, <1>5

\* A file that is whole loads as the index without the words that have no posting.
LEMMA WholeLoads ==
  ASSUME NEW idx \in Indexes(Words), ~Overflown(idx)
  PROVE  Load(Lines(idx), Words) = NonEmpty(idx)
<1>1. PICK f, n, T : f = Lines(idx) /\ n = Len(idx) /\ T = Wanted(idx)
  OBVIOUS
<1>2. f \in Seq(AllLines) /\ Len(f) = n /\ n \in Nat /\ \A i \in 1..n : f[i] = Line(idx[i])
  <2>1. DOMAIN idx = 1..Len(idx)
    BY DEF Indexes
  <2> QED
    BY <1>1, <2>1, LinesType DEF Lines
<1>3. PICK V, base : V = Indexes(Words) \cup {NoIndex} /\ base = <<>>
  OBVIOUS
<1>4. base \in V /\ \A v \in V, p \in AllLines : LoadLine(v, p, Words) \in V
  BY <1>3, EmptyIndex, LoadLineKeeps
<1>5. PICK g : LoadsLines(g, V, Words, f, base)
  BY <1>2, <1>4, LinesSteps
<1>6. Load(f, Words) = g[n]
  <2>1. Load(f, Words) = LoadLines(<<>>, Words, f)
    BY Zenon DEF Load, LoadLines
  <2>2. LoadLines(base, Words, f) = g[Len(f)]
    BY <1>5 DEF LoadsLines
  <2> QED
    BY <1>2, <1>3, <2>1, <2>2
<1>7. PICK h : Kept(h, idx) /\ Selected(idx, T) = h[n]
  <2>1. idx \in Seq(IndexEntries(Words))
    BY DEF Indexes
  <2>2. PICK h : /\ h[0] = <<>>
                 /\ \A i \in 1..Len(idx) : h[i] = IF idx[i] \in T THEN Append(h[i - 1], idx[i]) ELSE h[i - 1]
                 /\ Selected(idx, T) = h[Len(idx)]
    BY <2>1, SelectedSteps
  <2> QED
    BY <1>1, <2>2 DEF Kept
<1>8. g[n] = h[n]
  <2>1. n \in 0..Len(idx) /\ n <= Len(f) /\ n \in 0..n
    BY <1>1, <1>2
  <2>2. LoadsLines(g, V, Words, f, <<>>)
    BY <1>3, <1>5
  <2>3. \A k \in 0..n : g[k] = h[k] /\ FromFirst(g[k], idx, k)
    BY <1>2, <1>3, <1>7, <2>1, <2>2, LoadsFirst
  <2> QED
    BY <2>1, <2>3
<1> QED
  BY <1>1, <1>6, <1>7, <1>8 DEF NonEmpty, Wanted

-----------------------------------------------------------------------------
(***************************************************************************)
(* The invariant.                                                          *)
(***************************************************************************)
IndexInv ==
  /\ index \in Indexes(Words) \cup {NoIndex} /\ saved \in Indexes(Words) \cup {NoIndex}
  /\ file \in Seq(AllLines)
  /\ total \in [Words -> [Docs -> Int]]
  /\ whole \in BOOLEAN

\* A count in the index is the sum as long as the sum is an int: what was loaded may be
\* negative, what is added is not, so a sum that is an int never was none.
CountInv ==
  index # NoIndex =>
    \A w \in Words, d \in Docs :
      /\ total[w][d] >= -IntMax - 1
      /\ total[w][d] <= IntMax => CountOf(index, w, d) = total[w][d]

IInv == IndexInv /\ CountInv

\* The first state has no index and an empty file.
LEMMA InitIInv == Init => IInv
<1> SUFFICES ASSUME Init PROVE IInv
  OBVIOUS
<1>1. <<>> \in Seq(AllLines) /\ FALSE \in BOOLEAN
  OBVIOUS
<1>2. NoCounts \in [Words -> [Docs -> Int]]
  BY DEF NoCounts
<1> QED
  BY <1>1, <1>2 DEF Init, IInv, IndexInv, CountInv

\* Adding, saving and loading, and their failures, keep the invariant.
LEMMA NextIInv == IInv /\ [Next]_vars => IInv'
<1> SUFFICES ASSUME IInv, [Next]_vars PROVE IInv'
  OBVIOUS
<1>0. IndexInv /\ CountInv
  BY DEF IInv
<1>1. CASE IndexNew
  <2>1. /\ index' = <<>> /\ total' = NoCounts /\ UNCHANGED <<file, saved, whole>>
    BY <1>1 DEF IndexNew
  <2>2. NoCounts \in [Words -> [Docs -> Int]] /\ \A w \in Words, d \in Docs : NoCounts[w][d] = 0
    BY DEF NoCounts
  <2>3. IndexInv'
    BY <1>0, <2>1, <2>2, EmptyIndex DEF IndexInv
  <2>4. CountInv'
    <3>1. 0 >= -IntMax - 1 /\ 0 <= IntMax
      BY IndexAssumption
    <3> QED
      BY <2>1, <2>2, <3>1, EmptyIndex DEF CountInv
  <2> QED
    BY <2>3, <2>4 DEF IInv
<1>2. CASE IndexFree
  <2>1. NoCounts \in [Words -> [Docs -> Int]]
    BY DEF NoCounts
  <2> QED
    BY <1>0, <1>2, <2>1 DEF IndexFree, IInv, IndexInv, CountInv
<1>3. ASSUME NEW w \in Words, NEW d \in Docs, NEW c \in Counts, Add(w, d, c) PROVE IInv'
  <2>1. /\ index \in Indexes(Words) /\ index # NoIndex /\ index' = AddPosting(index, w, d, c)
        /\ total' = IF Accepts(d, c) THEN [total EXCEPT ![w][d] = @ + c] ELSE total
        /\ UNCHANGED <<file, saved, whole>>
    BY <1>0, <1>3 DEF Add, IndexInv
  <2>2. total \in [Words -> [Docs -> Int]] /\ d \in Int /\ c \in Int /\ d <= IntMax /\ c <= IntMax
    <3>1. d \in (-IntMax - 1)..IntMax /\ c \in (-IntMax - 1)..IntMax
      BY IndexIOAssumption
    <3> QED
      BY <1>0, <3>1, IndexAssumption DEF IndexInv
  <2>3. CASE ~Accepts(d, c)
    <3>1. index' = index /\ total' = total
      BY <2>1, <2>3 DEF AddPosting
    <3> QED
      BY <1>0, <2>1, <3>1 DEF IInv, IndexInv, CountInv
  <2>4. CASE Accepts(d, c)
    <3>1. d \in 1..IntMax /\ c \in 1..IntMax
      BY <2>2, <2>4, IndexAssumption DEF Accepts
    <3>2. /\ index' \in Indexes(Words)
          /\ CountOf(index', w, d) = ToInt(CountOf(index, w, d) + c)
          /\ \A u, e : ~(u = w /\ e = d) => CountOf(index', u, e) = CountOf(index, u, e)
      BY <2>1, <3>1, AddPostingAdds, CountAdds
    <3>3. /\ total' \in [Words -> [Docs -> Int]]
          /\ total'[w][d] = total[w][d] + c
          /\ \A u \in Words, e \in Docs : ~(u = w /\ e = d) => total'[u][e] = total[u][e]
      BY <2>1, <2>2, <2>4
    <3>4. total[w][d] \in Int /\ total[w][d] >= -IntMax - 1
          /\ (total[w][d] <= IntMax => CountOf(index, w, d) = total[w][d])
      BY <1>0, <2>1, <2>2 DEF CountInv
    <3>5. /\ total'[w][d] >= -IntMax - 1
          /\ total'[w][d] <= IntMax => CountOf(index', w, d) = total'[w][d]
      <4>1. PICK t : t = total[w][d]
        OBVIOUS
      <4>2. t \in Int /\ t >= -IntMax - 1 /\ (t <= IntMax => CountOf(index, w, d) = t)
        BY <3>4, <4>1
      <4>3. t + c >= -IntMax - 1
        BY <3>1, <4>2, IndexAssumption
      <4>4. ASSUME t + c <= IntMax PROVE t <= IntMax /\ t + c \in Ints
        BY <3>1, <4>2, <4>4, IndexAssumption DEF Ints
      <4>5. t + c \in Int /\ (t + c \in Ints => ToInt(t + c) = t + c)
        BY <2>2, <4>2, ToIntIsInt
      <4> QED
        BY <3>2, <3>3, <4>1, <4>2, <4>3, <4>4, <4>5
    <3>6. CountInv'
      <4> SUFFICES ASSUME NEW u \in Words, NEW e \in Docs
                   PROVE  /\ total'[u][e] >= -IntMax - 1
                          /\ total'[u][e] <= IntMax => CountOf(index', u, e) = total'[u][e]
        BY DEF CountInv
      <4>1. CASE u = w /\ e = d
        BY <3>5, <4>1
      <4>2. CASE ~(u = w /\ e = d)
        BY <1>0, <2>1, <3>2, <3>3, <4>2 DEF CountInv
      <4> QED
        BY <4>1, <4>2
    <3> QED
      BY <1>0, <2>1, <3>2, <3>3, <3>6 DEF IInv, IndexInv
  <2> QED
    BY <2>3, <2>4
<1>4. ASSUME NEW w \in Words, NEW d \in Docs, NEW c \in Counts, AddFails(w, d, c) PROVE IInv'
  <2>1. /\ index \in Indexes(Words) /\ index # NoIndex /\ index' \in {index, WithEntry(index, w)}
        /\ UNCHANGED <<total, file, saved, whole>>
    BY <1>0, <1>4 DEF AddFails, IndexInv
  <2>2. index' \in Indexes(Words) /\ \A u, e, n : HasCount(index', u, e, n) <=> HasCount(index, u, e, n)
    BY <2>1, WithEntryKeeps
  <2>3. ASSUME NEW u, NEW e PROVE CountOf(index', u, e) = CountOf(index, u, e)
    <3>1. PICK x : x = index'
      OBVIOUS
    <3>2. CASE \E n : HasCount(index, u, e, n)
      <4>1. PICK n : HasCount(index, u, e, n) /\ HasCount(x, u, e, n)
        BY <2>2, <3>1, <3>2
      <4>2. CountOf(index, u, e) = n /\ CountOf(x, u, e) = n
        BY <2>1, <2>2, <3>1, <4>1, CountIs
      <4> QED
        BY <3>1, <4>2
    <3>3. CASE ~\E n : HasCount(index, u, e, n)
      <4>1. CountOf(index, u, e) = 0 /\ CountOf(x, u, e) = 0
        BY <2>2, <3>1, <3>3, CountZero
      <4> QED
        BY <3>1, <4>1
    <3> QED
      BY <3>2, <3>3
  <2>4. CountInv'
    BY <1>0, <2>1, <2>3 DEF CountInv
  <2> QED
    BY <1>0, <2>1, <2>2, <2>4 DEF IInv, IndexInv
<1>5. CASE Save
  <2>1. index \in Indexes(Words) /\ index # NoIndex
    BY <1>0, <1>5 DEF Save, IndexInv
  <2>2. Lines(index) \in Seq(AllLines)
    BY <2>1, LinesType
  <2>3. IndexInv'
    BY <1>0, <1>5, <2>1, <2>2 DEF Save, IndexInv
  <2>4. CountInv'
    BY <1>0, <1>5 DEF Save, CountInv
  <2> QED
    BY <2>3, <2>4 DEF IInv
<1>6. CASE SaveFails
  <2>1. /\ index \in Indexes(Words) /\ file' \in TornFile(index, [w \in Words |-> Words], Powers)
        /\ saved' = index /\ whole' = FALSE /\ index' = NoIndex /\ total' = NoCounts
    BY <1>0, <1>6 DEF SaveFails, IndexInv
  <2>2. file' \in Seq(AllLines)
    BY <2>1, TornFileType
  <2>3. NoCounts \in [Words -> [Docs -> Int]]
    BY DEF NoCounts
  <2> QED
    BY <2>1, <2>2, <2>3 DEF IInv, IndexInv, CountInv
<1>7. CASE Foreign
  <2>1. PICK w \in Words \cup OddWords, ns \in UNION {[1..n -> Numbers] : n \in 0..4} :
          file' = <<[word |-> w, numbers |-> ns]>>
    BY <1>7 DEF Foreign
  <2>2. PICK n \in 0..4 : ns \in [1..n -> Numbers]
    BY <2>1
  <2>3. ns \in Seq(Int)
    <3>1. n \in Nat /\ Numbers \subseteq Int
      BY IndexIOAssumption
    <3>2. \A i \in 1..n : ns[i] \in Int
      BY <2>2, <3>1
    <3>3. ns = [i \in 1..n |-> ns[i]]
      BY <2>2
    <3> QED
      BY <3>1, <3>2, <3>3
  <2>4. PICK l : l = [word |-> w, numbers |-> ns]
    OBVIOUS
  <2>5. l \in AllLines
    BY <2>1, <2>3, <2>4 DEF AllLines
  <2>6. file' \in Seq(AllLines)
    <3>1. <<l>> \in Seq(AllLines)
      BY <2>5
    <3> QED
      BY <2>1, <2>4, <3>1
  <2> QED
    BY <1>0, <1>7, <2>6 DEF Foreign, IInv, IndexInv, CountInv
<1>8. CASE IndexLoad
  <2>1. /\ index' = Load(file, Words) /\ UNCHANGED <<file, saved, whole>>
        /\ total' = IF index' = NoIndex THEN NoCounts
                    ELSE [w \in Words |-> [d \in Docs |-> CountOf(index', w, d)]]
    BY <1>8 DEF IndexLoad
  <2>2. index' \in Indexes(Words) \cup {NoIndex}
    BY <1>0, <2>1, LoadType DEF IndexInv
  <2>3. CASE index' = NoIndex
    <3>1. NoCounts \in [Words -> [Docs -> Int]]
      BY DEF NoCounts
    <3> QED
      BY <1>0, <2>1, <2>3, <3>1 DEF IInv, IndexInv, CountInv
  <2>4. CASE index' # NoIndex
    <3>1. \A w \in Words, d \in Docs : CountOf(index', w, d) \in Ints
      <4>1. PICK x : x = index'
        OBVIOUS
      <4>2. x \in Indexes(Words)
        BY <2>2, <2>4, <4>1
      <4> QED
        BY <4>1, <4>2, CountType
    <3>2. \A w \in Words, d \in Docs : total'[w][d] = CountOf(index', w, d)
      BY <2>1, <2>4
    <3>3. total' \in [Words -> [Docs -> Int]]
      BY <2>1, <2>4, <3>1 DEF Ints
    <3>4. CountInv'
      BY <3>1, <3>2, IndexAssumption DEF CountInv, Ints
    <3> QED
      BY <1>0, <2>1, <2>2, <3>3, <3>4 DEF IInv, IndexInv
  <2> QED
    BY <2>3, <2>4
<1>9. CASE UNCHANGED vars
  BY <1>0, <1>9 DEF vars, IInv, IndexInv, CountInv
<1> QED
  BY <1>1, <1>2, <1>3, <1>4, <1>5, <1>6, <1>7, <1>8, <1>9 DEF Next

\* An index is well formed however it was made, by adding, loading and failing.
THEOREM IndexInvariant == Spec => []IInv
BY InitIInv, NextIInv, PTL DEF Spec

\* indexio.c keeps its types: whatever is added with allocations that fail, and
\* whatever file is loaded, an index has one entry for a word and one posting for a
\* document in it, with a positive docid and a count that is an int.
THEOREM IndexesAreWellFormed == Spec => []TypeOK
<1>1. IInv => TypeOK
  <2> SUFFICES ASSUME IInv PROVE TypeOK
    OBVIOUS
  <2>1. IndexInv
    BY DEF IInv
  <2>2. ASSUME NEW idx \in {index, saved}, idx # NoIndex
        PROVE  /\ NoDuplicates(idx)
               /\ \A i \in DOMAIN idx :
                    /\ idx[i].word \in Words
                    /\ \A j \in DOMAIN idx[i].postings :
                         /\ idx[i].postings[j].docid \in 1..IntMax
                         /\ idx[i].postings[j].count \in (-IntMax - 1)..IntMax
    <3>1. idx \in Indexes(Words)
      BY <2>1, <2>2 DEF IndexInv
    <3>2. NoDuplicates(idx)
      BY <3>1 DEF Indexes
    <3>3. \A i \in DOMAIN idx : idx[i].word \in Words /\ idx[i].postings \in PostingLists
      BY <3>1, EntryType
    <3>4. \A i \in DOMAIN idx : \A j \in DOMAIN idx[i].postings :
            idx[i].postings[j].docid \in 1..IntMax /\ idx[i].postings[j].count \in Ints
      BY <3>3, PostingType
    <3> QED
      BY <3>2, <3>3, <3>4 DEF Ints
  <2> QED
    BY <2>1, <2>2 DEF TypeOK, IndexInv
<1> QED
  BY <1>1, IndexInvariant, PTL

\* The counts of an index are the sums of what index_add_posting accepted since the
\* index was new or loaded, as long as the sums are ints, whatever allocations failed.
THEOREM SumsAreCounted == Spec => []CountsAreSums
<1>1. IInv => CountsAreSums
  <2> SUFFICES ASSUME IInv, index # NoIndex, NEW w \in Words, NEW d \in Docs,
                      total[w][d] \in 0..IntMax
               PROVE  CountOf(index, w, d) = total[w][d]
    BY DEF CountsAreSums
  <2>1. total[w][d] <= IntMax
    BY IndexAssumption
  <2> QED
    BY <2>1 DEF IInv, CountInv
<1> QED
  BY <1>1, IndexInvariant, PTL

-----------------------------------------------------------------------------
(***************************************************************************)
(* The file and what was saved to it.                                      *)
(***************************************************************************)
SavedInv ==
  /\ whole => saved # NoIndex /\ file = Lines(saved)
  /\ saved # NoIndex /\ ~whole => file \in TornFile(saved, [w \in Words |-> Words], Powers)

\* The file has what indexsave wrote of the index, all of it or what a failed write left.
LEMMA SavedInvariant == Spec => []SavedInv
<1>1. Init => SavedInv
  BY DEF Init, SavedInv
<1>2. SavedInv /\ [Next]_vars => SavedInv'
  <2> SUFFICES ASSUME SavedInv, [Next]_vars PROVE SavedInv'
    OBVIOUS
  <2>1. CASE UNCHANGED <<file, saved, whole>>
    BY <2>1 DEF SavedInv
  <2>2. CASE Save
    BY <2>2 DEF Save, SavedInv
  <2>3. CASE SaveFails
    <3>1. /\ file' \in TornFile(index, [w \in Words |-> Words], Powers)
          /\ saved' = index /\ whole' = FALSE
      BY <2>3 DEF SaveFails
    <3> QED
      BY <3>1 DEF SavedInv
  <2>4. CASE Foreign
    BY <2>4 DEF Foreign, SavedInv
  <2>5. \/ UNCHANGED <<file, saved, whole>> \/ Save \/ SaveFails \/ Foreign
    BY DEF Next, vars, IndexNew, IndexFree, Add, AddFails, IndexLoad
  <2> QED
    BY <2>1, <2>2, <2>3, <2>4, <2>5
<1> QED
  BY <1>1, <1>2, PTL DEF Spec

\* What indexsave wrote without error indexload reads as it was, entry by entry and in
\* its order, but for the words that an allocation that failed left without posting.
THEOREM SavedIndexesLoad == Spec => []RoundTrip
<1>1. IInv /\ SavedInv => RoundTrip
  <2> SUFFICES ASSUME IInv, SavedInv, whole, ~Overflown(saved)
               PROVE  Load(file, Words) = NonEmpty(saved)
    BY DEF RoundTrip
  <2>1. saved \in Indexes(Words) /\ file = Lines(saved)
    BY DEF IInv, IndexInv, SavedInv
  <2> QED
    BY <2>1, WholeLoads
<1> QED
  BY <1>1, IndexInvariant, SavedInvariant, PTL

-----------------------------------------------------------------------------
(***************************************************************************)
(* Loading what a write that failed has left.                              *)
(***************************************************************************)
\* Loading a file that starts with the lines of an index and has at most one more.
Begins(f, idx, n) == n \in 0..Len(idx) /\ n <= Len(f) /\ \A i \in 1..n : f[i] = Line(idx[i])

\* The lines of the first entries make a part of the index, and one more line is added to it.
LEMMA LoadsBeginning ==
  ASSUME NEW idx \in Indexes(Words), ~Overflown(idx), NEW f \in Seq(AllLines), NEW n, Begins(f, idx, n)
  PROVE  \E x : /\ FromFirst(x, idx, n)
                /\ Len(f) = n => Load(f, Words) = x
                /\ Len(f) = n + 1 => Load(f, Words) = LoadLine(x, f[n + 1], Words)
<1>1. n \in 0..Len(idx) /\ n <= Len(f) /\ (\A i \in 1..n : f[i] = Line(idx[i])) /\ n \in Nat
  BY DEF Begins
<1>2. PICK V, base : V = Indexes(Words) \cup {NoIndex} /\ base = <<>>
  OBVIOUS
<1>3. base \in V /\ \A v \in V, p \in AllLines : LoadLine(v, p, Words) \in V
  BY <1>2, EmptyIndex, LoadLineKeeps
<1>4. PICK g : LoadsLines(g, V, Words, f, base)
  BY <1>3, LinesSteps
<1>5. PICK h : Kept(h, idx)
  <2>1. idx \in Seq(IndexEntries(Words))
    BY DEF Indexes
  <2>2. PICK T : T = Wanted(idx)
    OBVIOUS
  <2>3. PICK h : /\ h[0] = <<>>
                 /\ \A i \in 1..Len(idx) : h[i] = IF idx[i] \in T THEN Append(h[i - 1], idx[i]) ELSE h[i - 1]
                 /\ Selected(idx, T) = h[Len(idx)]
    BY <2>1, SelectedSteps
  <2> QED
    BY <2>2, <2>3 DEF Kept
<1>6. FromFirst(g[n], idx, n)
  <2>1. LoadsLines(g, V, Words, f, <<>>)
    BY <1>2, <1>4
  <2>2. \A k \in 0..n : g[k] = h[k] /\ FromFirst(g[k], idx, k)
    BY <1>1, <1>2, <1>5, <2>1, LoadsFirst
  <2> QED
    BY <1>1, <2>2
<1>7. Load(f, Words) = g[Len(f)]
  <2>1. Load(f, Words) = LoadLines(<<>>, Words, f)
    BY Zenon DEF Load, LoadLines
  <2>2. LoadLines(base, Words, f) = g[Len(f)]
    BY <1>4 DEF LoadsLines
  <2> QED
    BY <1>2, <2>1, <2>2
<1>8. ASSUME Len(f) = n + 1 PROVE g[n + 1] = LoadLine(g[n], f[n + 1], Words)
  <2>1. n + 1 \in 1..Len(f) /\ (n + 1) - 1 = n
    BY <1>1, <1>8
  <2> QED
    BY <1>4, <2>1 DEF LoadsLines
<1> QED
  BY <1>6, <1>7, <1>8

\* All counts of y are counts of idx, but that one may be too low.
IsPart(y, idx, w, d) ==
  /\ y \in Indexes(Words)
  /\ \A u, e, c : HasCount(y, u, e, c) =>
       \E m : HasCount(idx, u, e, m) /\ (c = m \/ (u = w /\ e = d /\ 0 < c /\ c <= m))

\* The first entries of an index are a part of it.
LEMMA FirstIsPart ==
  ASSUME NEW idx \in Indexes(Words), NEW n \in 0..Len(idx), NEW x, FromFirst(x, idx, n), NEW w, NEW d
  PROVE  IsPart(x, idx, w, d)
<1>1. x \in Indexes(Words) /\ \A i \in DOMAIN x : \E l \in 1..n : x[i] = idx[l]
  BY DEF FromFirst
<1>2. \A l \in 1..n : l \in DOMAIN idx
  BY DEF Indexes
<1>3. ASSUME NEW u, NEW e, NEW c, HasCount(x, u, e, c) PROVE HasCount(idx, u, e, c)
  BY <1>1, <1>2, <1>3 DEF HasCount
<1> QED
  BY <1>1, <1>3 DEF IsPart

\* So are they with an entry whose postings are cut.
LEMMA CutIsPart ==
  ASSUME NEW idx \in Indexes(Words), NEW n \in 1..Len(idx), NEW x, FromFirst(x, idx, n - 1),
         NEW w, w = idx[n].word, NEW ps, ps = idx[n].postings, NEW qs, NEW j, IsCut(qs, ps, j),
         NEW y \in Indexes(Words), LineLoaded(y, x, w, qs)
  PROVE  \E d : IsPart(y, idx, w, d)
<1>1. Len(idx) \in Nat /\ DOMAIN idx = 1..Len(idx) /\ n \in DOMAIN idx /\ n - 1 \in 0..Len(idx)
  BY DEF Indexes
<1>2. ps \in PostingLists /\ OneEach(ps)
  BY <1>1, EntryType
<1>3. PICK d : d = ps[j].docid
  OBVIOUS
<1>4. IsPart(x, idx, w, d)
  BY <1>1, FirstIsPart
<1>5. CASE qs = <<>>
  BY <1>4, <1>5 DEF LineLoaded
<1>6. CASE qs # <<>>
  <2>1. PICK en : en = Entry(w, qs) /\ en.word = w /\ en.postings = qs
    <3>1. Entry(w, qs).word = w /\ Entry(w, qs).postings = qs
      BY DEF Entry
    <3> QED
      BY <3>1
  <2>2. y = Append(x, en)
    BY <1>6, <2>1 DEF LineLoaded
  <2>3. x \in Seq(IndexEntries(Words)) /\ en \in IndexEntries(Words)
    <3>1. w \in Words /\ qs \in PostingLists
      BY <1>1, EntryType DEF IsCut
    <3> QED
      BY <2>1, <3>1 DEF FromFirst, Indexes, IndexEntries, Entry
  <2>4. /\ Len(x) \in Nat /\ DOMAIN x = 1..Len(x) /\ DOMAIN y = 1..(Len(x) + 1)
        /\ \A i \in 1..Len(x) : y[i] = x[i]
        /\ y[Len(x) + 1] = en
    BY <2>2, <2>3
  <2>5. ASSUME NEW u, NEW e, NEW c, HasCount(y, u, e, c)
        PROVE  HasCount(x, u, e, c) \/ (u = w /\ Has(qs, e, c))
    <3>1. PICK i \in DOMAIN y : y[i].word = u /\ Has(y[i].postings, e, c)
      BY <2>5 DEF HasCount
    <3>2. CASE i \in DOMAIN x
      BY <2>4, <3>1, <3>2 DEF HasCount
    <3>3. CASE i = Len(x) + 1
      BY <2>1, <2>4, <3>1, <3>3
    <3> QED
      BY <2>4, <3>2, <3>3
  <2>6. ASSUME NEW e, NEW c, Has(qs, e, c)
        PROVE  \E m : HasCount(idx, w, e, m) /\ (c = m \/ (e = d /\ 0 < c /\ c <= m))
    <3>1. PICK i \in DOMAIN qs : qs[i].docid = e /\ qs[i].count = c
      BY <2>6 DEF Has
    <3>2. i \in 1..Len(qs) /\ i \in DOMAIN ps
      <4>1. qs \in PostingLists /\ Len(qs) <= Len(ps)
        BY DEF IsCut
      <4>2. Len(qs) \in Nat /\ DOMAIN qs = 1..Len(qs) /\ Len(ps) \in Nat /\ DOMAIN ps = 1..Len(ps)
        BY <1>2, <4>1, PostingType
      <4> QED
        BY <4>1, <4>2
    <3>3. PICK m : m = ps[i].count
      OBVIOUS
    <3>4. ps[i].docid = e /\ 0 < c /\ c <= m /\ (i # j => c = m)
      BY <3>1, <3>2, <3>3 DEF IsCut
    <3>5. HasCount(idx, w, e, m)
      BY <1>1, <3>2, <3>3, <3>4 DEF HasCount, Has
    <3> QED
      BY <1>3, <3>4, <3>5
  <2>7. ASSUME NEW u, NEW e, NEW c, HasCount(y, u, e, c)
        PROVE  \E m : HasCount(idx, u, e, m) /\ (c = m \/ (u = w /\ e = d /\ 0 < c /\ c <= m))
    <3>1. CASE HasCount(x, u, e, c)
      BY <1>4, <3>1 DEF IsPart
    <3>2. CASE u = w /\ Has(qs, e, c)
      BY <2>6, <3>2
    <3> QED
      BY <2>5, <2>7, <3>1, <3>2
  <2>8. IsPart(y, idx, w, d)
    BY <2>7 DEF IsPart
  <2> QED
    BY <2>8
<1> QED
  BY <1>5, <1>6

\* A torn file loads as a part of the index.
LEMMA TornLoads ==
  ASSUME NEW idx \in Indexes(Words), ~Overflown(idx),
         NEW f \in TornFile(idx, [w \in Words |-> Words], Powers)
  PROVE  \E w, d : IsPart(Load(f, Words), idx, w, d)
<1>1. PICK ls, N : /\ ls = Lines(idx) /\ ls \in Seq(AllLines) /\ N = Len(idx) /\ Len(ls) = N /\ N \in Nat
                   /\ DOMAIN idx = 1..N /\ \A i \in 1..N : ls[i] = Line(idx[i])
  <2>1. DOMAIN idx = 1..Len(idx)
    BY DEF Indexes
  <2>2. Lines(idx) \in Seq(AllLines) /\ Len(Lines(idx)) = Len(idx) /\ Len(idx) \in Nat
    BY LinesType
  <2>3. \A i \in 1..Len(idx) : Lines(idx)[i] = Line(idx[i])
    BY <2>1 DEF Lines
  <2> QED
    BY <2>1, <2>2, <2>3
<1>2. f \in Seq(AllLines)
  BY TornFileType
<1>3. CASE f \in {SubSeq(Lines(idx), 1, n) : n \in 0..Len(idx)}
  <2>1. PICK n \in 0..N : f = SubSeq(ls, 1, n)
    BY <1>1, <1>3
  <2>2. Len(f) = n /\ \A i \in 1..n : f[i] = ls[i]
    BY <1>1, <2>1
  <2>3. Begins(f, idx, n)
    BY <1>1, <2>2 DEF Begins
  <2>4. PICK x : FromFirst(x, idx, n) /\ Load(f, Words) = x
    BY <1>2, <2>2, <2>3, LoadsBeginning
  <2> QED
    BY <1>1, <2>4, FirstIsPart
<1>4. CASE f \in UNION {{Append(SubSeq(Lines(idx), 1, n), part) : part \in
                           TornLines(Line(idx[n + 1]), [w \in Words |-> Words][idx[n + 1].word], Powers)} :
                          n \in 0..(Len(idx) - 1)}
  <2>1. PICK n \in 0..(N - 1) :
          f \in {Append(SubSeq(ls, 1, n), part) : part \in
                   TornLines(Line(idx[n + 1]), [w \in Words |-> Words][idx[n + 1].word], Powers)}
    BY <1>1, <1>4
  <2>2. PICK part \in TornLines(Line(idx[n + 1]), [w \in Words |-> Words][idx[n + 1].word], Powers) :
          f = Append(SubSeq(ls, 1, n), part)
    BY <2>1
  <2>3. PICK k, e, ps, w : k = n + 1 /\ e = idx[k] /\ ps = e.postings /\ w = e.word
    OBVIOUS
  <2>4. k \in 1..N /\ k \in DOMAIN idx /\ k - 1 = n /\ n \in 0..N /\ n \in Nat
    BY <1>1, <2>1, <2>3
  <2>5. e \in IndexEntries(Words) /\ w \in Words /\ ps \in PostingLists /\ OneEach(ps)
        /\ \A i \in DOMAIN idx : idx[i].word = w => i = k
    BY <2>3, <2>4, EntryType
  <2>6. part \in TornLines(Line(e), Words, Powers)
    BY <2>2, <2>3, <2>5
  <2>7. Positive(ps)
    <3> SUFFICES ASSUME NEW j \in DOMAIN ps PROVE ps[j].count > 0
      BY DEF Positive
    <3>1. ~(ps[j].count <= 0)
      BY <2>3, <2>4 DEF Overflown
    <3>2. ps[j].count \in Int
      BY <2>5, PostingType DEF Ints
    <3> QED
      BY <3>1, <3>2
  <2>8. part \in AllLines
    BY <2>5, <2>6, LineType, TornLineType
  <2>9. Len(f) = n + 1 /\ f[n + 1] = part /\ \A i \in 1..n : f[i] = ls[i]
    <3>1. PICK s : s = SubSeq(ls, 1, n)
      OBVIOUS
    <3>2. s \in Seq(AllLines) /\ Len(s) = n /\ \A i \in 1..n : s[i] = ls[i]
      BY <1>1, <2>4, <3>1
    <3>3. f = Append(s, part)
      BY <2>2, <3>1
    <3> QED
      BY <2>8, <3>2, <3>3, AppendProperties
  <2>10. Begins(f, idx, n)
    BY <1>1, <2>4, <2>9 DEF Begins
  <2>11. PICK x : FromFirst(x, idx, n) /\ Load(f, Words) = LoadLine(x, part, Words)
    BY <1>2, <2>9, <2>10, LoadsBeginning
  <2>12. PICK y : y = LoadLine(x, part, Words)
    OBVIOUS
  <2>13. x \in Indexes(Words) /\ x \in Seq(IndexEntries(Words))
    BY <2>11 DEF FromFirst, Indexes
  <2>14. CASE \E u \in Words : part = [word |-> u, numbers |-> <<>>]
    <3>1. PICK u \in Words : part = [word |-> u, numbers |-> <<>>]
      BY <2>14
    <3>2. PICK none : none = <<>>
      OBVIOUS
    <3>3. Len(part.numbers) \div 2 = 0 /\ part.word = u
      BY <3>1
    <3>4. Pairs(part) = none
      <4>1. PICK t : t = part.numbers
        OBVIOUS
      <4>2. [j \in 1..0 |-> <<t[2 * j - 1], t[2 * j]>>] = <<>>
        OBVIOUS
      <4>3. Pairs(part) = [j \in 1..0 |-> <<t[2 * j - 1], t[2 * j]>>]
        BY <3>3, <4>1 DEF Pairs
      <4> QED
        BY <3>2, <4>2, <4>3
    <3>5. none \in Seq(Int \X Int) /\ Len(none) = 0
      BY <3>2
    <3>6. PICK V, P : V = Indexes(Words) \cup {NoIndex} /\ P = Int \X Int
      OBVIOUS
    <3>7. PICK g : LoadsPairs(g, V, u, none, x)
      <4>1. x \in V /\ none \in Seq(P) /\ \A v \in V, p \in P : LoadPair(v, u, p) \in V
        BY <2>13, <3>5, <3>6, LoadPairKeeps
      <4> QED
        BY <4>1, PairsSteps
    <3>8. LoadPairs(x, u, none) = x
      BY <3>5, <3>7 DEF LoadsPairs
    <3>9. LoadLine(x, part, Words) = LoadPairs(x, part.word, Pairs(part))
      <4>1. part.word \in Words
        BY <3>3
      <4> QED
        BY <4>1, Zenon DEF LoadLine, LoadPairs
    <3>10. Load(f, Words) = x
      BY <2>11, <3>3, <3>4, <3>8, <3>9
    <3> QED
      BY <1>1, <2>4, <2>11, <3>10, FirstIsPart
  <2>15. CASE \E qs, j : part.word = e.word /\ Pairs(part) = PairsOf(qs) /\ IsCut(qs, ps, j)
    <3>1. PICK qs, j : part.word = w /\ Pairs(part) = PairsOf(qs) /\ IsCut(qs, ps, j)
      BY <2>3, <2>15
    <3>2. qs \in PostingLists /\ OneEach(qs) /\ Positive(qs)
      <4>1. qs \in PostingLists /\ Len(qs) <= Len(ps)
        BY <3>1 DEF IsCut
      <4>2. Len(qs) \in Nat /\ DOMAIN qs = 1..Len(qs) /\ Len(ps) \in Nat /\ DOMAIN ps = 1..Len(ps)
        BY <2>5, <4>1, PostingType
      <4>3. \A i \in DOMAIN qs : i \in DOMAIN ps
        BY <4>1, <4>2
      <4>4. \A i \in DOMAIN qs : qs[i].docid = ps[i].docid /\ qs[i].count > 0
        <5>1. \A i \in DOMAIN qs : qs[i].docid = ps[i].docid /\ 0 < qs[i].count /\ qs[i].count \in Int
          BY <3>1, <4>1, <4>2, PostingType DEF IsCut, Ints
        <5> QED
          BY <5>1
      <4> QED
        BY <2>5, <4>1, <4>3, <4>4 DEF OneEach, Positive
    <3>3. \A i \in DOMAIN x : x[i].word # w
      <4> SUFFICES ASSUME NEW i \in DOMAIN x, x[i].word = w PROVE FALSE
        OBVIOUS
      <4>1. PICK l \in 1..n : x[i] = idx[l]
        BY <2>11 DEF FromFirst
      <4>2. l \in DOMAIN idx /\ l # k
        BY <1>1, <2>4
      <4> QED
        BY <2>5, <4>1, <4>2
    <3>4. LineLoaded(y, x, w, qs)
      BY <2>5, <2>12, <2>13, <3>1, <3>2, <3>3, LoadAppends
    <3>5. y \in Indexes(Words)
      <4>1. y \in Indexes(Words) \cup {NoIndex}
        BY <2>8, <2>12, <2>13, LoadLineKeeps
      <4>2. y \in Seq(IndexEntries(Words))
        <5>1. Entry(w, qs) \in IndexEntries(Words)
          BY <2>5, <3>2 DEF Entry, IndexEntries
        <5> QED
          BY <2>13, <3>4, <5>1, AppendProperties DEF LineLoaded
      <4> QED
        BY <4>1, <4>2, NoIndexIsNone
    <3>6. \E d : IsPart(y, idx, w, d)
      BY <1>1, <2>3, <2>4, <2>11, <3>1, <3>4, <3>5, CutIsPart
    <3> QED
      BY <2>11, <2>12, <3>6
  <2>16. PICK P \in PowerSets : P = Powers
    BY IndexIOAssumption DEF PowerSets
  <2>17. e \in IndexEntries(Words) /\ ps = e.postings /\ part \in TornLines(Line(e), Words, P)
    BY <2>3, <2>5, <2>6, <2>16
  <2>18. \/ \E u \in Words : part = [word |-> u, numbers |-> <<>>]
         \/ \E qs, j : part.word = e.word /\ Pairs(part) = PairsOf(qs) /\ IsCut(qs, ps, j)
    BY ONLY <2>7, <2>16, <2>17, TornPostings
  <2> QED
    BY <2>3, <2>14, <2>15, <2>18
<1> QED
  BY <1>3, <1>4 DEF TornFile

\* The counts of a part.
LEMMA PartCounts ==
  ASSUME NEW idx \in Indexes(Words), ~Overflown(idx), NEW y, NEW w, NEW d, IsPart(y, idx, w, d), NEW u, NEW e
  PROVE  /\ CountOf(y, u, e) <= CountOf(idx, u, e)
         /\ CountOf(y, u, e) \notin {0, CountOf(idx, u, e)} => u = w /\ e = d
<1>1. ASSUME NEW m, HasCount(idx, u, e, m) PROVE m \in Nat
  <2>1. PICK i \in DOMAIN idx : Has(idx[i].postings, e, m)
    BY <1>1 DEF HasCount
  <2>2. PICK j \in DOMAIN idx[i].postings : idx[i].postings[j].count = m
    BY <2>1 DEF Has
  <2>3. ~(idx[i].postings[j].count <= 0)
    BY DEF Overflown
  <2>4. idx[i].postings[j].count \in Int
    <3>1. idx[i].postings \in PostingLists
      BY EntryType
    <3> QED
      BY <3>1, PostingType DEF Ints
  <2>5. m \in Int /\ ~(m <= 0)
    BY <2>2, <2>3, <2>4
  <2> QED
    BY <2>5
<1>2. CASE \E c : HasCount(y, u, e, c)
  <2>1. PICK c : HasCount(y, u, e, c)
    BY <1>2
  <2>2. PICK m : HasCount(idx, u, e, m) /\ (c = m \/ (u = w /\ e = d /\ 0 < c /\ c <= m))
    BY <2>1 DEF IsPart
  <2>3. CountOf(y, u, e) = c /\ CountOf(idx, u, e) = m
    BY <2>1, <2>2, CountIs DEF IsPart
  <2>4. m \in Nat
    BY <1>1, <2>2
  <2> QED
    BY <2>2, <2>3, <2>4
<1>3. CASE ~\E c : HasCount(y, u, e, c)
  <2>1. CountOf(y, u, e) = 0
    BY <1>3, CountZero
  <2>2. CountOf(idx, u, e) \in Nat
    <3>1. CASE \E m : HasCount(idx, u, e, m)
      BY <1>1, <3>1, CountIs
    <3>2. CASE ~\E m : HasCount(idx, u, e, m)
      BY <3>2, CountZero
    <3> QED
      BY <3>1, <3>2
  <2> QED
    BY <2>1, <2>2
<1> QED
  BY <1>2, <1>3

\* indexload accepts what an indexsave that failed left behind, and what it makes of it
\* is a part of the index: no count is too high, and at most one is too low but not 0.
THEOREM TornFilesArePart == Spec => []TornIsPart
<1>1. IInv /\ SavedInv => TornIsPart
  <2> SUFFICES ASSUME IInv, SavedInv, saved # NoIndex, ~whole, ~Overflown(saved)
               PROVE  /\ Load(file, Words) # NoIndex
                      /\ \A w \in Words, d \in Docs : CountOf(Load(file, Words), w, d) <= CountOf(saved, w, d)
                      /\ Cardinality(Differ(Load(file, Words), saved)) <= 1
    BY DEF TornIsPart
  <2>1. saved \in Indexes(Words) /\ file \in TornFile(saved, [w \in Words |-> Words], Powers)
    BY DEF IInv, IndexInv, SavedInv
  <2>2. PICK idx, y, w, d : idx = saved /\ y = Load(file, Words) /\ IsPart(y, idx, w, d)
    BY <2>1, TornLoads
  <2>3. idx \in Indexes(Words) /\ ~Overflown(idx)
    BY <2>1, <2>2
  <2>4. \A u, e : /\ CountOf(y, u, e) <= CountOf(idx, u, e)
                  /\ CountOf(y, u, e) \notin {0, CountOf(idx, u, e)} => u = w /\ e = d
    BY <2>2, <2>3, PartCounts
  <2>5. y # NoIndex
    BY <2>2, NoIndexIsNone DEF IsPart, Indexes
  <2>6. Cardinality(Differ(y, idx)) <= 1
    <3>1. Differ(y, idx) \subseteq {<<w, d>>}
      BY <2>4 DEF Differ
    <3>2. PICK one : one = {<<w, d>>} /\ IsFiniteSet(one) /\ Cardinality(one) = 1
      BY FS_Singleton
    <3>3. Cardinality(Differ(y, idx)) <= Cardinality(one)
      BY <3>1, <3>2, FS_Subset
    <3> QED
      BY <3>2, <3>3
  <2> QED
    BY <2>2, <2>4, <2>5, <2>6
<1> QED
  BY <1>1, IndexInvariant, SavedInvariant, PTL

=============================================================================
