-------------------------- MODULE ResolutionProofs --------------------------
(***************************************************************************)
(* Theorems about resolve_container_path(), for every root with whatever   *)
(* links in it, every path and every MaxSymlinks:                          *)
(*   - what it returns is in the root (ResolvesInRoot);                    *)
(*   - it is what a kernel finds that is confined to the root, and it      *)
(*     gives up only on a chain of links that the kernel would give up on  *)
(*     if it followed one link less (ResolvesAsKernel).                    *)
(* The function calls itself from two places, with a link more or with an  *)
(* element of the path less.  That such a definition has a solution is     *)
(* proved here (Recursion), by taking the smallest call for which there is *)
(* none; and what holds of all calls is proved by taking the smallest for  *)
(* which it does not (Smallest).                                           *)
(***************************************************************************)
EXTENDS Mounts, FiniteSetTheorems, SequenceTheorems, TLAPS

-----------------------------------------------------------------------------
(* Numbers.                                                                *)

\* A set of natural numbers has a least element.
LEMMA Least ==
  ASSUME NEW S, S \subseteq Nat, S # {}
  PROVE  \E m \in S : \A n \in S : m <= n
<1>1. PICK m \in S : \A n \in S : ~(<<n, m>> \in OpToRel(<, Nat))
  BY NatLessThanWellFounded, WFMin
<1>2. \A n \in S : ~(n < m)  BY <1>1 DEF OpToRel
<1> QED  BY <1>2

\* A set of numbers that are not above k has a greatest element.
LEMMA Greatest ==
  ASSUME NEW k \in Nat, NEW S, S \subseteq 0..k, S # {}
  PROVE  \E m \in S : \A n \in S : m >= n
<1> DEFINE R == {k - n : n \in S}
<1>1. \A n \in S : n \in 0..k /\ k - n \in Nat  OBVIOUS
<1>2. R \subseteq Nat  BY <1>1
<1>3. R # {}  OBVIOUS
<1>4. PICK l \in R : \A n \in R : l <= n  BY <1>2, <1>3, Least
<1>5. PICK m \in S : l = k - m  OBVIOUS
<1>6. \A n \in S : k - m <= k - n  BY <1>4, <1>5
<1>7. \A n \in S : m >= n  BY <1>1, <1>6
<1> QED  BY <1>7

-----------------------------------------------------------------------------
(* Paths.                                                                  *)

\* The names that are made are words.
LEMMA Words ==
  {"root", ".save", "new", "ELOOP", "empty", "copy", "user"} \subseteq Word
  BY DEF Word

\* The first n elements of a path.
LEMMA PathCut ==
  ASSUME NEW p \in Path, NEW n \in 0..Len(p)
  PROVE  /\ Len(p) \in Nat /\ DOMAIN p = 1..Len(p) /\ SubSeq(p, 1, n) \in Path
         /\ Len(SubSeq(p, 1, n)) = n
         /\ \A k \in 1..n : SubSeq(p, 1, n)[k] = p[k]
<1>1. /\ Len(p) \in Nat /\ DOMAIN p = 1..Len(p)
      /\ \A k \in 1..Len(p) : p[k] \in Word
  BY LenProperties, ElementOfSeq DEF Path
<1>2. n \in Int /\ 1 \in Int /\ \A k \in 1..n : p[k] \in Word  BY <1>1
<1>3. /\ SubSeq(p, 1, n) \in Seq(Word)
      /\ Len(SubSeq(p, 1, n)) = IF 1 <= n THEN n - 1 + 1 ELSE 0
      /\ \A k \in 1..(n - 1 + 1) : SubSeq(p, 1, n)[k] = p[1 + k - 1]
  BY <1>2, SubSeqProperties
<1>4. Len(SubSeq(p, 1, n)) = n  BY <1>1, <1>3
<1>5. \A k \in 1..n : SubSeq(p, 1, n)[k] = p[k]  BY <1>1, <1>3
<1> QED  BY <1>1, <1>3, <1>4, <1>5 DEF Path

\* Two paths are one if they have the same elements.
LEMMA PathEqual ==
  ASSUME NEW p \in Path, NEW q \in Path, Len(p) = Len(q),
         \A n \in 1..Len(p) : p[n] = q[n]
  PROVE  p = q
  BY SeqEqual DEF Path

\* The root is a path.
LEMMA RootPath == Root \in Path /\ Len(Root) = 1 /\ Root[1] = "root"
<1>1. ASSUME NEW S, NEW e \in S
      PROVE  <<e>> \in Seq(S) /\ Len(<<e>>) = 1 /\ <<e>>[1] = e
  OBVIOUS
<1> QED  BY <1>1, Words DEF Root, Path

\* A path with one more element, and without it.
LEMMA PathAppend ==
  ASSUME NEW p \in Path, NEW e \in Word
  PROVE  /\ Append(p, e) \in Path \ {<<>>}
         /\ Len(Append(p, e)) = Len(p) + 1
         /\ Front(Append(p, e)) = p /\ Last(Append(p, e)) = e
<1> DEFINE q == Append(p, e)
<1>1. Len(p) \in Nat  BY LenProperties DEF Path
<1>2. /\ q \in Path /\ q # <<>> /\ Len(q) = Len(p) + 1
      /\ \A n \in 1..Len(p) : q[n] = p[n]
      /\ q[Len(p) + 1] = e
  BY AppendProperties DEF Path
<1>3. Len(p) = Len(q) - 1 /\ Len(p) \in 0..Len(q)  BY <1>1, <1>2
<1> HIDE DEF q
<1>4. /\ SubSeq(q, 1, Len(p)) \in Path /\ Len(SubSeq(q, 1, Len(p))) = Len(p)
      /\ \A n \in 1..Len(p) : SubSeq(q, 1, Len(p))[n] = q[n]
  BY <1>2, <1>3, PathCut
<1>5. SubSeq(q, 1, Len(p)) = p  BY <1>2, <1>4, PathEqual
<1>6. Front(q) = p  BY <1>3, <1>5 DEF Front
<1>7. Last(q) = e  BY <1>2 DEF Last
<1> QED  BY <1>2, <1>6, <1>7 DEF q

\* A path without its last element.
LEMMA PathFront ==
  ASSUME NEW p \in Path \ {<<>>}
  PROVE  /\ Len(p) \in Nat \ {0}
         /\ Front(p) \in Path /\ Len(Front(p)) = Len(p) - 1
         /\ \A n \in 1..(Len(p) - 1) : Front(p)[n] = p[n]
         /\ Last(p) \in Word /\ p = Append(Front(p), Last(p))
<1>1. Len(p) \in Nat \ {0}  BY EmptySeq DEF Path
<1>2. /\ Front(p) \in Path /\ Len(Front(p)) = Len(p) - 1
      /\ \A n \in 1..(Len(p) - 1) : Front(p)[n] = p[n]
  <2>1. p \in Path /\ Len(p) - 1 \in 0..Len(p)  BY <1>1
  <2> QED  BY <2>1, PathCut DEF Front
<1>3. Last(p) \in Word  BY <1>1, ElementOfSeq DEF Last, Path
<1>4. /\ Append(Front(p), Last(p)) \in Path
      /\ Len(Append(Front(p), Last(p))) = Len(p)
      /\ \A n \in 1..(Len(p) - 1) : Append(Front(p), Last(p))[n] = Front(p)[n]
      /\ Append(Front(p), Last(p))[Len(p)] = Last(p)
  <2> DEFINE f == Front(p)
             e == Last(p)
  <2>1. f \in Seq(Word) /\ e \in Word /\ Len(f) = Len(p) - 1
    BY <1>2, <1>3 DEF Path
  <2> HIDE DEF f, e
  <2>2. /\ Append(f, e) \in Seq(Word) /\ Len(Append(f, e)) = Len(f) + 1
        /\ \A n \in 1..Len(f) : Append(f, e)[n] = f[n]
        /\ Append(f, e)[Len(f) + 1] = e
    BY <2>1, AppendProperties
  <2>3. Len(f) + 1 = Len(p)  BY <1>1, <2>1
  <2> QED  BY <2>1, <2>2, <2>3 DEF f, e, Path
<1>5. \A n \in 1..Len(p) : p[n] = Append(Front(p), Last(p))[n]
  BY <1>1, <1>2, <1>4 DEF Last
<1>6. p = Append(Front(p), Last(p))  BY <1>4, <1>5, PathEqual
<1> QED  BY <1>1, <1>2, <1>3, <1>6

\* A place is a path of the root, with none of the names that are made there.
LEMMA PlacePath ==
  ASSUME NEW p \in Place
  PROVE  /\ p \in Path \ {<<>>} /\ Len(p) \in Nat \ {0} /\ p[1] = "root"
         /\ \A n \in 1..Len(p) : p[n] \notin {".save", "new"}
         /\ Last(p) \notin {".save", "new"}
         /\ Len(p) = 1 <=> p = Root
         /\ Len(p) > 1 => Front(p) \in Place
<1>1. p \in Path \ {<<>>} /\ Len(p) \in Nat \ {0} /\ DOMAIN p = 1..Len(p)
  BY PathFront, LenProperties DEF Place, Clean, Path
<1>2. p[1] = "root" /\ \A n \in 1..Len(p) : p[n] \notin {".save", "new"}
  BY <1>1 DEF Place, Clean
<1>3. Last(p) \notin {".save", "new"}  BY <1>1, <1>2 DEF Last
<1>4. Root \in Path /\ Len(Root) = 1 /\ Root[1] = "root"  BY RootPath
<1>5. Len(p) = 1 => p = Root  BY <1>1, <1>2, <1>4, PathEqual
<1>6. ASSUME Len(p) > 1  PROVE Front(p) \in Place
  <2>1. /\ Front(p) \in Path /\ Len(Front(p)) = Len(p) - 1
        /\ \A n \in 1..(Len(p) - 1) : Front(p)[n] = p[n]
    BY <1>1, PathFront
  <2>2. DOMAIN Front(p) = 1..(Len(p) - 1) /\ Front(p) # <<>>
    BY <1>1, <1>6, <2>1, LenProperties, EmptySeq DEF Path
  <2>3. Front(p)[1] = "root"
        /\ \A n \in DOMAIN Front(p) : Front(p)[n] \notin {".save", "new"}
    BY <1>1, <1>2, <1>6, <2>1, <2>2
  <2> QED  BY <2>1, <2>2, <2>3 DEF Place, Clean
<1> QED  BY <1>1, <1>2, <1>3, <1>4, <1>5, <1>6

\* The root is a place.
LEMMA RootPlace == Root \in Place
<1>1. /\ Root \in Path /\ Root # <<>> /\ DOMAIN Root = 1..1
      /\ Root[1] = "root" /\ Head(Root) = "root"
  BY RootPath, LenProperties, EmptySeq DEF Root, Path
<1> QED  BY <1>1 DEF Place, Clean

\* What is in a place is one, but for the names that are made.
LEMMA PlaceAppend ==
  ASSUME NEW p \in Place, NEW e \in Word, e \notin {".save", "new"}
  PROVE  Append(p, e) \in Place
<1>1. /\ p \in Path /\ Len(p) \in Nat \ {0} /\ p[1] = "root"
      /\ \A n \in 1..Len(p) : p[n] \notin {".save", "new"}
  BY PlacePath
<1>2. /\ Append(p, e) \in Path /\ Append(p, e) # <<>>
      /\ Len(Append(p, e)) = Len(p) + 1
      /\ \A n \in 1..Len(p) : Append(p, e)[n] = p[n]
      /\ Append(p, e)[Len(p) + 1] = e
  BY <1>1, AppendProperties DEF Path
<1>3. DOMAIN Append(p, e) = 1..(Len(p) + 1)
  BY <1>2, LenProperties DEF Path
<1>4. \A n \in 1..(Len(p) + 1) : n \in 1..Len(p) \/ n = Len(p) + 1
  BY <1>1
<1>5. Head(Append(p, e)) = "root"  BY <1>1, <1>2
<1> HIDE DEF Place
<1>6. \A n \in DOMAIN Append(p, e) : Append(p, e)[n] \notin {".save", "new"}
  BY <1>1, <1>2, <1>3, <1>4
<1> QED  BY <1>2, <1>5, <1>6 DEF Place, Clean

-----------------------------------------------------------------------------
(* Recursion.                                                              *)

\* Calls are ordered by how many links may follow, then by what is left.
Smaller(rank, len, d, c) ==
  rank[d] < rank[c] \/ (rank[d] = rank[c] /\ len[d] < len[c])

\* A set of calls has a smallest one.
LEMMA Smallest ==
  ASSUME NEW C, NEW rank \in [C -> Nat], NEW len \in [C -> Nat],
         NEW T \in SUBSET C, T # {}
  PROVE  \E c \in T : \A d \in T : ~Smaller(rank, len, d, c)
<1> DEFINE R == {rank[c] : c \in T}
<1>1. PICK r \in R : \A n \in R : r <= n
  <2>1. R \subseteq Nat /\ R # {}  OBVIOUS
  <2> QED  BY <2>1, Least
<1> DEFINE L == {len[c] : c \in {d \in T : rank[d] = r}}
<1>2. PICK l \in L : \A n \in L : l <= n
  <2>1. L \subseteq Nat /\ L # {}  OBVIOUS
  <2> QED  BY <2>1, Least
<1>3. PICK c \in T : rank[c] = r /\ len[c] = l  OBVIOUS
<1>4. ASSUME NEW d \in T  PROVE ~Smaller(rank, len, d, c)
  <2>1. r <= rank[d] /\ rank[d] \in Nat /\ len[d] \in Nat  BY <1>1
  <2>2. rank[d] = r => l <= len[d]  BY <1>2
  <2>3. r \in Nat /\ l \in Nat BY <1>3
  <2> QED  BY <1>3, <2>1, <2>2, <2>3 DEF Smaller
<1> QED  BY <1>4

\* By g the value for a call depends on the values for smaller calls only.
WellFounded(C, V, rank, len, g) ==
  \A c \in C : \A f, h \in [C -> V] :
    (\A d \in C : Smaller(rank, len, d, c) => f[d] = h[d])
      => g[<<c, f>>] = g[<<c, h>>]

\* There is the function that g defines by itself.
HasSolution(C, V, g) ==
  \E f \in [C -> V] : \A c \in C : f[c] = g[<<c, f>>]

\* A definition g of a function by itself has a solution.
LEMMA Recursion ==
  ASSUME NEW C, NEW V, NEW v \in V,
         NEW rank \in [C -> Nat], NEW len \in [C -> Nat],
         NEW g \in [C \X [C -> V] -> V],
         WellFounded(C, V, rank, len, g)
  PROVE  HasSolution(C, V, g)
<1> DEFINE Less(d, c) == Smaller(rank, len, d, c)
           Solves(f, c) ==
             \A d \in C : d = c \/ Less(d, c) => f[d] = g[<<d, f>>]
<1>1. \A b, c, d \in C : Less(b, c) /\ Less(c, d) => Less(b, d)
  BY DEF Smaller
<1>0. \A c \in C : ~Less(c, c)
  BY DEF Smaller
<1>2. \A c, d \in C : \A f : Solves(f, c) /\ Less(d, c) => Solves(f, d)
  BY <1>1
<1>3. \A T \in SUBSET C : T # {} => \E c \in T : \A d \in T : ~Less(d, c)
  BY Smallest
<1>4. \A c \in C : \A f, h \in [C -> V] :
        (\A d \in C : Less(d, c) => f[d] = h[d]) => g[<<c, f>>] = g[<<c, h>>]
  BY DEF WellFounded
<1> HIDE DEF Less
<1>5. ASSUME NEW f \in [C -> V], NEW h \in [C -> V], NEW c \in C,
             Solves(f, c), Solves(h, c)
      PROVE  f[c] = h[c]
  <2> DEFINE T == {d \in C : (d = c \/ Less(d, c)) /\ f[d] # h[d]}
  <2> SUFFICES ASSUME T # {} PROVE FALSE
    OBVIOUS
  <2>1. PICK d \in T : \A e \in T : ~Less(e, d)  BY <1>3
  <2>2. \A e \in C : Less(e, d) => f[e] = h[e]  BY <1>1, <2>1
  <2>3. g[<<d, f>>] = g[<<d, h>>]  BY <1>4, <2>2
  <2> QED  BY <1>5, <2>1, <2>3
<1> DEFINE Good(c) == \E f \in [C -> V] : Solves(f, c)
           F(c) == CHOOSE f \in [C -> V] : Solves(f, c)
<1>6. \A c \in C : Good(c) => F(c) \in [C -> V] /\ Solves(F(c), c)
  OBVIOUS
<1>7. ASSUME NEW c \in C, NEW d \in C, Good(c), Good(d), Less(d, c)
      PROVE  F(c)[d] = F(d)[d]
  <2> HIDE DEF F, Good
  <2>1. /\ F(c) \in [C -> V] /\ Solves(F(c), c)
        /\ F(d) \in [C -> V] /\ Solves(F(d), d)
    BY <1>6, <1>7
  <2> HIDE DEF Solves
  <2>2. Solves(F(c), d)  BY <1>2, <1>7, <2>1
  <2> QED  BY <1>5, <2>1, <2>2
<1> HIDE DEF F
<1>8. ASSUME NEW c \in C, NEW h \in [C -> V],
             \A d \in C : Less(d, c) => Good(d) /\ h[d] = F(d)[d]
      PROVE  \A d \in C : Less(d, c) => h[d] = g[<<d, h>>]
  <2> SUFFICES ASSUME NEW d \in C, Less(d, c) PROVE h[d] = g[<<d, h>>]
    OBVIOUS
  <2>1. Good(d) /\ F(d) \in [C -> V] /\ Solves(F(d), d) BY <1>6, <1>8
  <2>2. \A e \in C : Less(e, d) => h[e] = F(d)[e]
    BY <1>1, <1>7, <1>8, <2>1
  <2>3. g[<<d, F(d)>>] = g[<<d, h>>]  BY <1>4, <2>1, <2>2
  <2> QED  BY <1>8, <2>1, <2>3
<1>9. \A c \in C : Good(c)
  <2> DEFINE T == {c \in C : ~Good(c)}
  <2> SUFFICES ASSUME T # {} PROVE FALSE
    OBVIOUS
  <2>1. PICK c \in T : \A d \in T : ~Less(d, c)  BY <1>3
  <2>2. c \in C /\ ~Good(c) /\ \A d \in C : Less(d, c) => Good(d)
    BY <2>1
  <2> HIDE DEF T
  <2> DEFINE k == [d \in C |-> IF Less(d, c) THEN F(d)[d] ELSE v]
             h == [k EXCEPT ![c] = g[<<c, k>>]]
  <2>3. k \in [C -> V]  BY <1>6, <2>2
  <2>4. \A d \in C : Less(d, c) => Good(d) /\ k[d] = F(d)[d]
    BY <2>2
  <2>5. \A d \in C : Less(d, c) => k[d] = g[<<d, k>>]
    BY <1>8, <2>2, <2>3, <2>4
  <2>6. g[<<c, k>>] \in V BY <2>2, <2>3
  <2>7. h \in [C -> V] /\ h[c] = g[<<c, k>>]
        /\ \A d \in C : d # c => h[d] = k[d]
    BY <2>2, <2>3, <2>6
  <2> HIDE DEF h, k
  <2>8. ~Less(c, c)  BY <1>0, <2>2
  <2>9. \A d \in C : Less(d, c) => h[d] = k[d]  BY <2>7, <2>8
  <2>10. g[<<c, h>>] = g[<<c, k>>]  BY <1>4, <2>2, <2>3, <2>7, <2>9
  <2>11. ASSUME NEW d \in C, Less(d, c)  PROVE h[d] = g[<<d, h>>]
    <3>1. \A e \in C : Less(e, d) => h[e] = k[e]
      BY <1>1, <2>2, <2>9, <2>11
    <3>2. g[<<d, h>>] = g[<<d, k>>]  BY <1>4, <2>3, <2>7, <3>1
    <3> QED  BY <2>5, <2>9, <2>11, <3>2
  <2>12. Solves(h, c)  BY <2>7, <2>10, <2>11
  <2> QED  BY <2>2, <2>7, <2>12
<1> DEFINE f == [c \in C |-> F(c)[c]]
<1>10. f \in [C -> V]  BY <1>6, <1>9
<1>11. ASSUME NEW c \in C PROVE f[c] = g[<<c, f>>]
  <2>1. F(c) \in [C -> V] /\ Solves(F(c), c)  BY <1>6, <1>9
  <2>2. \A d \in C : Less(d, c) => f[d] = F(c)[d]
    BY <1>7, <1>9
  <2>3. g[<<c, F(c)>>] = g[<<c, f>>]  BY <1>4, <1>10, <2>1, <2>2
  <2> QED  BY <2>1, <2>3
<1> QED  BY <1>10, <1>11 DEF HasSolution

-----------------------------------------------------------------------------
(* The function that resolve_container_path_impl defines.                  *)

\* A path, its first element and the rest.
LEMMA PathTail ==
  ASSUME NEW p \in Path, p # <<>>
  PROVE  /\ Head(p) \in Word /\ Tail(p) \in Path
         /\ Len(p) \in Nat \ {0} /\ Len(Tail(p)) = Len(p) - 1
         /\ DOMAIN p = 1..Len(p) /\ DOMAIN Tail(p) = 1..(Len(p) - 1)
         /\ Head(p) = p[1] /\ \A n \in 1..(Len(p) - 1) : Tail(p)[n] = p[n + 1]
<1>1. Len(p) \in Nat \ {0} /\ DOMAIN p = 1..Len(p)
  BY EmptySeq, LenProperties DEF Path
<1>2. /\ Head(p) \in Word /\ Tail(p) \in Path /\ Len(Tail(p)) = Len(p) - 1
      /\ \A n \in 1..Len(Tail(p)) : Tail(p)[n] = p[n + 1]
  BY HeadTailProperties DEF Path
<1>3. DOMAIN Tail(p) = 1..(Len(p) - 1)  BY <1>2, LenProperties DEF Path
<1> QED  BY <1>1, <1>2, <1>3 DEF Path

\* The call for the target of a link, what an element of the path resolves
\* to, and what a call returns, if f says what calls return.
Nested(links, c) ==
  LET to == links[Into(c.at, Head(c.path))]
  IN CallOf(c.depth + 1, From(c.at, to), IF Absolute(to) THEN Tail(to) ELSE to)
Element(links, f, c) ==
  LET tmp == Into(c.at, Head(c.path))
  IN IF tmp \notin DOMAIN links THEN tmp ELSE f[Nested(links, c)]
Body(links, f, c) ==
  IF c.depth >= MaxSymlinks THEN ELOOP
  ELSE IF c.path = <<>> THEN c.at
  ELSE IF Element(links, f, c) = ELOOP THEN ELOOP
  ELSE f[CallOf(c.depth, Element(links, f, c), Tail(c.path))]

\* Links lead to paths.
AreLinks(links) == links \in [DOMAIN links -> Path]

\* How deep a call can go, and how far.
CallRank == [c \in Call |-> IF c.depth < MaxSymlinks
                            THEN MaxSymlinks - c.depth ELSE 0]
CallLen == [c \in Call |-> Len(c.path)]

\* Calls, put together and taken apart.
LEMMA CallType ==
  ASSUME NEW d \in Nat, NEW a \in Path, NEW p \in Path
  PROVE  /\ CallOf(d, a, p) \in Call
         /\ CallOf(d, a, p).depth = d /\ CallOf(d, a, p).at = a
         /\ CallOf(d, a, p).path = p
  BY DEF Call, CallOf

\* What a call is made of.
LEMMA CallParts ==
  ASSUME NEW c \in Call
  PROVE  /\ c.depth \in Nat /\ c.at \in Path /\ c.path \in Path
         /\ c = CallOf(c.depth, c.at, c.path)
  BY DEF Call, CallOf

\* Paths stay paths.
LEMMA IntoPath ==
  ASSUME NEW a \in Path, NEW e \in Word
  PROVE  Into(a, e) \in Path
<1>1. Root \in Path  BY RootPath
<1>2. Append(a, e) \in Path  BY PathAppend
<1>3. Front(a) \in Path
  <2>1. CASE a = <<>>
    <3>1. Front(a) = <<>>  BY <2>1 DEF Front
    <3> QED  BY <2>1, <3>1
  <2>2. CASE a # <<>>  BY <2>2, PathFront
  <2> QED  BY <2>1, <2>2
<1> QED  BY <1>1, <1>2, <1>3 DEF Into

\* Two paths.
LEMMA EmptyPath == <<>> \in Path /\ ELOOP \in Path /\ Len(<<>>) = 0
<1>1. ASSUME NEW S, NEW e \in S PROVE <<e>> \in Seq(S)
  OBVIOUS
<1> QED  BY <1>1, EmptySeq, Words DEF Path, ELOOP

\* The calls that a call makes are smaller.
LEMMA SmallerCalls ==
  ASSUME MaxSymlinks \in Nat, NEW links, AreLinks(links),
         NEW c \in Call, c.depth < MaxSymlinks, c.path # <<>>
  PROVE  /\ Into(c.at, Head(c.path)) \in DOMAIN links =>
              /\ Nested(links, c) \in Call
              /\ Smaller(CallRank, CallLen, Nested(links, c), c)
         /\ \A a \in Path :
              LET d == CallOf(c.depth, a, Tail(c.path)) IN
              d \in Call /\ Smaller(CallRank, CallLen, d, c)
<1>1. /\ c.depth \in Nat /\ c.at \in Path /\ c.path \in Path
      /\ Head(c.path) \in Word /\ Tail(c.path) \in Path
      /\ Len(c.path) \in Nat \ {0} /\ Len(Tail(c.path)) = Len(c.path) - 1
  BY CallParts, PathTail
<1>2. ASSUME Into(c.at, Head(c.path)) \in DOMAIN links
      PROVE  /\ Nested(links, c) \in Call
             /\ Smaller(CallRank, CallLen, Nested(links, c), c)
  <2> DEFINE to == links[Into(c.at, Head(c.path))]
  <2>1. to \in Path  BY <1>2 DEF AreLinks
  <2>2. (IF Absolute(to) THEN Tail(to) ELSE to) \in Path
    BY <2>1, PathTail DEF Absolute
  <2>3. From(c.at, to) \in Path  BY <1>1, RootPath DEF From
  <2>4. Nested(links, c) \in Call /\ Nested(links, c).depth = c.depth + 1
    BY <1>1, <2>2, <2>3, CallType DEF Nested
  <2>5. CallRank[Nested(links, c)] < CallRank[c]
    BY <1>1, <2>4 DEF CallRank
  <2> QED  BY <2>4, <2>5 DEF Smaller
<1>3. ASSUME NEW a \in Path
      PROVE  LET d == CallOf(c.depth, a, Tail(c.path)) IN
             d \in Call /\ Smaller(CallRank, CallLen, d, c)
  <2> DEFINE d == CallOf(c.depth, a, Tail(c.path))
  <2>1. d \in Call /\ d.depth = c.depth /\ d.path = Tail(c.path)
    BY <1>1, CallType
  <2> HIDE DEF d
  <2>2. CallRank[d] = CallRank[c]  BY <2>1 DEF CallRank
  <2>3. CallLen[d] = Len(c.path) - 1 /\ CallLen[c] = Len(c.path)
    BY <1>1, <2>1 DEF CallLen
  <2>4. CallLen[d] < CallLen[c]  BY <1>1, <2>3
  <2> QED  BY <2>1, <2>2, <2>4 DEF Smaller, d
<1> QED  BY <1>2, <1>3

\* Both measures are numbers.
LEMMA CallMeasures ==
  ASSUME MaxSymlinks \in Nat
  PROVE  CallRank \in [Call -> Nat] /\ CallLen \in [Call -> Nat]
<1>1. \A c \in Call : c.depth \in Nat /\ Len(c.path) \in Nat
  BY CallParts, LenProperties DEF Path
<1> QED  BY <1>1 DEF CallRank, CallLen

\* The function is defined: a call returns a path, the one its body says.
LEMMA Resolution ==
  ASSUME MaxSymlinks \in Nat, NEW links, AreLinks(links),
         NEW f, f = resolve_container_path_impl(links)
  PROVE  f \in [Call -> Path] /\ \A c \in Call : f[c] = Body(links, f, c)
<1> DEFINE B(h) == [c \in Call |-> Body(links, h, c)]
           g == [x \in Call \X [Call -> Path] |-> Body(links, x[2], x[1])]
<1>1. ASSUME NEW c \in Call, NEW h, c.depth < MaxSymlinks, c.path # <<>>,
             \A d \in Call : Smaller(CallRank, CallLen, d, c) => h[d] \in Path
      PROVE  Element(links, h, c) \in Path
  <2>1. Into(c.at, Head(c.path)) \in Path
    BY <1>1, CallParts, PathTail, IntoPath
  <2> QED  BY <1>1, <2>1, SmallerCalls DEF Element
<1>2. ASSUME NEW c \in Call, NEW h,
             \A d \in Call : Smaller(CallRank, CallLen, d, c) => h[d] \in Path
      PROVE  Body(links, h, c) \in Path
  <2>0. c.depth \in Nat  BY CallParts
  <2>1. CASE c.depth >= MaxSymlinks \/ c.path = <<>>
    BY <2>1, EmptyPath, CallParts DEF Body
  <2>2. CASE c.depth < MaxSymlinks /\ c.path # <<>>
    <3>1. Element(links, h, c) \in Path  BY <1>1, <1>2, <2>2
    <3> DEFINE d == CallOf(c.depth, Element(links, h, c), Tail(c.path))
    <3>2. h[d] \in Path  BY <1>2, <2>2, <3>1, SmallerCalls
    <3> QED  BY <2>0, <2>2, <3>2, EmptyPath DEF Body
  <2> QED  BY <2>0, <2>1, <2>2
<1>3. g \in [Call \X [Call -> Path] -> Path]  BY <1>2
<1>4. ASSUME NEW c \in Call,
             NEW h \in [Call -> Path], NEW k \in [Call -> Path],
             \A d \in Call : Smaller(CallRank, CallLen, d, c) => h[d] = k[d]
      PROVE  Body(links, h, c) = Body(links, k, c)
  <2>1. CASE c.depth >= MaxSymlinks \/ c.path = <<>>
    BY <2>1 DEF Body
  <2>2. CASE c.depth < MaxSymlinks /\ c.path # <<>>
    <3>1. Element(links, h, c) = Element(links, k, c)
      BY <1>4, <2>2, SmallerCalls DEF Element
    <3>2. Element(links, h, c) \in Path  BY <1>1, <2>2
    <3> DEFINE d == CallOf(c.depth, Element(links, h, c), Tail(c.path))
    <3>3. d \in Call /\ Smaller(CallRank, CallLen, d, c)
      BY <2>2, <3>2, SmallerCalls
    <3>4. h[d] = k[d]  BY <1>4, <3>3
    <3> QED  BY <2>2, <3>1, <3>4 DEF Body
  <2> QED  BY <2>1, <2>2, CallParts
<1>5. \A c \in Call : \A h \in [Call -> Path] :
        g[<<c, h>>] = Body(links, h, c)
  OBVIOUS
<1> HIDE DEF g
<1>6. WellFounded(Call, Path, CallRank, CallLen, g)
  BY <1>4, <1>5 DEF WellFounded
<1>7. PICK h \in [Call -> Path] : \A c \in Call : h[c] = g[<<c, h>>]
  <2>1. /\ CallRank \in [Call -> Nat] /\ CallLen \in [Call -> Nat]
        /\ <<>> \in Path
    BY CallMeasures, EmptyPath
  <2>2. HasSolution(Call, Path, g)  BY <1>3, <1>6, <2>1, Recursion
  <2> QED  BY <2>2 DEF HasSolution
<1>8. h = B(h)
  <2>1. \A c \in Call : h[c] = Body(links, h, c)  BY <1>5, <1>7
  <2>2. h = [c \in Call |-> h[c]]  OBVIOUS
  <2> QED  BY <2>1, <2>2
<1>9. f = CHOOSE h_ : h_ = B(h_)
  BY Zenon DEF resolve_container_path_impl, Body, Nested, Element
<1> HIDE DEF B
<1>10. f = B(f)  BY <1>8, <1>9
<1>11. \A c \in Call : f[c] = Body(links, f, c)  BY <1>10 DEF B
<1>12. \A c \in Call : f[c] \in Path
  <2> DEFINE T == {c \in Call : f[c] \notin Path}
  <2> SUFFICES ASSUME T # {} PROVE FALSE
    OBVIOUS
  <2>1. T \in SUBSET Call  OBVIOUS
  <2>2. PICK c \in T : \A d \in T : ~Smaller(CallRank, CallLen, d, c)
    BY <2>1, CallMeasures, Smallest
  <2>3. Body(links, f, c) \in Path  BY <1>2, <2>2
  <2> QED  BY <1>11, <2>2, <2>3
<1>13. f = [c \in Call |-> f[c]]  BY <1>10 DEF B
<1> QED  BY <1>11, <1>12, <1>13

-----------------------------------------------------------------------------
(* What is resolved is in the root.                                        *)

\* Resolving paths of P from Q on leads to Q again.
Closed(links, P, Q) ==
  /\ P \subseteq Path /\ Q \subseteq Path /\ Root \in Q
  /\ \A p \in DOMAIN links : links[p] \in P
  /\ \A p \in P : p # <<>> =>
       /\ Tail(p) \in P
       /\ \A a \in Q : Into(a, Head(p)) \in Q \cup DOMAIN links

\* What is resolved from Q on ends in Q.
LEMMA StaysIn ==
  ASSUME MaxSymlinks \in Nat, NEW links, AreLinks(links),
         NEW P, NEW Q, Closed(links, P, Q),
         NEW f, f = resolve_container_path_impl(links),
         NEW c \in Call, c.at \in Q, c.path \in P
  PROVE  f[c] \in Q \cup {ELOOP}
<1> DEFINE T == {b \in Call : /\ b.at \in Q /\ b.path \in P
                              /\ f[b] \notin Q \cup {ELOOP}}
<1> SUFFICES ASSUME T # {} PROVE FALSE
  OBVIOUS
<1>1. T \in SUBSET Call  OBVIOUS
<1>2. PICK b \in T : \A d \in T : ~Smaller(CallRank, CallLen, d, b)
  BY <1>1, CallMeasures, Smallest
<1>3. f[b] = Body(links, f, b)  BY <1>2, Resolution
<1>4. b \in Call /\ b.depth \in Nat /\ b.at \in Q /\ b.path \in P
      /\ f[b] \notin Q \cup {ELOOP}
  BY <1>2, CallParts
<1> HIDE DEF T
<1>5. b.depth < MaxSymlinks /\ b.path # <<>>  BY <1>3, <1>4 DEF Body
<1> DEFINE tmp  == Into(b.at, Head(b.path))
           next == Element(links, f, b)
<1>6. Tail(b.path) \in P /\ tmp \in Q \cup DOMAIN links
  BY <1>4, <1>5 DEF Closed
<1>7. next \in Q \cup {ELOOP}
  <2>1. CASE tmp \notin DOMAIN links  BY <1>6, <2>1 DEF Element
  <2>2. CASE tmp \in DOMAIN links
    <3> DEFINE d  == Nested(links, b)
               to == links[tmp]
    <3>1. d \in Call /\ Smaller(CallRank, CallLen, d, b)
      BY <1>4, <1>5, <2>2, SmallerCalls
    <3>2. to \in P /\ to \in Path /\ b.at \in Path
      BY <1>4, <2>2 DEF Closed
    <3>3. From(b.at, to) \in Q /\ From(b.at, to) \in Path
      BY <1>4 DEF From, Closed
    <3>4. (IF Absolute(to) THEN Tail(to) ELSE to) \in P
      BY <3>2 DEF Absolute, Closed
    <3>5. (IF Absolute(to) THEN Tail(to) ELSE to) \in Path
      BY <3>4 DEF Closed
    <3>6. d.at \in Q /\ d.path \in P
      BY <1>4, <3>3, <3>4, <3>5, CallType DEF Nested
    <3>7. f[d] \in Q \cup {ELOOP}  BY <1>2, <3>1, <3>6 DEF T
    <3> QED  BY <2>2, <3>7 DEF Element
  <2> QED  BY <2>1, <2>2
<1>8. next # ELOOP  BY <1>3, <1>4, <1>5 DEF Body
<1>9. next \in Q /\ next \in Path  BY <1>7, <1>8 DEF Closed
<1> DEFINE d == CallOf(b.depth, next, Tail(b.path))
<1>10. d \in Call /\ Smaller(CallRank, CallLen, d, b)
  BY <1>4, <1>5, <1>9, SmallerCalls
<1>11. Tail(b.path) \in Path  BY <1>6 DEF Closed
<1> HIDE DEF next
<1>12. d.at \in Q /\ d.path \in P  BY <1>4, <1>6, <1>9, <1>11, CallType
<1>13. f[d] \in Q \cup {ELOOP}  BY <1>2, <1>10, <1>12 DEF T
<1> QED  BY <1>3, <1>4, <1>5, <1>8, <1>13 DEF Body, next

\* The links of a tree are links.
LEMMA TreeLinks ==
  ASSUME NEW t, IsTree(t)
  PROVE  /\ AreLinks(Links(t))
         /\ \A p \in DOMAIN Links(t) :
              p \in DOMAIN t /\ Is(t, p, "link") /\ Links(t)[p] = t[p].to
         /\ \A p : Is(t, p, "link") <=> p \in DOMAIN Links(t)
         /\ Root \notin DOMAIN Links(t)
<1>1. /\ DOMAIN Links(t) = {q \in DOMAIN t : Is(t, q, "link")}
      /\ \A p \in DOMAIN Links(t) : Links(t)[p] = t[p].to
      /\ Links(t) = [p \in DOMAIN Links(t) |-> Links(t)[p]]
  BY DEF Links
<1>2. \A p \in DOMAIN t : Is(t, p, "link") => t[p].to \in Path
  BY DEF IsTree, Is, Node, Dir
<1>3. AreLinks(Links(t))  BY <1>1, <1>2 DEF AreLinks
<1>4. ~Is(t, Root, "link")  BY DEF IsTree, Is
<1> QED  BY <1>1, <1>3, <1>4 DEF Is

\* Into() by its cases.
LEMMA IntoCases ==
  ASSUME NEW a, NEW e
  PROVE  \/ e = "/" /\ Into(a, e) = Root
         \/ e = ".." /\ a = Root /\ Into(a, e) = Root
         \/ e = ".." /\ a # Root /\ Into(a, e) = Front(a)
         \/ e \notin {"/", ".."} /\ Into(a, e) = Append(a, e)
  BY DEF Into

\* Paths of the root, whatever their elements.
InRoot == {p \in Path : p # <<>> /\ p[1] = "root"}

\* They are closed under what Into() does to them.
LEMMA InRootPath ==
  /\ Root \in InRoot
  /\ \A p \in InRoot : Len(p) \in Nat \ {0} /\ IsPrefix(Root, p)
                       /\ (Len(p) = 1 <=> p = Root)
  /\ \A p \in InRoot : p # Root => Front(p) \in InRoot
  /\ \A p \in InRoot, e \in Word : Append(p, e) \in InRoot
<1>1. Root \in InRoot  BY RootPath, EmptyPath DEF InRoot
<1>2. ASSUME NEW p \in InRoot
      PROVE  Len(p) \in Nat \ {0} /\ IsPrefix(Root, p)
             /\ (Len(p) = 1 <=> p = Root)
  <2>1. p \in Path /\ Len(p) \in Nat \ {0} /\ p[1] = "root"
    BY <1>2, PathFront DEF InRoot
  <2>2. ASSUME NEW q \in Path, Len(q) \in Nat \ {0}
        PROVE  /\ SubSeq(q, 1, 1) \in Path /\ Len(SubSeq(q, 1, 1)) = 1
               /\ SubSeq(q, 1, 1)[1] = q[1]
    <3>1. 1 \in 0..Len(q)  BY <2>2
    <3> QED  BY <3>1, PathCut
  <2>5. SubSeq(p, 1, 1) = SubSeq(Root, 1, 1)
    <3>1. Len(Root) \in Nat \ {0}  BY RootPath
    <3>2. /\ SubSeq(Root, 1, 1) \in Path /\ Len(SubSeq(Root, 1, 1)) = 1
          /\ SubSeq(Root, 1, 1)[1] = Root[1]
      BY <2>2, <3>1, RootPath
    <3>3. /\ SubSeq(p, 1, 1) \in Path /\ Len(SubSeq(p, 1, 1)) = 1
          /\ SubSeq(p, 1, 1)[1] = p[1]
      BY <2>1, <2>2
    <3> QED  BY <2>1, <3>2, <3>3, PathEqual, RootPath
  <2>6. IsPrefix(Root, p)  BY <2>1, <2>5, RootPath DEF IsPrefix
  <2>7. Len(p) = 1 => p = Root  BY <2>1, PathEqual, RootPath
  <2> QED  BY <2>1, <2>6, <2>7, RootPath
<1>3. ASSUME NEW p \in InRoot, p # Root
      PROVE  Front(p) \in InRoot
  <2>1. /\ p \in Path \ {<<>>} /\ p[1] = "root" /\ Len(p) \in Nat \ {0}
        /\ Len(p) # 1
    BY <1>2, <1>3 DEF InRoot
  <2>2. /\ Front(p) \in Path /\ Len(Front(p)) = Len(p) - 1
        /\ \A n \in 1..(Len(p) - 1) : Front(p)[n] = p[n]
    BY <2>1, PathFront
  <2>3. Front(p)[1] = "root" /\ Len(Front(p)) # 0  BY <2>1, <2>2
  <2> QED  BY <2>2, <2>3, EmptyPath DEF InRoot
<1>4. ASSUME NEW p \in InRoot, NEW e \in Word
      PROVE  Append(p, e) \in InRoot
  <2>1. p \in Path /\ p[1] = "root" /\ Len(p) \in Nat \ {0}
    BY <1>2 DEF InRoot
  <2>2. Append(p, e) \in Path \ {<<>>}  BY <2>1, PathAppend
  <2>3. Append(p, e)[1] = p[1]  BY <2>1, AppendProperties DEF Path
  <2> QED  BY <2>1, <2>2, <2>3 DEF InRoot
<1> QED  BY <1>1, <1>2, <1>3, <1>4

\* Whatever the path and the links in the root say, a destination that can be
\* resolved is in the root: mount.cpp:194, "so that containers cannot mount
\* anything outside root_path", and the assertion at line 231.
THEOREM ResolvesInRoot ==
  ASSUME NEW t, IsTree(t), NEW path \in Path
  PROVE  LET r == resolve_container_path(t, path)
         IN r # ELOOP => r \in Path /\ IsPrefix(Root, r)
<1>1. MaxSymlinks \in Nat  BY MountsAssumption
<1>2. AreLinks(Links(t))  BY TreeLinks
<1>3. Closed(Links(t), Path, InRoot)
  <2>1. \A p \in Path : p # <<>> => Tail(p) \in Path /\ Head(p) \in Word
    BY PathTail
  <2>2. ASSUME NEW a \in InRoot, NEW e \in Word
        PROVE  Into(a, e) \in InRoot
    <3>1. /\ Root \in InRoot /\ Append(a, e) \in InRoot
          /\ a # Root => Front(a) \in InRoot
      BY InRootPath
    <3> HIDE DEF InRoot
    <3>2. \/ Into(a, e) = Root
          \/ a # Root /\ Into(a, e) = Front(a)
          \/ Into(a, e) = Append(a, e)
      BY IntoCases
    <3> QED  BY <3>1, <3>2
  <2> QED  BY <1>2, <2>1, <2>2, InRootPath DEF Closed, AreLinks, InRoot
<1> DEFINE c == CallOf(0, Root, path)
<1>4. c \in Call /\ c.at \in InRoot /\ c.path \in Path
  BY CallType, RootPath, InRootPath
<1>5. resolve_container_path(t, path) \in InRoot \cup {ELOOP}
  BY <1>1, <1>2, <1>3, <1>4, StaysIn DEF resolve_container_path
<1> QED  BY <1>5, InRootPath DEF InRoot

\* If no name is in the way that ocijail or the container makes, none is in
\* what is resolved.
LEMMA ResolvesToPlace ==
  ASSUME NEW t, IsTree(t), NEW path \in Clean,
         \A p \in DOMAIN t : Is(t, p, "link") => t[p].to \in Clean
  PROVE  resolve_container_path(t, path) \in Place \cup {ELOOP}
<1>1. MaxSymlinks \in Nat  BY MountsAssumption
<1>2. AreLinks(Links(t))  BY TreeLinks
<1>3. Closed(Links(t), Clean, Place)
  <2>1. \A p \in DOMAIN Links(t) : Links(t)[p] \in Clean  BY TreeLinks
  <2>2. Root \in Place /\ Place \subseteq Path /\ Clean \subseteq Path
    BY RootPlace DEF Place, Clean
  <2>3. ASSUME NEW p \in Clean, p # <<>>
        PROVE  /\ Tail(p) \in Clean /\ Head(p) \in Word
               /\ Head(p) \notin {".save", "new"}
    <3>1. p \in Path /\ \A n \in DOMAIN p : p[n] \notin {".save", "new"}
      BY DEF Clean
    <3>2. /\ Head(p) \in Word /\ Tail(p) \in Path
          /\ Len(p) \in Nat \ {0}
          /\ DOMAIN p = 1..Len(p) /\ DOMAIN Tail(p) = 1..(Len(p) - 1)
          /\ Head(p) = p[1]
          /\ \A n \in 1..(Len(p) - 1) : Tail(p)[n] = p[n + 1]
      BY <2>3, <3>1, PathTail
    <3>3. \A n \in 1..(Len(p) - 1) : n + 1 \in 1..Len(p) /\ 1 \in 1..Len(p)
      BY <3>2
    <3>4. 1 \in 1..Len(p)  BY <3>2
    <3> QED  BY <3>1, <3>2, <3>3, <3>4 DEF Clean
  <2>4. ASSUME NEW a \in Place, NEW e \in Word, e \notin {".save", "new"}
        PROVE  Into(a, e) \in Place
    <3>1. a # Root => Front(a) \in Place
      <4>1. Len(a) \in Nat \ {0}  BY PlacePath
      <4>2. a # Root => Len(a) # 1  BY PlacePath
      <4> DEFINE l == Len(a)
      <4>3. l \in Nat \ {0} /\ (a # Root => l # 1)  BY <4>1, <4>2
      <4> HIDE DEF l
      <4>4. a # Root => l > 1  BY <4>3
      <4> QED  BY <4>4, PlacePath DEF l
    <3>2. Append(a, e) \in Place  BY <2>4, PlaceAppend
    <3> QED  BY <2>2, <3>1, <3>2, IntoCases
  <2> QED  BY <2>1, <2>2, <2>3, <2>4 DEF Closed
<1> DEFINE c == CallOf(0, Root, path)
<1>4. c \in Call /\ c.at \in Place /\ c.path \in Clean
  BY CallType, RootPath, RootPlace DEF Clean
<1> QED
  BY <1>1, <1>2, <1>3, <1>4, StaysIn DEF resolve_container_path

-----------------------------------------------------------------------------
(* The function that Walk defines, the lookup of a kernel.                 *)

\* The whole of a lookup, if f says what lookups find.
WalkBody(t, f, c) ==
  IF c.path = <<>> THEN c.at
  ELSE LET e    == Head(c.path)
           tmp  == Append(c.at, e)
           rest == Tail(c.path)
       IN IF e = "/" THEN f[WalkOf(c.links, Root, rest)]
          ELSE IF e = ".."
          THEN f[WalkOf(c.links, IF Len(c.at) = 1 THEN c.at
                                 ELSE Front(c.at), rest)]
          ELSE IF ~Is(t, tmp, "link")
          THEN f[WalkOf(c.links, tmp, rest)]
          ELSE IF c.links = 0 THEN ELOOP
          ELSE f[WalkOf(c.links - 1, c.at, t[tmp].to \o rest)]

\* A lookup that may follow no more links, and the one another goes on with.
GivesUp(t, c) ==
  /\ Head(c.path) \notin {"/", ".."} /\ c.links = 0
  /\ Is(t, Append(c.at, Head(c.path)), "link")
WalkStep(t, c) ==
  LET e    == Head(c.path)
      tmp  == Append(c.at, e)
      rest == Tail(c.path)
  IN CASE e = "/"  -> WalkOf(c.links, Root, rest)
       [] e = ".." -> WalkOf(c.links, IF Len(c.at) = 1 THEN c.at
                                      ELSE Front(c.at), rest)
       [] e \notin {"/", ".."} /\ ~Is(t, tmp, "link") ->
            WalkOf(c.links, tmp, rest)
       [] e \notin {"/", ".."} /\ Is(t, tmp, "link") ->
            WalkOf(c.links - 1, c.at, t[tmp].to \o rest)

\* How many links a lookup may follow, and how far it goes.
WalkRank == [c \in Walking |-> c.links]
WalkLen == [c \in Walking |-> Len(c.path)]

\* Lookups, put together and taken apart.
LEMMA WalkType ==
  ASSUME NEW n \in Nat, NEW a \in Path, NEW p \in Path
  PROVE  /\ WalkOf(n, a, p) \in Walking
         /\ WalkOf(n, a, p).links = n /\ WalkOf(n, a, p).at = a
         /\ WalkOf(n, a, p).path = p
  BY DEF Walking, WalkOf

\* Both measures are numbers.
LEMMA WalkMeasures ==
  /\ \A c \in Walking : c.links \in Nat /\ c.at \in Path /\ c.path \in Path
  /\ WalkRank \in [Walking -> Nat] /\ WalkLen \in [Walking -> Nat]
<1>1. \A c \in Walking : c.links \in Nat /\ c.at \in Path /\ c.path \in Path
  BY DEF Walking
<1>2. \A c \in Walking : Len(c.path) \in Nat
  BY <1>1, LenProperties DEF Path
<1> QED  BY <1>1, <1>2 DEF WalkRank, WalkLen

\* A lookup is at its end, gives up or goes on.
LEMMA WalkCases ==
  ASSUME NEW t, NEW f, NEW c
  PROVE  WalkBody(t, f, c) = IF c.path = <<>> THEN c.at
                             ELSE IF GivesUp(t, c) THEN ELOOP
                             ELSE f[WalkStep(t, c)]
<1> DEFINE e == Head(c.path)
           l == Is(t, Append(c.at, e), "link")
<1>1. CASE c.path = <<>>  BY <1>1 DEF WalkBody
<1>2. CASE c.path # <<>> /\ e = "/"  BY <1>2 DEF WalkBody, GivesUp, WalkStep
<1>3. CASE c.path # <<>> /\ e = ".."  BY <1>3 DEF WalkBody, GivesUp, WalkStep
<1>4. CASE c.path # <<>> /\ e \notin {"/", ".."} /\ ~l
  BY <1>4 DEF WalkBody, GivesUp, WalkStep
<1>5. CASE c.path # <<>> /\ e \notin {"/", ".."} /\ l
  BY <1>5 DEF WalkBody, GivesUp, WalkStep
<1> QED  BY <1>1, <1>2, <1>3, <1>4, <1>5

\* A lookup goes on with a smaller one.
LEMMA SmallerWalks ==
  ASSUME NEW t, IsTree(t), NEW c \in Walking, c.path # <<>>, ~GivesUp(t, c)
  PROVE  /\ WalkStep(t, c) \in Walking
         /\ Smaller(WalkRank, WalkLen, WalkStep(t, c), c)
<1> DEFINE e    == Head(c.path)
           tmp  == Append(c.at, e)
           rest == Tail(c.path)
           s    == WalkStep(t, c)
<1>1. /\ c.links \in Nat /\ c.at \in Path /\ c.path \in Path
      /\ e \in Word /\ rest \in Path
      /\ Len(c.path) \in Nat \ {0} /\ Len(rest) = Len(c.path) - 1
      /\ Len(rest) < Len(c.path)
  BY WalkMeasures, PathTail
<1>2. ASSUME NEW a \in Path, s = WalkOf(c.links, a, rest)
      PROVE  s \in Walking /\ Smaller(WalkRank, WalkLen, s, c)
  <2>1. s \in Walking /\ s.links = c.links /\ s.path = rest
    BY <1>1, <1>2, WalkType
  <2> HIDE DEF s, rest
  <2>2. WalkRank[s] = WalkRank[c]  BY <2>1 DEF WalkRank
  <2>3. WalkLen[s] = Len(rest) /\ WalkLen[c] = Len(c.path)
    BY <2>1 DEF WalkLen
  <2>4. WalkLen[s] < WalkLen[c]  BY <1>1, <2>3
  <2> QED  BY <2>1, <2>2, <2>4 DEF Smaller
<1>3. CASE e = "/"
  <2>1. s = WalkOf(c.links, Root, rest)  BY <1>3 DEF WalkStep
  <2> QED  BY <1>2, <2>1, RootPath
<1>4. CASE e = ".."
  <2> DEFINE a == IF Len(c.at) = 1 THEN c.at ELSE Front(c.at)
  <2>1. Front(c.at) \in Path
    <3>1. CASE c.at = <<>>
      <4>1. Front(c.at) = <<>>  BY <3>1 DEF Front
      <4> QED  BY <4>1, EmptyPath
    <3>2. CASE c.at # <<>>  BY <1>1, <3>2, PathFront
    <3> QED  BY <3>1, <3>2
  <2>2. a \in Path  BY <1>1, <2>1
  <2>3. s = WalkOf(c.links, a, rest)  BY <1>4 DEF WalkStep
  <2> QED  BY <1>2, <2>2, <2>3
<1>5. CASE e \notin {"/", ".."} /\ ~Is(t, tmp, "link")
  <2>1. s = WalkOf(c.links, tmp, rest)  BY <1>5 DEF WalkStep
  <2>2. tmp \in Path  BY <1>1, PathAppend
  <2> QED  BY <1>2, <2>1, <2>2
<1>6. CASE e \notin {"/", ".."} /\ Is(t, tmp, "link")
  <2> DEFINE p == t[tmp].to \o rest
  <2>1. s = WalkOf(c.links - 1, c.at, p)  BY <1>6 DEF WalkStep
  <2>2. t[tmp].to \in Path  BY <1>6, TreeLinks DEF AreLinks
  <2>3. p \in Path  BY <1>1, <2>2, ConcatProperties DEF Path
  <2>4. c.links # 0  BY <1>6 DEF GivesUp
  <2>5. c.links - 1 \in Nat /\ c.links - 1 < c.links  BY <1>1, <2>4
  <2> HIDE DEF s, p
  <2>6. s \in Walking /\ s.links = c.links - 1
    BY <1>1, <2>1, <2>3, <2>5, WalkType
  <2>7. WalkRank[s] < WalkRank[c]  BY <2>5, <2>6 DEF WalkRank
  <2> QED  BY <2>6, <2>7 DEF Smaller, s
<1> QED  BY <1>3, <1>4, <1>5, <1>6

\* The function is defined: a lookup finds a path, the one its body says.
LEMMA Lookup ==
  ASSUME NEW t, IsTree(t), NEW f, f = Walk(t)
  PROVE  /\ f \in [Walking -> Path]
         /\ \A c \in Walking : f[c] = WalkBody(t, f, c)
<1> DEFINE B(h) == [c \in Walking |-> WalkBody(t, h, c)]
           g == [x \in Walking \X [Walking -> Path] |->
                   WalkBody(t, x[2], x[1])]
<1>1. ASSUME NEW c \in Walking, NEW h,
             \A d \in Walking : Smaller(WalkRank, WalkLen, d, c)
                                  => h[d] \in Path
      PROVE  WalkBody(t, h, c) \in Path
  <2>1. CASE c.path = <<>>  BY <2>1, WalkMeasures, WalkCases
  <2>2. CASE c.path # <<>> /\ GivesUp(t, c)
    BY <2>2, EmptyPath, WalkCases
  <2>3. CASE c.path # <<>> /\ ~GivesUp(t, c)
    <3>1. h[WalkStep(t, c)] \in Path  BY <1>1, <2>3, SmallerWalks
    <3> QED  BY <2>3, <3>1, WalkCases
  <2> QED  BY <2>1, <2>2, <2>3
<1>2. g \in [Walking \X [Walking -> Path] -> Path]  BY <1>1
<1>3. ASSUME NEW c \in Walking, NEW h, NEW k,
             \A d \in Walking : Smaller(WalkRank, WalkLen, d, c)
                                  => h[d] = k[d]
      PROVE  WalkBody(t, h, c) = WalkBody(t, k, c)
  <2>1. CASE c.path = <<>> \/ GivesUp(t, c)  BY <2>1, WalkCases
  <2>2. CASE c.path # <<>> /\ ~GivesUp(t, c)
    <3>1. h[WalkStep(t, c)] = k[WalkStep(t, c)]  BY <1>3, <2>2, SmallerWalks
    <3> QED  BY <2>2, <3>1, WalkCases
  <2> QED  BY <2>1, <2>2
<1>4. \A c \in Walking : \A h \in [Walking -> Path] :
        g[<<c, h>>] = WalkBody(t, h, c)
  OBVIOUS
<1> HIDE DEF g
<1>5. WellFounded(Walking, Path, WalkRank, WalkLen, g)
  BY <1>3, <1>4 DEF WellFounded
<1>6. PICK h \in [Walking -> Path] : \A c \in Walking : h[c] = g[<<c, h>>]
  <2>1. HasSolution(Walking, Path, g)
    BY <1>2, <1>5, WalkMeasures, EmptyPath, Recursion
  <2> QED  BY <2>1 DEF HasSolution
<1>7. h = B(h)
  <2>1. \A c \in Walking : h[c] = WalkBody(t, h, c)  BY <1>4, <1>6
  <2>2. h = [c \in Walking |-> h[c]]  OBVIOUS
  <2> QED  BY <2>1, <2>2
<1>8. f = CHOOSE h_ : h_ = B(h_)
  BY Zenon DEF Walk, WalkBody
<1> HIDE DEF B
<1>9. f = B(f)  BY <1>7, <1>8
<1>10. \A c \in Walking : f[c] = WalkBody(t, f, c)  BY <1>9 DEF B
<1>11. \A c \in Walking : f[c] \in Path
  <2> DEFINE T == {c \in Walking : f[c] \notin Path}
  <2> SUFFICES ASSUME T # {} PROVE FALSE
    OBVIOUS
  <2>1. T \in SUBSET Walking  OBVIOUS
  <2>2. PICK c \in T : \A d \in T : ~Smaller(WalkRank, WalkLen, d, c)
    BY <2>1, WalkMeasures, Smallest
  <2>3. WalkBody(t, f, c) \in Path  BY <1>1, <2>2
  <2> QED  BY <1>10, <2>2, <2>3
<1>12. f = [c \in Walking |-> f[c]]  BY <1>9 DEF B
<1> QED  BY <1>10, <1>11, <1>12

-----------------------------------------------------------------------------
(* The lookup of a kernel, when more of the path follows.                  *)

\* Paths one after another.
LEMMA PathConcat ==
  ASSUME NEW p \in Path, NEW q \in Path
  PROVE  /\ p \o q \in Path /\ p \o <<>> = p /\ <<>> \o p = p
         /\ p # <<>> => /\ p \o q # <<>> /\ Head(p \o q) = Head(p)
                        /\ Tail(p \o q) = Tail(p) \o q
<1>1. /\ p \o q \in Path /\ Len(p \o q) = Len(p) + Len(q)
      /\ \A n \in 1..(Len(p) + Len(q)) :
           (p \o q)[n] = IF n <= Len(p) THEN p[n] ELSE q[n - Len(p)]
  BY ConcatProperties DEF Path
<1>2. p \o <<>> = p /\ <<>> \o p = p  BY ConcatEmptySeq DEF Path
<1>3. ASSUME p # <<>>
      PROVE  /\ p \o q # <<>> /\ Head(p \o q) = Head(p)
             /\ Tail(p \o q) = Tail(p) \o q
  <2>1. /\ Len(p) \in Nat \ {0} /\ Len(q) \in Nat
        /\ Head(p) = p[1] /\ Tail(p) \in Path /\ Len(Tail(p)) = Len(p) - 1
        /\ \A n \in 1..(Len(p) - 1) : Tail(p)[n] = p[n + 1]
    BY <1>3, PathTail, LenProperties DEF Path
  <2> DEFINE c == p \o q
             h == Tail(p)
  <2>2. c \in Path /\ c # <<>>  BY <1>1, <2>1, EmptyPath
  <2>3. /\ Head(c) = c[1] /\ Tail(c) \in Path /\ Len(Tail(c)) = Len(c) - 1
        /\ \A n \in 1..(Len(c) - 1) : Tail(c)[n] = c[n + 1]
    BY <2>2, PathTail
  <2>4. /\ h \o q \in Path /\ Len(h \o q) = Len(h) + Len(q)
        /\ \A n \in 1..(Len(h) + Len(q)) :
             (h \o q)[n] = IF n <= Len(h) THEN h[n] ELSE q[n - Len(h)]
    <3>1. h \in Path  BY <2>1
    <3> HIDE DEF h
    <3> QED  BY <3>1, ConcatProperties DEF Path
  <2>5. /\ Len(c) = Len(p) + Len(q)
        /\ \A n \in 1..(Len(p) + Len(q)) :
             c[n] = IF n <= Len(p) THEN p[n] ELSE q[n - Len(p)]
    BY <1>1
  <2>6. /\ Len(h) = Len(p) - 1 /\ h \in Path
        /\ \A n \in 1..(Len(p) - 1) : h[n] = p[n + 1]
    BY <2>1
  <2> HIDE DEF c, h
  <2>7. Len(Tail(c)) = Len(h \o q)  BY <2>1, <2>3, <2>4, <2>5, <2>6
  <2>8. ASSUME NEW n \in 1..Len(Tail(c))
        PROVE  Tail(c)[n] = (h \o q)[n]
    <3>1. /\ n \in Nat /\ n + 1 \in 1..(Len(p) + Len(q))
          /\ n \in 1..(Len(c) - 1) /\ n \in 1..(Len(h) + Len(q))
      BY <2>1, <2>3, <2>5, <2>6, <2>8
    <3>2. Tail(c)[n] = c[n + 1]  BY <2>3, <3>1
    <3>3. CASE n + 1 <= Len(p)
      <4>1. c[n + 1] = p[n + 1]  BY <2>5, <3>1, <3>3
      <4>2. n \in 1..(Len(p) - 1) /\ n <= Len(h)
        BY <2>1, <2>6, <3>1, <3>3
      <4>3. (h \o q)[n] = p[n + 1]  BY <2>4, <2>6, <3>1, <4>2
      <4> QED  BY <3>2, <4>1, <4>3
    <3>4. CASE n + 1 > Len(p)
      <4>1. c[n + 1] = q[n + 1 - Len(p)]  BY <2>1, <2>5, <3>1, <3>4
      <4>2. ~(n <= Len(h)) /\ n - Len(h) = n + 1 - Len(p)
        BY <2>1, <2>6, <3>1, <3>4
      <4>3. (h \o q)[n] = q[n - Len(h)]  BY <2>4, <3>1, <4>2
      <4> QED  BY <3>2, <4>1, <4>2, <4>3
    <3> QED  BY <2>1, <3>1, <3>3, <3>4
  <2>9. Tail(c) = h \o q  BY <2>3, <2>4, <2>7, <2>8, PathEqual
  <2>10. Head(c) = Head(p)
    <3>1. 1 \in 1..(Len(p) + Len(q)) /\ 1 <= Len(p)  BY <2>1
    <3> QED  BY <2>1, <2>3, <2>5, <3>1
  <2> QED  BY <2>2, <2>9, <2>10 DEF c, h
<1> QED  BY <1>1, <1>2, <1>3

\* Three paths one after another.
LEMMA PathAssociative ==
  \A p, q, r \in Path : (p \o q) \o r = p \o (q \o r)
  BY ConcatAssociative DEF Path

\* The lookup f of p from a leads to that of q from b, over k links; if it may
\* follow fewer it gives up on them.
Leads(f, k, a, p, b, q) ==
  \A rest \in Path :
    /\ \A n \in Nat :
         f[WalkOf(n + k, a, p \o rest)] = f[WalkOf(n, b, q \o rest)]
    /\ \A n \in Nat : n < k => f[WalkOf(n, a, p \o rest)] = ELOOP

\* The lookup f of p from a gives up if it may follow fewer links than k.
Fails(f, k, a, p) ==
  \A rest \in Path : \A n \in Nat : n < k => f[WalkOf(n, a, p \o rest)] = ELOOP

\* One lookup after another.
LEMMA LeadsOn ==
  ASSUME NEW f, NEW a, NEW b, NEW c, NEW p, NEW q, NEW r,
         NEW k \in Nat, NEW l \in Nat, Leads(f, k, a, p, b, q)
  PROVE  /\ Leads(f, l, b, q, c, r) => Leads(f, k + l, a, p, c, r)
         /\ Fails(f, l, b, q) => Fails(f, k + l, a, p)
<1>1. ASSUME NEW rest \in Path, NEW n \in Nat
      PROVE  /\ f[WalkOf(n + k, a, p \o rest)] = f[WalkOf(n, b, q \o rest)]
             /\ n < k => f[WalkOf(n, a, p \o rest)] = ELOOP
  BY DEF Leads
<1>2. ASSUME Leads(f, l, b, q, c, r)
      PROVE  Leads(f, k + l, a, p, c, r)
  <2> SUFFICES ASSUME NEW rest \in Path, NEW n \in Nat
               PROVE  /\ f[WalkOf(n + (k + l), a, p \o rest)]
                           = f[WalkOf(n, c, r \o rest)]
                      /\ n < k + l => f[WalkOf(n, a, p \o rest)] = ELOOP
    BY DEF Leads
  <2>1. ASSUME NEW m \in Nat
        PROVE  /\ f[WalkOf(m + l, b, q \o rest)] = f[WalkOf(m, c, r \o rest)]
               /\ m < l => f[WalkOf(m, b, q \o rest)] = ELOOP
    BY <1>2 DEF Leads
  <2>2. f[WalkOf(n + (k + l), a, p \o rest)] = f[WalkOf(n, c, r \o rest)]
    <3>1. n + l \in Nat /\ n + (k + l) = (n + l) + k  OBVIOUS
    <3>2. f[WalkOf((n + l) + k, a, p \o rest)] = f[WalkOf(n + l, b, q \o rest)]
      BY <1>1, <3>1
    <3> QED  BY <2>1, <3>1, <3>2
  <2>3. ASSUME n < k + l
        PROVE  f[WalkOf(n, a, p \o rest)] = ELOOP
    <3>1. CASE n < k  BY <1>1, <3>1
    <3>2. CASE n >= k
      <4>1. n - k \in Nat /\ n - k < l /\ (n - k) + k = n  BY <2>3, <3>2
      <4>2. f[WalkOf((n - k) + k, a, p \o rest)]
              = f[WalkOf(n - k, b, q \o rest)]
        BY <1>1, <4>1
      <4> QED  BY <2>1, <4>1, <4>2
    <3> QED  BY <3>1, <3>2
  <2> QED  BY <2>2, <2>3
<1>3. ASSUME Fails(f, l, b, q)
      PROVE  Fails(f, k + l, a, p)
  <2> SUFFICES ASSUME NEW rest \in Path, NEW n \in Nat, n < k + l
               PROVE  f[WalkOf(n, a, p \o rest)] = ELOOP
    BY DEF Fails
  <2>1. CASE n < k  BY <1>1, <2>1
  <2>2. CASE n >= k
    <3>1. n - k \in Nat /\ n - k < l /\ (n - k) + k = n  BY <2>2
    <3>2. f[WalkOf((n - k) + k, a, p \o rest)] = f[WalkOf(n - k, b, q \o rest)]
      BY <1>1, <3>1
    <3>3. f[WalkOf(n - k, b, q \o rest)] = ELOOP  BY <1>3, <3>1 DEF Fails
    <3> QED  BY <3>1, <3>2, <3>3
  <2> QED  BY <2>1, <2>2
<1> QED  BY <1>2, <1>3

\* It makes no difference to that what follows p and q.
LEMMA LeadsBefore ==
  ASSUME NEW f, NEW a, NEW b, NEW k \in Nat,
         NEW p \in Path, NEW q \in Path, NEW s \in Path
  PROVE  /\ Leads(f, k, a, p, b, q) => Leads(f, k, a, p \o s, b, q \o s)
         /\ Fails(f, k, a, p) => Fails(f, k, a, p \o s)
<1>1. ASSUME NEW rest \in Path
      PROVE  /\ s \o rest \in Path
             /\ (p \o s) \o rest = p \o (s \o rest)
             /\ (q \o s) \o rest = q \o (s \o rest)
  <2>1. s \o rest \in Path  BY PathConcat
  <2>2. (p \o s) \o rest = p \o (s \o rest)  BY PathAssociative
  <2>3. (q \o s) \o rest = q \o (s \o rest)  BY PathAssociative
  <2> QED  BY <2>1, <2>2, <2>3
<1>2. ASSUME Leads(f, k, a, p, b, q)
      PROVE  Leads(f, k, a, p \o s, b, q \o s)
  <2> SUFFICES ASSUME NEW rest \in Path, NEW n \in Nat
               PROVE  /\ f[WalkOf(n + k, a, (p \o s) \o rest)]
                           = f[WalkOf(n, b, (q \o s) \o rest)]
                      /\ n < k => f[WalkOf(n, a, (p \o s) \o rest)] = ELOOP
    BY DEF Leads
  <2>1. /\ f[WalkOf(n + k, a, p \o (s \o rest))]
             = f[WalkOf(n, b, q \o (s \o rest))]
        /\ n < k => f[WalkOf(n, a, p \o (s \o rest))] = ELOOP
    BY <1>1, <1>2 DEF Leads
  <2> QED  BY <1>1, <2>1
<1>3. ASSUME Fails(f, k, a, p)
      PROVE  Fails(f, k, a, p \o s)
  <2> SUFFICES ASSUME NEW rest \in Path, NEW n \in Nat, n < k
               PROVE  f[WalkOf(n, a, (p \o s) \o rest)] = ELOOP
    BY DEF Fails
  <2>1. f[WalkOf(n, a, p \o (s \o rest))] = ELOOP  BY <1>1, <1>3 DEF Fails
  <2> QED  BY <1>1, <2>1
<1> QED  BY <1>2, <1>3

-----------------------------------------------------------------------------
(* The resolution and the lookup agree.                                    *)

\* Paths of the root with no link on them.
Unlinked(links) ==
  {p \in InRoot : \A n \in 1..Len(p) : SubSeq(p, 1, n) \notin DOMAIN links}

\* The resolution is never at a link, or beyond one it has not followed.
LEMMA StaysUnlinked ==
  ASSUME NEW t, IsTree(t)
  PROVE  /\ Closed(Links(t), Path, Unlinked(Links(t)))
         /\ Unlinked(Links(t)) \cap DOMAIN Links(t) = {}
         /\ \A a \in Unlinked(Links(t)), e \in Word :
              Into(a, e) \in DOMAIN Links(t) => e \notin {"/", ".."}
<1> DEFINE links == Links(t)
           U     == Unlinked(Links(t))
<1>1. ASSUME NEW p \in U
      PROVE  /\ p \in InRoot /\ p \in Path /\ Len(p) \in Nat \ {0}
             /\ p \notin DOMAIN links
             /\ \A n \in 1..Len(p) : SubSeq(p, 1, n) \notin DOMAIN links
  <2>1. /\ p \in InRoot /\ p \in Path /\ Len(p) \in Nat \ {0}
        /\ \A n \in 1..Len(p) : SubSeq(p, 1, n) \notin DOMAIN links
    BY InRootPath DEF Unlinked, InRoot
  <2>2. Len(p) \in 0..Len(p) /\ Len(p) \in 1..Len(p)  BY <2>1
  <2>3. /\ SubSeq(p, 1, Len(p)) \in Path /\ Len(SubSeq(p, 1, Len(p))) = Len(p)
        /\ \A k \in 1..Len(p) : SubSeq(p, 1, Len(p))[k] = p[k]
    BY <2>1, <2>2, PathCut
  <2>4. SubSeq(p, 1, Len(p)) = p  BY <2>1, <2>3, PathEqual
  <2> QED  BY <2>1, <2>2, <2>4
<1>2. ASSUME NEW p \in Path, NEW q \in Path, NEW l \in Nat,
             l <= Len(p), l <= Len(q), \A n \in 1..l : p[n] = q[n],
             NEW n \in 1..l
      PROVE  SubSeq(p, 1, n) = SubSeq(q, 1, n)
  <2>1. Len(p) \in Nat /\ Len(q) \in Nat  BY LenProperties DEF Path
  <2>2. n \in 0..Len(p) /\ n \in 0..Len(q)  BY <1>2, <2>1
  <2>3. /\ SubSeq(p, 1, n) \in Path /\ Len(SubSeq(p, 1, n)) = n
        /\ \A k \in 1..n : SubSeq(p, 1, n)[k] = p[k]
    BY <2>2, PathCut
  <2>4. /\ SubSeq(q, 1, n) \in Path /\ Len(SubSeq(q, 1, n)) = n
        /\ \A k \in 1..n : SubSeq(q, 1, n)[k] = q[k]
    BY <2>2, PathCut
  <2>5. \A k \in 1..n : k \in 1..l  OBVIOUS
  <2>6. \A k \in 1..n : SubSeq(p, 1, n)[k] = SubSeq(q, 1, n)[k]
    BY <1>2, <2>3, <2>4, <2>5
  <2> QED  BY <2>3, <2>4, <2>6, PathEqual
<1>3. Root \in U
  <2>1. Root \in InRoot /\ Root \in Path /\ Len(Root) = 1
    BY RootPath, InRootPath
  <2>2. 1 \in 0..Len(Root)  BY <2>1
  <2>3. /\ SubSeq(Root, 1, 1) \in Path /\ Len(SubSeq(Root, 1, 1)) = 1
        /\ \A k \in 1..1 : SubSeq(Root, 1, 1)[k] = Root[k]
    BY <2>1, <2>2, PathCut
  <2>4. SubSeq(Root, 1, 1) = Root  BY <2>1, <2>3, PathEqual
  <2>5. Root \notin DOMAIN links  BY TreeLinks
  <2>6. \A n \in 1..Len(Root) : n = 1  BY <2>1
  <2> QED  BY <2>1, <2>4, <2>5, <2>6 DEF Unlinked
<1>4. ASSUME NEW a \in U, a # Root
      PROVE  Front(a) \in U
  <2>1. /\ a \in InRoot /\ a \in Path /\ Len(a) \in Nat \ {0}
        /\ \A n \in 1..Len(a) : SubSeq(a, 1, n) \notin DOMAIN links
    BY <1>1
  <2>2. Front(a) \in InRoot  BY <1>4, <2>1, InRootPath
  <2>3. /\ Front(a) \in Path /\ Len(Front(a)) = Len(a) - 1
        /\ \A n \in 1..(Len(a) - 1) : Front(a)[n] = a[n]
    BY <2>1, PathFront, EmptyPath
  <2> DEFINE l == Len(a) - 1
             b == Front(a)
  <2>4. /\ l \in Nat /\ l <= Len(a) /\ b \in Path /\ Len(b) = l /\ l <= Len(b)
        /\ \A n \in 1..l : b[n] = a[n] /\ n \in 1..Len(a)
    BY <2>1, <2>3
  <2> HIDE DEF l, b
  <2>5. \A n \in 1..l : SubSeq(b, 1, n) = SubSeq(a, 1, n)
    BY <1>2, <2>1, <2>4
  <2>6. b \in InRoot  BY <2>2 DEF b
  <2>7. b \in U  BY <2>1, <2>4, <2>5, <2>6 DEF Unlinked
  <2> QED  BY <2>7 DEF b
<1>5. ASSUME NEW a \in U, NEW e \in Word, Append(a, e) \notin DOMAIN links
      PROVE  Append(a, e) \in U
  <2>1. /\ a \in InRoot /\ a \in Path /\ Len(a) \in Nat \ {0}
        /\ \A n \in 1..Len(a) : SubSeq(a, 1, n) \notin DOMAIN links
    BY <1>1
  <2> DEFINE l == Len(a)
             b == Append(a, e)
  <2>2. /\ b \in InRoot /\ b \in Path /\ Len(b) = l + 1 /\ l \in Nat
        /\ \A n \in 1..l : b[n] = a[n]
    BY <2>1, InRootPath, AppendProperties DEF Path
  <2> HIDE DEF b
  <2>3. \A n \in 1..l : SubSeq(b, 1, n) = SubSeq(a, 1, n)
    BY <1>2, <2>1, <2>2
  <2>4. Len(b) \in 0..Len(b)  BY <2>2
  <2>5. /\ SubSeq(b, 1, Len(b)) \in Path /\ Len(SubSeq(b, 1, Len(b))) = Len(b)
        /\ \A k \in 1..Len(b) : SubSeq(b, 1, Len(b))[k] = b[k]
    BY <2>2, <2>4, PathCut
  <2>6. SubSeq(b, 1, Len(b)) = b  BY <2>2, <2>5, PathEqual
  <2>7. b \notin DOMAIN links  BY <1>5 DEF b
  <2>8. \A n \in 1..Len(b) : n \in 1..l \/ n = Len(b)  BY <2>2
  <2>9. b \in U  BY <2>1, <2>2, <2>3, <2>6, <2>7, <2>8 DEF Unlinked
  <2> QED  BY <2>9 DEF b
<1> HIDE DEF U, links
<1>6. ASSUME NEW a \in U, NEW e \in Word
      PROVE  /\ Into(a, e) \in U \cup DOMAIN links
             /\ Into(a, e) \in DOMAIN links => e \notin {"/", ".."}
  <2>1. \/ e = "/" /\ Into(a, e) = Root
        \/ e = ".." /\ a = Root /\ Into(a, e) = Root
        \/ e = ".." /\ a # Root /\ Into(a, e) = Front(a)
        \/ e \notin {"/", ".."} /\ Into(a, e) = Append(a, e)
    BY IntoCases
  <2>2. \/ Into(a, e) \in U
        \/ Into(a, e) \in DOMAIN links /\ e \notin {"/", ".."}
    BY <1>3, <1>4, <1>5, <2>1
  <2> QED  BY <1>1, <2>2
<1>7. /\ \A p \in Path : p # <<>> => Tail(p) \in Path /\ Head(p) \in Word
      /\ \A p \in DOMAIN links : links[p] \in Path
  BY PathTail, TreeLinks DEF AreLinks, links
<1>8. Closed(links, Path, U)  BY <1>1, <1>3, <1>6, <1>7 DEF Closed
<1> QED  BY <1>1, <1>6, <1>8 DEF U, links

\* What a lookup does with an element of a path, or the link in its place.
LEMMA LookupStep ==
  ASSUME NEW t, IsTree(t), NEW f, f = Walk(t),
         NEW a \in Unlinked(Links(t)), NEW p \in Path, p # <<>>,
         NEW tmp, tmp = Into(a, Head(p))
  PROVE  /\ tmp \notin DOMAIN Links(t) => Leads(f, 0, a, p, tmp, Tail(p))
         /\ tmp \in DOMAIN Links(t) =>
              Leads(f, 1, a, p, a, Links(t)[tmp] \o Tail(p))
<1> DEFINE e == Head(p)
<1>1. a \in InRoot /\ a \in Path /\ a # <<>>  BY DEF Unlinked, InRoot
<1>2. e \in Word /\ Tail(p) \in Path  BY PathTail
<1>3. ASSUME NEW n \in Nat, NEW rest \in Path
      PROVE  LET w == WalkOf(n, a, p \o rest)
             IN /\ w.links = n /\ w.at = a /\ Head(w.path) = e
                /\ Tail(w.path) = Tail(p) \o rest
                /\ f[w] = IF GivesUp(t, w) THEN ELOOP ELSE f[WalkStep(t, w)]
  <2> DEFINE w == WalkOf(n, a, p \o rest)
  <2>1. /\ p \o rest \in Path /\ p \o rest # <<>> /\ Head(p \o rest) = e
        /\ Tail(p \o rest) = Tail(p) \o rest
    BY PathConcat
  <2>2. w \in Walking /\ w.links = n /\ w.at = a /\ w.path = p \o rest
    <3> DEFINE q == p \o rest
    <3>1. q \in Path  BY <2>1
    <3> HIDE DEF q
    <3>2. LET v == WalkOf(n, a, q)
          IN v \in Walking /\ v.links = n /\ v.at = a /\ v.path = q
      BY <1>1, <3>1, WalkType
    <3> QED  BY <3>2 DEF q
  <2>3. f[w] = WalkBody(t, f, w)  BY <2>2, Lookup
  <2> HIDE DEF w
  <2>4. f[w] = IF GivesUp(t, w) THEN ELOOP ELSE f[WalkStep(t, w)]
    BY <2>1, <2>2, <2>3, WalkCases
  <2> QED  BY <2>1, <2>2, <2>4 DEF w
<1>4. ASSUME tmp \notin DOMAIN Links(t)
      PROVE  Leads(f, 0, a, p, tmp, Tail(p))
  <2> SUFFICES ASSUME NEW rest \in Path, NEW n \in Nat
               PROVE  f[WalkOf(n, a, p \o rest)]
                        = f[WalkOf(n, tmp, Tail(p) \o rest)]
    BY DEF Leads
  <2> DEFINE w == WalkOf(n, a, p \o rest)
  <2>1. /\ w.links = n /\ w.at = a /\ Head(w.path) = e
        /\ Tail(w.path) = Tail(p) \o rest
        /\ f[w] = IF GivesUp(t, w) THEN ELOOP ELSE f[WalkStep(t, w)]
    BY <1>3
  <2> HIDE DEF w
  <2>2. e \notin {"/", ".."} => tmp = Append(a, e) /\ ~Is(t, tmp, "link")
    BY <1>4, TreeLinks DEF Into
  <2>3. ~GivesUp(t, w)  BY <2>1, <2>2 DEF GivesUp
  <2>4. WalkStep(t, w) = WalkOf(n, tmp, Tail(p) \o rest)
    <3>1. CASE e = "/"  BY <2>1, <3>1 DEF WalkStep, Into
    <3>2. CASE e = ".."
      <4>1. tmp = IF Len(a) = 1 THEN a ELSE Front(a)
        BY <1>1, <3>2, InRootPath, IntoCases
      <4> QED  BY <2>1, <3>2, <4>1 DEF WalkStep
    <3>3. CASE e \notin {"/", ".."}  BY <2>1, <2>2, <3>3 DEF WalkStep
    <3> QED  BY <3>1, <3>2, <3>3
  <2> QED  BY <2>1, <2>3, <2>4 DEF w
<1>5. ASSUME tmp \in DOMAIN Links(t)
      PROVE  Leads(f, 1, a, p, a, Links(t)[tmp] \o Tail(p))
  <2> DEFINE to == Links(t)[tmp]
  <2>1. /\ e \notin {"/", ".."} /\ tmp = Append(a, e) /\ Is(t, tmp, "link")
        /\ to = t[tmp].to /\ to \in Path
    BY <1>2, <1>5, StaysUnlinked, IntoCases, TreeLinks DEF AreLinks
  <2> HIDE DEF to
  <2> SUFFICES ASSUME NEW rest \in Path, NEW n \in Nat
               PROVE  /\ f[WalkOf(n + 1, a, p \o rest)]
                           = f[WalkOf(n, a, (to \o Tail(p)) \o rest)]
                      /\ n < 1 => f[WalkOf(n, a, p \o rest)] = ELOOP
    BY DEF Leads, to
  <2>2. f[WalkOf(n + 1, a, p \o rest)]
          = f[WalkOf(n, a, (to \o Tail(p)) \o rest)]
    <3> DEFINE w == WalkOf(n + 1, a, p \o rest)
    <3>1. n + 1 \in Nat /\ n + 1 # 0 /\ (n + 1) - 1 = n  OBVIOUS
    <3>2. /\ w.links = n + 1 /\ w.at = a /\ Head(w.path) = e
          /\ Tail(w.path) = Tail(p) \o rest
          /\ f[w] = IF GivesUp(t, w) THEN ELOOP ELSE f[WalkStep(t, w)]
      BY <1>3, <3>1
    <3> HIDE DEF w
    <3>3. ~GivesUp(t, w)  BY <3>1, <3>2 DEF GivesUp
    <3>4. WalkStep(t, w) = WalkOf(n, a, to \o (Tail(p) \o rest))
      BY <2>1, <3>1, <3>2 DEF WalkStep
    <3>5. (to \o Tail(p)) \o rest = to \o (Tail(p) \o rest)
      BY <1>2, <2>1, PathAssociative
    <3> QED  BY <3>2, <3>3, <3>4, <3>5 DEF w
  <2>3. ASSUME n < 1
        PROVE  f[WalkOf(n, a, p \o rest)] = ELOOP
    <3> DEFINE w == WalkOf(n, a, p \o rest)
    <3>1. /\ w.links = n /\ w.at = a /\ Head(w.path) = e
          /\ f[w] = IF GivesUp(t, w) THEN ELOOP ELSE f[WalkStep(t, w)]
      BY <1>3
    <3> HIDE DEF w, e
    <3>2. n = 0  BY <2>3
    <3>3. GivesUp(t, w)  BY <2>1, <3>1, <3>2 DEF GivesUp
    <3> QED  BY <3>1, <3>3 DEF w
  <2> QED  BY <2>2, <2>3
<1> QED  BY <1>4, <1>5

\* An absolute target starts over at the root.
LEMMA LookupTarget ==
  ASSUME NEW t, IsTree(t), NEW f, f = Walk(t),
         NEW a \in Unlinked(Links(t)), NEW p \in Path
  PROVE  Leads(f, 0, a, p, From(a, p), IF Absolute(p) THEN Tail(p) ELSE p)
<1>1. CASE Absolute(p)
  <2>1. p # <<>> /\ Head(p) = "/"  BY <1>1 DEF Absolute
  <2> DEFINE tmp == Into(a, Head(p))
  <2>2. tmp = Root  BY <2>1 DEF Into
  <2>3. tmp \notin DOMAIN Links(t)  BY <2>2, TreeLinks
  <2>4. Leads(f, 0, a, p, tmp, Tail(p))  BY <2>1, <2>3, LookupStep
  <2>5. From(a, p) = Root  BY <1>1 DEF From
  <2> HIDE DEF tmp
  <2> QED  BY <1>1, <2>2, <2>4, <2>5
<1>2. CASE ~Absolute(p)
  <2>1. From(a, p) = a  BY <1>2 DEF From
  <2>2. Leads(f, 0, a, p, a, p)  BY DEF Leads
  <2> QED  BY <1>2, <2>1, <2>2
<1> QED  BY <1>1, <1>2

\* What a call returns is what the lookup finds over some number of links.  A
\* call that returns ELOOP has followed as many as it is allowed to.
Agrees(links, f, g, c) ==
  /\ f[c] # ELOOP => \E k \in Nat : Leads(g, k, c.at, c.path, f[c], <<>>)
  /\ f[c] = ELOOP => \A k \in Nat : k + c.depth <= MaxSymlinks =>
                       Fails(g, k, c.at, c.path)

\* The smallest call that does not agree would make calls that do.
LEMMA Agreement ==
  ASSUME MaxSymlinks \in Nat, NEW t, IsTree(t),
         NEW f, f = resolve_container_path_impl(Links(t)),
         NEW g, g = Walk(t),
         NEW c \in Call, c.at \in Unlinked(Links(t))
  PROVE  Agrees(Links(t), f, g, c)
<1> DEFINE links == Links(t)
           U == Unlinked(Links(t))
           T == {b \in Call : b.at \in U /\ ~Agrees(links, f, g, b)}
<1> SUFFICES ASSUME T # {} PROVE FALSE
  OBVIOUS
<1>1. T \in SUBSET Call  OBVIOUS
<1>2. PICK b \in T : \A d \in T : ~Smaller(CallRank, CallLen, d, b)
  BY <1>1, CallMeasures, Smallest
<1>3. /\ b \in Call /\ b.depth \in Nat /\ b.at \in U /\ b.at \in Path
      /\ b.path \in Path /\ ~Agrees(links, f, g, b)
  BY <1>2, CallParts
<1>4. AreLinks(links) /\ Closed(links, Path, U)
  BY TreeLinks, StaysUnlinked
<1>5. f[b] = Body(links, f, b)  BY <1>3, <1>4, Resolution
<1>6. ASSUME NEW d \in Call, d.at \in U, Smaller(CallRank, CallLen, d, b)
      PROVE  Agrees(links, f, g, d) /\ f[d] \in U \cup {ELOOP}
  <2>1. Agrees(links, f, g, d)  BY <1>2, <1>6
  <2>2. d.path \in Path  BY CallParts
  <2>3. f[d] \in U \cup {ELOOP}  BY <1>4, <1>6, <2>2, StaysIn
  <2> QED  BY <2>1, <2>3
<1>7. U \subseteq Path /\ ELOOP \notin U
  <2>1. U \subseteq InRoot  BY DEF Unlinked
  <2>2. ELOOP[1] # "root"  BY DEF ELOOP
  <2> QED  BY <2>1, <2>2 DEF InRoot
<1> HIDE DEF T, U, links
<1>8. CASE b.depth >= MaxSymlinks
  <2>1. f[b] = ELOOP  BY <1>5, <1>8 DEF Body
  <2>2. ASSUME NEW k \in Nat, k + b.depth <= MaxSymlinks
        PROVE  Fails(g, k, b.at, b.path)
    <3>1. k = 0  BY <1>3, <1>8, <2>2
    <3> QED  BY <3>1 DEF Fails
  <2> QED  BY <1>3, <2>1, <2>2 DEF Agrees
<1>9. CASE b.depth < MaxSymlinks /\ b.path = <<>>
  <2>1. f[b] = b.at  BY <1>3, <1>5, <1>9 DEF Body
  <2>2. Leads(g, 0, b.at, b.path, b.at, <<>>)  BY <1>9 DEF Leads
  <2>3. f[b] # ELOOP  BY <1>3, <1>7, <2>1
  <2> QED  BY <1>3, <2>1, <2>2, <2>3 DEF Agrees
<1>10. CASE b.depth < MaxSymlinks /\ b.path # <<>>
  <2> DEFINE tmp  == Into(b.at, Head(b.path))
             tail == Tail(b.path)
             next == Element(links, f, b)
  <2>1. tail \in Path /\ Head(b.path) \in Word  BY <1>3, <1>10, PathTail
  <2>2. tmp \in U \cup DOMAIN links
    BY <1>3, <1>4, <1>10 DEF Closed
  <2>3. /\ tmp \notin DOMAIN links => Leads(g, 0, b.at, b.path, tmp, tail)
        /\ tmp \in DOMAIN links =>
             Leads(g, 1, b.at, b.path, b.at, links[tmp] \o tail)
    BY <1>3, <1>10, LookupStep DEF U, links
  \* The next element, or the link that is in its place.
  <2>4. /\ next # ELOOP => /\ next \in U
                           /\ \E k \in Nat :
                                Leads(g, k, b.at, b.path, next, tail)
        /\ next = ELOOP => \A k \in Nat : k + b.depth <= MaxSymlinks =>
                             Fails(g, k, b.at, b.path)
    <3>1. CASE tmp \notin DOMAIN links
      <4>1. next = tmp /\ tmp \in U  BY <2>2, <3>1 DEF Element
      <4>2. next # ELOOP  BY <1>7, <4>1
      <4> QED  BY <2>3, <3>1, <4>1, <4>2
    <3>2. CASE tmp \in DOMAIN links
      <4> DEFINE d  == Nested(links, b)
                 to == links[tmp]
                 s  == IF Absolute(to) THEN Tail(to) ELSE to
                 a  == From(b.at, to)
      <4>1. next = f[d]  BY <3>2 DEF Element
      <4>2. d \in Call /\ Smaller(CallRank, CallLen, d, b)
        BY <1>3, <1>4, <1>10, <3>2, SmallerCalls
      <4>3. to \in Path  BY <3>2, <1>4 DEF AreLinks
      <4>4. a \in U /\ a \in Path
        BY <1>3, <1>4, <1>7 DEF From, Closed
      <4>5. s \in Path  BY <4>3, PathTail DEF Absolute
      <4>6. d.depth = b.depth + 1 /\ d.at = a /\ d.path = s
        <5>1. b.depth + 1 \in Nat  BY <1>3
        <5> QED  BY <4>4, <4>5, <5>1, CallType DEF Nested
      <4>7. Agrees(links, f, g, d) /\ f[d] \in U \cup {ELOOP}
        BY <1>6, <4>2, <4>4, <4>6
      <4>8. Leads(g, 1, b.at, b.path, a, s \o tail)
        <5>1. Leads(g, 0, b.at, to, a, s)
          BY <1>3, <4>3, LookupTarget DEF U
        <5>2. Leads(g, 0, b.at, to \o tail, a, s \o tail)
          BY <2>1, <4>3, <4>5, <5>1, LeadsBefore
        <5>3. Leads(g, 1, b.at, b.path, b.at, to \o tail)  BY <2>3, <3>2
        <5>4. 1 + 0 = 1 /\ 1 \in Nat /\ 0 \in Nat  OBVIOUS
        <5> HIDE DEF a, s, to, tail
        <5>5. Leads(g, 1 + 0, b.at, b.path, a, s \o tail)
          BY <5>2, <5>3, <5>4, LeadsOn
        <5> QED  BY <5>4, <5>5
      <4> HIDE DEF a, s, to, tail, d, next
      <4>9. ASSUME next # ELOOP
            PROVE  /\ next \in U
                   /\ \E k \in Nat : Leads(g, k, b.at, b.path, next, tail)
        <5>1. next \in U /\ next \in Path  BY <1>7, <4>1, <4>7, <4>9
        <5>2. PICK k \in Nat : Leads(g, k, a, s, next, <<>>)
          BY <4>1, <4>6, <4>7, <4>9 DEF Agrees
        <5>3. Leads(g, k, a, s \o tail, next, <<>> \o tail)
          BY <2>1, <4>5, <5>2, EmptyPath, LeadsBefore
        <5>4. <<>> \o tail = tail  BY <2>1, PathConcat
        <5>5. Leads(g, 1 + k, b.at, b.path, next, tail)
          BY <4>8, <5>3, <5>4, LeadsOn
        <5>6. 1 + k \in Nat  OBVIOUS
        <5> QED  BY <5>1, <5>5, <5>6
      <4>10. ASSUME next = ELOOP, NEW k \in Nat, k + b.depth <= MaxSymlinks
             PROVE  Fails(g, k, b.at, b.path)
        <5>1. CASE k = 0  BY <5>1 DEF Fails
        <5>2. CASE k # 0
          <6>1. /\ k - 1 \in Nat /\ 1 + (k - 1) = k
                /\ (k - 1) + d.depth <= MaxSymlinks
            BY <1>3, <4>6, <4>10, <5>2
          <6>2. Fails(g, k - 1, a, s)
            BY <4>1, <4>6, <4>7, <4>10, <6>1 DEF Agrees
          <6>3. Fails(g, k - 1, a, s \o tail)
            BY <2>1, <4>5, <6>1, <6>2, LeadsBefore
          <6>4. Fails(g, 1 + (k - 1), b.at, b.path)
            BY <4>8, <6>1, <6>3, LeadsOn
          <6> QED  BY <6>1, <6>4
        <5> QED  BY <5>1, <5>2
      <4> QED  BY <4>9, <4>10
    <3> QED  BY <3>1, <3>2
  <2> HIDE DEF tail, next
  <2>5. CASE next = ELOOP
    <3>1. f[b] = ELOOP  BY <1>3, <1>5, <1>10, <2>5 DEF Body, next
    <3> QED  BY <1>3, <2>4, <2>5, <3>1 DEF Agrees
  <2>6. CASE next # ELOOP
    <3> DEFINE d == CallOf(b.depth, next, tail)
    <3>1. next \in U /\ next \in Path  BY <1>7, <2>4, <2>6
    <3>2. PICK k \in Nat : Leads(g, k, b.at, b.path, next, tail)
      BY <2>4, <2>6
    <3>3. d \in Call /\ Smaller(CallRank, CallLen, d, b)
      BY <1>3, <1>4, <1>10, <3>1, SmallerCalls DEF tail
    <3>4. d.depth = b.depth /\ d.at = next /\ d.path = tail
      BY <1>3, <2>1, <3>1, CallType
    <3>5. f[b] = f[d]  BY <1>3, <1>5, <1>10, <2>6 DEF Body, next, tail
    <3> HIDE DEF d
    <3>6. Agrees(links, f, g, d)  BY <1>6, <3>1, <3>3, <3>4
    <3>7. ASSUME f[b] # ELOOP
          PROVE  \E l \in Nat : Leads(g, l, b.at, b.path, f[b], <<>>)
      <4>1. PICK l \in Nat : Leads(g, l, next, tail, f[b], <<>>)
        BY <3>4, <3>5, <3>6, <3>7 DEF Agrees
      <4>2. Leads(g, k + l, b.at, b.path, f[b], <<>>)
        BY <3>2, <4>1, LeadsOn
      <4>3. k + l \in Nat  OBVIOUS
      <4> QED  BY <4>2, <4>3
    <3>8. ASSUME f[b] = ELOOP, NEW l \in Nat, l + b.depth <= MaxSymlinks
          PROVE  Fails(g, l, b.at, b.path)
      <4>1. Fails(g, l, next, tail)
        BY <3>4, <3>5, <3>6, <3>8 DEF Agrees
      <4>2. Fails(g, k + l, b.at, b.path)  BY <3>2, <4>1, LeadsOn
      <4>3. \A n \in Nat : n < l => n < k + l  OBVIOUS
      <4> QED  BY <4>2, <4>3 DEF Fails
    <3> QED  BY <1>3, <3>7, <3>8 DEF Agrees
  <2> QED  BY <2>5, <2>6
<1> QED  BY <1>3, <1>8, <1>9, <1>10

\* What resolve_container_path() returns is what a kernel finds, if that may
\* follow enough links; and it gives up only if a kernel gives up that may
\* follow fewer than MaxSymlinks, one less than it does.
THEOREM ResolvesAsKernel ==
  ASSUME NEW t, IsTree(t), NEW path \in Path
  PROVE  LET r == resolve_container_path(t, path)
             kernel(n) == Walk(t)[WalkOf(n, Root, path)]
         IN /\ r # ELOOP => \E k \in Nat : \A n \in Nat :
                              kernel(n) = IF n < k THEN ELOOP ELSE r
            /\ r = ELOOP => \A n \in Nat : n < MaxSymlinks =>
                              kernel(n) = ELOOP
<1> DEFINE f == resolve_container_path_impl(Links(t))
           g == Walk(t)
           c == CallOf(0, Root, path)
           r == resolve_container_path(t, path)
<1>1. MaxSymlinks \in Nat  BY MountsAssumption
<1>2. /\ c \in Call /\ c.depth = 0 /\ c.at = Root /\ c.path = path
      /\ f[c] = r
  BY CallType, RootPath DEF resolve_container_path
<1>3. Closed(Links(t), Path, Unlinked(Links(t)))  BY StaysUnlinked
<1>4. Root \in Unlinked(Links(t))  BY <1>3 DEF Closed
<1>5. Agrees(Links(t), f, g, c)  BY <1>1, <1>2, <1>4, Agreement
<1>6. AreLinks(Links(t))  BY TreeLinks
<1>7. r \in Path  BY <1>1, <1>2, <1>6, Resolution
<1>8. path \o <<>> = path /\ <<>> \in Path  BY PathConcat, EmptyPath
<1> HIDE DEF f, c, r
<1>9. \A n \in Nat : g[WalkOf(n, r, <<>>)] = r
  <2> SUFFICES ASSUME NEW n \in Nat PROVE g[WalkOf(n, r, <<>>)] = r
    OBVIOUS
  <2> DEFINE w == WalkOf(n, r, <<>>)
  <2>1. w \in Walking /\ w.at = r /\ w.path = <<>>
    BY <1>7, <1>8, WalkType
  <2>2. g[w] = WalkBody(t, g, w)  BY <2>1, Lookup
  <2> HIDE DEF w, g
  <2>3. g[w] = r  BY <2>1, <2>2, WalkCases
  <2> QED  BY <2>3 DEF w
<1> HIDE DEF g
<1>10. ASSUME r # ELOOP
       PROVE  \E k \in Nat : \A n \in Nat :
                g[WalkOf(n, Root, path)] = IF n < k THEN ELOOP ELSE r
  <2>1. PICK k \in Nat : Leads(g, k, Root, path, r, <<>>)
    BY <1>2, <1>5, <1>10 DEF Agrees
  <2>2. <<>> \o <<>> = <<>>  BY <1>8, PathConcat
  <2>3. ASSUME NEW n \in Nat
        PROVE  /\ g[WalkOf(n + k, Root, path)] = r
               /\ n < k => g[WalkOf(n, Root, path)] = ELOOP
    BY <1>8, <1>9, <2>1, <2>2 DEF Leads
  <2>4. ASSUME NEW n \in Nat
        PROVE  g[WalkOf(n, Root, path)] = IF n < k THEN ELOOP ELSE r
    <3>1. CASE n < k  BY <2>3, <3>1
    <3>2. CASE n >= k
      <4>1. n - k \in Nat /\ (n - k) + k = n  BY <3>2
      <4>2. g[WalkOf((n - k) + k, Root, path)] = r  BY <2>3, <4>1
      <4> QED  BY <3>2, <4>1, <4>2
    <3> QED  BY <3>1, <3>2
  <2> QED  BY <2>4
<1>11. ASSUME r = ELOOP, NEW n \in Nat, n < MaxSymlinks
       PROVE  g[WalkOf(n, Root, path)] = ELOOP
  <2>1. MaxSymlinks + 0 <= MaxSymlinks  BY <1>1
  <2>2. Fails(g, MaxSymlinks, Root, path)
    BY <1>1, <1>2, <1>5, <1>11, <2>1 DEF Agrees
  <2> QED  BY <1>8, <1>11, <2>2 DEF Fails
<1> QED  BY <1>10, <1>11 DEF g, r
=============================================================================
