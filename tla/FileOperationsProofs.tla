------------------------ MODULE FileOperationsProofs ------------------------
(***************************************************************************)
(* Proofs about the directory cache and the FTP operations that use it,    *)
(* for any number of engines, servers, listings and files, any limits of   *)
(* the cache and any commands.                                             *)
(*                                                                         *)
(* The cache: every operation of CDirectoryCache keeps the list of uses,   *)
(* the number of files and the listings in agreement (CacheOK), Prune,     *)
(* which stops by the number and erases through the list, included, and no *)
(* operation takes back the mark of a listing it keeps (Weaker), but Store *)
(* that of the one it replaces.                                            *)
(*                                                                         *)
(* The operations: a listing without a mark is what the server has.  A     *)
(* command marks what it may change before it is sent, or tells the cache  *)
(* with its reply, so the invariant says of each command that is under     *)
(* way, on a connection or left by a lost one, that what it may change is  *)
(* marked, or that its operation still waits to tell; and of a listing     *)
(* that is being received, that it is true and that nothing under way will *)
(* change it, or that it is known to be overtaken.                         *)
(***************************************************************************)
EXTENDS FileOperations, FiniteSetTheorems, SequenceTheorems, WellFoundedInduction, TLAPS

-----------------------------------------------------------------------------
(* Induction and recursion over finite sets, with sets for the properties. *)

(* Some subset among those of a finite set has none of the others in it. *)
LEMMA FiniteSetMinimal ==
    ASSUME NEW S, IsFiniteSet(S), NEW A \in SUBSET SUBSET S, A # {}
    PROVE  \E T \in A : \A U \in A : U \subseteq T => U = T
<1>1. A \subseteq FiniteSubsetsOf(S)
  BY FS_Subset DEF FiniteSubsetsOf
<1>2. \E x \in A : \A y \in A : ~ (<<y, x>> \in StrictSubsetOrdering(S))
  BY <1>1, FS_StrictSubsetOrderingWellFounded, WFMin
<1>3. \A x, y \in SUBSET S : <<y, x>> \in StrictSubsetOrdering(S) <=> y \subseteq x /\ y # x
  BY DEF StrictSubsetOrdering
<1> QED BY <1>2, <1>3

(* What holds of the empty set, and with one more element, holds of a finite set. *)
LEMMA FiniteSetInduction ==
    ASSUME NEW S, IsFiniteSet(S), NEW A, {} \in A,
           \A T \in SUBSET S : \A x \in S \ T : T \in A => T \cup {x} \in A
    PROVE  S \in A
<1>1. SUFFICES ASSUME (SUBSET S) \ A # {} PROVE FALSE
  OBVIOUS
<1> DEFINE B == (SUBSET S) \ A
<1>a. B \in SUBSET SUBSET S /\ B # {}
  BY <1>1
<1> HIDE DEF B
<1>b. \E T \in B : \A U \in B : U \subseteq T => U = T
  BY <1>a, FiniteSetMinimal
<1>2. PICK T \in (SUBSET S) \ A : \A U \in (SUBSET S) \ A : U \subseteq T => U = T
  BY <1>b DEF B
<1>3. PICK x \in T : TRUE
  BY <1>2
<1>4. T \ {x} \in A
  BY <1>2, <1>3
<1>5. (T \ {x}) \cup {x} = T
  BY <1>3
<1>6. T \ {x} \in SUBSET S /\ x \in S \ (T \ {x})
  BY <1>2, <1>3
<1> QED BY <1>2, <1>4, <1>5, <1>6

(* A set of numbers has a least one. *)
LEMMA LeastNat ==
    ASSUME NEW A \in SUBSET Nat, A # {}
    PROVE  \E m \in A : \A n \in A : m <= n
<1>1. PICK m \in A : \A n \in A : ~ (<<n, m>> \in OpToRel(<, Nat))
  BY NatLessThanWellFounded, WFMin
<1>2. \A i, j \in Nat : i < j => <<i, j>> \in OpToRel(<, Nat)
  BY DEF OpToRel
<1>3. \A n \in A : ~ (n < m)
  BY <1>1, <1>2, Zenon
<1> QED BY <1>3

(* Induction over the numbers. *)
LEMMA NatSetInduction ==
    ASSUME NEW A, 0 \in A, \A n \in Nat : n \in A => n + 1 \in A
    PROVE  Nat \subseteq A
<1> SUFFICES ASSUME Nat \ A # {} PROVE FALSE
  OBVIOUS
<1>1. PICK m \in Nat \ A : \A n \in Nat \ A : m <= n
  BY LeastNat
<1>2. m - 1 \in Nat /\ m = (m - 1) + 1
  BY <1>1
<1>3. m - 1 \in A
  BY <1>1, <1>2
<1> QED BY <1>1, <1>2, <1>3

(* ch picks an element of every subset. *)
Chooses(ch, S) == \A s \in SUBSET S : s # {} => ch[s] \in s

(* g takes the picked element away and applies h to what the rest gives. *)
Recursion(g, S, base, h, ch) ==
    \A s \in SUBSET S : g[s] = IF s = {} THEN base ELSE h[ch[s]][g[s \ {ch[s]}]]

(* There is such a function: the folds of the community modules have a value. *)
LEMMA SetRecursion ==
    ASSUME NEW S, IsFiniteSet(S), NEW T, NEW base \in T, NEW h \in [S -> [T -> T]],
           NEW ch, Chooses(ch, S)
    PROVE  \E g \in [SUBSET S -> T] : Recursion(g, S, base, h, ch)
<1> DEFINE Val(g, s) == IF s = {} THEN base ELSE h[ch[s]][g[s \ {ch[s]}]]
           Good(g, n) == \A s \in SUBSET S : Cardinality(s) <= n => g[s] = Val(g, s)
           A == {n \in Nat : \E g \in [SUBSET S -> T] : Good(g, n)}
<1>0. \A s \in SUBSET S : IsFiniteSet(s) /\ Cardinality(s) \in Nat /\ (Cardinality(s) = 0 <=> s = {})
  BY FS_Subset, FS_CardinalityType, FS_EmptySet
<1>1. \A s \in SUBSET S : s # {} => Cardinality(s \ {ch[s]}) = Cardinality(s) - 1 /\ s \ {ch[s]} \in SUBSET S /\ ch[s] \in S
  BY <1>0, FS_RemoveElement DEF Chooses
<1>2. \A g \in [SUBSET S -> T] : \A s \in SUBSET S : Val(g, s) \in T
  <2> SUFFICES ASSUME NEW g \in [SUBSET S -> T], NEW s \in SUBSET S, s # {}
               PROVE  h[ch[s]][g[s \ {ch[s]}]] \in T
    OBVIOUS
  <2>1. g[s \ {ch[s]}] \in T /\ h[ch[s]] \in [T -> T]
    BY <1>1
  <2> QED BY <2>1
<1>3. 0 \in A
  <2> DEFINE g0 == [s \in SUBSET S |-> base]
  <2>1. g0 \in [SUBSET S -> T] /\ Good(g0, 0)
    BY <1>0
  <2> QED BY <2>1
<1>4. ASSUME NEW n \in Nat, n \in A PROVE n + 1 \in A
  <2>1. PICK g \in [SUBSET S -> T] : Good(g, n)
    BY <1>4
  <2> DEFINE g1 == [s \in SUBSET S |-> IF Cardinality(s) <= n THEN g[s] ELSE Val(g, s)]
  <2>2. g1 \in [SUBSET S -> T]
    BY <1>2
  <2>3. ASSUME NEW s \in SUBSET S, Cardinality(s) <= n + 1 PROVE g1[s] = Val(g1, s)
    <3>1. g1[s] = Val(g, s)
      BY <2>1
    <3>2. s # {} => g1[s \ {ch[s]}] = g[s \ {ch[s]}]
      BY <1>1, <1>0, <2>3
    <3> QED BY <3>1, <3>2
  <2> HIDE DEF g1
  <2>4. Good(g1, n + 1)
    BY <2>3
  <2> HIDE DEF Good
  <2> QED BY <2>2, <2>4
<1>5. Nat \subseteq A
  <2> HIDE DEF A
  <2> QED BY <1>3, <1>4, NatSetInduction
<1>6. Cardinality(S) \in A
  BY <1>5, <1>0
<1>7. PICK g \in [SUBSET S -> T] : Good(g, Cardinality(S))
  BY <1>6
<1>8. \A s \in SUBSET S : Cardinality(s) <= Cardinality(S)
  BY FS_Subset
<1> QED BY <1>7, <1>8 DEF Recursion

(* The lengths FilesIn adds up are numbers. *)
Sized(f, S) == \A k \in S : Len(f[k].files) \in Int

(* g adds them up as the definition of FilesIn does. *)
Counts(g, f, S) ==
    \A s \in SUBSET S :
        g[s] = IF s = {} THEN 0
               ELSE Len(f[CHOOSE x \in s : TRUE].files) + g[s \ {CHOOSE x \in s : TRUE}]

(* g is FilesIn. *)
Tells(g, f, S) == \A T \in SUBSET S : FilesIn(f, T) = g[T]

(* Only one function adds them up. *)
LEMMA CountsUnique ==
    ASSUME NEW T, IsFiniteSet(T), NEW f, NEW g, NEW k, Counts(g, f, T), Counts(k, f, T)
    PROVE  \A s \in SUBSET T : k[s] = g[s]
<1> DEFINE B == {s \in SUBSET T : k[s] # g[s]}
<1>1. ASSUME B # {} PROVE FALSE
  <2>1. B \in SUBSET SUBSET T
    OBVIOUS
  <2> HIDE DEF B
  <2>2. PICK s \in B : \A u \in B : u \subseteq s => u = s
    BY <2>1, <1>1, FiniteSetMinimal
  <2>3. s \in SUBSET T /\ k[s] # g[s]
    BY <2>2 DEF B
  <2>4. s # {}
    BY <2>3 DEF Counts
  <2>5. PICK y : y = CHOOSE x \in s : TRUE
    OBVIOUS
  <2>6. y \in s
    BY <2>4, <2>5
  <2>7. s \ {y} \notin B
    BY <2>2, <2>6
  <2>8. k[s \ {y}] = g[s \ {y}]
    BY <2>7, <2>3 DEF B
  <2>9. k[s] = Len(f[y].files) + k[s \ {y}] /\ g[s] = Len(f[y].files) + g[s \ {y}]
    BY <2>3, <2>4, <2>5 DEF Counts
  <2> QED BY <2>3, <2>8, <2>9
<1> QED BY <1>1

(* FilesIn has the value its recursive definition says. *)
LEMMA FilesInRec ==
    ASSUME NEW S, IsFiniteSet(S), NEW f, Sized(f, S)
    PROVE  \E g \in [SUBSET S -> Int] :
              /\ Counts(g, f, S)
              /\ FilesIn(f, S) = g[S]
<1> DEFINE ch == [s \in SUBSET S |-> CHOOSE x \in s : TRUE]
           h == [x \in S |-> [v \in Int |-> Len(f[x].files) + v]]
           Eq(g) == g = [s \in SUBSET S |-> IF s = {} THEN 0
                            ELSE Len(f[CHOOSE x \in s : TRUE].files) + g[s \ {CHOOSE x \in s : TRUE}]]
<1>1. Chooses(ch, S)
  BY DEF Chooses
<1>2. h \in [S -> [Int -> Int]]
  BY DEF Sized
<1>3. \E g \in [SUBSET S -> Int] : Recursion(g, S, 0, h, ch)
  <2> HIDE DEF ch, h
  <2>1. 0 \in Int
    OBVIOUS
  <2> QED BY <1>1, <1>2, <2>1, SetRecursion, Zenon
<1>4. PICK g \in [SUBSET S -> Int] : \A s \in SUBSET S :
         g[s] = IF s = {} THEN 0 ELSE h[ch[s]][g[s \ {ch[s]}]]
  BY <1>3 DEF Recursion
<1>5. Eq(g)
  <2>1. ASSUME NEW s \in SUBSET S, s # {} PROVE g[s] = Len(f[CHOOSE x \in s : TRUE].files) + g[s \ {CHOOSE x \in s : TRUE}]
    <3>1. ch[s] \in S /\ s \ {ch[s]} \in SUBSET S
      BY <2>1, <1>1 DEF Chooses
    <3>2. PICK y : y = ch[s]
      OBVIOUS
    <3>3. g[s \ {y}] \in Int
      BY <3>1, <3>2
    <3>a. PICK v \in Int : v = g[s \ {y}]
      BY <3>3
    <3>b. y \in S
      BY <3>1, <3>2
    <3>c. h[y][v] = Len(f[y].files) + v
      BY <3>b
    <3>4. h[y][g[s \ {y}]] = Len(f[y].files) + g[s \ {y}]
      BY <3>c, <3>a
    <3> QED BY <3>2, <3>4, <1>4, <2>1
  <2> QED BY <2>1, <1>4
<1>6. \E k : Eq(k) /\ FilesIn(f, S) = k[S]
  BY <1>5 DEF FilesIn, MapThenSumSet, MapThenFoldSet
<1>7. PICK k : Eq(k) /\ FilesIn(f, S) = k[S]
  BY <1>6
<1>8. Counts(k, f, S) /\ Counts(g, f, S)
  BY <1>5, <1>7 DEF Counts
<1>9. k[S] = g[S]
  BY <1>8, CountsUnique
<1>10. FilesIn(f, S) = g[S]
  BY <1>7, <1>9
<1> QED BY <1>8, <1>10

(* The same for all sets of listings at once. *)
LEMMA FilesInAll ==
    ASSUME NEW S, IsFiniteSet(S), NEW f, Sized(f, S)
    PROVE  \E g \in [SUBSET S -> Int] : Counts(g, f, S) /\ Tells(g, f, S)
<1>1. PICK g \in [SUBSET S -> Int] : Counts(g, f, S)
  BY FilesInRec
<1>2. ASSUME NEW T \in SUBSET S PROVE FilesIn(f, T) = g[T]
  <2>1. IsFiniteSet(T) /\ Sized(f, T)
    BY FS_Subset DEF Sized
  <2>2. PICK k \in [SUBSET T -> Int] : Counts(k, f, T) /\ FilesIn(f, T) = k[T]
    BY <2>1, FilesInRec
  <2>3. Counts(g, f, T)
    BY <1>1 DEF Counts
  <2> QED BY <2>1, <2>2, <2>3, CountsUnique
<1> QED BY <1>1, <1>2 DEF Tells

(* The empty set, and the type of a sum. *)
LEMMA FilesInType ==
    ASSUME NEW S, IsFiniteSet(S), NEW f, Sized(f, S)
    PROVE  FilesIn(f, S) \in Int /\ FilesIn(f, {}) = 0
<1>1. PICK g \in [SUBSET S -> Int] : Counts(g, f, S) /\ Tells(g, f, S)
  BY FilesInAll
<1> QED BY <1>1 DEF Counts, Tells

(* Whatever CHOOSE picks, any member of the set may be counted first. *)
LEMMA FilesInStep ==
    ASSUME NEW S, IsFiniteSet(S), NEW f, Sized(f, S), NEW x \in S
    PROVE  FilesIn(f, S) = Len(f[x].files) + FilesIn(f, S \ {x})
<1>1. PICK g \in [SUBSET S -> Int] : Counts(g, f, S) /\ Tells(g, f, S)
  BY FilesInAll
<1> DEFINE B == {s \in SUBSET S : \E z \in s : g[s] # Len(f[z].files) + g[s \ {z}]}
<1>2. ASSUME B # {} PROVE FALSE
  <2>1. B \in SUBSET SUBSET S
    OBVIOUS
  <2> HIDE DEF B
  <2>2. PICK s \in B : \A u \in B : u \subseteq s => u = s
    BY <2>1, <1>2, FiniteSetMinimal
  <2>3. s \in SUBSET S
    BY <2>1, <2>2
  <2>4. PICK z \in s : g[s] # Len(f[z].files) + g[s \ {z}]
    BY <2>2 DEF B
  <2>5. PICK y : y = CHOOSE w \in s : TRUE
    OBVIOUS
  <2>6. y \in s /\ g[s] = Len(f[y].files) + g[s \ {y}]
    BY <2>3, <2>4, <2>5, <1>1 DEF Counts
  <2>7. y # z
    BY <2>4, <2>6
  <2>8. s \ {y} \notin B /\ s \ {z} \notin B
    BY <2>2, <2>4, <2>6
  <2>9. g[s \ {y}] = Len(f[z].files) + g[(s \ {y}) \ {z}]
    BY <2>8, <2>3, <2>4, <2>7 DEF B
  <2>10. g[s \ {z}] = Len(f[y].files) + g[(s \ {z}) \ {y}]
    BY <2>8, <2>3, <2>6, <2>7 DEF B
  <2>11. (s \ {y}) \ {z} = (s \ {z}) \ {y}
    OBVIOUS
  <2>12. PICK a, b, c : a = Len(f[y].files) /\ b = Len(f[z].files) /\ c = g[(s \ {z}) \ {y}]
    OBVIOUS
  <2>13. a \in Int /\ b \in Int /\ c \in Int
    <3>1. (s \ {z}) \ {y} \in SUBSET S
      BY <2>3
    <3> QED BY <3>1, <2>12, <2>3, <2>4, <2>6 DEF Sized
  <2>14. g[s] = a + (b + c) /\ g[s] # b + (a + c)
    BY <2>4, <2>6, <2>9, <2>10, <2>11, <2>12
  <2> QED BY <2>13, <2>14
<1>3. g[S] = Len(f[x].files) + g[S \ {x}]
  BY <1>2
<1>4. S \in SUBSET S /\ S \ {x} \in SUBSET S
  OBVIOUS
<1> QED BY <1>1, <1>3, <1>4 DEF Tells

(* A part and the rest. *)
LEMMA FilesInSplit ==
    ASSUME NEW S, IsFiniteSet(S), NEW f, Sized(f, S), NEW G \in SUBSET S
    PROVE  FilesIn(f, S) = FilesIn(f, G) + FilesIn(f, S \ G)
<1> DEFINE A == {T \in SUBSET G : FilesIn(f, S) = FilesIn(f, T) + FilesIn(f, S \ T)}
<1>1. \A T \in SUBSET S : IsFiniteSet(T) /\ Sized(f, T) /\ FilesIn(f, T) \in Int
  BY FS_Subset, FilesInType DEF Sized
<1>2. {} \in A
  <2>1. S \ {} = S /\ FilesIn(f, {}) = 0 /\ FilesIn(f, S) \in Int
    BY FilesInType
  <2> QED BY <2>1
<1>3. ASSUME NEW T \in SUBSET G, NEW x \in G \ T, T \in A PROVE T \cup {x} \in A
  <2>1. FilesIn(f, S) = FilesIn(f, T) + FilesIn(f, S \ T)
    BY <1>3
  <2>2. (T \cup {x}) \ {x} = T /\ (S \ T) \ {x} = S \ (T \cup {x}) /\ x \in S \ T
    BY <1>3
  <2>3. T \in SUBSET S /\ T \cup {x} \in SUBSET S /\ S \ T \in SUBSET S /\ S \ (T \cup {x}) \in SUBSET S
    BY <1>3
  <2>4. FilesIn(f, T \cup {x}) = Len(f[x].files) + FilesIn(f, T)
    BY <1>1, <2>2, <2>3, FilesInStep
  <2>5. FilesIn(f, S \ T) = Len(f[x].files) + FilesIn(f, S \ (T \cup {x}))
    BY <1>1, <2>2, <2>3, FilesInStep
  <2>6. Len(f[x].files) \in Int
    BY <2>2 DEF Sized
  <2>7. FilesIn(f, T) \in Int /\ FilesIn(f, S \ (T \cup {x})) \in Int
    BY <1>1, <2>3
  <2>8. PICK n, a, b : n = Len(f[x].files) /\ a = FilesIn(f, T) /\ b = FilesIn(f, S \ (T \cup {x}))
    OBVIOUS
  <2>9. FilesIn(f, S) = a + (n + b) /\ FilesIn(f, T \cup {x}) = n + a /\ n \in Int /\ a \in Int /\ b \in Int
    BY <2>1, <2>4, <2>5, <2>6, <2>7, <2>8
  <2>10. FilesIn(f, S) = FilesIn(f, T \cup {x}) + b
    BY <2>9
  <2> QED BY <2>8, <2>10, <1>3
<1>4. IsFiniteSet(G)
  BY FS_Subset
<1>5. G \in A
  <2> HIDE DEF A
  <2> QED BY <1>2, <1>3, <1>4, FiniteSetInduction
<1> QED BY <1>5

(* Only the lengths of the listings matter. *)
LEMMA FilesInSame ==
    ASSUME NEW S, IsFiniteSet(S), NEW f, Sized(f, S), NEW g, \A k \in S : Len(g[k].files) = Len(f[k].files)
    PROVE  FilesIn(g, S) = FilesIn(f, S)
<1>1. \A T \in SUBSET S : IsFiniteSet(T) /\ Sized(f, T) /\ Sized(g, T)
  BY FS_Subset DEF Sized
<1> DEFINE A == {T \in SUBSET S : FilesIn(g, T) = FilesIn(f, T)}
<1>2. {} \in A
  BY <1>1, FilesInType
<1>3. ASSUME NEW T \in SUBSET S, NEW x \in S \ T, T \in A PROVE T \cup {x} \in A
  <2>1. (T \cup {x}) \ {x} = T /\ x \in T \cup {x} /\ T \cup {x} \in SUBSET S
    BY <1>3
  <2>2. PICK U : U = T \cup {x}
    OBVIOUS
  <2>3. IsFiniteSet(U) /\ Sized(f, U) /\ Sized(g, U) /\ x \in U /\ U \ {x} = T /\ U \in SUBSET S
    BY <1>1, <2>1, <2>2
  <2>4. FilesIn(f, U) = Len(f[x].files) + FilesIn(f, U \ {x})
    BY <2>3, FilesInStep
  <2>5. FilesIn(g, U) = Len(g[x].files) + FilesIn(g, U \ {x})
    BY <2>3, FilesInStep
  <2> QED BY <2>2, <2>3, <2>4, <2>5, <1>3
<1>5. S \in A
  <2> HIDE DEF A
  <2> QED BY <1>2, <1>3, FiniteSetInduction
<1> QED BY <1>5

-----------------------------------------------------------------------------
(* What Keep leaves of a sequence. *)

(* The greatest of some positions in a sequence is one of them. *)
LEMMA MaxOfInterval ==
    ASSUME NEW n \in Nat, NEW u \in SUBSET (1 .. n), u # {}
    PROVE  Max(u) \in u /\ \A x \in u : x <= Max(u)
<1> DEFINE A == {m \in Nat : \A x \in u : x <= m}
<1>1. n \in A
  OBVIOUS
<1>2. PICK m \in A : \A k \in A : m <= k
  <2>1. A \in SUBSET Nat /\ A # {}
    BY <1>1
  <2> HIDE DEF A
  <2> QED BY <2>1, LeastNat
<1>3. m \in u
  <2>1. SUFFICES ASSUME m \notin u PROVE FALSE
    OBVIOUS
  <2>2. PICK x \in u : TRUE
    OBVIOUS
  <2>3. x <= m /\ x >= 1 /\ m - 1 \in Nat
    BY <1>2, <2>2
  <2>4. \A y \in u : y <= m - 1
    BY <1>2, <2>1
  <2>5. m - 1 \in A
    BY <2>3, <2>4
  <2> QED BY <1>2, <2>5
<1> QED BY <1>2, <1>3 DEF Max

(* And of the first ones it is the last. *)
LEMMA MaxOfPrefix ==
    ASSUME NEW i \in Nat, i > 0
    PROVE  Max(1 .. i) = i /\ (1 .. i) \ {i} = 1 .. i - 1
<1>1. 1 .. i \in SUBSET (1 .. i) /\ 1 .. i # {} /\ i \in 1 .. i
  OBVIOUS
<1>2. PICK m : m = Max(1 .. i)
  OBVIOUS
<1>3. m \in 1 .. i /\ i <= m
  BY <1>1, <1>2, MaxOfInterval
<1> QED BY <1>2, <1>3

(* The turns of the loop. *)
Keeps(g, s, S) ==
    /\ g[0] = <<>>
    /\ \A i \in 1 .. Len(s) : g[i] = IF s[i] \in S THEN Append(g[i - 1], s[i]) ELSE g[i - 1]

(* Keep is a loop over the sequence. *)
LEMMA KeepRec ==
    ASSUME NEW E, NEW s \in Seq(E), NEW S
    PROVE  \E g : Keeps(g, s, S) /\ Keep(s, S) = g[Len(s)]
<1> DEFINE D == DOMAIN s
           ch == [u \in SUBSET D |-> Max(u)]
           h == [i \in D |-> [v \in Seq(E) |-> IF s[i] \in S THEN Append(v, s[i]) ELSE v]]
           Eq(g) == g = [u \in SUBSET D |-> IF u = {} THEN <<>>
                            ELSE IF s[Max(u)] \in S THEN Append(g[u \ {Max(u)}], s[Max(u)]) ELSE g[u \ {Max(u)}]]
<1>0. D = 1 .. Len(s) /\ Len(s) \in Nat /\ \A i \in D : s[i] \in E
  OBVIOUS
<1>a. IsFiniteSet(D)
  BY <1>0, FS_Interval
<1>1. Chooses(ch, D)
  BY <1>0, MaxOfInterval DEF Chooses
<1>2. h \in [D -> [Seq(E) -> Seq(E)]]
  BY <1>0
<1>3. \E g \in [SUBSET D -> Seq(E)] : Recursion(g, D, <<>>, h, ch)
  <2>1. <<>> \in Seq(E)
    OBVIOUS
  <2> HIDE DEF ch, h, D
  <2> QED BY <1>a, <1>1, <1>2, <2>1, SetRecursion, Zenon
<1>4. PICK g \in [SUBSET D -> Seq(E)] : \A u \in SUBSET D :
         g[u] = IF u = {} THEN <<>> ELSE h[ch[u]][g[u \ {ch[u]}]]
  BY <1>3 DEF Recursion
<1>5. Eq(g)
  <2>1. ASSUME NEW u \in SUBSET D, u # {}
        PROVE  g[u] = IF s[Max(u)] \in S THEN Append(g[u \ {Max(u)}], s[Max(u)]) ELSE g[u \ {Max(u)}]
    <3>1. PICK y : y = Max(u)
      OBVIOUS
    <3>2. ch[u] = y /\ y \in u
      BY <3>1, <1>1, <2>1 DEF Chooses
    <3>3. y \in D /\ u \ {y} \in SUBSET D
      BY <3>2
    <3>4. PICK v \in Seq(E) : v = g[u \ {y}]
      BY <3>3
    <3>5. h[y][v] = IF s[y] \in S THEN Append(v, s[y]) ELSE v
      BY <3>3, <3>4
    <3>6. g[u] = h[y][v]
      BY <1>4, <2>1, <3>2, <3>4
    <3> QED BY <3>1, <3>4, <3>5, <3>6
  <2> QED BY <2>1, <1>4
<1>6. \E k : Eq(k) /\ Keep(s, S) = k[D]
  BY <1>5 DEF Keep, FoldLeft, MapThenFoldSet
<1>7. PICK k : Eq(k) /\ Keep(s, S) = k[D]
  BY <1>6
<1> DEFINE q == [i \in 0 .. Len(s) |-> k[1 .. i]]
<1>8. q[0] = <<>>
  <2>1. 1 .. 0 = {} /\ {} \in SUBSET D /\ 0 \in 0 .. Len(s)
    BY <1>0
  <2> QED BY <2>1, <1>7
<1>9. ASSUME NEW i \in 1 .. Len(s) PROVE q[i] = IF s[i] \in S THEN Append(q[i - 1], s[i]) ELSE q[i - 1]
  <2>1. i \in Nat /\ i > 0 /\ i \in 0 .. Len(s) /\ i - 1 \in 0 .. Len(s)
    BY <1>0
  <2>2. Max(1 .. i) = i /\ (1 .. i) \ {i} = 1 .. i - 1
    BY <2>1, MaxOfPrefix
  <2>3. 1 .. i \in SUBSET D /\ 1 .. i # {}
    BY <1>0, <2>1
  <2>4. PICK u : u = 1 .. i
    OBVIOUS
  <2>5. k[u] = IF s[i] \in S THEN Append(k[u \ {i}], s[i]) ELSE k[u \ {i}]
    BY <1>7, <2>2, <2>3, <2>4
  <2>6. q[i] = k[u] /\ q[i - 1] = k[u \ {i}]
    BY <2>1, <2>2, <2>4
  <2> QED BY <2>5, <2>6
<1>10. Keep(s, S) = q[Len(s)]
  BY <1>0, <1>7
<1> HIDE DEF q
<1>11. Keeps(q, s, S)
  BY <1>8, <1>9 DEF Keeps
<1> QED BY <1>10, <1>11

(* One more element at the end. *)
LEMMA AppendOne ==
    ASSUME NEW E, NEW q \in Seq(E), NEW x \in E
    PROVE  /\ Append(q, x) \in Seq(E) /\ Range(Append(q, x)) = Range(q) \cup {x}
           /\ IsInjective(q) /\ x \notin Range(q) => IsInjective(Append(q, x))
<1>1. PICK r : r = Append(q, x)
  OBVIOUS
<1>2. /\ r \in Seq(E) /\ Len(r) = Len(q) + 1 /\ Len(q) \in Nat /\ r[Len(q) + 1] = x
      /\ DOMAIN r = 1 .. Len(q) + 1 /\ DOMAIN q = 1 .. Len(q)
      /\ \A i \in 1 .. Len(q) : r[i] = q[i]
  BY <1>1
<1>3. Range(r) = Range(q) \cup {x}
  <2>1. \A y \in Range(r) : y \in Range(q) \cup {x}
    BY <1>2 DEF Range
  <2>2. \A y \in Range(q) : y \in Range(r)
    BY <1>2 DEF Range
  <2>3. x \in Range(r)
    BY <1>2 DEF Range
  <2> QED BY <2>1, <2>2, <2>3
<1>4. IsInjective(q) /\ x \notin Range(q) => IsInjective(r)
  BY <1>2 DEF IsInjective, Range
<1> QED BY <1>1, <1>2, <1>3, <1>4

(* Two sequences, joined. *)
LEMMA Joined ==
    ASSUME NEW E, NEW q \in Seq(E), NEW r \in Seq(E)
    PROVE  /\ q \o r \in Seq(E) /\ Range(q \o r) = Range(q) \cup Range(r)
           /\ IsInjective(q) /\ IsInjective(r) /\ Range(q) \cap Range(r) = {} => IsInjective(q \o r)
<1>1. PICK s : s = q \o r
  OBVIOUS
<1>2. PICK m \in Nat, n \in Nat : m = Len(q) /\ n = Len(r)
  OBVIOUS
<1>3. /\ s \in Seq(E) /\ Len(s) = m + n
      /\ DOMAIN s = 1 .. m + n /\ DOMAIN q = 1 .. m /\ DOMAIN r = 1 .. n
      /\ \A i \in 1 .. m + n : s[i] = IF i <= m THEN q[i] ELSE r[i - m]
  BY <1>1, <1>2, ConcatProperties
<1>4. \A j \in 1 .. n : s[m + j] = r[j] /\ m + j \in 1 .. m + n
  <2>1. \A j \in 1 .. n : m + j \in 1 .. m + n /\ ~ (m + j <= m) /\ (m + j) - m = j
    BY <1>2
  <2> QED BY <2>1, <1>3
<1>5. \A i \in 1 .. m : s[i] = q[i] /\ i \in 1 .. m + n
  BY <1>3
<1>6. \A i \in 1 .. m + n : i \in 1 .. m \/ \E j \in 1 .. n : i = m + j
  <2>1. \A i \in 1 .. m + n : i \in 1 .. m \/ (i - m \in 1 .. n /\ i = m + (i - m))
    OBVIOUS
  <2> QED BY <2>1
<1>7. Range(s) = Range(q) \cup Range(r)
  <2>1. ASSUME NEW y \in Range(s) PROVE y \in Range(q) \cup Range(r)
    <3>1. PICK i \in 1 .. m + n : y = s[i]
      BY <1>3 DEF Range
    <3>2. CASE i \in 1 .. m
      BY <3>1, <3>2, <1>3, <1>5 DEF Range
    <3>3. CASE \E j \in 1 .. n : i = m + j
      BY <3>1, <3>3, <1>3, <1>4 DEF Range
    <3> QED BY <3>2, <3>3, <1>6
  <2>2. \A y \in Range(q) : y \in Range(s)
    BY <1>3, <1>5 DEF Range
  <2>3. ASSUME NEW y \in Range(r) PROVE y \in Range(s)
    <3>1. PICK j \in 1 .. n : y = r[j]
      BY <1>3 DEF Range
    <3>2. m + j \in DOMAIN s /\ s[m + j] = y
      BY <3>1, <1>3, <1>4
    <3> QED BY <3>2 DEF Range
  <2> QED BY <2>1, <2>2, <2>3
<1>8. ASSUME IsInjective(q), IsInjective(r), Range(q) \cap Range(r) = {} PROVE IsInjective(s)
  <2>1. ASSUME NEW a \in 1 .. m + n, NEW b \in 1 .. m + n, s[a] = s[b] PROVE a = b
    <3>0. \A i \in 1 .. m, j \in 1 .. n : q[i] # r[j]
      BY <1>3, <1>8 DEF Range
    <3>1. CASE a \in 1 .. m /\ b \in 1 .. m
      BY <3>1, <2>1, <1>3, <1>5, <1>8 DEF IsInjective
    <3>2. CASE a \in 1 .. m /\ \E j \in 1 .. n : b = m + j
      <4>1. PICK j \in 1 .. n : b = m + j
        BY <3>2
      <4> QED BY <4>1, <3>0, <3>2, <2>1, <1>4, <1>5
    <3>3. CASE b \in 1 .. m /\ \E j \in 1 .. n : a = m + j
      <4>1. PICK j \in 1 .. n : a = m + j
        BY <3>3
      <4> QED BY <4>1, <3>0, <3>3, <2>1, <1>4, <1>5
    <3>4. CASE (\E i \in 1 .. n : a = m + i) /\ \E j \in 1 .. n : b = m + j
      <4>1. PICK i \in 1 .. n, j \in 1 .. n : a = m + i /\ b = m + j
        BY <3>4
      <4>2. r[i] = r[j]
        BY <4>1, <2>1, <1>4
      <4> QED BY <4>1, <4>2, <1>3, <1>8 DEF IsInjective
    <3> QED BY <3>1, <3>2, <3>3, <3>4, <1>6
  <2> QED BY <2>1, <1>3 DEF IsInjective
<1> QED BY <1>1, <1>3, <1>7, <1>8

(* Keep leaves the members of the set, in the order and as often as they were. *)
LEMMA KeepFacts ==
    ASSUME NEW E, NEW s \in Seq(E), NEW S
    PROVE  /\ Keep(s, S) \in Seq(E) /\ Range(Keep(s, S)) = Range(s) \cap S
           /\ IsInjective(s) => IsInjective(Keep(s, S))
<1>1. PICK g : Keeps(g, s, S) /\ Keep(s, S) = g[Len(s)]
  BY KeepRec
<1>2. PICK n \in Nat : n = Len(s) /\ DOMAIN s = 1 .. n /\ \A i \in 1 .. n : s[i] \in E
  OBVIOUS
<1> DEFINE R(i) == {s[j] : j \in 1 .. i}
           Good(q, i) == /\ q \in Seq(E) /\ Range(q) = R(i) \cap S
                         /\ IsInjective(s) => IsInjective(q)
           A == {i \in Nat : i <= n => Good(g[i], i)}
<1>3. 0 \in A
  <2>1. g[0] = <<>> /\ 1 .. 0 = {} /\ <<>> \in Seq(E) /\ DOMAIN <<>> = {}
    BY <1>1 DEF Keeps
  <2>2. Range(<<>>) = {} /\ IsInjective(<<>>) /\ R(0) = {}
    BY <2>1 DEF Range, IsInjective
  <2> QED BY <2>1, <2>2
<1>4. ASSUME NEW i \in Nat, i \in A PROVE i + 1 \in A
  <2>1. SUFFICES ASSUME i + 1 <= n PROVE Good(g[i + 1], i + 1)
    OBVIOUS
  <2>2. PICK q : q = g[i]
    OBVIOUS
  <2>3. Good(q, i)
    BY <1>4, <2>1, <2>2
  <2>4. i + 1 \in 1 .. n /\ (i + 1) - 1 = i
    BY <2>1
  <2>5. PICK x \in E : x = s[i + 1]
    BY <1>2, <2>4
  <2>6. g[i + 1] = IF x \in S THEN Append(q, x) ELSE q
    BY <1>1, <1>2, <2>2, <2>4, <2>5 DEF Keeps
  <2>7. R(i + 1) = R(i) \cup {x}
    <3>1. 1 .. i + 1 = (1 .. i) \cup {i + 1}
      OBVIOUS
    <3> QED BY <3>1, <2>5
  <2>8. IsInjective(s) => x \notin R(i)
    <3>1. \A j \in 1 .. i : j \in 1 .. n /\ j # i + 1
      BY <2>4, <1>2
    <3> QED BY <3>1, <2>4, <2>5, <1>2 DEF IsInjective
  <2> HIDE DEF R
  <2>9. CASE x \in S
    <3>1. q \in Seq(E) /\ (IsInjective(s) => x \notin Range(q))
      BY <2>3, <2>8
    <3>2. /\ Append(q, x) \in Seq(E) /\ Range(Append(q, x)) = Range(q) \cup {x}
          /\ IsInjective(q) /\ x \notin Range(q) => IsInjective(Append(q, x))
      BY <3>1, AppendOne
    <3> QED BY <3>1, <3>2, <2>3, <2>6, <2>7, <2>9
  <2>10. CASE x \notin S
    BY <2>10, <2>3, <2>6, <2>7
  <2> QED BY <2>9, <2>10
<1>5. Nat \subseteq A
  <2> HIDE DEF A
  <2> QED BY <1>3, <1>4, NatSetInduction
<1>6. Good(g[n], n)
  <2>1. n \in A
    <3> HIDE DEF A
    <3> QED BY <1>5
  <2>2. n <= n
    OBVIOUS
  <2> HIDE DEF Good
  <2> QED BY <2>1, <2>2
<1>7. R(n) = Range(s)
  BY <1>2 DEF Range
<1> QED BY <1>1, <1>2, <1>6, <1>7

(* A sequence without repetitions has as many members as its length says. *)
LEMMA InjectiveLen ==
    ASSUME NEW E, NEW s \in Seq(E)
    PROVE  IsFiniteSet(Range(s)) /\ (IsInjective(s) => Len(s) = Cardinality(Range(s)))
<1>1. PICK n \in Nat : n = Len(s) /\ DOMAIN s = 1 .. n /\ s \in [1 .. n -> E]
  OBVIOUS
<1>2. s \in Surjection(1 .. n, Range(s))
  BY <1>1 DEF Surjection, Range
<1>3. IsFiniteSet(1 .. n) /\ Cardinality(1 .. n) = n
  BY FS_Interval
<1>4. IsFiniteSet(Range(s))
  BY <1>2, <1>3, FS_Surjection
<1>5. ASSUME IsInjective(s) PROVE n = Cardinality(Range(s))
  <2>1. s \in Injection(1 .. n, Range(s))
    BY <1>1, <1>2, <1>5 DEF Injection, Surjection
  <2> QED BY <2>1, <1>2, <1>3, FS_Surjection
<1> QED BY <1>1, <1>4, <1>5

(* Min is the least of some numbers. *)
LEMMA MinOfNats ==
    ASSUME NEW S \in SUBSET Nat, S # {}
    PROVE  Min(S) \in S
BY LeastNat DEF Min

(* What the server sends has every entry of the directory once. *)
LEMMA SetToSeqFacts ==
    ASSUME NEW S, IsFiniteSet(S)
    PROVE  SetToSeq(S) \in Seq(S) /\ Range(SetToSeq(S)) = S /\ Len(SetToSeq(S)) = Cardinality(S)
<1>1. PICK n \in Nat : n = Cardinality(S) /\ Bijection(1 .. n, S) # {}
  BY FS_CardinalityType DEF ExistsBijection
<1>2. PICK s : s = SetToSeq(S)
  OBVIOUS
<1>3. s \in [1 .. n -> S] /\ IsInjective(s)
  BY <1>1, <1>2 DEF SetToSeq, Bijection, Injection
<1>4. IsFiniteSet(1 .. n) /\ Cardinality(1 .. n) = n
  BY FS_Interval
<1>5. s \in Injection(1 .. n, S)
  BY <1>3 DEF Injection
<1>6. s \in Surjection(1 .. n, S)
  BY <1>1, <1>4, <1>5, FS_Injection
<1>7. s \in Seq(S) /\ Len(s) = n
  BY <1>3
<1>8. Range(s) = S
  BY <1>6, <1>3 DEF Surjection, Range
<1> QED BY <1>1, <1>2, <1>7, <1>8

-----------------------------------------------------------------------------
(* The operations of the cache. *)

(* What each of them keeps: the list of uses has every cached listing once, and
   the number of files is theirs. *)
Typed(c) ==
    /\ c = [entries |-> c.entries, lru |-> c.lru, count |-> c.count]
    /\ DOMAIN c.entries \subseteq Keys /\ c.entries \in [DOMAIN c.entries -> Listings]
    /\ c.lru \in Seq(Keys) /\ c.count \in Int

(* The list of uses has every listing once. *)
Listed(c) == IsInjective(c.lru) /\ Range(c.lru) = DOMAIN c.entries

(* What every operation of the cache keeps. *)
CacheOK(c) == Typed(c) /\ Listed(c) /\ c.count = FilesIn(c.entries, DOMAIN c.entries)

(* The fields of a listing. *)
LEMMA ListingsType ==
    ASSUME NEW x \in Listings
    PROVE  x.files \in Seq(Dirents) /\ x.unsure \in BOOLEAN /\ x.excused \in BOOLEAN /\ Len(x.files) \in Nat
<1>1. x.files \in Seq(Dirents) /\ x.unsure \in BOOLEAN /\ x.excused \in BOOLEAN
  BY DEF Listings
<1> QED BY <1>1

(* A cache has finitely many listings. *)
LEMMA CacheIsFinite ==
    ASSUME NEW c, Typed(c), Listed(c)
    PROVE  IsFiniteSet(DOMAIN c.entries) /\ Sized(c.entries, DOMAIN c.entries)
<1>1. c.lru \in Seq(Keys) /\ Range(c.lru) = DOMAIN c.entries
  BY DEF Typed, Listed
<1>2. IsFiniteSet(Range(c.lru))
  BY <1>1, InjectiveLen
<1>3. \A k \in DOMAIN c.entries : c.entries[k] \in Listings
  BY DEF Typed
<1>4. \A k \in DOMAIN c.entries : Len(c.entries[k].files) \in Int
  BY <1>3, ListingsType
<1> QED BY <1>1, <1>2, <1>4 DEF Sized

(* What is kept is what the property says. *)
LEMMA OKIsConsistent ==
    ASSUME NEW c, CacheOK(c)
    PROVE  CacheIsConsistent(c)
<1>1. c.lru \in Seq(Keys) /\ IsInjective(c.lru) /\ Range(c.lru) = DOMAIN c.entries
  BY DEF CacheOK, Typed, Listed
<1>2. Len(c.lru) = Cardinality(DOMAIN c.entries)
  BY <1>1, InjectiveLen
<1> QED BY <1>1, <1>2 DEF CacheOK, CacheIsConsistent

(* The cache begins like that. *)
LEMMA EmptyIsOK == CacheOK(EmptyCache)
<1>1. DOMAIN <<>> = {} /\ <<>> \in Seq(Keys) /\ <<>> \in [{} -> Listings]
  OBVIOUS
<1>2. IsInjective(<<>>) /\ Range(<<>>) = {}
  BY <1>1 DEF IsInjective, Range
<1>3. FilesIn(<<>>, {}) = 0
  BY FS_EmptySet, FilesInType DEF Sized
<1> QED BY <1>1, <1>2, <1>3 DEF CacheOK, Typed, Listed, EmptyCache

(* The listings that are hit are of one server: their paths tell them apart. *)
OneServer(hit) == \A k, q \in hit : k.server = q.server

(* UpdateLru moves what is used to the end and changes nothing else. *)
LEMMA UpdateLruFacts ==
    ASSUME NEW c, Typed(c), IsInjective(c.lru), NEW hit \in SUBSET Keys, OneServer(hit)
    PROVE  /\ UpdateLru(c, hit) = [entries |-> c.entries, lru |-> UpdateLru(c, hit).lru, count |-> c.count]
           /\ UpdateLru(c, hit).lru \in Seq(Keys) /\ IsInjective(UpdateLru(c, hit).lru)
           /\ Range(UpdateLru(c, hit).lru) = Range(c.lru) \cup hit
<1> DEFINE paths == {k.path : k \in hit}
           order == Keep(PathOrder, paths)
           touched == [i \in DOMAIN order |-> CHOOSE k \in hit : k.path = order[i]]
           rest == Keep(c.lru, Range(c.lru) \ hit)
<1>1. order \in Seq(Seq(Names)) /\ Range(order) = Paths \cap paths /\ IsInjective(order)
  BY KeepFacts, CacheAssumption DEF Paths
<1>2. PICK n \in Nat : n = Len(order) /\ DOMAIN order = 1 .. n
  <2> HIDE DEF order
  <2> QED BY <1>1
<1>3. Range(order) = paths
  BY <1>1 DEF Keys
<1>4. ASSUME NEW i \in 1 .. n PROVE touched[i] \in hit /\ touched[i].path = order[i]
  <2>1. order[i] \in paths
    BY <1>2, <1>3 DEF Range
  <2> QED BY <1>2, <2>1
<1>5. ASSUME NEW k \in hit PROVE \E i \in 1 .. n : touched[i] = k
  <2>1. PICK i \in 1 .. n : order[i] = k.path
    BY <1>2, <1>3 DEF Range
  <2>2. touched[i] \in hit /\ touched[i].path = k.path
    BY <1>4, <2>1
  <2>3. k.server = touched[i].server /\ k \in Keys /\ touched[i] \in Keys
    BY <2>2 DEF OneServer
  <2> HIDE DEF touched
  <2> QED BY <2>2, <2>3 DEF Keys
<1>6. DOMAIN touched = 1 .. n
  BY <1>2
<1> HIDE DEF touched
<1>7. touched \in Seq(Keys)
  <2>1. touched \in [1 .. n -> Keys]
    BY <1>4, <1>2 DEF touched
  <2> QED BY <2>1
<1>8. Range(touched) = hit
  BY <1>4, <1>5, <1>6 DEF Range
<1>9. IsInjective(touched)
  BY <1>1, <1>2, <1>4, <1>6 DEF IsInjective
<1>10. c.lru \in Seq(Keys)
  BY DEF Typed
<1>11. rest \in Seq(Keys) /\ IsInjective(rest) /\ Range(rest) = Range(c.lru) \cap (Range(c.lru) \ hit)
  BY <1>10, KeepFacts
<1> HIDE DEF rest
<1>12. /\ rest \o touched \in Seq(Keys) /\ IsInjective(rest \o touched)
       /\ Range(rest \o touched) = Range(c.lru) \cup hit
  BY <1>7, <1>8, <1>9, <1>11, Joined
<1>13. UpdateLru(c, hit) = [entries |-> c.entries, lru |-> rest \o touched, count |-> c.count]
  <2>1. PICK new : new = rest \o touched
    OBVIOUS
  <2>2. UpdateLru(c, hit) = [c EXCEPT !.lru = rest \o touched]
    BY DEF UpdateLru, touched, rest
  <2>3. UpdateLru(c, hit) = [c EXCEPT !.lru = new]
    BY <2>1, <2>2
  <2> QED BY <2>1, <2>3 DEF Typed
<1> QED BY <1>12, <1>13

(* What the operations but Store may do to the listings: they go, are marked, or
   keep their files and the history. *)
Weaker(c, d) ==
    /\ DOMAIN d.entries \subseteq DOMAIN c.entries
    /\ \A k \in DOMAIN d.entries :
          \/ d.entries[k].unsure
          \/ /\ ~c.entries[k].unsure /\ d.entries[k].files = c.entries[k].files
             /\ c.entries[k].excused => d.entries[k].excused

(* One operation after the other. *)
LEMMA WeakerTrans ==
    ASSUME NEW c, NEW d, NEW f, Weaker(c, d), Weaker(d, f)
    PROVE  Weaker(c, f)
<1>1. DOMAIN f.entries \subseteq DOMAIN c.entries /\ DOMAIN f.entries \subseteq DOMAIN d.entries
  BY DEF Weaker
<1> SUFFICES ASSUME NEW k \in DOMAIN f.entries, ~f.entries[k].unsure
             PROVE  /\ ~c.entries[k].unsure /\ f.entries[k].files = c.entries[k].files
                    /\ c.entries[k].excused => f.entries[k].excused
  BY <1>1 DEF Weaker
<1>2. /\ ~d.entries[k].unsure /\ f.entries[k].files = d.entries[k].files
      /\ d.entries[k].excused => f.entries[k].excused
  BY DEF Weaker
<1>3. /\ ~c.entries[k].unsure /\ d.entries[k].files = c.entries[k].files
      /\ c.entries[k].excused => d.entries[k].excused
  BY <1>1, <1>2 DEF Weaker
<1> QED BY <1>2, <1>3

(* No operation. *)
LEMMA WeakerSame ==
    ASSUME NEW c, NEW d, d.entries = c.entries
    PROVE  Weaker(c, d)
BY DEF Weaker

(* UpdateLru keeps the cache as it should be. *)
LEMMA UpdateLruOK ==
    ASSUME NEW c, CacheOK(c), NEW hit \in SUBSET DOMAIN c.entries, OneServer(hit)
    PROVE  /\ CacheOK(UpdateLru(c, hit)) /\ UpdateLru(c, hit).entries = c.entries
           /\ UpdateLru(c, hit).count = c.count
<1>1. hit \in SUBSET Keys /\ Typed(c) /\ IsInjective(c.lru) /\ Range(c.lru) = DOMAIN c.entries
  BY DEF CacheOK, Typed, Listed
<1>2. PICK d : d = UpdateLru(c, hit)
  OBVIOUS
<1>3. /\ d = [entries |-> c.entries, lru |-> d.lru, count |-> c.count]
      /\ d.lru \in Seq(Keys) /\ IsInjective(d.lru)
      /\ Range(d.lru) = Range(c.lru) \cup hit
  BY <1>1, <1>2, UpdateLruFacts
<1>4. d.entries = c.entries /\ d.count = c.count
  BY <1>3
<1> QED BY <1>1, <1>2, <1>3, <1>4 DEF CacheOK, Typed, Listed

(* The listings change and none comes or goes. *)
LEMMA NewEntriesOK ==
    ASSUME NEW c, CacheOK(c), NEW E \in [DOMAIN c.entries -> Listings], NEW d,
           d = [c EXCEPT !.entries = E],
           \A k \in DOMAIN c.entries : Len(E[k].files) = Len(c.entries[k].files)
    PROVE  CacheOK(d) /\ d.entries = E
<1>1. d = [entries |-> E, lru |-> c.lru, count |-> c.count]
  BY DEF CacheOK, Typed
<1>2. d.entries = E /\ d.lru = c.lru /\ d.count = c.count /\ DOMAIN d.entries = DOMAIN c.entries
  BY <1>1
<1>3. IsFiniteSet(DOMAIN c.entries) /\ Sized(c.entries, DOMAIN c.entries)
  BY CacheIsFinite DEF CacheOK
<1>4. FilesIn(E, DOMAIN c.entries) = FilesIn(c.entries, DOMAIN c.entries)
  BY <1>3, FilesInSame
<1> QED BY <1>1, <1>2, <1>4 DEF CacheOK, Typed, Listed

(* Erased listings leave the list and the number. *)
LEMMA DropOK ==
    ASSUME NEW c, CacheOK(c), NEW gone \in SUBSET DOMAIN c.entries
    PROVE  /\ CacheOK(Drop(c, gone))
           /\ Drop(c, gone).entries = [k \in DOMAIN c.entries \ gone |-> c.entries[k]]
           /\ Range(Drop(c, gone).lru) = DOMAIN c.entries \ gone
           /\ Weaker(c, Drop(c, gone))
<1>1. PICK D : D = DOMAIN c.entries
  OBVIOUS
<1>2. Typed(c) /\ c.lru \in Seq(Keys) /\ IsInjective(c.lru) /\ Range(c.lru) = D /\ c.entries \in [D -> Listings] /\ D \subseteq Keys
  BY <1>1 DEF CacheOK, Typed, Listed
<1>3. PICK l : l = Keep(c.lru, D \ gone)
  OBVIOUS
<1>4. l \in Seq(Keys) /\ IsInjective(l) /\ Range(l) = D \ gone
  BY <1>2, <1>3, KeepFacts
<1>5. PICK E : E = [k \in D \ gone |-> c.entries[k]]
  OBVIOUS
<1>6. IsFiniteSet(D) /\ Sized(c.entries, D)
  BY <1>1, CacheIsFinite DEF CacheOK
<1>7. FilesIn(c.entries, D) = FilesIn(c.entries, gone) + FilesIn(c.entries, D \ gone)
  BY <1>1, <1>6, FilesInSplit
<1>8. IsFiniteSet(D \ gone) /\ Sized(c.entries, D \ gone) /\ IsFiniteSet(gone) /\ Sized(c.entries, gone)
  BY <1>1, <1>6, FS_Subset DEF Sized
<1>9. FilesIn(E, D \ gone) = FilesIn(c.entries, D \ gone)
  BY <1>5, <1>8, FilesInSame
<1>10. FilesIn(c.entries, D \ gone) \in Int /\ FilesIn(c.entries, gone) \in Int
  BY <1>8, FilesInType
<1>11. c.count - FilesIn(c.entries, gone) = FilesIn(E, D \ gone)
  BY <1>1, <1>7, <1>9, <1>10 DEF CacheOK
<1>12. PICK d : d = [entries |-> E, lru |-> l, count |-> FilesIn(E, D \ gone)]
  OBVIOUS
<1>13. Drop(c, gone) = d
  BY <1>1, <1>2, <1>3, <1>5, <1>11, <1>12 DEF Drop, Restrict
<1>14. d.entries = E /\ d.lru = l /\ d.count = FilesIn(E, D \ gone) /\ DOMAIN E = D \ gone /\ E \in [D \ gone -> Listings]
  BY <1>2, <1>5, <1>12
<1>15. CacheOK(d)
  BY <1>2, <1>4, <1>9, <1>10, <1>12, <1>14 DEF CacheOK, Typed, Listed
<1>16. Weaker(c, d)
  BY <1>1, <1>5, <1>14 DEF Weaker
<1> QED BY <1>1, <1>4, <1>5, <1>13, <1>14, <1>15, <1>16

(* The listings erased are those used longest ago. *)
LEMMA PruneOK ==
    ASSUME NEW c, CacheOK(c)
    PROVE  CacheOK(Prune(c)) /\ \E gone \in SUBSET DOMAIN c.entries :
              Prune(c).entries = [k \in DOMAIN c.entries \ gone |-> c.entries[k]]
<1>1. PICK n \in Nat : n = Len(c.lru) /\ DOMAIN c.lru = 1 .. n /\ \A i \in 1 .. n : c.lru[i] \in Keys
  BY DEF CacheOK, Typed
<1> DEFINE W(m) == Drop(c, Range(SubSeq(c.lru, 1, m)))
           A == {m \in 0 .. n : ~TooMany(W(m))}
<1>2. ASSUME NEW m \in 0 .. n
      PROVE  /\ Range(SubSeq(c.lru, 1, m)) \in SUBSET DOMAIN c.entries
             /\ m = n => Range(SubSeq(c.lru, 1, m)) = DOMAIN c.entries
  <2>1. PICK s : s = SubSeq(c.lru, 1, m)
    OBVIOUS
  <2>2. DOMAIN s = 1 .. m /\ \A i \in 1 .. m : s[i] = c.lru[i]
    <3>1. m \in Int /\ 1 \in Int /\ \A i \in 1 .. m : c.lru[i] \in Keys
      BY <1>1
    <3>2. s \in Seq(Keys) /\ Len(s) = (IF 1 <= m THEN m - 1 + 1 ELSE 0) /\ \A i \in 1 .. m - 1 + 1 : s[i] = c.lru[1 + i - 1]
      BY <3>1, <2>1, SubSeqProperties
    <3>3. Len(s) = m /\ \A i \in 1 .. m : i \in 1 .. m - 1 + 1 /\ 1 + i - 1 = i
      BY <3>2
    <3> QED BY <3>2, <3>3
  <2>3. Range(c.lru) = DOMAIN c.entries
    BY DEF CacheOK, Listed
  <2> QED BY <1>1, <2>1, <2>2, <2>3 DEF Range
<1>3. n \in A
  <2>1. PICK d : d = W(n)
    OBVIOUS
  <2>2. CacheOK(d) /\ Range(d.lru) = {}
    <3>1. n \in 0 .. n
      OBVIOUS
    <3>2. PICK gone : gone = Range(SubSeq(c.lru, 1, n))
      OBVIOUS
    <3>3. gone \in SUBSET DOMAIN c.entries /\ DOMAIN c.entries \ gone = {} /\ d = Drop(c, gone)
      BY <3>1, <3>2, <1>2, <2>1
    <3> QED BY <3>3, DropOK
  <2>3. Len(d.lru) = 0
    <3>1. PICK l : l = d.lru
      OBVIOUS
    <3>2. l \in Seq(Keys) /\ Range(l) = {}
      BY <2>2, <3>1 DEF CacheOK, Typed
    <3>3. DOMAIN l = {} /\ DOMAIN l = 1 .. Len(l) /\ Len(l) \in Nat
      BY <3>2 DEF Range
    <3>4. PICK m \in Nat : m = Len(l) /\ 1 \notin 1 .. m
      BY <3>3
    <3>5. m = 0
      BY <3>4
    <3> QED BY <3>1, <3>4, <3>5
  <2>4. ~TooMany(d)
    BY <2>3, CacheAssumption DEF TooMany
  <2> QED BY <2>1, <2>4
<1>4. PICK m \in 0 .. n : m = Min(A)
  <2>1. A \in SUBSET Nat /\ A # {}
    BY <1>3
  <2>2. A \subseteq 0 .. n
    OBVIOUS
  <2> HIDE DEF A
  <2> QED BY <2>1, <2>2, MinOfNats
<1>5. PICK gone : gone = Range(SubSeq(c.lru, 1, m))
  OBVIOUS
<1>6. Prune(c) = Drop(c, gone)
  BY <1>1, <1>4, <1>5 DEF Prune
<1>7. gone \in SUBSET DOMAIN c.entries
  BY <1>2, <1>5
<1> HIDE DEF W, A
<1>8. CacheOK(Drop(c, gone)) /\ Drop(c, gone).entries = [k \in DOMAIN c.entries \ gone |-> c.entries[k]]
  BY <1>7, DropOK
<1>9. CacheOK(Prune(c)) /\ Prune(c).entries = [k \in DOMAIN c.entries \ gone |-> c.entries[k]]
  BY <1>6, <1>8
<1> QED BY <1>7, <1>9

(* Lookup. *)
LEMMA LookupOK ==
    ASSUME NEW c, CacheOK(c), NEW k
    PROVE  CacheOK(Lookup(c, k)) /\ Lookup(c, k).entries = c.entries /\ Lookup(c, k).count = c.count
<1>1. CASE IsCached(c, k)
  <2>1. {k} \in SUBSET DOMAIN c.entries /\ OneServer({k})
    BY <1>1 DEF IsCached, OneServer
  <2> QED BY <1>1, <2>1, UpdateLruOK DEF Lookup
<1>2. CASE ~IsCached(c, k)
  BY <1>2 DEF Lookup
<1> QED BY <1>1, <1>2

(* The listing that is stored is the only new one, and the others are as before. *)
LEMMA StoreOK ==
    ASSUME NEW c, CacheOK(c), NEW k \in Keys, NEW listing \in Listings
    PROVE  /\ CacheOK(Store(c, k, listing))
           /\ \A q \in DOMAIN Store(c, k, listing).entries :
                 IF q = k THEN Store(c, k, listing).entries[q] = listing
                 ELSE q \in DOMAIN c.entries /\ Store(c, k, listing).entries[q] = c.entries[q]
<1>1. PICK D : D = DOMAIN c.entries
  OBVIOUS
<1>2. D \subseteq Keys /\ c.entries \in [D -> Listings] /\ IsFiniteSet(D) /\ Sized(c.entries, D) /\ c.count \in Int
      /\ c.count = FilesIn(c.entries, D)
  BY <1>1, CacheIsFinite DEF CacheOK, Typed
<1>3. Len(listing.files) \in Int
  BY ListingsType
<1>4. PICK n \in Int : n = Len(listing.files)
  BY <1>3
<1>5. CASE k \in D
  <2>1. PICK E : E = [c.entries EXCEPT ![k] = listing]
    OBVIOUS
  <2>2. E \in [D -> Listings] /\ E[k] = listing /\ \A q \in D \ {k} : E[q] = c.entries[q]
    BY <1>2, <1>5, <2>1
  <2>3. PICK m \in Int : m = Len(c.entries[k].files)
    BY <1>2, <1>5 DEF Sized
  <2>4. IsFiniteSet(D \ {k}) /\ Sized(c.entries, D \ {k}) /\ Sized(E, D)
    BY <1>2, <2>2, <1>3, FS_Subset DEF Sized
  <2>5. FilesIn(E, D \ {k}) = FilesIn(c.entries, D \ {k}) /\ FilesIn(c.entries, D \ {k}) \in Int
    BY <2>2, <2>4, FilesInSame, FilesInType
  <2>6. FilesIn(E, D) = n + FilesIn(E, D \ {k})
    BY <1>2, <1>4, <1>5, <2>2, <2>4, FilesInStep
  <2>7. FilesIn(c.entries, D) = m + FilesIn(c.entries, D \ {k})
    BY <1>2, <1>5, <2>3, FilesInStep
  <2>8. c.count + n - m = FilesIn(E, D)
    BY <1>2, <2>5, <2>6, <2>7
  <2>9. PICK u : u = Lookup(c, k)
    OBVIOUS
  <2>10. CacheOK(u) /\ u.entries = c.entries /\ u.count = c.count
    BY <2>9, LookupOK
  <2>11. PICK d : d = Store(c, k, listing)
    OBVIOUS
  <2>12. d = [u EXCEPT !.entries[k] = listing, !.count = @ + n - m]
    BY <1>1, <1>4, <1>5, <2>3, <2>9, <2>11 DEF Store, IsCached
  <2>13. u = [entries |-> c.entries, lru |-> u.lru, count |-> c.count]
    BY <2>10 DEF CacheOK, Typed
  <2>14. d = [entries |-> E, lru |-> u.lru, count |-> FilesIn(E, D)]
    <3>1. PICK l, x, v : l = u.lru /\ x = c.entries /\ v = c.count
      OBVIOUS
    <3>2. u = [entries |-> x, lru |-> l, count |-> v]
      BY <2>13, <3>1
    <3>3. d = [entries |-> [x EXCEPT ![k] = listing], lru |-> l, count |-> v + n - m]
      BY <3>2, <2>12
    <3> QED BY <2>1, <2>8, <3>1, <3>3
  <2>15. CacheOK(d)
    BY <2>2, <2>4, <1>2, <2>5, <2>6, <1>4, <2>10, <2>14, <1>1 DEF CacheOK, Typed, Listed
  <2> QED BY <1>1, <2>2, <2>11, <2>14, <2>15
<1>6. CASE k \notin D
  <2>1. PICK E : E = With(c.entries, k, listing)
    OBVIOUS
  <2>2. E \in [D \cup {k} -> Listings] /\ E[k] = listing /\ \A q \in D : E[q] = c.entries[q]
    BY <1>1, <1>2, <1>6, <2>1 DEF With
  <2>3. PICK T : T = D \cup {k}
    OBVIOUS
  <2>4. IsFiniteSet(T) /\ Sized(E, T) /\ T \ {k} = D /\ k \in T
    BY <1>2, <1>3, <1>6, <2>2, <2>3, FS_AddElement DEF Sized
  <2>5. FilesIn(E, D) = FilesIn(c.entries, D)
    BY <1>2, <2>2, FilesInSame
  <2>6. FilesIn(E, T) = n + FilesIn(E, D)
    <3>1. FilesIn(E, T) = n + FilesIn(E, T \ {k})
      BY <2>4, <1>4, <2>2, FilesInStep
    <3> QED BY <3>1, <2>4
  <2>7. c.count + n = FilesIn(E, T)
    BY <1>2, <2>4, <2>5, <2>6
  <2>8. PICK b : b = [entries |-> E, lru |-> c.lru, count |-> FilesIn(E, T)]
    OBVIOUS
  <2>9. [c EXCEPT !.entries = With(@, k, listing), !.count = @ + Len(listing.files)] = b
    <3>1. c = [entries |-> c.entries, lru |-> c.lru, count |-> c.count]
      BY DEF CacheOK, Typed
    <3>2. PICK v : v = c.count + n
      OBVIOUS
    <3>3. [c EXCEPT !.entries = With(@, k, listing), !.count = @ + Len(listing.files)]
             = [c EXCEPT !.entries = E, !.count = v]
      BY <3>2, <2>1, <1>4, Zenon
    <3>4. [c EXCEPT !.entries = E, !.count = v] = [entries |-> E, lru |-> c.lru, count |-> v]
      <4>1. PICK x, l, y : c = [entries |-> x, lru |-> l, count |-> y]
        BY <3>1
      <4>2. PICK d : d = [c EXCEPT !.entries = E, !.count = v]
        OBVIOUS
      <4>3. d = [entries |-> E, lru |-> l, count |-> v]
        BY <4>1, <4>2
      <4>4. c.lru = l
        BY <4>1
      <4> QED BY <4>2, <4>3, <4>4
    <3> QED BY <3>2, <3>3, <3>4, <2>7, <2>8
  <2>10. Typed(b) /\ IsInjective(b.lru) /\ Range(b.lru) = D
    BY <1>1, <1>2, <2>2, <2>3, <2>7, <2>8, <1>4 DEF CacheOK, Typed, Listed
  <2>11. {k} \in SUBSET Keys /\ OneServer({k})
    BY DEF OneServer
  <2>12. PICK u : u = UpdateLru(b, {k})
    OBVIOUS
  <2>13. /\ u = [entries |-> b.entries, lru |-> u.lru, count |-> b.count]
         /\ u.lru \in Seq(Keys) /\ IsInjective(u.lru) /\ Range(u.lru) = Range(b.lru) \cup {k}
    BY <2>10, <2>11, <2>12, UpdateLruFacts
  <2>14. u.entries = E /\ u.count = FilesIn(E, T) /\ DOMAIN E = T
    BY <2>2, <2>3, <2>8, <2>13
  <2>15. CacheOK(u)
    BY <2>2, <2>3, <2>7, <2>8, <2>10, <2>13, <2>14, <1>2, <1>4 DEF CacheOK, Typed, Listed
  <2>16. Store(c, k, listing) = Prune(u)
    BY <1>1, <1>6, <2>9, <2>12 DEF Store, IsCached
  <2>17. PICK gone \in SUBSET T : CacheOK(Prune(u)) /\ Prune(u).entries = [q \in T \ gone |-> E[q]]
    <3>1. DOMAIN u.entries = T
      BY <2>14
    <3>2. PICK gone \in SUBSET DOMAIN u.entries :
             CacheOK(Prune(u)) /\ Prune(u).entries = [q \in DOMAIN u.entries \ gone |-> u.entries[q]]
      BY <2>15, PruneOK
    <3>3. gone \in SUBSET T
      BY <3>1
    <3> QED BY <2>14, <3>1, <3>2, <3>3
  <2> QED BY <1>1, <2>2, <2>3, <2>16, <2>17
<1> QED BY <1>5, <1>6

(* InvalidateServer. *)
LEMMA InvalidateServerOK ==
    ASSUME NEW c, CacheOK(c), NEW server
    PROVE  /\ CacheOK(InvalidateServer(c, server)) /\ Weaker(c, InvalidateServer(c, server))
           /\ \A k \in DOMAIN InvalidateServer(c, server).entries : k.server # server
<1>1. PICK gone : gone = {k \in DOMAIN c.entries : k.server = server}
  OBVIOUS
<1>2. gone \in SUBSET DOMAIN c.entries /\ InvalidateServer(c, server) = Drop(c, gone)
  BY <1>1 DEF InvalidateServer
<1>3. /\ CacheOK(Drop(c, gone)) /\ Weaker(c, Drop(c, gone))
      /\ Drop(c, gone).entries = [k \in DOMAIN c.entries \ gone |-> c.entries[k]]
  BY <1>2, DropOK
<1> QED BY <1>1, <1>2, <1>3

(* The value With gives. *)
LEMMA WithFields ==
    ASSUME NEW c, Typed(c), NEW E, NEW n
    PROVE  /\ [c EXCEPT !.entries = E] = [entries |-> E, lru |-> c.lru, count |-> c.count]
           /\ [c EXCEPT !.entries = E, !.count = n] = [entries |-> E, lru |-> c.lru, count |-> n]
<1>1. PICK x, l, y : c = [entries |-> x, lru |-> l, count |-> y] /\ l = c.lru /\ y = c.count
  BY DEF Typed
<1>2. PICK d, f : d = [c EXCEPT !.entries = E] /\ f = [c EXCEPT !.entries = E, !.count = n]
  OBVIOUS
<1>3. d = [entries |-> E, lru |-> l, count |-> y] /\ f = [entries |-> E, lru |-> l, count |-> n]
  BY <1>1, <1>2
<1> QED BY <1>1, <1>2, <1>3

(* A listing that is marked, or gets other files. *)
LEMMA ListingFields ==
    ASSUME NEW x \in Listings, NEW files \in Seq(Dirents)
    PROVE  /\ Unsure(x) \in Listings /\ Unsure(x).unsure /\ Unsure(x).files = x.files
           /\ [x EXCEPT !.files = files] \in Listings /\ [x EXCEPT !.files = files].files = files
           /\ [x EXCEPT !.files = files].unsure = x.unsure
BY DEF Listings, Unsure

(* An entry that is marked. *)
LEMMA DirentFields ==
    ASSUME NEW x \in Dirents
    PROVE  Unsure(x) \in Dirents
BY DEF Dirents, Unsure

(* Some entries are marked, in place. *)
LEMMA MarkedFiles ==
    ASSUME NEW files \in Seq(Dirents), NEW M
    PROVE  /\ [i \in DOMAIN files |-> IF i \in M THEN Unsure(files[i]) ELSE files[i]] \in Seq(Dirents)
           /\ Len([i \in DOMAIN files |-> IF i \in M THEN Unsure(files[i]) ELSE files[i]]) = Len(files)
<1>1. PICK n \in Nat : n = Len(files) /\ DOMAIN files = 1 .. n /\ \A i \in 1 .. n : files[i] \in Dirents
  OBVIOUS
<1>2. PICK g : g = [i \in 1 .. n |-> IF i \in M THEN Unsure(files[i]) ELSE files[i]]
  OBVIOUS
<1>3. \A i \in 1 .. n : g[i] \in Dirents
  BY <1>1, <1>2, DirentFields
<1>4. g \in [1 .. n -> Dirents]
  BY <1>2, <1>3
<1>5. g \in Seq(Dirents) /\ Len(g) = n
  BY <1>4
<1> QED BY <1>1, <1>2, <1>5

(* InvalidateFile: it marks the listing of the directory. *)
LEMMA InvalidateFileOK ==
    ASSUME NEW c, CacheOK(c), NEW server, NEW path, NEW name
    PROVE  /\ CacheOK(InvalidateFile(c, server, path, name)) /\ Weaker(c, InvalidateFile(c, server, path, name))
           /\ \A k \in DOMAIN InvalidateFile(c, server, path, name).entries :
                 k.server = server /\ k.path = path => InvalidateFile(c, server, path, name).entries[k].unsure
<1> DEFINE cmpCase == server \in CaseSensitive
           same(n) == IF cmpCase THEN n = name ELSE SameName(n, name)
           hit == {k \in DOMAIN c.entries :
                      k.server = server /\ IF cmpCase THEN k.path = path ELSE CmpNoCase(path, k.path)}
           dir == \E k \in hit : \E x \in Range(c.entries[k].files) : same(x.name) /\ x.dir
           files(x) == [i \in DOMAIN x.files |-> IF same(x.files[i].name) THEN Unsure(x.files[i]) ELSE x.files[i]]
           marked(x) == [Unsure(x) EXCEPT !.files = [i \in DOMAIN @ |-> IF same(@[i].name) THEN Unsure(@[i]) ELSE @[i]]]
           below(k) == dir /\ k.server = server /\ IsParentOf(path, k.path, ~cmpCase, TRUE)
           E == [k \in DOMAIN c.entries |-> IF k \in hit THEN marked(c.entries[k])
                                            ELSE IF below(k) THEN Unsure(c.entries[k]) ELSE c.entries[k]]
<1>1. PICK h : h = hit
  OBVIOUS
<1>2. h \in SUBSET DOMAIN c.entries /\ OneServer(h)
  BY <1>1 DEF OneServer
<1>3. PICK u : u = UpdateLru(c, h)
  OBVIOUS
<1>4. CacheOK(u) /\ u.entries = c.entries
  BY <1>2, <1>3, UpdateLruOK
<1>5. PICK d : d = InvalidateFile(c, server, path, name)
  OBVIOUS
<1>6. ASSUME NEW x \in Listings PROVE marked(x) \in Listings /\ marked(x).unsure /\ Len(marked(x).files) = Len(x.files)
  <2>1. PICK y : y = Unsure(x)
    OBVIOUS
  <2>2. y \in Listings /\ y.unsure /\ y.files = x.files /\ x.files \in Seq(Dirents)
    BY <2>1, ListingFields, ListingsType
  <2>3. PICK M : M = {i \in DOMAIN x.files : same(x.files[i].name)}
    OBVIOUS
  <2>4. PICK g : g = [i \in DOMAIN x.files |-> IF i \in M THEN Unsure(x.files[i]) ELSE x.files[i]]
    OBVIOUS
  <2>5. g \in Seq(Dirents) /\ Len(g) = Len(x.files)
    BY <2>2, <2>4, MarkedFiles
  <2>6. g = files(x)
    BY <2>3, <2>4
  <2>7. marked(x) = [y EXCEPT !.files = g]
    BY <2>1, <2>2, <2>6
  <2> HIDE DEF marked, files
  <2> QED BY <2>2, <2>5, <2>7, ListingFields
<1> HIDE DEF marked, below
<1>7. \A k \in DOMAIN c.entries : c.entries[k] \in Listings
  BY DEF CacheOK, Typed
<1>8. ASSUME NEW k \in DOMAIN c.entries
      PROVE  /\ E[k] \in Listings /\ Len(E[k].files) = Len(c.entries[k].files)
             /\ E[k].unsure \/ E[k] = c.entries[k]
             /\ k \in hit => E[k].unsure
  <2>1. c.entries[k] \in Listings /\ c.entries[k].files \in Seq(Dirents)
    BY <1>7, ListingsType
  <2>2. PICK x : x = c.entries[k]
    OBVIOUS
  <2>3. E[k] = IF k \in h THEN marked(x) ELSE IF below(k) THEN Unsure(x) ELSE x
    BY <1>1, <2>2
  <2>4. Unsure(x) \in Listings /\ Unsure(x).unsure /\ Unsure(x).files = x.files
    BY <2>1, <2>2, ListingFields
  <2>5. marked(x) \in Listings /\ marked(x).unsure /\ Len(marked(x).files) = Len(x.files)
    BY <2>1, <2>2, <1>6
  <2> HIDE DEF E, hit
  <2> QED BY <1>1, <2>1, <2>2, <2>3, <2>4, <2>5
<1>9. d = [u EXCEPT !.entries = E]
  <2>1. PICK e : e = UpdateLru(c, hit).entries
    OBVIOUS
  <2>2. e = c.entries
    BY <2>1, <1>1, <1>3, <1>4
  <2>3. d = [UpdateLru(c, hit) EXCEPT !.entries =
                [k \in DOMAIN UpdateLru(c, hit).entries |->
                    IF k \in hit THEN marked(UpdateLru(c, hit).entries[k])
                    ELSE IF below(k) THEN Unsure(UpdateLru(c, hit).entries[k]) ELSE UpdateLru(c, hit).entries[k]]]
    BY <1>5 DEF InvalidateFile, marked, below
  <2> HIDE DEF hit
  <2>4. d = [u EXCEPT !.entries =
                [k \in DOMAIN e |->
                    IF k \in hit THEN marked(e[k]) ELSE IF below(k) THEN Unsure(e[k]) ELSE e[k]]]
    BY <2>1, <2>3, <1>1, <1>3
  <2> QED BY <2>2, <2>4
<1>10. DOMAIN E = DOMAIN c.entries
  OBVIOUS
<1>11. \A k \in DOMAIN c.entries : k.server = server /\ k.path = path => k \in hit
  BY DEF CmpNoCase, SameName
<1> HIDE DEF E, hit
<1>12. E \in [DOMAIN u.entries -> Listings] /\ \A k \in DOMAIN u.entries : Len(E[k].files) = Len(u.entries[k].files)
  BY <1>4, <1>8, <1>10 DEF E
<1>13. CacheOK(d) /\ d.entries = E
  BY <1>4, <1>9, <1>12, NewEntriesOK
<1>14. Weaker(c, d)
  BY <1>8, <1>10, <1>13 DEF Weaker
<1> QED BY <1>5, <1>8, <1>10, <1>11, <1>13, <1>14

(* Listings that get other files: the number follows. *)
LEMMA ChangeListingsOK ==
    ASSUME NEW c, CacheOK(c), NEW files, DOMAIN files \subseteq DOMAIN c.entries, OneServer(DOMAIN files),
           \A k \in DOMAIN files : files[k] \in Seq(Dirents)
    PROVE  /\ CacheOK(ChangeListings(c, files)) /\ Weaker(c, ChangeListings(c, files))
           /\ ChangeListings(c, files).entries =
                 [k \in DOMAIN c.entries |->
                    IF k \in DOMAIN files THEN [Unsure(c.entries[k]) EXCEPT !.files = files[k]] ELSE c.entries[k]]
           /\ \A k \in DOMAIN files : ChangeListings(c, files).entries[k].unsure
<1>1. PICK D, h : D = DOMAIN c.entries /\ h = DOMAIN files
  OBVIOUS
<1>2. PICK E : E = [k \in D |-> IF k \in h THEN [Unsure(c.entries[k]) EXCEPT !.files = files[k]] ELSE c.entries[k]]
  OBVIOUS
<1>3. D \subseteq Keys /\ IsFiniteSet(D) /\ Sized(c.entries, D) /\ c.count = FilesIn(c.entries, D) /\ c.count \in Int
      /\ \A k \in D : c.entries[k] \in Listings
  BY <1>1, CacheIsFinite DEF CacheOK, Typed
<1>4. ASSUME NEW k \in D PROVE E[k] \in Listings /\ (k \in h => E[k].unsure) /\ (k \notin h => E[k] = c.entries[k])
  <2>1. PICK x \in Listings : x = c.entries[k]
    BY <1>3
  <2>2. CASE k \in h
    <3>1. files[k] \in Seq(Dirents) /\ Unsure(x) \in Listings /\ Unsure(x).unsure
      BY <1>1, <2>2, ListingsType, ListingFields
    <3>2. PICK y \in Listings : y = Unsure(x) /\ y.unsure
      BY <3>1
    <3>a. PICK w \in Seq(Dirents) : w = files[k]
      BY <3>1
    <3>3. E[k] = [y EXCEPT !.files = w]
      BY <1>2, <2>1, <2>2, <3>2, <3>a
    <3>4. [y EXCEPT !.files = w] \in Listings /\ [y EXCEPT !.files = w].unsure = y.unsure
      BY ListingFields
    <3> QED BY <2>2, <3>2, <3>3, <3>4
  <2>3. CASE k \notin h
    BY <1>2, <2>1, <2>3
  <2> QED BY <2>2, <2>3
<1>5. DOMAIN E = D /\ h \in SUBSET D
  BY <1>1, <1>2
<1>6. PICK u : u = UpdateLru(c, h)
  OBVIOUS
<1>7. CacheOK(u) /\ u.entries = c.entries /\ u.count = c.count
  BY <1>1, <1>5, <1>6, UpdateLruOK
<1>8. Sized(E, D)
  BY <1>4, ListingsType DEF Sized
<1>9. FilesIn(c.entries, D) = FilesIn(c.entries, h) + FilesIn(c.entries, D \ h)
  BY <1>3, <1>5, FilesInSplit
<1>10. FilesIn(E, D) = FilesIn(E, h) + FilesIn(E, D \ h)
  BY <1>3, <1>5, <1>8, FilesInSplit
<1>11. IsFiniteSet(h) /\ IsFiniteSet(D \ h) /\ Sized(c.entries, h) /\ Sized(c.entries, D \ h) /\ Sized(E, h)
  BY <1>3, <1>5, <1>8, FS_Subset DEF Sized
<1>12. FilesIn(E, D \ h) = FilesIn(c.entries, D \ h)
  BY <1>4, <1>11, FilesInSame
<1>13. FilesIn(E, h) \in Int /\ FilesIn(c.entries, h) \in Int /\ FilesIn(c.entries, D \ h) \in Int
  BY <1>11, FilesInType
<1>14. PICK n \in Int : n = c.count + FilesIn(E, h) - FilesIn(c.entries, h)
  BY <1>3, <1>13
<1>15. n = FilesIn(E, D)
  BY <1>3, <1>9, <1>10, <1>12, <1>13, <1>14
<1>16. PICK d : d = ChangeListings(c, files)
  OBVIOUS
<1>17. d = [u EXCEPT !.entries = E, !.count = n]
  BY <1>1, <1>2, <1>6, <1>7, <1>14, <1>16 DEF ChangeListings
<1>18. d = [entries |-> E, lru |-> u.lru, count |-> n]
  BY <1>7, <1>17, WithFields DEF CacheOK
<1>19. CacheOK(d) /\ d.entries = E
  <2>1. d.entries = E /\ d.lru = u.lru /\ d.count = n
    BY <1>18
  <2>2. E \in [D -> Listings]
    <3>1. E = [k \in D |-> E[k]]
      BY <1>2
    <3> QED BY <1>4, <3>1
  <2>3. u.lru \in Seq(Keys) /\ IsInjective(u.lru) /\ Range(u.lru) = D
    BY <1>1, <1>7 DEF CacheOK, Typed, Listed
  <2> QED BY <2>1, <2>2, <2>3, <1>3, <1>5, <1>15, <1>18 DEF CacheOK, Typed, Listed
<1>20. Weaker(c, d)
  BY <1>1, <1>4, <1>5, <1>19 DEF Weaker
<1> QED BY <1>1, <1>2, <1>4, <1>5, <1>16, <1>19, <1>20

(* FindFile gives a position, or 0. *)
LEMMA FindFileType ==
    ASSUME NEW files \in Seq(Dirents), NEW name
    PROVE  FindFile(files, name) \in 0 .. Len(files)
<1>1. PICK I : I = {i \in 1 .. Len(files) : files[i].name = name}
  OBVIOUS
<1>2. FindFile(files, name) = IF I # {} THEN Min(I) ELSE 0
  BY <1>1 DEF FindFile, SelectInSeq
<1>3. I \in SUBSET Nat /\ Len(files) \in Nat
  BY <1>1
<1>4. I # {} => Min(I) \in I
  BY <1>3, MinOfNats
<1> QED BY <1>1, <1>2, <1>3, <1>4

(* A listing without one of its files. *)
LEMMA RemoveAtType ==
    ASSUME NEW E, NEW s \in Seq(E), NEW i \in 1 .. Len(s)
    PROVE  RemoveAt(s, i) \in Seq(E)
<1>1. PICK n \in Nat : n = Len(s) /\ \A j \in 1 .. n : s[j] \in E
  OBVIOUS
<1>2. \A j \in 1 .. i - 1 : s[j] \in E
  BY <1>1
<1>3. \A j \in i + 1 .. n : s[j] \in E
  BY <1>1
<1>4. i - 1 \in Int /\ i + 1 \in Int /\ n \in Int /\ 1 \in Int
  BY <1>1
<1>5. SubSeq(s, 1, i - 1) \in Seq(E)
  BY <1>2, <1>4, SubSeqProperties
<1>6. SubSeq(s, i + 1, n) \in Seq(E)
  BY <1>3, <1>4, SubSeqProperties
<1> QED BY <1>1, <1>5, <1>6, ConcatProperties DEF RemoveAt

(* The listings with a path are of one server, and the exact one is among them. *)
LEMMA ListingsOfFacts ==
    ASSUME NEW c, CacheOK(c), NEW server, NEW path
    PROVE  /\ ListingsOf(c, server, path) \in SUBSET DOMAIN c.entries /\ OneServer(ListingsOf(c, server, path))
           /\ \A k \in DOMAIN c.entries : k.server = server /\ k.path = path => k \in ListingsOf(c, server, path)
           /\ \A k \in DOMAIN c.entries : c.entries[k] \in Listings /\ c.entries[k].files \in Seq(Dirents)
<1>1. \A k \in DOMAIN c.entries : c.entries[k] \in Listings
  BY DEF CacheOK, Typed
<1>2. \A k \in DOMAIN c.entries : c.entries[k].files \in Seq(Dirents)
  BY <1>1, ListingsType
<1> QED BY <1>1, <1>2 DEF ListingsOf, OneServer, CmpNoCase, SameName

(* What UpdateFile, RemoveFile and RemoveDir do to the listing of the directory
   itself, if it is cached. *)
Marks(d, server, path) ==
    \A k \in DOMAIN d.entries : k.server = server /\ k.path = path => d.entries[k].unsure

(* UpdateFile. *)
LEMMA UpdateFileOK ==
    ASSUME NEW c, CacheOK(c), NEW server, NEW path, NEW name \in Names, NEW mayCreate, NEW type, NEW size \in Int
    PROVE  /\ CacheOK(UpdateFile(c, server, path, name, mayCreate, type, size))
           /\ Weaker(c, UpdateFile(c, server, path, name, mayCreate, type, size))
           /\ DOMAIN UpdateFile(c, server, path, name, mayCreate, type, size).entries = DOMAIN c.entries
           /\ Marks(UpdateFile(c, server, path, name, mayCreate, type, size), server, path)
<1> DEFINE marked(files) == [j \in DOMAIN files |->
                               IF SameName(files[j].name, name)
                                  /\ (FindFile(files, name) = 0 \/ j <= FindFile(files, name))
                               THEN Unsure(files[j]) ELSE files[j]]
           update(files) ==
            LET i == FindFile(files, name)
                marks == [j \in DOMAIN files |->
                              IF SameName(files[j].name, name) /\ (i = 0 \/ j <= i)
                              THEN Unsure(files[j]) ELSE files[j]]
            IN  IF i = 0 /\ mayCreate /\ type # "unknown"
                THEN Append(marks, Dirent(name, type = "dir", size, TRUE))
                ELSE marks
<1>1. ASSUME NEW files \in Seq(Dirents) PROVE update(files) \in Seq(Dirents)
  <2>1. PICK M : M = {j \in DOMAIN files : SameName(files[j].name, name)
                                  /\ (FindFile(files, name) = 0 \/ j <= FindFile(files, name))}
    OBVIOUS
  <2>2. marked(files) = [i \in DOMAIN files |-> IF i \in M THEN Unsure(files[i]) ELSE files[i]]
    BY <2>1
  <2>3. marked(files) \in Seq(Dirents)
    BY <2>2, MarkedFiles
  <2>4. PICK x \in Dirents : x = Dirent(name, type = "dir", size, TRUE)
    <3>1. PICK b \in BOOLEAN : b = (type = "dir")
      OBVIOUS
    <3>2. Dirent(name, b, size, TRUE) \in Dirents
      BY DEF Dirent, Dirents
    <3> QED BY <3>1, <3>2
  <2>5. update(files) = IF FindFile(files, name) = 0 /\ mayCreate /\ type # "unknown"
                        THEN Append(marked(files), x) ELSE marked(files)
    BY <2>4
  <2> HIDE DEF update, marked
  <2> QED BY <2>3, <2>5, AppendProperties
<1> HIDE DEF update
<1>2. PICK h : h = ListingsOf(c, server, path)
  OBVIOUS
<1>3. PICK f : f = [k \in h |-> update(c.entries[k].files)]
  OBVIOUS
<1>4. UpdateFile(c, server, path, name, mayCreate, type, size) = ChangeListings(c, f)
  BY <1>2, <1>3 DEF UpdateFile, update
<1>5. DOMAIN f \subseteq DOMAIN c.entries /\ OneServer(DOMAIN f) /\ DOMAIN f = h
  BY <1>2, <1>3, ListingsOfFacts
<1>6. \A k \in DOMAIN f : f[k] \in Seq(Dirents)
  BY <1>1, <1>3, <1>5, ListingsOfFacts
<1>7. /\ CacheOK(ChangeListings(c, f)) /\ Weaker(c, ChangeListings(c, f))
      /\ \A k \in DOMAIN f : ChangeListings(c, f).entries[k].unsure
  BY <1>5, <1>6, ChangeListingsOK
<1>8. DOMAIN ChangeListings(c, f).entries = DOMAIN c.entries
  BY <1>5, <1>6, ChangeListingsOK
<1>9. Marks(ChangeListings(c, f), server, path)
  BY <1>2, <1>5, <1>7, <1>8, ListingsOfFacts DEF Marks
<1> QED BY <1>4, <1>7, <1>8, <1>9

(* RemoveFile. *)
LEMMA RemoveFileOK ==
    ASSUME NEW c, CacheOK(c), NEW server, NEW path, NEW name
    PROVE  /\ CacheOK(RemoveFile(c, server, path, name))
           /\ Weaker(c, RemoveFile(c, server, path, name))
           /\ DOMAIN RemoveFile(c, server, path, name).entries = DOMAIN c.entries
           /\ Marks(RemoveFile(c, server, path, name), server, path)
           /\ \A d : CacheOK(d) /\ d.entries = c.entries =>
                 RemoveFile(d, server, path, name).entries = RemoveFile(c, server, path, name).entries
<1> DEFINE remove(files) ==
            LET i == FindFile(files, name)
            IN  IF i # 0 THEN RemoveAt(files, i)
                ELSE [j \in DOMAIN files |->
                         IF SameName(files[j].name, name) THEN Unsure(files[j]) ELSE files[j]]
<1>1. ASSUME NEW files \in Seq(Dirents) PROVE remove(files) \in Seq(Dirents)
  <2>1. PICK M : M = {j \in DOMAIN files : SameName(files[j].name, name)}
    OBVIOUS
  <2>2. PICK g : g = [i \in DOMAIN files |-> IF i \in M THEN Unsure(files[i]) ELSE files[i]]
    OBVIOUS
  <2>3. g \in Seq(Dirents)
    BY <2>2, MarkedFiles
  <2>4. PICK i \in 0 .. Len(files) : i = FindFile(files, name)
    BY FindFileType
  <2>5. remove(files) = IF i # 0 THEN RemoveAt(files, i) ELSE g
    BY <2>1, <2>2, <2>4
  <2>6. i # 0 => RemoveAt(files, i) \in Seq(Dirents)
    BY RemoveAtType
  <2> HIDE DEF remove
  <2> QED BY <2>3, <2>5, <2>6
<1> HIDE DEF remove
<1>2. PICK h : h = ListingsOf(c, server, path)
  OBVIOUS
<1>3. PICK f : f = [k \in h |-> remove(c.entries[k].files)]
  OBVIOUS
<1>4. RemoveFile(c, server, path, name) = ChangeListings(c, f)
  BY <1>2, <1>3 DEF RemoveFile, remove
<1>5. DOMAIN f \subseteq DOMAIN c.entries /\ OneServer(DOMAIN f) /\ DOMAIN f = h
  BY <1>2, <1>3, ListingsOfFacts
<1>6. \A k \in DOMAIN f : f[k] \in Seq(Dirents)
  BY <1>1, <1>3, <1>5, ListingsOfFacts
<1>7. /\ CacheOK(ChangeListings(c, f)) /\ Weaker(c, ChangeListings(c, f))
      /\ \A k \in DOMAIN f : ChangeListings(c, f).entries[k].unsure
  BY <1>5, <1>6, ChangeListingsOK
<1>8. ChangeListings(c, f).entries =
         [k \in DOMAIN c.entries |->
            IF k \in DOMAIN f THEN [Unsure(c.entries[k]) EXCEPT !.files = f[k]] ELSE c.entries[k]]
  BY <1>5, <1>6, ChangeListingsOK
<1>9. Marks(ChangeListings(c, f), server, path)
  BY <1>2, <1>5, <1>7, <1>8, ListingsOfFacts DEF Marks
<1>10. ASSUME NEW d, CacheOK(d), d.entries = c.entries
       PROVE  RemoveFile(d, server, path, name).entries = RemoveFile(c, server, path, name).entries
  <2>1. ListingsOf(d, server, path) = h
    BY <1>2, <1>10 DEF ListingsOf
  <2>2. RemoveFile(d, server, path, name) = ChangeListings(d, f)
    BY <2>1, <1>3, <1>10 DEF RemoveFile, remove
  <2>3. DOMAIN f \subseteq DOMAIN d.entries
    BY <1>5, <1>10
  <2>4. ChangeListings(d, f).entries =
         [k \in DOMAIN d.entries |->
            IF k \in DOMAIN f THEN [Unsure(d.entries[k]) EXCEPT !.files = f[k]] ELSE d.entries[k]]
    BY <2>3, <1>5, <1>6, <1>10, ChangeListingsOK
  <2> QED BY <2>2, <2>4, <1>4, <1>8, <1>10
<1> QED BY <1>4, <1>7, <1>8, <1>9, <1>10

(* No listing of the directory, nor of one below it, is left. *)
Gone(d, server, path, name) ==
    \A k \in DOMAIN d.entries :
        k.server = server => k.path # Append(path, name) /\ ~IsParentOf(Append(path, name), k.path, TRUE, FALSE)

(* RemoveDir. *)
LEMMA RemoveDirOK ==
    ASSUME NEW c, CacheOK(c), NEW server, NEW path, NEW name
    PROVE  /\ CacheOK(RemoveDir(c, server, path, name)) /\ Weaker(c, RemoveDir(c, server, path, name))
           /\ Gone(RemoveDir(c, server, path, name), server, path, name)
           /\ Marks(RemoveDir(c, server, path, name), server, path)
<1>1. PICK gone : gone = {k \in DOMAIN c.entries :
                    /\ k.server = server
                    /\ k.path = Append(path, name) \/ IsParentOf(Append(path, name), k.path, TRUE, FALSE)}
  OBVIOUS
<1>2. gone \in SUBSET DOMAIN c.entries
  BY <1>1
<1>3. PICK b : b = Drop(c, gone)
  OBVIOUS
<1>4. CacheOK(b) /\ Weaker(c, b) /\ DOMAIN b.entries = DOMAIN c.entries \ gone
  BY <1>2, <1>3, DropOK
<1>5. PICK d : d = RemoveFile(b, server, path, name)
  OBVIOUS
<1>6. RemoveDir(c, server, path, name) = d
  BY <1>1, <1>3, <1>5 DEF RemoveDir
<1>7. CacheOK(d) /\ Weaker(b, d) /\ DOMAIN d.entries = DOMAIN b.entries /\ Marks(d, server, path)
  BY <1>4, <1>5, RemoveFileOK
<1>8. Gone(d, server, path, name)
  BY <1>1, <1>4, <1>7 DEF Gone
<1> QED BY <1>4, <1>6, <1>7, <1>8, WeakerTrans

(* What is gone stays so while nothing is stored. *)
LEMMA GoneStays ==
    ASSUME NEW c, NEW d, Weaker(c, d), NEW server, NEW path, NEW name, Gone(c, server, path, name)
    PROVE  Gone(d, server, path, name)
BY DEF Gone, Weaker

(* A file that keeps its entry under another name. *)
LEMMA RenameEntryOK ==
    ASSUME NEW c, CacheOK(c), NEW k \in DOMAIN c.entries, NEW i \in 1 .. Len(c.entries[k].files), NEW name \in Names
    PROVE  CacheOK(RenameEntry(c, k, i, name)) /\ Weaker(c, RenameEntry(c, k, i, name))
<1>1. PICK D : D = DOMAIN c.entries
  OBVIOUS
<1>2. c.entries \in [D -> Listings] /\ Typed(c) /\ k \in D
  BY <1>1 DEF CacheOK, Typed
<1>3. PICK x \in Listings : x = c.entries[k]
  BY <1>2
<1>4. PICK y \in Listings : y = Unsure(x) /\ y.unsure /\ y.files = x.files /\ y.files \in Seq(Dirents)
  BY ListingFields, ListingsType
<1>5. i \in 1 .. Len(y.files)
  BY <1>3, <1>4
<1>6. PICK v \in Dirents : v = y.files[i]
  BY <1>4, <1>5
<1>7. PICK w : w = Unsure([v EXCEPT !.name = name])
  OBVIOUS
<1>8. w \in Dirents
  BY <1>6, <1>7 DEF Dirents, Unsure
<1>9. PICK g : g = [y.files EXCEPT ![i] = w]
  OBVIOUS
<1>10. g \in Seq(Dirents) /\ Len(g) = Len(y.files)
  BY <1>4, <1>5, <1>8, <1>9, ExceptSeq
<1>11. PICK z : z = [y EXCEPT !.files = g]
  OBVIOUS
<1>12. z \in Listings /\ z.unsure = y.unsure /\ z.files = g
  BY <1>10, <1>11, ListingFields
<1>13. PICK E : E = [c.entries EXCEPT ![k] = z]
  OBVIOUS
<1>14. E \in [D -> Listings] /\ DOMAIN E = D /\ E[k] = z /\ \A q \in D \ {k} : E[q] = c.entries[q]
  BY <1>2, <1>12, <1>13
<1>15. PICK d : d = RenameEntry(c, k, i, name)
  OBVIOUS
<1>16. d = [c EXCEPT !.entries = E]
  <2>1. PICK e, l, n : c = [entries |-> e, lru |-> l, count |-> n] /\ e = c.entries /\ l = c.lru /\ n = c.count
    BY <1>2 DEF Typed
  <2>2. d = [c EXCEPT !.entries[k] = Unsure(@), !.entries[k].files[i] = Unsure([@ EXCEPT !.name = name])]
    BY <1>15 DEF RenameEntry
  <2>3. PICK b : b = [c EXCEPT !.entries[k] = y]
    OBVIOUS
  <2>4. b = [entries |-> [e EXCEPT ![k] = y], lru |-> l, count |-> n]
    BY <2>1, <2>3
  <2>5. b.entries[k].files[i] = v
    BY <2>1, <2>4, <1>2, <1>6
  <2>6. d = [b EXCEPT !.entries[k].files[i] = w]
    BY <2>1, <2>2, <2>3, <2>5, <1>3, <1>4, <1>7
  <2>7. d = [entries |-> [e EXCEPT ![k] = [y EXCEPT !.files = [y.files EXCEPT ![i] = w]]], lru |-> l, count |-> n]
    BY <2>1, <2>4, <2>6, <1>2
  <2>8. d = [entries |-> E, lru |-> l, count |-> n]
    BY <2>1, <2>7, <1>9, <1>11, <1>13
  <2> QED BY <2>1, <2>8, <1>2, WithFields
<1>17. \A q \in D : Len(E[q].files) = Len(c.entries[q].files)
  BY <1>3, <1>4, <1>10, <1>12, <1>14
<1>18. CacheOK(d) /\ d.entries = E
  BY <1>1, <1>14, <1>16, <1>17, NewEntriesOK
<1>19. Weaker(c, d)
  BY <1>1, <1>4, <1>12, <1>14, <1>18 DEF Weaker
<1> QED BY <1>15, <1>18, <1>19

(* Rename, in its cases. *)
LEMMA RenameOK ==
    ASSUME NEW c, CacheOK(c), NEW server, NEW pathFrom, NEW from \in Names, NEW pathTo, NEW to \in Names,
           NEW d, d = Rename(c, server, pathFrom, from, pathTo, to),
           NEW k, k = Key(server, pathFrom),
           NEW seen, seen = IF pathFrom = pathTo THEN RemoveFile(c, server, pathFrom, to) ELSE c
    PROVE  /\ CacheOK(d) /\ Weaker(c, d)
           /\ IsCached(c, k) /\ ShowsDir(seen, k, from) => Gone(d, server, pathFrom, from)
<1>0. k.server = server /\ k.path = pathFrom /\ Unknown \in Int
  BY DEF Key, Unknown
<1>1. CASE ~IsCached(c, k)
  BY <1>1, InvalidateServerOK DEF Rename
<1>2. CASE IsCached(c, k)
  <2>1. PICK u : u = Lookup(c, k)
    OBVIOUS
  <2>2. CacheOK(u) /\ u.entries = c.entries /\ Weaker(c, u) /\ k \in DOMAIN u.entries
    BY <2>1, <1>2, LookupOK, WeakerSame DEF IsCached
  <2>3. CASE pathFrom = pathTo
    <3>1. d = RenameInDir(u, k, from, to)
      BY <1>2, <2>1, <2>3 DEF Rename
    <3>2. PICK b : b = RemoveFile(u, server, pathFrom, to)
      OBVIOUS
    <3>3. CacheOK(b) /\ Weaker(u, b) /\ DOMAIN b.entries = DOMAIN u.entries
      BY <2>2, <3>2, RemoveFileOK
    <3>4. b.entries = seen.entries
      BY <2>2, <2>3, <3>2, RemoveFileOK
    <3>5. Weaker(c, b)
      BY <2>2, <3>3, WeakerTrans
    <3>6. PICK i : i = FindFile(b.entries[k].files, from)
      OBVIOUS
    <3>7. b.entries[k] \in Listings /\ b.entries[k].files \in Seq(Dirents)
      BY <2>2, <3>3, ListingsOfFacts
    <3>8. i \in 0 .. Len(b.entries[k].files)
      BY <3>6, <3>7, FindFileType
    <3>9. ShowsDir(seen, k, from) <=> ShowsDir(b, k, from)
      BY <3>4 DEF ShowsDir
    <3>10. CASE i = 0
      <4>1. d = b
        BY <3>1, <3>2, <3>6, <3>10, <1>0 DEF RenameInDir
      <4>2. ~ShowsDir(b, k, from)
        BY <3>6, <3>10 DEF ShowsDir
      <4> QED BY <4>1, <4>2, <3>3, <3>5, <3>9
    <3>11. CASE i # 0 /\ ShowsDir(b, k, from)
      <4>1. PICK f : f = RemoveDir(b, server, pathFrom, from)
        OBVIOUS
      <4>2. PICK g : g = RemoveDir(f, server, pathFrom, to)
        OBVIOUS
      <4>3. d = UpdateFile(g, server, pathFrom, to, TRUE, "dir", Unknown)
        BY <3>1, <3>2, <3>6, <3>11, <4>1, <4>2, <1>0 DEF RenameInDir
      <4>4. CacheOK(f) /\ Weaker(b, f) /\ Gone(f, server, pathFrom, from)
        BY <3>3, <4>1, RemoveDirOK
      <4>5. CacheOK(g) /\ Weaker(f, g)
        BY <4>2, <4>4, RemoveDirOK
      <4>6. CacheOK(d) /\ Weaker(g, d)
        BY <4>3, <4>5, <1>0, UpdateFileOK
      <4>7. Weaker(f, d)
        BY <4>5, <4>6, WeakerTrans
      <4>8. Weaker(b, d)
        BY <4>4, <4>7, WeakerTrans
      <4>9. Weaker(c, d)
        BY <3>5, <4>8, WeakerTrans
      <4> QED BY <4>4, <4>6, <4>7, <4>9, GoneStays
    <3>12. CASE i # 0 /\ ~ShowsDir(b, k, from)
      <4>1. d = RenameEntry(b, k, i, to)
        BY <3>1, <3>2, <3>6, <3>12, <1>0 DEF RenameInDir
      <4>2. k \in DOMAIN b.entries /\ i \in 1 .. Len(b.entries[k].files)
        BY <2>2, <3>3, <3>8, <3>12
      <4>3. CacheOK(d) /\ Weaker(b, d)
        BY <3>3, <4>1, <4>2, RenameEntryOK
      <4> QED BY <4>3, <3>5, <3>9, <3>12, WeakerTrans
    <3> QED BY <3>10, <3>11, <3>12
  <2>4. CASE pathFrom # pathTo
    <3>1. d = RenameBetween(u, k, from, pathTo, to)
      BY <1>2, <2>1, <2>4 DEF Rename
    <3>2. PICK i : i = FindFile(u.entries[k].files, from)
      OBVIOUS
    <3>3. ShowsDir(seen, k, from) <=> ShowsDir(u, k, from)
      BY <2>2, <2>4 DEF ShowsDir
    <3>4. CASE i = 0
      <4>1. d = u
        BY <3>1, <3>2, <3>4 DEF RenameBetween
      <4>2. ~ShowsDir(u, k, from)
        BY <3>2, <3>4 DEF ShowsDir
      <4> QED BY <4>1, <4>2, <2>2, <3>3
    <3>5. CASE i # 0 /\ ShowsDir(u, k, from)
      <4>1. PICK f : f = RemoveDir(u, server, pathFrom, from)
        OBVIOUS
      <4>2. d = UpdateFile(f, server, pathTo, to, TRUE, "dir", Unknown)
        BY <3>1, <3>2, <3>5, <4>1, <1>0 DEF RenameBetween
      <4>3. CacheOK(f) /\ Weaker(u, f) /\ Gone(f, server, pathFrom, from)
        BY <2>2, <4>1, RemoveDirOK
      <4>4. CacheOK(d) /\ Weaker(f, d)
        BY <4>2, <4>3, <1>0, UpdateFileOK
      <4>5. Weaker(u, d)
        BY <4>3, <4>4, WeakerTrans
      <4>6. Weaker(c, d)
        BY <2>2, <4>5, WeakerTrans
      <4> QED BY <4>3, <4>4, <4>6, GoneStays
    <3>6. CASE i # 0 /\ ~ShowsDir(u, k, from)
      <4>1. PICK f : f = RemoveFile(u, server, pathFrom, from)
        OBVIOUS
      <4>2. d = UpdateFile(f, server, pathTo, to, TRUE, "file", Unknown)
        BY <3>1, <3>2, <3>6, <4>1, <1>0 DEF RenameBetween
      <4>3. CacheOK(f) /\ Weaker(u, f)
        BY <2>2, <4>1, RemoveFileOK
      <4>4. CacheOK(d) /\ Weaker(f, d)
        BY <4>2, <4>3, <1>0, UpdateFileOK
      <4>5. Weaker(u, d)
        BY <4>3, <4>4, WeakerTrans
      <4>6. Weaker(c, d)
        BY <2>2, <4>5, WeakerTrans
      <4> QED BY <4>4, <4>6, <3>3, <3>6
    <3> QED BY <3>4, <3>5, <3>6
  <2> QED BY <2>3, <2>4
<1> QED BY <1>1, <1>2

(* The steps that change a flag of listings. *)
Flagged(c, E) ==
    /\ E = [k \in DOMAIN c.entries |-> E[k]]
    /\ \A k \in DOMAIN c.entries :
          /\ E[k] \in Listings /\ E[k].files = c.entries[k].files /\ E[k].unsure = c.entries[k].unsure
          /\ c.entries[k].excused => E[k].excused

(* Flags may change. *)
LEMMA FlagsOK ==
    ASSUME NEW c, CacheOK(c), NEW d, NEW E, d = [c EXCEPT !.entries = E], Flagged(c, E)
    PROVE  CacheOK(d) /\ Weaker(c, d) /\ d.entries = E
<1>1. E \in [DOMAIN c.entries -> Listings] /\ DOMAIN E = DOMAIN c.entries
  BY DEF Flagged
<1>2. \A k \in DOMAIN c.entries : Len(E[k].files) = Len(c.entries[k].files)
  BY DEF Flagged
<1>3. CacheOK(d) /\ d.entries = E
  BY <1>1, <1>2, NewEntriesOK
<1> QED BY <1>1, <1>3 DEF Flagged, Weaker

(* A listing gets older than ttl_. *)
LEMMA ExpireOK ==
    ASSUME NEW c, CacheOK(c), NEW k \in DOMAIN c.entries
    PROVE  CacheOK(Expire(c, k)) /\ Weaker(c, Expire(c, k))
<1>1. PICK E : E = [q \in DOMAIN c.entries |-> IF q = k THEN [c.entries[k] EXCEPT !.outdated = TRUE] ELSE c.entries[q]]
  OBVIOUS
<1>2. ASSUME NEW q \in DOMAIN c.entries
      PROVE  /\ E[q] \in Listings /\ E[q].files = c.entries[q].files /\ E[q].unsure = c.entries[q].unsure
             /\ c.entries[q].excused => E[q].excused
  <2>1. PICK x \in Listings : x = c.entries[q]
    BY DEF CacheOK, Typed
  <2>2. E[q] = IF q = k THEN [x EXCEPT !.outdated = TRUE] ELSE x
    BY <1>1, <2>1
  <2> QED BY <2>1, <2>2 DEF Listings
<1>3. Expire(c, k) = [c EXCEPT !.entries = E]
  <2>1. PICK e, l, n : c = [entries |-> e, lru |-> l, count |-> n] /\ e = c.entries /\ l = c.lru /\ n = c.count
    BY DEF CacheOK, Typed
  <2>2. PICK d : d = Expire(c, k)
    OBVIOUS
  <2>3. e = [q \in DOMAIN e |-> e[q]]
    BY <2>1 DEF CacheOK, Typed
  <2>4. d = [entries |-> [e EXCEPT ![k] = [e[k] EXCEPT !.outdated = TRUE]], lru |-> l, count |-> n]
    BY <2>1, <2>2 DEF Expire
  <2>5. E = [e EXCEPT ![k] = [e[k] EXCEPT !.outdated = TRUE]]
    BY <1>1, <2>1, <2>3
  <2>6. d = [entries |-> E, lru |-> l, count |-> n]
    BY <2>4, <2>5
  <2>7. Typed(c)
    BY DEF CacheOK
  <2>8. [c EXCEPT !.entries = E] = [entries |-> E, lru |-> c.lru, count |-> c.count]
    BY <2>7, WithFields
  <2> QED BY <2>1, <2>2, <2>6, <2>8
<1>4. Flagged(c, E)
  BY <1>1, <1>2 DEF Flagged
<1> QED BY <1>3, <1>4, FlagsOK

(* The time before locking is taken. *)
LEMMA TakeTimeOK ==
    ASSUME NEW c, CacheOK(c), NEW e
    PROVE  CacheOK(TakeTime(c, e)) /\ Weaker(c, TakeTime(c, e))
<1>1. PICK E : E = [k \in DOMAIN c.entries |-> [c.entries[k] EXCEPT !.after = c.entries[k].after \ {e}]]
  OBVIOUS
<1>2. ASSUME NEW k \in DOMAIN c.entries
      PROVE  /\ E[k] \in Listings /\ E[k].files = c.entries[k].files /\ E[k].unsure = c.entries[k].unsure
             /\ c.entries[k].excused => E[k].excused
  <2>1. PICK x \in Listings : x = c.entries[k]
    BY DEF CacheOK, Typed
  <2>2. E[k] = [x EXCEPT !.after = x.after \ {e}]
    BY <1>1, <2>1
  <2> QED BY <2>1, <2>2 DEF Listings
<1>3. TakeTime(c, e) = [c EXCEPT !.entries = E]
  BY <1>1 DEF TakeTime
<1>4. Flagged(c, E)
  BY <1>1, <1>2 DEF Flagged
<1> QED BY <1>3, <1>4, FlagsOK

(* The history marks listings. *)
LEMMA ExcuseOK ==
    ASSUME NEW c, CacheOK(c), NEW keys
    PROVE  /\ CacheOK(Excuse(c, keys)) /\ Weaker(c, Excuse(c, keys))
           /\ \A k \in DOMAIN Excuse(c, keys).entries : k \in keys => Excuse(c, keys).entries[k].excused
<1>1. PICK E : E = [k \in DOMAIN c.entries |-> IF k \in keys THEN [c.entries[k] EXCEPT !.excused = TRUE] ELSE c.entries[k]]
  OBVIOUS
<1>2. ASSUME NEW k \in DOMAIN c.entries
      PROVE  /\ E[k] \in Listings /\ E[k].files = c.entries[k].files /\ E[k].unsure = c.entries[k].unsure
             /\ c.entries[k].excused => E[k].excused
             /\ k \in keys => E[k].excused
  <2>1. PICK x \in Listings : x = c.entries[k]
    BY DEF CacheOK, Typed
  <2>2. E[k] = IF k \in keys THEN [x EXCEPT !.excused = TRUE] ELSE x
    BY <1>1, <2>1
  <2> QED BY <2>1, <2>2 DEF Listings
<1>3. PICK d : d = Excuse(c, keys)
  OBVIOUS
<1>4. d = [c EXCEPT !.entries = E]
  BY <1>1, <1>3 DEF Excuse
<1>5. CacheOK(d) /\ Weaker(c, d) /\ d.entries = E
  <2>1. Flagged(c, E)
    BY <1>1, <1>2 DEF Flagged
  <2> QED BY <2>1, <1>4, FlagsOK
<1> QED BY <1>1, <1>2, <1>3, <1>5

-----------------------------------------------------------------------------
(* The inductive invariant. *)

(* What an operation of a kind sends. *)
KindsOf(kind) ==
    CASE kind = "delete" -> {"dele"}
      [] kind = "upload" -> {"stor"}
      [] kind = "rename" -> {"rnfr", "rnto"}
      [] kind = "mkd" -> {"mkd", "mkdfull"}
      [] OTHER -> {kind}

(* The command a connection has is that of the operation that waits for its reply. *)
Matches(s, cmd, server) ==
    /\ s.kind \in KindsOf(cmd.kind) /\ s.server = server
    /\ s.kind # "mkdfull" => s.path = cmd.path
    /\ s.kind \notin {"list", "mkd"} => s.name = Last(cmd.names)
    /\ s.kind = "mkd" => s.name = Head(cmd.names)
    /\ s.kind = "rnto" => s.toPath = cmd.toPath /\ s.toName = cmd.toName

(* The stages an operation goes through. *)
StagesOf(kind) ==
    CASE kind = "list" -> {"lock", "wait"}
      [] kind = "mkd" -> {"lock", "send", "full", "wait"}
      [] kind = "rename" -> {"send", "rnto", "wait"}
      [] OTHER -> {"send", "wait"}

(* An operation that waits has a command sent, and it is the one it would send. *)
InStep ==
    \A e \in Engines :
        /\ op[e] # Idle => op[e].stage \in StagesOf(op[e].cmd.kind)
        /\ op[e].stage = "wait" => sent[e] # Nothing /\ Matches(sent[e], op[e].cmd, ServerOf[e])

(* Only RNTO names two directories, only an upload is done in part. *)
Plausible(c) ==
    /\ c.kind # "rnto" => c.toPath = c.path
    /\ c.state = "partial" => c.kind = "stor"

(* All commands under way are like that; those of lost connections have no answer. *)
AllPlausible ==
    /\ \A e \in Engines : sent[e] # Nothing => Plausible(sent[e])
    /\ \A c \in ghosts : Plausible(c) /\ c.state = "pending"

(* A listing is what the server has. *)
TrueListing(files, k) ==
    k \in DOMAIN remote /\ Range(files) = remote[k] /\ Len(files) = Cardinality(remote[k])

(* The same of one that is being received, and nothing under way will change it. *)
ReceivedIsTrue ==
    \A e \in Engines :
        sent[e].kind = "list" /\ sent[e].state = "ok" /\ ~sent[e].excused =>
            /\ TrueListing(sent[e].files, Dir(sent[e]))
            /\ \A c \in Pending : Dir(sent[e]) \notin Changes(c)

(* The listing does not pass for sure, or is one of the exceptions. *)
Marked(k) == cache.entries[k].unsure \/ cache.entries[k].excused

(* No listing that a command under way may change passes for sure, but those its
   operation will tell the cache about. *)
GhostsAreMarked ==
    \A c \in ghosts : \A k \in Changes(c) : k \in DOMAIN cache.entries => Marked(k)

(* The same of the commands on connections. *)
PendingIsMarked ==
    \A e \in Engines : sent[e].kind # "nothing" /\ sent[e].state = "pending" =>
        \A k \in Changes(sent[e]) : k \in DOMAIN cache.entries =>
            Marked(k) \/ (op[e].stage = "wait" /\ k \in ToldLate(sent[e]))

(* All of it. *)
IInv ==
    /\ TypeOK /\ CacheOK(cache) /\ InStep /\ AllPlausible
    /\ SureListingsAreTrue /\ ReceivedIsTrue /\ GhostsAreMarked /\ PendingIsMarked

-----------------------------------------------------------------------------
(* Types. *)

(* What users may ask for. *)
AllCommands == ListCommands \cup FileCommands \cup RenameCommands

(* The names a command is given. *)
LEMMA NamesFacts ==
    ASSUME NEW names \in SomeNames
    PROVE  /\ names \in Seq(Names) /\ Len(names) \in Nat /\ Len(names) >= 1
           /\ Last(names) \in Names /\ Head(names) \in Names /\ Front(names) \in Seq(Names)
           /\ Len(names) # 1 => Front(names) \in SomeNames /\ Tail(names) \in SomeNames
<1>1. names \in Seq(Names) /\ names # <<>>
  BY DEF SomeNames
<1>2. PICK n \in Nat : n = Len(names) /\ n >= 1 /\ \A i \in 1 .. n : names[i] \in Names
  BY <1>1
<1>3. Last(names) \in Names /\ Head(names) \in Names
  BY <1>1, <1>2 DEF Last
<1>4. \A i \in 1 .. n - 1 : names[i] \in Names
  BY <1>2
<1>5. Front(names) \in Seq(Names) /\ Len(Front(names)) = IF 1 <= n - 1 THEN n - 1 - 1 + 1 ELSE 0
  BY <1>2, <1>4, SubSeqProperties DEF Front
<1>6. n # 1 => Front(names) # <<>>
  BY <1>2, <1>5
<1>7. Tail(names) \in Seq(Names) /\ Len(Tail(names)) = n - 1
  BY <1>1, <1>2, HeadTailProperties
<1>8. n # 1 => Tail(names) # <<>>
  BY <1>2, <1>7
<1> QED BY <1>1, <1>2, <1>3, <1>5, <1>6, <1>7, <1>8 DEF SomeNames

(* The paths the cache knows are paths. *)
LEMMA PathsAreSeqs == Paths \subseteq Seq(Names)
<1>1. PathOrder \in Seq(Seq(Names))
  BY CacheAssumption
<1> QED BY <1>1 DEF Paths, Range

(* The fields of a command. *)
LEMMA CommandFacts ==
    ASSUME NEW cmd \in AllCommands
    PROVE  /\ cmd.path \in Seq(Names)
           /\ cmd.kind \in {"list", "delete", "rmd", "mkd", "upload", "chmod", "raw", "rename"}
           /\ cmd.kind = "list" => cmd \in ListCommands /\ cmd.path \in Paths
           /\ cmd.kind # "list" => cmd.names \in SomeNames
           /\ cmd.kind = "rename" => cmd \in RenameCommands /\ cmd.toPath \in Seq(Names) /\ cmd.toName \in Names
           /\ cmd.kind \notin {"list", "rename"} => cmd \in FileCommands /\ cmd.size \in Int
<1>1. CASE cmd \in ListCommands
  BY <1>1, PathsAreSeqs DEF ListCommands
<1>2. CASE cmd \in FileCommands
  BY <1>2 DEF FileCommands
<1>3. CASE cmd \in RenameCommands
  BY <1>3 DEF RenameCommands
<1> QED BY <1>1, <1>2, <1>3 DEF AllCommands

(* The fields of an operation. *)
LEMMA OpFacts ==
    ASSUME TypeOK, NEW e \in Engines, op[e] # Idle \/ op[e].stage # "idle"
    PROVE  /\ op[e] \in Operations /\ op[e].cmd \in AllCommands /\ op[e].stage \in Stages \ {"idle"}
           /\ op[e].stage # "idle" /\ op[e] # Idle
<1>1. op[e] \in {Idle} \cup Operations
  BY DEF TypeOK
<1>2. Idle.stage = "idle"
  BY DEF Idle
<1>3. op[e] \in Operations
  BY <1>1, <1>2
<1>4. op[e].cmd \in AllCommands /\ op[e].stage \in Stages \ {"idle"}
  BY <1>3 DEF Operations, AllCommands
<1> QED BY <1>2, <1>3, <1>4

(* An operation that goes on. *)
LEMMA OpExcept ==
    ASSUME NEW o \in Operations, NEW s \in Stages \ {"idle"}, NEW l \in {"none", "waiting", "held"}
    PROVE  /\ [o EXCEPT !.stage = s] \in Operations /\ [o EXCEPT !.stage = s].stage = s
           /\ [o EXCEPT !.stage = s].cmd = o.cmd
           /\ [o EXCEPT !.lock = l] \in Operations /\ [o EXCEPT !.lock = l].stage = o.stage
           /\ [o EXCEPT !.lock = l].cmd = o.cmd
BY DEF Operations

(* An operation that begins. *)
LEMMA NewOpType ==
    ASSUME NEW cmd \in AllCommands, NEW s \in Stages \ {"idle"}, NEW refresh \in BOOLEAN
    PROVE  NewOp(cmd, s, refresh) \in Operations /\ NewOp(cmd, s, refresh).stage = s /\ NewOp(cmd, s, refresh).cmd = cmd
BY DEF NewOp, Operations, AllCommands

(* The fields of a command that was sent. *)
LEMMA SentFacts ==
    ASSUME NEW c \in SentCommands
    PROVE  /\ c.kind \in Kinds /\ c.server \in Servers /\ c.path \in Seq(Names) /\ c.toPath \in Seq(Names)
           /\ c.size \in Int /\ c.state \in States /\ c.files \in Seq(Dirents) /\ c.excused \in BOOLEAN
           /\ c # Nothing /\ c.kind # "nothing"
           /\ c.kind = "list" => c.path \in Paths
           /\ c.kind # "list" => c.name \in Names /\ c.toName \in Names
<1>1. /\ c.kind \in Kinds /\ c.server \in Servers /\ c.path \in Seq(Names) /\ c.toPath \in Seq(Names)
      /\ c.size \in Int /\ c.state \in States /\ c.files \in Seq(Dirents) /\ c.excused \in BOOLEAN
      /\ c.kind = "list" => c.path \in Paths
      /\ c.kind # "list" => c.name \in Names /\ c.toName \in Names
  BY DEF SentCommands
<1>2. c.kind # "nothing"
  BY <1>1 DEF Kinds
<1>3. Nothing.kind = "nothing"
  BY DEF Nothing
<1> QED BY <1>1, <1>2, <1>3

(* A command that is answered. *)
LEMMA SentExcept ==
    ASSUME NEW c \in SentCommands, NEW s \in States, NEW files \in Seq(Dirents), NEW b \in BOOLEAN
    PROVE  /\ [c EXCEPT !.state = s] \in SentCommands
           /\ [c EXCEPT !.excused = b] \in SentCommands
           /\ [c EXCEPT !.state = s, !.files = files, !.excused = b] \in SentCommands
BY DEF SentCommands

(* A command that is sent. *)
LEMMA CmdType ==
    ASSUME NEW kind \in Kinds, NEW k \in Places, NEW name \in Names \cup {NoName},
           kind = "list" => k.path \in Paths, kind # "list" => name \in Names
    PROVE  Cmd(kind, k, name) \in SentCommands
<1>1. k.server \in Servers /\ k.path \in Seq(Names)
  BY DEF Places
<1>2. Unknown \in Int /\ "pending" \in States
  BY DEF Unknown, States
<1>3. <<>> \in Seq(Dirents)
  OBVIOUS
<1> QED BY <1>1, <1>2, <1>3 DEF Cmd, SentCommands

-----------------------------------------------------------------------------
(* What the servers do. *)

(* The types of what the servers have. *)
RemoteOK(r) ==
    /\ DOMAIN r \subseteq Places /\ r = [k \in DOMAIN r |-> r[k]]
    /\ \A k \in DOMAIN r : IsFiniteSet(r[k]) /\ r[k] \subseteq Dirents

(* A change of one directory. *)
LEMMA RemoteSet ==
    ASSUME NEW r, RemoteOK(r), NEW k \in DOMAIN r, NEW S, IsFiniteSet(S), S \subseteq Dirents
    PROVE  /\ RemoteOK([r EXCEPT ![k] = S]) /\ DOMAIN [r EXCEPT ![k] = S] = DOMAIN r
           /\ [r EXCEPT ![k] = S][k] = S
           /\ \A q \in DOMAIN r \ {k} : [r EXCEPT ![k] = S][q] = r[q]
<1>1. PICK t : t = [r EXCEPT ![k] = S]
  OBVIOUS
<1>2. DOMAIN t = DOMAIN r /\ t[k] = S /\ \A q \in DOMAIN r \ {k} : t[q] = r[q]
  BY <1>1
<1>3. t = [q \in DOMAIN t |-> t[q]]
  BY <1>1
<1>4. RemoteOK(t)
  BY <1>2, <1>3 DEF RemoteOK
<1> QED BY <1>1, <1>2, <1>4

(* A directory comes, or some go. *)
LEMMA RemoteWith ==
    ASSUME NEW r, RemoteOK(r), NEW k \in Places
    PROVE  /\ RemoteOK(With(r, k, {})) /\ DOMAIN With(r, k, {}) = DOMAIN r \cup {k}
           /\ \A q \in DOMAIN r \ {k} : With(r, k, {})[q] = r[q]
<1>1. PICK t : t = With(r, k, {})
  OBVIOUS
<1>2. t = [q \in DOMAIN r \cup {k} |-> IF q = k THEN {} ELSE r[q]]
  BY <1>1 DEF With
<1>3. DOMAIN t = DOMAIN r \cup {k} /\ t[k] = {} /\ \A q \in DOMAIN r \ {k} : t[q] = r[q]
  BY <1>2
<1>4. t = [q \in DOMAIN t |-> t[q]]
  BY <1>2
<1>5. IsFiniteSet({}) /\ {} \subseteq Dirents
  BY FS_EmptySet
<1>6. RemoteOK(t)
  BY <1>3, <1>4, <1>5 DEF RemoteOK
<1> QED BY <1>1, <1>3, <1>6

(* A directory that is removed. *)
LEMMA RemoteRestrict ==
    ASSUME NEW r, RemoteOK(r), NEW S \in SUBSET DOMAIN r
    PROVE  RemoteOK(Restrict(r, S)) /\ DOMAIN Restrict(r, S) = S /\ \A q \in S : Restrict(r, S)[q] = r[q]
BY DEF RemoteOK, Restrict

(* The entries a name stands for, and a directory without some. *)
LEMMA EntryFacts ==
    ASSUME RemoteOK(remote), NEW k \in DOMAIN remote, NEW name, NEW T
    PROVE  /\ IsFiniteSet(remote[k] \ T) /\ remote[k] \ T \subseteq Dirents
           /\ Entry(k, name) \subseteq remote[k]
           /\ \A y \in Entry(k, name) : y \in Dirents /\ y.name \in Names /\ SameOnServer(k.server, y.name, name)
<1>1. IsFiniteSet(remote[k]) /\ remote[k] \subseteq Dirents
  BY DEF RemoteOK
<1>2. remote[k] \ T \in SUBSET remote[k]
  OBVIOUS
<1>3. IsFiniteSet(remote[k] \ T)
  BY <1>1, <1>2, FS_Subset
<1>4. \A y \in Dirents : y.name \in Names
  BY DEF Dirents
<1> QED BY <1>1, <1>3, <1>4 DEF Entry

(* A directory with one more entry. *)
LEMMA WithOne ==
    ASSUME NEW S, IsFiniteSet(S), S \subseteq Dirents, NEW x \in Dirents
    PROVE  IsFiniteSet(S \cup {x}) /\ S \cup {x} \subseteq Dirents
BY FS_AddElement

(* The fields of a key. *)
LEMMA KeyFacts ==
    ASSUME NEW server \in Servers, NEW path \in Seq(Names), NEW name \in Names
    PROVE  /\ Key(server, path) \in Places /\ Key(server, path).server = server /\ Key(server, path).path = path
           /\ Child(Key(server, path), name) \in Places
           /\ Child(Key(server, path), name) = Key(server, Append(path, name))
<1>1. Append(path, name) \in Seq(Names)
  OBVIOUS
<1> QED BY <1>1 DEF Key, Child, Places

(* The directory that goes, and all below it, are among what the command may change. *)
LEMMA TreeIsBelow ==
    ASSUME NEW c \in SentCommands, c.kind \in {"rmd", "rnto"}, NEW n \in Names, SameOnServer(c.server, n, c.name),
           NEW k \in Keys, k.server = c.server,
           k.path = Append(c.path, n) \/ IsParentOf(Append(c.path, n), k.path, FALSE, FALSE)
    PROVE  k \in Changes(c)
<1>1. c.server \in Servers /\ c.path \in Seq(Names)
  BY SentFacts
<1>2. PICK t : t = Child(Dir(c), n)
  OBVIOUS
<1>3. t.server = c.server /\ t.path = Append(c.path, n) /\ t \in Variants(c)
  BY <1>1, <1>2 DEF Variants, Dir, Child, Key
<1>4. PICK p \in Seq(Names) : p = Append(c.path, n) /\ p # <<>> /\ Len(p) \in Nat
  <2>1. PICK q \in Seq(Names) : q = c.path
    BY <1>1
  <2>2. Append(q, n) \in Seq(Names) /\ Append(q, n) # <<>>
    BY AppendProperties
  <2>3. Len(Append(q, n)) \in Nat
    BY <2>2, LenProperties
  <2> QED BY <2>1, <2>2, <2>3
<1>5. k.path = p => IsParentOf(p, k.path, FALSE, TRUE)
  BY <1>4 DEF IsParentOf
<1>6. IsParentOf(p, k.path, FALSE, FALSE) => IsParentOf(p, k.path, FALSE, TRUE)
  BY DEF IsParentOf
<1>7. k.server = t.server /\ IsParentOf(t.path, k.path, FALSE, TRUE)
  BY <1>3, <1>4, <1>5, <1>6
<1>8. k \in Below(c)
  BY <1>3, <1>7 DEF Below
<1> QED BY <1>8 DEF Changes

(* What is not below the directory that moves, before and after, stays as it is. *)
LEMMA MoveTreeFacts ==
    ASSUME RemoteOK(remote), NEW files, RemoteOK(files), DOMAIN files = DOMAIN remote,
           NEW from, NEW to, to \in Places, Len(from.path) \in Nat
    PROVE  /\ RemoteOK(MoveTree(files, from, to))
           /\ \A k \in DOMAIN remote \ Tree(from) :
                 k \in DOMAIN MoveTree(files, from, to) /\ MoveTree(files, from, to)[k] = files[k]
<1> DEFINE moved(q) == Key(q.server, to.path \o SubSeq(q.path, Len(from.path) + 1, Len(q.path)))
           stay == DOMAIN files \ Tree(from)
           came == {moved(t) : t \in Tree(from)}
<1>1. Tree(from) \subseteq DOMAIN remote
  BY DEF Tree
<1>2. ASSUME NEW q \in Tree(from) PROVE moved(q) \in Places
  <2>1. q.server \in Servers /\ q.path \in Seq(Names) /\ to.path \in Seq(Names)
    BY <1>1 DEF RemoteOK, Places
  <2>2. PICK m \in Int, n \in Int : m = Len(from.path) + 1 /\ n = Len(q.path) /\ m >= 1
    BY <2>1
  <2>3. \A i \in m .. n : q.path[i] \in Names
    BY <2>1, <2>2
  <2>4. SubSeq(q.path, m, n) \in Seq(Names)
    BY <2>2, <2>3, SubSeqProperties
  <2>5. to.path \o SubSeq(q.path, m, n) \in Seq(Names)
    BY <2>1, <2>4, ConcatProperties
  <2> QED BY <2>1, <2>2, <2>5 DEF Key, Places
<1> HIDE DEF moved
<1>3. PICK r : r = MoveTree(files, from, to)
  OBVIOUS
<1>4. r = [q \in stay \cup came |-> IF q \in stay THEN files[q] ELSE files[CHOOSE t \in Tree(from) : moved(t) = q]]
  BY <1>3 DEF MoveTree, moved
<1>5. DOMAIN r = stay \cup came /\ r = [q \in DOMAIN r |-> r[q]]
  BY <1>4
<1>6. stay \cup came \subseteq Places
  BY <1>2 DEF RemoteOK
<1>7. \A q \in stay : r[q] = files[q] /\ q \in DOMAIN files
  BY <1>4
<1>8. \A q \in came : \E t \in DOMAIN files : q \in stay \/ r[q] = files[t]
  <2>1. SUFFICES ASSUME NEW q \in came, q \notin stay PROVE \E t \in DOMAIN files : r[q] = files[t]
    <3>1. \A q \in came : q \in stay => q \in DOMAIN files
      OBVIOUS
    <3> QED BY <3>1
  <2>2. PICK t : t = CHOOSE s \in Tree(from) : moved(s) = q
    OBVIOUS
  <2>3. t \in Tree(from)
    BY <2>2
  <2>4. r[q] = files[t]
    BY <1>4, <2>1, <2>2
  <2> QED BY <1>1, <2>3, <2>4
<1> HIDE DEF stay, came
<1>9. \A q \in DOMAIN r : IsFiniteSet(r[q]) /\ r[q] \subseteq Dirents
  BY <1>5, <1>7, <1>8 DEF RemoteOK
<1>10. RemoteOK(r)
  BY <1>5, <1>6, <1>9 DEF RemoteOK
<1> QED BY <1>3, <1>5, <1>7, <1>10 DEF stay

(* The directories a command is not about stay as they are. *)
Untouched(r, c) ==
    \A k \in Keys : k \in DOMAIN remote /\ k \notin Changes(c) => k \in DOMAIN r /\ r[k] = remote[k]

(* RNTO changes nothing but what Changes names. *)
LEMMA RenamedFacts ==
    ASSUME RemoteOK(remote), NEW c \in SentCommands, c.kind = "rnto", Dir(c) \in DOMAIN remote, ToDir(c) \in DOMAIN remote,
           NEW x \in Entry(Dir(c), c.name)
    PROVE  RemoteOK(Renamed(c, x)) /\ Untouched(Renamed(c, x), c)
<1>1. PICK p, q : p = Dir(c) /\ q = ToDir(c)
  OBVIOUS
<1>2. /\ c.server \in Servers /\ c.path \in Seq(Names) /\ c.toPath \in Seq(Names) /\ c.name \in Names /\ c.toName \in Names
  BY SentFacts
<1>3. /\ p \in Places /\ q \in Places /\ p.server = c.server /\ p.path = c.path /\ q.server = c.server
      /\ q.path = c.toPath /\ p = Key(c.server, c.path) /\ q = Key(c.server, c.toPath)
  BY <1>1, <1>2, KeyFacts DEF Dir, ToDir
<1>4. x \in Dirents /\ x.name \in Names /\ SameOnServer(c.server, x.name, c.name)
  BY <1>1, <1>3, EntryFacts
<1>5. PICK b : b = [remote EXCEPT ![p] = remote[p] \ Entry(p, c.name)]
  OBVIOUS
<1>6. RemoteOK(b) /\ DOMAIN b = DOMAIN remote /\ \A k \in DOMAIN remote \ {p} : b[k] = remote[k]
  BY <1>1, <1>5, EntryFacts, RemoteSet
<1>7. [x EXCEPT !.name = c.toName] \in Dirents
  BY <1>2, <1>4 DEF Dirents
<1>8. PICK S : S = (b[q] \ Entry(q, c.toName)) \cup {[x EXCEPT !.name = c.toName]}
  OBVIOUS
<1>9. IsFiniteSet(S) /\ S \subseteq Dirents
  <2>1. IsFiniteSet(b[q]) /\ b[q] \subseteq Dirents
    BY <1>1, <1>6 DEF RemoteOK
  <2>2. b[q] \ Entry(q, c.toName) \in SUBSET b[q]
    OBVIOUS
  <2>3. IsFiniteSet(b[q] \ Entry(q, c.toName)) /\ b[q] \ Entry(q, c.toName) \subseteq Dirents
    BY <2>1, <2>2, FS_Subset
  <2> QED BY <2>3, <1>7, <1>8, WithOne
<1>10. PICK f : f = [b EXCEPT ![q] = S]
  OBVIOUS
<1>11. RemoteOK(f) /\ DOMAIN f = DOMAIN remote /\ \A k \in DOMAIN remote \ {p, q} : f[k] = remote[k]
  BY <1>1, <1>6, <1>9, <1>10, RemoteSet
<1>12. f = [Without(Dir(c), c.name) EXCEPT ![ToDir(c)] = (@ \ Entry(ToDir(c), c.toName)) \cup {[x EXCEPT !.name = c.toName]}]
  BY <1>1, <1>5, <1>8, <1>10 DEF Without
<1>13. Renamed(c, x) = IF x.dir THEN MoveTree(f, Child(p, x.name), Child(q, c.toName)) ELSE f
  BY <1>1, <1>12 DEF Renamed
<1>14. \A k \in Keys : k \notin Changes(c) => k # p /\ k # q
  BY <1>1 DEF Changes, Named
<1>15. CASE ~x.dir
  <2>1. Untouched(f, c)
    BY <1>11, <1>14 DEF Untouched
  <2> QED BY <2>1, <1>11, <1>13, <1>15
<1>16. CASE x.dir
  <2>1. PICK from, to : from = Child(p, x.name) /\ to = Child(q, c.toName)
    OBVIOUS
  <2>2. to \in Places /\ from \in Places /\ from = Key(c.server, Append(c.path, x.name))
    BY <2>1, <1>2, <1>3, <1>4, KeyFacts
  <2>3. from.server = c.server /\ from.path = Append(c.path, x.name) /\ Len(from.path) \in Nat
    BY <2>2 DEF Key, Places
  <2>4. PICK r : r = MoveTree(f, from, to)
    OBVIOUS
  <2>5. RemoteOK(r) /\ \A k \in DOMAIN remote \ Tree(from) : k \in DOMAIN r /\ r[k] = f[k]
    BY <2>2, <2>3, <2>4, <1>11, MoveTreeFacts
  <2>6. ASSUME NEW k \in Keys, k \in DOMAIN remote, k \notin Changes(c) PROVE k \notin Tree(from)
    <3>1. SUFFICES ASSUME k \in Tree(from) PROVE FALSE
      OBVIOUS
    <3>2. k = from \/ (k.server = from.server /\ IsParentOf(from.path, k.path, FALSE, FALSE))
      BY <3>1 DEF Tree
    <3>3. k.server = c.server /\ (k.path = Append(c.path, x.name) \/ IsParentOf(Append(c.path, x.name), k.path, FALSE, FALSE))
      BY <3>2, <2>3
    <3> QED BY <3>3, <2>6, <1>4, TreeIsBelow
  <2>7. Untouched(r, c)
    BY <2>5, <2>6, <1>11, <1>14 DEF Untouched
  <2> QED BY <2>1, <2>4, <2>5, <2>7, <1>13, <1>16
<1> QED BY <1>15, <1>16

(* No command changes anything but what Changes names. *)
LEMMA ResultsFacts ==
    ASSUME RemoteOK(remote), NEW c \in SentCommands, c.kind # "list", NEW r \in Results(c)
    PROVE  RemoteOK(r) /\ Untouched(r, c)
<1>1. PICK p : p = Dir(c)
  OBVIOUS
<1>2. /\ c.server \in Servers /\ c.path \in Seq(Names) /\ c.name \in Names /\ c.kind \in Kinds /\ c.size \in Int
  BY SentFacts
<1>3. p \in Places /\ p.server = c.server /\ p.path = c.path /\ p = Key(c.server, c.path)
  BY <1>1, <1>2, KeyFacts DEF Dir
<1>4. p \in DOMAIN remote
  BY <1>1 DEF Results
<1>5. PICK x : x = Entry(p, c.name)
  OBVIOUS
<1>6. x \subseteq remote[p] /\ \A y \in x : y \in Dirents /\ y.name \in Names /\ SameOnServer(c.server, y.name, c.name)
  BY <1>3, <1>4, <1>5, EntryFacts
<1>7. \A T : IsFiniteSet(remote[p] \ T) /\ remote[p] \ T \subseteq Dirents
  BY <1>4, EntryFacts
<1>8. \A k \in Keys : k \notin Changes(c) /\ c.kind \notin {"list", "rnfr"} => k # p
  BY <1>1, <1>2 DEF Changes, Named, Kinds
<1>9. ASSUME NEW S, IsFiniteSet(S), S \subseteq Dirents, r = [remote EXCEPT ![p] = S], c.kind \notin {"list", "rnfr"}
      PROVE  RemoteOK(r) /\ Untouched(r, c)
  BY <1>4, <1>8, <1>9, RemoteSet DEF Untouched
<1>10. CASE c.kind \in {"dele", "raw"}
  <2>1. PICK y \in x : r = Without(p, y.name)
    BY <1>1, <1>4, <1>5, <1>10 DEF Results
  <2>2. r = [remote EXCEPT ![p] = remote[p] \ Entry(p, y.name)]
    BY <2>1 DEF Without
  <2> QED BY <2>2, <1>7, <1>9, <1>10
<1>11. CASE c.kind = "rmd"
  <2>1. PICK y \in x : r = Restrict(Without(p, y.name), DOMAIN remote \ {Child(p, y.name)})
    BY <1>1, <1>4, <1>5, <1>11 DEF Results
  <2>2. PICK b, z : b = [remote EXCEPT ![p] = remote[p] \ Entry(p, y.name)] /\ z = Child(p, y.name)
    OBVIOUS
  <2>3. RemoteOK(b) /\ DOMAIN b = DOMAIN remote /\ \A k \in DOMAIN remote \ {p} : b[k] = remote[k]
    BY <2>2, <1>4, <1>7, RemoteSet
  <2>4. r = Restrict(b, DOMAIN remote \ {z})
    BY <2>1, <2>2 DEF Without
  <2>5. RemoteOK(r) /\ DOMAIN r = DOMAIN remote \ {z} /\ \A k \in DOMAIN r : r[k] = b[k]
    BY <2>3, <2>4, RemoteRestrict
  <2>6. z.server = c.server /\ z.path = Append(c.path, y.name)
    BY <2>2, <1>3 DEF Child, Key
  <2>7. \A k \in Keys : k \notin Changes(c) => k # z
    BY <2>6, <1>6, <1>11, TreeIsBelow
  <2> QED BY <2>3, <2>5, <2>7, <1>8, <1>11 DEF Untouched
<1>12. CASE c.kind \in {"mkd", "mkdfull"}
  <2>1. /\ r = With([remote EXCEPT ![p] = @ \cup {Dirent(c.name, TRUE, Unknown, FALSE)}], Child(p, c.name), {})
        /\ Child(p, c.name) \notin DOMAIN remote
    BY <1>1, <1>4, <1>12 DEF Results
  <2>2. PICK w : w = Dirent(c.name, TRUE, Unknown, FALSE)
    OBVIOUS
  <2>3. w \in Dirents
    BY <2>2, <1>2 DEF Dirent, Dirents, Unknown
  <2>4. PICK S, z : S = remote[p] \cup {w} /\ z = Child(p, c.name)
    OBVIOUS
  <2>5. IsFiniteSet(S) /\ S \subseteq Dirents
    BY <2>3, <2>4, <1>4, WithOne DEF RemoteOK
  <2>6. PICK b : b = [remote EXCEPT ![p] = S]
    OBVIOUS
  <2>7. RemoteOK(b) /\ DOMAIN b = DOMAIN remote /\ \A k \in DOMAIN remote \ {p} : b[k] = remote[k]
    BY <2>5, <2>6, <1>4, RemoteSet
  <2>8. z \in Places /\ r = With(b, z, {}) /\ z \notin DOMAIN remote
    BY <2>1, <2>2, <2>4, <2>6, <1>2, <1>3, KeyFacts
  <2>9. RemoteOK(r) /\ DOMAIN r = DOMAIN b \cup {z} /\ \A k \in DOMAIN b \ {z} : r[k] = b[k]
    BY <2>7, <2>8, RemoteWith
  <2> QED BY <2>7, <2>8, <2>9, <1>8, <1>12 DEF Untouched
<1>13. CASE c.kind = "stor"
  <2>1. PICK n \in IF x = {} THEN {c.name} ELSE {y.name : y \in x} :
           r = [remote EXCEPT ![p] = (@ \ x) \cup {Dirent(n, FALSE, c.size, FALSE)}]
    BY <1>1, <1>4, <1>5, <1>13 DEF Results
  <2>2. n \in Names
    BY <2>1, <1>2, <1>6
  <2>3. PICK w : w = Dirent(n, FALSE, c.size, FALSE)
    OBVIOUS
  <2>4. w \in Dirents
    BY <2>2, <2>3, <1>2 DEF Dirent, Dirents
  <2>5. PICK S : S = (remote[p] \ x) \cup {w}
    OBVIOUS
  <2>6. IsFiniteSet(S) /\ S \subseteq Dirents
    BY <2>4, <2>5, <1>7, WithOne
  <2>7. r = [remote EXCEPT ![p] = S]
    BY <2>1, <2>3, <2>5
  <2> QED BY <2>6, <2>7, <1>9, <1>13
<1>14. CASE c.kind = "chmod"
  <2>1. PICK y \in x : r = [remote EXCEPT ![p] = (@ \ {y}) \cup {[y EXCEPT !.size = c.size]}]
    BY <1>1, <1>4, <1>5, <1>14 DEF Results
  <2>2. PICK w : w = [y EXCEPT !.size = c.size]
    OBVIOUS
  <2>3. w \in Dirents
    BY <2>2, <1>2, <1>6 DEF Dirents
  <2>4. PICK S : S = (remote[p] \ {y}) \cup {w}
    OBVIOUS
  <2>5. IsFiniteSet(S) /\ S \subseteq Dirents
    BY <2>3, <2>4, <1>7, WithOne
  <2>6. r = [remote EXCEPT ![p] = S]
    BY <2>1, <2>2, <2>4
  <2> QED BY <2>5, <2>6, <1>9, <1>14
<1>15. CASE c.kind = "rnto"
  <2>1. PICK y \in x : r = Renamed(c, y) /\ ToDir(c) \in DOMAIN remote
    BY <1>1, <1>4, <1>5, <1>15 DEF Results
  <2> QED BY <2>1, <1>1, <1>4, <1>5, <1>15, RenamedFacts
<1>16. CASE c.kind = "rnfr"
  <2>1. r = remote
    BY <1>1, <1>4, <1>16 DEF Results
  <2> QED BY <2>1 DEF Untouched
<1> QED BY <1>2, <1>10, <1>11, <1>12, <1>13, <1>14, <1>15, <1>16 DEF Kinds

-----------------------------------------------------------------------------
(* Steps that neither change what the servers have nor send a command that will. *)

(* The type invariant in the terms of the lemmas. *)
LEMMA TypeParts ==
    TypeOK <=> /\ Typed(cache) /\ RemoteOK(remote)
               /\ op \in [Engines -> {Idle} \cup Operations]
               /\ sent \in [Engines -> {Nothing} \cup SentCommands] /\ ghosts \subseteq SentCommands
               /\ ops \in 0 .. MaxOps
BY DEF TypeOK, Typed, RemoteOK

(* The same after a step. *)
LEMMA TypePartsNext ==
    TypeOK' <=> /\ Typed(cache') /\ RemoteOK(remote')
                /\ op' \in [Engines -> {Idle} \cup Operations]
                /\ sent' \in [Engines -> {Nothing} \cup SentCommands] /\ ghosts' \subseteq SentCommands
                /\ ops' \in 0 .. MaxOps
BY DEF TypeOK, Typed, RemoteOK

(* A mark stays. *)
LEMMA StaysMarked ==
    ASSUME Weaker(cache, cache'), NEW k \in DOMAIN cache'.entries
    PROVE  k \in DOMAIN cache.entries /\ (Marked(k) => Marked(k)')
BY DEF Weaker, Marked

(* The engine the cache waits for. *)
AwaitedBy(e, k) == op[e].stage = "wait" /\ sent[e].state \in {"ok", "partial"} /\ k \in ToldLate(sent[e])

(* A listing that showed what the server has still does, or is marked. *)
LEMMA SureKept ==
    ASSUME SureListingsAreTrue, Weaker(cache, cache'), remote' = remote,
           \A k \in DOMAIN cache'.entries : Awaited(k) => Awaited(k)' \/ Marked(k)'
    PROVE  SureListingsAreTrue'
<1> SUFFICES ASSUME NEW k \in DOMAIN cache'.entries, ~Marked(k)', ~Awaited(k)'
             PROVE  Shows(k)'
  BY DEF SureListingsAreTrue, Marked
<1>1. k \in DOMAIN cache.entries /\ ~Marked(k)
  BY StaysMarked
<1>2. Shows(k)
  BY <1>1 DEF SureListingsAreTrue, Marked
<1>3. cache'.entries[k].files = cache.entries[k].files
  BY DEF Weaker, Marked
<1> QED BY <1>2, <1>3 DEF Shows

(* An engine that does nothing, or sends at most LIST and has told what it had to. *)
QuietAt(e) ==
    \/ op'[e] = op[e] /\ sent'[e] = sent[e]
    \/ /\ op'[e] # Idle => op'[e].stage \in StagesOf(op'[e].cmd.kind)
       /\ op'[e].stage = "wait" => sent'[e] # Nothing /\ Matches(sent'[e], op'[e].cmd, ServerOf[e])
       /\ \/ sent'[e] \in {sent[e], Nothing}
          \/ sent'[e].kind = "list" /\ sent'[e].state = "pending" /\ sent'[e].toPath = sent'[e].path
       /\ op[e].stage = "wait" /\ (sent[e].state \in {"ok", "partial"} \/ sent'[e] = sent[e]) =>
             \A k \in DOMAIN cache'.entries : k \in ToldLate(sent[e]) => Marked(k)'

(* A step that takes back no mark and changes nothing on the servers. *)
Quiet ==
    /\ CacheOK(cache') /\ Weaker(cache, cache')
    /\ op' \in [Engines -> {Idle} \cup Operations]
    /\ sent' \in [Engines -> {Nothing} \cup SentCommands]
    /\ ops' \in 0 .. MaxOps
    /\ remote' = remote /\ ghosts' = ghosts
    /\ \A e \in Engines : QuietAt(e)

(* Such steps keep the invariant. *)
LEMMA QuietStep ==
    ASSUME IInv, Quiet
    PROVE  IInv'
<1>0. /\ RemoteOK(remote) /\ ghosts \subseteq SentCommands
      /\ \A e \in Engines : sent[e] \in {Nothing} \cup SentCommands
      /\ DOMAIN sent = Engines
  BY TypeParts DEF IInv
<1>1. TypeOK' /\ CacheOK(cache)'
  BY <1>0, TypePartsNext DEF Quiet, CacheOK
<1>2. Nothing.kind = "nothing"
  BY DEF Nothing
<1>3. InStep'
  <2> SUFFICES ASSUME NEW e \in Engines
               PROVE  /\ op'[e] # Idle => op'[e].stage \in StagesOf(op'[e].cmd.kind)
                      /\ op'[e].stage = "wait" => sent'[e] # Nothing /\ Matches(sent'[e], op'[e].cmd, ServerOf[e])
    BY DEF InStep
  <2>1. QuietAt(e)
    BY DEF Quiet
  <2> QED BY <2>1 DEF QuietAt, IInv, InStep
<1>4. AllPlausible'
  <2>1. ASSUME NEW e \in Engines, sent'[e] # Nothing PROVE Plausible(sent'[e])
    <3>1. QuietAt(e)
      BY DEF Quiet
    <3>2. CASE sent'[e] = sent[e]
      BY <2>1, <3>2 DEF IInv, AllPlausible
    <3>3. CASE sent'[e].kind = "list" /\ sent'[e].state = "pending" /\ sent'[e].toPath = sent'[e].path
      BY <3>3 DEF Plausible
    <3> QED BY <2>1, <3>1, <3>2, <3>3 DEF QuietAt
  <2> QED BY <2>1 DEF Quiet, IInv, AllPlausible, Plausible
<1>5. SureListingsAreTrue'
  <2>1. ASSUME NEW k \in DOMAIN cache'.entries, Awaited(k), ~Marked(k)' PROVE Awaited(k)'
    <3>1. PICK e \in Engines : op[e].stage = "wait" /\ sent[e].state \in {"ok", "partial"} /\ k \in ToldLate(sent[e])
      BY <2>1 DEF Awaited
    <3>2. QuietAt(e)
      BY DEF Quiet
    <3>3. op'[e] = op[e] /\ sent'[e] = sent[e]
      BY <2>1, <3>1, <3>2 DEF QuietAt
    <3> QED BY <3>1, <3>3 DEF Awaited
  <2> QED BY <2>1, SureKept DEF Quiet, IInv
<1>6. GhostsAreMarked'
  BY StaysMarked DEF Quiet, IInv, GhostsAreMarked
<1>7. ASSUME NEW e \in Engines, sent'[e] # sent[e]
      PROVE  Changes(sent'[e]) = {} /\ (sent'[e].kind = "nothing" \/ (sent'[e].kind = "list" /\ sent'[e].state = "pending"))
  <2>1. QuietAt(e)
    BY DEF Quiet
  <2>2. sent'[e] = Nothing \/ (sent'[e].kind = "list" /\ sent'[e].state = "pending")
    BY <2>1, <1>7 DEF QuietAt
  <2> QED BY <2>2, <1>2 DEF Changes
<1>8. ReceivedIsTrue'
  <2> SUFFICES ASSUME NEW e \in Engines, sent'[e].kind = "list", sent'[e].state = "ok", ~sent'[e].excused
               PROVE  /\ TrueListing(sent[e].files, Dir(sent[e]))'
                      /\ \A c \in Pending' : Dir(sent'[e]) \notin Changes(c)
    BY DEF ReceivedIsTrue
  <2>1. sent'[e] = sent[e]
    BY <1>7
  <2>2. TrueListing(sent[e].files, Dir(sent[e])) /\ \A c \in Pending : Dir(sent[e]) \notin Changes(c)
    BY <2>1 DEF IInv, ReceivedIsTrue
  <2>3. TrueListing(sent[e].files, Dir(sent[e]))'
    BY <2>1, <2>2 DEF Quiet, TrueListing
  <2>4. ASSUME NEW c \in Pending' PROVE c \in Pending \/ Changes(c) = {}
    <3>1. c \in ghosts' \cup Range(sent') /\ c.kind # "nothing" /\ c.state = "pending"
      BY <2>4 DEF Pending
    <3>2. CASE c \in ghosts'
      BY <3>1, <3>2 DEF Quiet, Pending
    <3>3. CASE c \in Range(sent')
      <4>1. PICK f \in Engines : c = sent'[f]
        BY <3>3 DEF Range, Quiet
      <4>2. CASE sent'[f] = sent[f]
        BY <4>1, <4>2, <3>1, <1>0 DEF Pending, Range
      <4> QED BY <4>1, <4>2, <1>7
    <3> QED BY <3>1, <3>2, <3>3
  <2> QED BY <2>1, <2>2, <2>3, <2>4
<1>9. PendingIsMarked'
  <2> SUFFICES ASSUME NEW e \in Engines, sent'[e].kind # "nothing", sent'[e].state = "pending",
                      NEW k \in Changes(sent'[e]), k \in DOMAIN cache'.entries, ~Marked(k)'
               PROVE  op'[e].stage = "wait" /\ k \in ToldLate(sent'[e])
    BY DEF PendingIsMarked
  <2>1. sent'[e] = sent[e]
    BY <1>7
  <2>2. k \in DOMAIN cache.entries /\ ~Marked(k)
    BY StaysMarked DEF Quiet
  <2>3. op[e].stage = "wait" /\ k \in ToldLate(sent[e])
    BY <2>1, <2>2 DEF IInv, PendingIsMarked
  <2>4. QuietAt(e)
    BY DEF Quiet
  <2> QED BY <2>1, <2>3, <2>4 DEF QuietAt
<1> QED BY <1>1, <1>3, <1>4, <1>5, <1>6, <1>8, <1>9 DEF IInv

(* One engine takes the step: its operation becomes o, its command s. *)
QuietTo(e, o, s) ==
    /\ o # Idle => o.stage \in StagesOf(o.cmd.kind)
    /\ o.stage = "wait" => s # Nothing /\ Matches(s, o.cmd, ServerOf[e])
    /\ s \in {sent[e], Nothing} \/ (s.kind = "list" /\ s.state = "pending" /\ s.toPath = s.path)
    /\ op[e].stage = "wait" /\ (sent[e].state \in {"ok", "partial"} \/ s = sent[e]) =>
          \A k \in DOMAIN cache'.entries : k \in ToldLate(sent[e]) => Marked(k)'

(* A step of one engine is quiet when its own part is. *)
LEMMA OneIsQuiet ==
    ASSUME IInv, NEW e \in Engines, CacheOK(cache'), Weaker(cache, cache'),
           NEW o \in {Idle} \cup Operations, op' = [op EXCEPT ![e] = o],
           NEW s \in {Nothing} \cup SentCommands, sent' = [sent EXCEPT ![e] = s],
           QuietTo(e, o, s), ops' \in 0 .. MaxOps, remote' = remote, ghosts' = ghosts
    PROVE  IInv'
<1>1. op \in [Engines -> {Idle} \cup Operations] /\ sent \in [Engines -> {Nothing} \cup SentCommands]
  BY TypeParts DEF IInv
<1>2. op' \in [Engines -> {Idle} \cup Operations] /\ op'[e] = o /\ \A f \in Engines \ {e} : op'[f] = op[f]
  BY <1>1
<1>3. sent' \in [Engines -> {Nothing} \cup SentCommands] /\ sent'[e] = s /\ \A f \in Engines \ {e} : sent'[f] = sent[f]
  BY <1>1
<1>4. \A f \in Engines \ {e} : QuietAt(f)
  BY <1>2, <1>3 DEF QuietAt
<1>5. QuietAt(e)
  BY <1>2, <1>3 DEF QuietAt, QuietTo
<1>6. Quiet
  BY <1>2, <1>3, <1>4, <1>5 DEF Quiet
<1> QED BY <1>6, QuietStep

(* An engine that waits for nothing. *)
LEMMA Unsent ==
    ASSUME IInv, NEW e \in Engines, sent' = sent
    PROVE  sent' = [sent EXCEPT ![e] = sent[e]] /\ sent[e] \in {Nothing} \cup SentCommands
BY TypeParts DEF IInv

(* Parts of the invariant. *)
LEMMA OpsStay ==
    ASSUME IInv
    PROVE  ops \in 0 .. MaxOps /\ CacheOK(cache) /\ TypeOK
BY TypeParts DEF IInv

(* Idle and Nothing. *)
LEMMA IdleFacts ==
    /\ Idle \in {Idle} \cup Operations /\ Idle.stage = "idle"
    /\ Nothing \in {Nothing} \cup SentCommands /\ Nothing.kind = "nothing"
BY DEF Idle, Nothing

(* A command is given. *)
LEMMA BeginStep ==
    ASSUME IInv, NEW e \in Engines, NEW cmd \in Commands, Begin(e, cmd)
    PROVE  IInv'
<1>0. cmd \in AllCommands /\ ServerOf[e] \in Servers /\ MaxOps \in Nat
  BY OperationsAssumption DEF AllCommands
<1>1. ops' \in 0 .. MaxOps /\ remote' = remote /\ ghosts' = ghosts /\ sent' = sent /\ op[e] = Idle
  BY <1>0, OpsStay DEF Begin
<1>2. sent' = [sent EXCEPT ![e] = sent[e]] /\ sent[e] \in {Nothing} \cup SentCommands
  BY <1>1, Unsent
<1>3. ASSUME NEW o \in Operations, o.stage \in StagesOf(cmd.kind) \ {"wait"}, o.cmd = cmd PROVE QuietTo(e, o, sent[e])
  BY <1>1, <1>3, IdleFacts DEF QuietTo
<1>4. CASE cmd.kind = "list" /\ BeginList(e, cmd)
  <2>1. PICK k : k = Key(ServerOf[e], cmd.path)
    OBVIOUS
  <2>2. PICK c : c = IF cmd.clear THEN InvalidateServer(cache, k.server) ELSE cache
    OBVIOUS
  <2>3. CacheOK(c) /\ Weaker(cache, c)
    BY <2>2, OpsStay, InvalidateServerOK, WeakerSame
  <2>4. CacheOK(Lookup(c, k)) /\ Weaker(c, Lookup(c, k))
    BY <2>3, LookupOK, WeakerSame
  <2>5. CacheOK(cache') /\ Weaker(cache, cache')
    <3>1. cache' = IF cmd.refresh THEN c ELSE Lookup(c, k)
      BY <1>4, <2>1, <2>2 DEF BeginList
    <3> QED BY <3>1, <2>3, <2>4, WeakerTrans
  <2>6. CASE op' = op
    <3>1. op' = [op EXCEPT ![e] = Idle] /\ QuietTo(e, Idle, sent[e])
      BY <1>1, <2>6, TypeParts, IdleFacts DEF QuietTo, IInv
    <3> QED BY <3>1, <2>5, <1>1, <1>2, IdleFacts, OneIsQuiet
  <2>7. CASE op' # op
    <3>1. PICK refresh \in BOOLEAN : op' = [op EXCEPT ![e] = NewOp(cmd, "lock", refresh)]
      BY <1>4, <2>7 DEF BeginList
    <3>2. PICK o \in Operations : o = NewOp(cmd, "lock", refresh) /\ o.stage = "lock" /\ o.cmd = cmd
      BY <1>0, NewOpType DEF Stages
    <3>3. QuietTo(e, o, sent[e])
      BY <3>2, <1>3, <1>4 DEF StagesOf
    <3>4. o \in {Idle} \cup Operations /\ op' = [op EXCEPT ![e] = o]
      BY <3>1, <3>2
    <3> QED BY <3>3, <3>4, <2>5, <1>1, <1>2, OneIsQuiet
  <2> QED BY <2>6, <2>7
<1>5. CASE cmd.kind # "list"
  <2>1. PICK s : s = IF cmd.kind = "mkd" THEN "lock" ELSE "send"
    OBVIOUS
  <2>2. cache' = cache /\ op' = [op EXCEPT ![e] = NewOp(cmd, s, FALSE)] /\ s \in Stages \ {"idle"}
    BY <2>1, <1>5 DEF Begin, Stages
  <2>3. PICK o \in Operations : o = NewOp(cmd, s, FALSE) /\ o.stage = s /\ o.cmd = cmd
    BY <1>0, <2>2, NewOpType
  <2>4. s \in StagesOf(cmd.kind) \ {"wait"}
    BY <2>1, <1>0, <1>5, CommandFacts DEF StagesOf
  <2>5. QuietTo(e, o, sent[e])
    BY <2>3, <2>4, <1>3
  <2>6. CacheOK(cache') /\ Weaker(cache, cache')
    BY <2>2, OpsStay, WeakerSame
  <2>7. o \in {Idle} \cup Operations /\ op' = [op EXCEPT ![e] = o]
    BY <2>2, <2>3
  <2> QED BY <2>5, <2>6, <2>7, <1>1, <1>2, OneIsQuiet
<1> QED BY <1>4, <1>5 DEF Begin

(* AskForLock and ObtainLock. *)
LEMMA LockingStep ==
    ASSUME IInv, NEW e \in Engines, NEW lock \in {"none", "held"}, Locking(e, lock)
    PROVE  IInv'
<1>0. /\ op[e].stage = "lock" /\ sent[e] = Nothing /\ remote' = remote /\ ghosts' = ghosts /\ ops' = ops
  BY DEF Locking
<1>1. TypeOK /\ CacheOK(cache) /\ ops' \in 0 .. MaxOps
  BY <1>0, OpsStay
<1>2. op[e] \in Operations /\ op[e].cmd \in AllCommands /\ op[e] # Idle
  BY <1>0, <1>1, OpFacts
<1>3. PICK q \in Operations : q = op[e] /\ q.stage = "lock" /\ q.cmd \in AllCommands
  BY <1>0, <1>2
<1>4. q.cmd.kind \in {"list", "mkd"} /\ ServerOf[e] \in Servers
  <2>1. q.stage \in StagesOf(q.cmd.kind)
    BY <1>2, <1>3 DEF IInv, InStep
  <2> QED BY <2>1, <1>3, OperationsAssumption DEF StagesOf
<1>5. op = [f \in Engines |-> op[f]]
  BY <1>1, TypeParts
<1>6. ASSUME NEW o \in {Idle} \cup Operations, o = Idle \/ (o.cmd = q.cmd /\ o.stage \in StagesOf(q.cmd.kind) \ {"wait"})
      PROVE QuietTo(e, o, Nothing)
  BY <1>0, <1>6, IdleFacts DEF QuietTo
<1>7. CASE q.cmd.kind = "list"
  <2>1. PICK k : k = Target(e)
    OBVIOUS
  <2>2. k = Key(ServerOf[e], q.cmd.path) /\ q.cmd.path \in Paths
    BY <2>1, <1>3, <1>7, CommandFacts DEF Target
  <2>3. k \in Keys /\ k \in Places /\ k.path = q.cmd.path /\ k.server = ServerOf[e]
    BY <2>2, <1>4, PathsAreSeqs DEF Key, Keys, Places
  <2>4. PICK c : c = Lookup(cache, k)
    OBVIOUS
  <2>5. CacheOK(c) /\ Weaker(cache, c)
    BY <2>4, <1>1, LookupOK, WeakerSame
  <2>6. CacheOK(TakeTime(c, e)) /\ Weaker(cache, TakeTime(c, e))
    BY <2>5, TakeTimeOK, WeakerTrans
  <2>7. ListSend(e, lock)
    BY <1>3, <1>7 DEF Locking
  <2>8. CacheOK(cache') /\ Weaker(cache, cache')
    BY <2>1, <2>4, <2>5, <2>6, <2>7 DEF ListSend
  <2>9. CASE End(e) /\ UNCHANGED sent
    <3>1. op' = [op EXCEPT ![e] = Idle] /\ sent' = [sent EXCEPT ![e] = Nothing] /\ Nothing \in {Nothing} \cup SentCommands
      BY <2>9, <1>0, Unsent DEF End
    <3> QED BY <3>1, <2>8, <1>0, <1>1, <1>6, IdleFacts, OneIsQuiet
  <2>10. CASE op' = [op EXCEPT ![e].lock = "waiting"] /\ UNCHANGED sent
    <3>1. PICK o : o = [q EXCEPT !.lock = "waiting"]
      OBVIOUS
    <3>2. o \in Operations /\ o.stage = "lock" /\ o.cmd = q.cmd
      BY <3>1, <1>3, OpExcept DEF Stages
    <3>3. op' = [op EXCEPT ![e] = o]
      BY <3>1, <2>10, <1>3, <1>5
    <3>4. sent' = [sent EXCEPT ![e] = Nothing] /\ Nothing \in {Nothing} \cup SentCommands
      BY <2>10, <1>0, Unsent
    <3>5. QuietTo(e, o, Nothing)
      BY <3>2, <1>6, <1>7 DEF StagesOf
    <3>6. o \in {Idle} \cup Operations
      BY <3>2
    <3> QED BY <3>3, <3>4, <3>5, <3>6, <2>8, <1>0, <1>1, OneIsQuiet
  <2>11. CASE /\ sent' = [sent EXCEPT ![e] = Cmd("list", Target(e), NoName)]
              /\ op' = [op EXCEPT ![e].lock = "held", ![e].stage = "wait"]
    <3>1. PICK o : o = [q EXCEPT !.lock = "held", !.stage = "wait"]
      OBVIOUS
    <3>2. o \in Operations /\ o.stage = "wait" /\ o.cmd = q.cmd
      <4>1. "wait" \in Stages \ {"idle"}
        BY DEF Stages
      <4>2. PICK l \in {"none", "waiting", "held"}, t \in Stages \ {"idle"} : l = "held" /\ t = "wait"
        BY <4>1
      <4>3. /\ [q EXCEPT !.lock = l, !.stage = t] \in Operations /\ [q EXCEPT !.lock = l, !.stage = t].stage = t
            /\ [q EXCEPT !.lock = l, !.stage = t].cmd = q.cmd
        BY DEF Operations
      <4> QED BY <3>1, <4>2, <4>3
    <3>3. op' = [op EXCEPT ![e] = o]
      BY <3>1, <2>11, <1>3, <1>5
    <3>4. PICK s : s = Cmd("list", k, NoName)
      OBVIOUS
    <3>5. s \in SentCommands
      BY <3>4, <2>2, <2>3, CmdType DEF Kinds
    <3>6. s.kind = "list" /\ s.state = "pending" /\ s.path = k.path /\ s.toPath = s.path /\ s.server = k.server
      BY <3>4 DEF Cmd
    <3>7. QuietTo(e, o, s)
      BY <3>2, <3>5, <3>6, <2>3, <1>0, <1>7, SentFacts DEF QuietTo, StagesOf, Matches, KindsOf
    <3>8. sent' = [sent EXCEPT ![e] = s] /\ s \in {Nothing} \cup SentCommands /\ o \in {Idle} \cup Operations
      BY <3>2, <3>4, <3>5, <2>1, <2>11
    <3> QED BY <3>3, <3>7, <3>8, <2>8, <1>0, <1>1, OneIsQuiet
  <2> QED BY <2>7, <2>9, <2>10, <2>11, <1>0 DEF ListSend
<1>8. CASE q.cmd.kind = "mkd"
  <2>1. MkdLock(e, lock)
    BY <1>3, <1>8 DEF Locking
  <2>2. CacheOK(cache') /\ Weaker(cache, cache') /\ sent' = [sent EXCEPT ![e] = Nothing] /\ Nothing \in {Nothing} \cup SentCommands
    BY <2>1, <1>0, <1>1, WeakerSame, Unsent DEF MkdLock
  <2>3. CASE op' = [op EXCEPT ![e].lock = "held", ![e].stage = "send"]
    <3>1. PICK o : o = [q EXCEPT !.lock = "held", !.stage = "send"]
      OBVIOUS
    <3>2. o \in Operations /\ o.stage = "send" /\ o.cmd = q.cmd
      <4>1. "send" \in Stages \ {"idle"}
        BY DEF Stages
      <4>2. PICK l \in {"none", "waiting", "held"}, t \in Stages \ {"idle"} : l = "held" /\ t = "send"
        BY <4>1
      <4>3. /\ [q EXCEPT !.lock = l, !.stage = t] \in Operations /\ [q EXCEPT !.lock = l, !.stage = t].stage = t
            /\ [q EXCEPT !.lock = l, !.stage = t].cmd = q.cmd
        BY DEF Operations
      <4> QED BY <3>1, <4>2, <4>3
    <3>3. op' = [op EXCEPT ![e] = o] /\ o \in {Idle} \cup Operations
      BY <3>1, <3>2, <2>3, <1>3, <1>5
    <3>4. QuietTo(e, o, Nothing)
      BY <3>2, <3>3, <1>6, <1>8 DEF StagesOf
    <3> QED BY <3>3, <3>4, <2>2, <1>0, <1>1, OneIsQuiet
  <2>4. CASE op' = [op EXCEPT ![e].lock = "waiting"]
    <3>1. PICK o : o = [q EXCEPT !.lock = "waiting"]
      OBVIOUS
    <3>2. o \in Operations /\ o.stage = "lock" /\ o.cmd = q.cmd
      BY <3>1, <1>3, OpExcept DEF Stages
    <3>3. op' = [op EXCEPT ![e] = o] /\ o \in {Idle} \cup Operations
      BY <3>1, <3>2, <2>4, <1>3, <1>5
    <3>4. QuietTo(e, o, Nothing)
      BY <3>2, <3>3, <1>6, <1>8 DEF StagesOf
    <3> QED BY <3>3, <3>4, <2>2, <1>0, <1>1, OneIsQuiet
  <2> QED BY <2>1, <2>3, <2>4 DEF MkdLock
<1> QED BY <1>4, <1>7, <1>8

(* MkdTryFull. *)
LEMMA MkdTryFullStep ==
    ASSUME IInv, NEW e \in Engines, MkdTryFull(e)
    PROVE  IInv'
<1>0. /\ op[e].stage = "send" /\ op[e].cmd.kind = "mkd" /\ op' = [op EXCEPT ![e].stage = "full"]
      /\ remote' = remote /\ ghosts' = ghosts /\ ops' = ops /\ sent' = sent /\ cache' = cache
  BY DEF MkdTryFull, Go
<1>1. TypeOK /\ CacheOK(cache) /\ ops' \in 0 .. MaxOps
  BY <1>0, OpsStay
<1>2. PICK q \in Operations : q = op[e]
  BY <1>0, <1>1, OpFacts
<1>3. op = [f \in Engines |-> op[f]]
  BY <1>1, TypeParts
<1>4. PICK o : o = [q EXCEPT !.stage = "full"]
  OBVIOUS
<1>5. o \in Operations /\ o.stage = "full" /\ o.cmd = q.cmd
  BY <1>4, <1>2 DEF Operations, Stages
<1>6. op' = [op EXCEPT ![e] = o] /\ o \in {Idle} \cup Operations
  BY <1>0, <1>2, <1>3, <1>4, <1>5
<1>7. CacheOK(cache') /\ Weaker(cache, cache') /\ sent' = [sent EXCEPT ![e] = sent[e]] /\ sent[e] \in {Nothing} \cup SentCommands
  BY <1>0, <1>1, WeakerSame, Unsent
<1>8. QuietTo(e, o, sent[e])
  BY <1>0, <1>2, <1>5 DEF QuietTo, StagesOf
<1> QED BY <1>0, <1>1, <1>6, <1>7, <1>8, OneIsQuiet

(* SkipReply. *)
LEMMA SkipReplyStep ==
    ASSUME IInv, NEW e \in Engines, SkipReply(e)
    PROVE  IInv'
<1>0. /\ op[e].stage # "wait" /\ sent' = [sent EXCEPT ![e] = Nothing]
      /\ remote' = remote /\ ghosts' = ghosts /\ ops' = ops /\ op' = op /\ cache' = cache
  BY DEF SkipReply
<1>1. TypeOK /\ CacheOK(cache) /\ ops' \in 0 .. MaxOps
  BY <1>0, OpsStay
<1>2. op' = [op EXCEPT ![e] = op[e]] /\ op[e] \in {Idle} \cup Operations
  BY <1>0, <1>1, TypeParts
<1>3. QuietTo(e, op[e], Nothing)
  BY <1>0 DEF QuietTo, IInv, InStep
<1>4. CacheOK(cache') /\ Weaker(cache, cache')
  BY <1>0, <1>1, WeakerSame
<1> QED BY <1>0, <1>1, <1>2, <1>3, <1>4, IdleFacts, OneIsQuiet

(* TimePasses. *)
LEMMA TimePassesStep ==
    ASSUME IInv, TimePasses
    PROVE  IInv'
<1>1. PICK k \in DOMAIN cache.entries : cache' = Expire(cache, k)
  BY DEF TimePasses
<1>2. CacheOK(cache') /\ Weaker(cache, cache')
  BY <1>1, OpsStay, ExpireOK
<1>3. Quiet
  BY <1>2, OpsStay, TypeParts DEF TimePasses, Quiet, QuietAt
<1> QED BY <1>3, QuietStep

(* An operation that waits, and what it has sent. *)
LEMMA WaitFacts ==
    ASSUME IInv, NEW e \in Engines, op[e].stage = "wait"
    PROVE  /\ op[e] \in Operations /\ op[e].cmd \in AllCommands /\ sent[e] \in SentCommands
           /\ Plausible(sent[e]) /\ Matches(sent[e], op[e].cmd, ServerOf[e]) /\ sent[e] # Nothing
<1>1. TypeOK
  BY OpsStay
<1>2. op[e] \in Operations /\ op[e].cmd \in AllCommands
  BY <1>1, OpFacts
<1>3. sent[e] # Nothing /\ Matches(sent[e], op[e].cmd, ServerOf[e])
  BY DEF IInv, InStep
<1>4. sent[e] \in SentCommands
  BY <1>1, <1>3, TypeParts
<1>5. Plausible(sent[e])
  BY <1>3 DEF IInv, AllPlausible
<1> QED BY <1>2, <1>3, <1>4, <1>5

(* What each command tells with its reply only. *)
LEMMA ToldFacts ==
    ASSUME NEW c \in SentCommands, Plausible(c)
    PROVE  /\ c.kind \in {"mkd", "mkdfull", "stor", "chmod"} => ToldLate(c) = {Dir(c)}
           /\ c.kind \in {"list", "dele", "raw", "rnfr"} => ToldLate(c) = {}
           /\ c.kind \in {"rmd", "rnto"} => ToldLate(c) = Below(c)
           /\ Dir(c).server = c.server /\ Dir(c).path = c.path
<1>1. c.kind # "rnto" => ToDir(c) = Dir(c)
  BY DEF Plausible, ToDir, Dir
<1> QED BY <1>1 DEF ToldLate, Named, Below, Dir, Key

(* RemoveDir erases all that Below names, but directories of another case. *)
LEMMA BelowGone ==
    ASSUME NEW c \in SentCommands, c.kind \in {"rmd", "rnto"}, NEW d, Gone(d, c.server, c.path, c.name),
           NEW k \in Below(c), k \in DOMAIN d.entries
    PROVE  k \in OtherCase(c)
<1>1. c.server \in Servers /\ c.path \in Seq(Names) /\ c.name \in Names
  BY SentFacts
<1>2. PICK t \in Variants(c) : k \in Keys /\ k.server = t.server /\ IsParentOf(t.path, k.path, FALSE, TRUE)
  BY DEF Below
<1>3. PICK n \in Names : t = Child(Dir(c), n) /\ SameOnServer(c.server, n, c.name)
  BY <1>2 DEF Variants
<1>4. PICK a \in Seq(Names), m \in Nat : a = c.path /\ m = Len(a)
  BY <1>1
<1>5. PICK p, q, r : p = Append(a, n) /\ q = Append(a, c.name) /\ r = k.path
  OBVIOUS
<1>6. /\ p \in Seq(Names) /\ Len(p) = m + 1 /\ q \in Seq(Names) /\ Len(q) = m + 1
      /\ \A i \in 1 .. m : p[i] = a[i] /\ q[i] = a[i]
      /\ p[m + 1] = n /\ q[m + 1] = c.name /\ q # <<>>
  BY <1>1, <1>4, <1>5, AppendProperties
<1>7. DOMAIN p = 1 .. m + 1 /\ DOMAIN q = 1 .. m + 1
  BY <1>6
<1>8. r \in Seq(Names) /\ Len(r) \in Nat
  <2>1. r \in Seq(Names)
    BY <1>2, <1>5, PathsAreSeqs DEF Keys
  <2> QED BY <2>1
<1>9. t.server = c.server /\ t.path = p
  BY <1>3, <1>4, <1>5 DEF Child, Dir, Key
<1>10. /\ r # <<>> /\ (m + 1 < Len(r) \/ m + 1 = Len(r)) /\ \A i \in 1 .. m + 1 : p[i] = r[i]
  BY <1>2, <1>5, <1>6, <1>7, <1>9 DEF IsParentOf
<1>11. k.path # Append(c.path, c.name) /\ ~IsParentOf(Append(c.path, c.name), k.path, TRUE, FALSE)
  BY <1>2, <1>9 DEF Gone
<1>12. r # q /\ ~IsParentOf(q, r, TRUE, FALSE)
  BY <1>4, <1>5, <1>11
<1>13. Fold[n] = Fold[c.name]
  BY <1>3 DEF SameOnServer, SameName
<1>14. ASSUME m + 1 < Len(r) PROVE FALSE
  <2>1. ASSUME NEW i \in 1 .. m + 1 PROVE SameName(q[i], r[i])
    <3>1. CASE i \in 1 .. m
      BY <3>1, <1>6, <1>10 DEF SameName
    <3>2. CASE i = m + 1
      BY <3>2, <1>6, <1>10, <1>13 DEF SameName
    <3> QED BY <3>1, <3>2
  <2>2. IsParentOf(q, r, TRUE, FALSE)
    BY <2>1, <1>6, <1>7, <1>10, <1>14 DEF IsParentOf
  <2> QED BY <2>2, <1>12
<1>15. m + 1 = Len(r)
  BY <1>10, <1>14
<1>16. p = r
  BY <1>6, <1>8, <1>10, <1>15, SeqEqual
<1>17. k = t
  BY <1>2, <1>3, <1>5, <1>9, <1>16 DEF Keys, Child, Dir, Key
<1>18. Child(Dir(c), c.name).path = q
  BY <1>4, <1>5 DEF Child, Dir, Key
<1>19. t # Child(Dir(c), c.name)
  BY <1>9, <1>12, <1>16, <1>18
<1> QED BY <1>17, <1>19 DEF OtherCase

(* What ends without a reply leaves no listing unmarked that nobody will mark. *)
LEMMA AbandonedOK ==
    ASSUME IInv, NEW e \in Engines, op[e].stage # "idle", NEW d, d = Abandoned(e)
    PROVE  /\ CacheOK(d) /\ Weaker(cache, d)
           /\ op[e].stage = "wait" => \A k \in DOMAIN d.entries : k \in ToldLate(sent[e]) =>
                 d.entries[k].unsure \/ d.entries[k].excused
<1>0. CacheOK(cache)
  BY OpsStay
<1>1. CASE op[e].stage # "wait"
  BY <1>0, <1>1, WeakerSame DEF Abandoned
<1>2. CASE op[e].stage = "wait"
  <2>1. /\ op[e].cmd \in AllCommands /\ sent[e] \in SentCommands /\ Plausible(sent[e])
        /\ Matches(sent[e], op[e].cmd, ServerOf[e])
    BY <1>2, WaitFacts
  <2>2. CASE sent[e].kind = "stor"
    <3>1. PICK cmd \in AllCommands : cmd = op[e].cmd
      BY <2>1
    <3>2. cmd.kind = "upload"
      BY <2>1, <2>2, <3>1, CommandFacts DEF Matches, KindsOf
    <3>3. cmd.names \in SomeNames
      BY <3>2, CommandFacts
    <3>4. Last(cmd.names) \in Names /\ Unknown \in Int
      BY <3>3, NamesFacts DEF Unknown
    <3>5. d = UpdateFile(cache, ServerOf[e], cmd.path, Last(cmd.names), TRUE, "file", Unknown)
      BY <1>2, <2>2, <3>1 DEF Abandoned, UpdateCache
    <3>6. CacheOK(d) /\ Weaker(cache, d) /\ Marks(d, ServerOf[e], cmd.path)
      BY <1>0, <3>4, <3>5, UpdateFileOK
    <3>7. ToldLate(sent[e]) = {Dir(sent[e])} /\ Dir(sent[e]).server = ServerOf[e] /\ Dir(sent[e]).path = cmd.path
      BY <2>1, <2>2, <3>1, ToldFacts DEF Matches
    <3> QED BY <3>6, <3>7 DEF Marks
  <2>3. CASE sent[e].kind # "stor"
    <3>1. d = Excuse(cache, ToldLate(sent[e]))
      BY <1>2, <2>3 DEF Abandoned
    <3> QED BY <1>0, <3>1, ExcuseOK
  <2> QED BY <2>2, <2>3
<1> QED BY <1>1, <1>2

(* Cancel. *)
LEMMA CancelStep ==
    ASSUME IInv, NEW e \in Engines, Cancel(e)
    PROVE  IInv'
<1>0. /\ op[e].stage # "idle" /\ cache' = Abandoned(e) /\ op' = [op EXCEPT ![e] = Idle]
      /\ remote' = remote /\ ghosts' = ghosts /\ ops' = ops /\ sent' = sent
  BY DEF Cancel, End
<1>1. ops' \in 0 .. MaxOps
  BY <1>0, OpsStay
<1>2. CacheOK(cache') /\ Weaker(cache, cache')
  BY <1>0, AbandonedOK
<1>3. op[e].stage = "wait" => \A k \in DOMAIN cache'.entries : k \in ToldLate(sent[e]) => Marked(k)'
  BY <1>0, AbandonedOK DEF Marked
<1>4. QuietTo(e, Idle, sent[e])
  BY <1>3, IdleFacts DEF QuietTo
<1>5. sent' = [sent EXCEPT ![e] = sent[e]] /\ sent[e] \in {Nothing} \cup SentCommands
  BY <1>0, Unsent
<1> QED BY <1>0, <1>1, <1>2, <1>4, <1>5, IdleFacts, OneIsQuiet

(* A reply is handled: the operation ends, or goes on to its next command. *)
ToldNow(e) ==
    sent[e].state \in {"ok", "partial"} => \A k \in DOMAIN cache'.entries : k \in ToldLate(sent[e]) => Marked(k)'

(* A reply that tells the cache what was awaited is quiet. *)
LEMMA ReplyQuiet ==
    ASSUME IInv, NEW e \in Engines, op[e].stage = "wait", CacheOK(cache'), Weaker(cache, cache'), ToldNow(e),
           NEW o, o = Idle \/ (o \in Operations /\ o.stage \in StagesOf(o.cmd.kind) \ {"wait"}),
           op' = [op EXCEPT ![e] = o], sent' = [sent EXCEPT ![e] = Nothing],
           remote' = remote, ghosts' = ghosts, ops' = ops
    PROVE  IInv'
<1>1. sent[e] # Nothing
  BY WaitFacts
<1>2. o.stage # "wait" /\ (o # Idle => o.stage \in StagesOf(o.cmd.kind))
  BY IdleFacts
<1>3. QuietTo(e, o, Nothing)
  BY <1>1, <1>2 DEF QuietTo, ToldNow
<1>4. ops' \in 0 .. MaxOps /\ o \in {Idle} \cup Operations
  BY OpsStay
<1> QED BY <1>3, <1>4, IdleFacts, OneIsQuiet

(* The cache has been told of the directory the command was about. *)
LEMMA MarksTold ==
    ASSUME IInv, NEW e \in Engines, op[e].stage = "wait", sent[e].kind \in {"mkd", "stor", "chmod"},
           Marks(cache', ServerOf[e], op[e].cmd.path)
    PROVE  ToldNow(e)
<1>1. ToldLate(sent[e]) = {Dir(sent[e])} /\ Dir(sent[e]).server = sent[e].server /\ Dir(sent[e]).path = sent[e].path
  BY WaitFacts, ToldFacts
<1>2. sent[e].server = ServerOf[e] /\ sent[e].path = op[e].cmd.path
  BY WaitFacts DEF Matches
<1> QED BY <1>1, <1>2 DEF ToldNow, Marks, Marked

(* Commands that have nothing to tell. *)
LEMMA NothingTold ==
    ASSUME IInv, NEW e \in Engines, op[e].stage = "wait",
           sent[e].kind \in {"list", "dele", "raw", "rnfr"} \/ sent[e].state \notin {"ok", "partial"}
    PROVE  ToldNow(e)
BY WaitFacts, ToldFacts DEF ToldNow

(* DeleteReply. *)
LEMMA DeleteReplyStep ==
    ASSUME IInv, NEW e \in Engines, Reply(e), op[e].cmd.kind = "delete"
    PROVE  IInv'
<1>1. /\ op[e].stage = "wait" /\ DeleteReply(e) /\ sent' = [sent EXCEPT ![e] = Nothing]
      /\ remote' = remote /\ ghosts' = ghosts /\ ops' = ops
  BY DEF Reply
<1>2. PICK q \in Operations, cmd \in AllCommands : q = op[e] /\ cmd = q.cmd
  BY <1>1, WaitFacts
<1>3. sent[e].kind = "dele"
  BY <1>1, WaitFacts DEF Matches, KindsOf
<1>4. cmd \in FileCommands /\ cmd.names \in SomeNames
  BY <1>2, CommandFacts
<1>5. CacheOK(cache') /\ Weaker(cache, cache')
  BY <1>1, <1>2, OpsStay, RemoveFileOK, WeakerSame DEF DeleteReply
<1>6. CASE Len(cmd.names) = 1
  <2>1. op' = [op EXCEPT ![e] = Idle]
    BY <1>1, <1>2, <1>6 DEF DeleteReply
  <2> QED BY <2>1, <1>1, <1>3, <1>5, NothingTold, ReplyQuiet
<1>7. CASE Len(cmd.names) # 1
  <2>1. PICK names \in SomeNames : names = Front(cmd.names)
    BY <1>4, <1>7, NamesFacts
  <2>2. op = [f \in Engines |-> op[f]]
    BY OpsStay, TypeParts
  <2>3. PICK d : d = [cmd EXCEPT !.names = names]
    OBVIOUS
  <2>4. d \in FileCommands /\ d.kind = cmd.kind
    BY <1>4, <2>1, <2>3 DEF FileCommands
  <2>5. PICK o : o = [q EXCEPT !.cmd = d, !.stage = "send"]
    OBVIOUS
  <2>6. o \in Operations /\ o.stage = "send" /\ o.cmd = d
    BY <1>2, <2>4, <2>5 DEF Operations, Stages
  <2>7. op' = [op EXCEPT ![e].cmd.names = names, ![e].stage = "send"]
    BY <1>1, <1>2, <1>7, <2>1 DEF DeleteReply
  <2>8. op' = [op EXCEPT ![e] = o]
    BY <2>7, <2>2, <2>3, <2>5, <1>2
  <2>9. o.stage \in StagesOf(o.cmd.kind) \ {"wait"}
    BY <2>6, <2>4, <1>2 DEF StagesOf
  <2> QED BY <2>6, <2>8, <2>9, <1>1, <1>3, <1>5, NothingTold, ReplyQuiet
<1> QED BY <1>6, <1>7

(* The reply to a raw command. *)
LEMMA RawReplyStep ==
    ASSUME IInv, NEW e \in Engines, Reply(e), op[e].cmd.kind = "raw"
    PROVE  IInv'
<1>1. /\ op[e].stage = "wait" /\ op' = [op EXCEPT ![e] = Idle] /\ cache' = cache /\ sent' = [sent EXCEPT ![e] = Nothing]
      /\ remote' = remote /\ ghosts' = ghosts /\ ops' = ops
  BY DEF Reply, End
<1>2. sent[e].kind = "raw"
  BY <1>1, WaitFacts DEF Matches, KindsOf
<1>3. CacheOK(cache') /\ Weaker(cache, cache')
  BY <1>1, OpsStay, WeakerSame
<1> QED BY <1>1, <1>2, <1>3, NothingTold, ReplyQuiet

(* ChmodReply. *)
LEMMA ChmodReplyStep ==
    ASSUME IInv, NEW e \in Engines, Reply(e), op[e].cmd.kind = "chmod"
    PROVE  IInv'
<1>1. /\ op[e].stage = "wait" /\ ChmodReply(e) /\ op' = [op EXCEPT ![e] = Idle] /\ sent' = [sent EXCEPT ![e] = Nothing]
      /\ remote' = remote /\ ghosts' = ghosts /\ ops' = ops
  BY DEF Reply, ChmodReply, End
<1>2. sent[e].kind = "chmod"
  BY <1>1, WaitFacts DEF Matches, KindsOf
<1>3. PICK cmd \in AllCommands : cmd = op[e].cmd
  BY <1>1, WaitFacts
<1>4. Last(cmd.names) \in Names /\ Unknown \in Int
  BY <1>3, CommandFacts, NamesFacts DEF Unknown
<1>5. CASE sent[e].state = "ok"
  <2>1. cache' = UpdateFile(cache, ServerOf[e], cmd.path, Last(cmd.names), FALSE, "unknown", Unknown)
    BY <1>1, <1>3, <1>5 DEF ChmodReply
  <2>2. CacheOK(cache') /\ Weaker(cache, cache') /\ Marks(cache', ServerOf[e], cmd.path)
    BY <2>1, <1>4, OpsStay, UpdateFileOK
  <2> QED BY <2>2, <1>1, <1>2, <1>3, MarksTold, ReplyQuiet
<1>6. CASE sent[e].state # "ok"
  <2>1. CacheOK(cache') /\ Weaker(cache, cache')
    BY <1>1, <1>6, OpsStay, WeakerSame DEF ChmodReply
  <2>2. sent[e].state # "partial"
    BY <1>1, <1>2, WaitFacts DEF Plausible
  <2> QED BY <2>1, <2>2, <1>1, <1>6, NothingTold, ReplyQuiet
<1> QED BY <1>5, <1>6

(* UploadReply. *)
LEMMA UploadReplyStep ==
    ASSUME IInv, NEW e \in Engines, Reply(e), op[e].cmd.kind = "upload"
    PROVE  IInv'
<1>1. /\ op[e].stage = "wait" /\ UploadReply(e) /\ op' = [op EXCEPT ![e] = Idle] /\ sent' = [sent EXCEPT ![e] = Nothing]
      /\ remote' = remote /\ ghosts' = ghosts /\ ops' = ops
  BY DEF Reply, UploadReply, End
<1>2. sent[e].kind = "stor"
  BY <1>1, WaitFacts DEF Matches, KindsOf
<1>3. PICK cmd \in AllCommands : cmd = op[e].cmd
  BY <1>1, WaitFacts
<1>4. Last(cmd.names) \in Names /\ Unknown \in Int /\ cmd.size \in Int
  BY <1>3, CommandFacts, NamesFacts DEF Unknown
<1>5. CASE cache' = UpdateCache(e, IF sent[e].state = "ok" THEN op[e].cmd.size ELSE Unknown)
  <2>1. PICK size \in Int : size = IF sent[e].state = "ok" THEN cmd.size ELSE Unknown
    BY <1>4
  <2>2. cache' = UpdateFile(cache, ServerOf[e], cmd.path, Last(cmd.names), TRUE, "file", size)
    BY <1>3, <1>5, <2>1 DEF UpdateCache
  <2>3. CacheOK(cache') /\ Weaker(cache, cache') /\ Marks(cache', ServerOf[e], cmd.path)
    BY <2>2, <1>4, OpsStay, UpdateFileOK
  <2> QED BY <2>3, <1>1, <1>2, <1>3, MarksTold, ReplyQuiet
<1>6. CASE sent[e].state = "failed" /\ cache' = cache
  <2>1. CacheOK(cache') /\ Weaker(cache, cache')
    BY <1>6, OpsStay, WeakerSame
  <2> QED BY <2>1, <1>1, <1>6, NothingTold, ReplyQuiet
<1> QED BY <1>1, <1>5, <1>6 DEF UploadReply

(* RemoveDirReply. *)
LEMMA RemoveDirReplyStep ==
    ASSUME IInv, NEW e \in Engines, Reply(e), op[e].cmd.kind = "rmd"
    PROVE  IInv'
<1>1. /\ op[e].stage = "wait" /\ RemoveDirReply(e) /\ op' = [op EXCEPT ![e] = Idle] /\ sent' = [sent EXCEPT ![e] = Nothing]
      /\ remote' = remote /\ ghosts' = ghosts /\ ops' = ops
  BY DEF Reply, RemoveDirReply, End
<1>2. PICK cmd \in AllCommands, c \in SentCommands : cmd = op[e].cmd /\ c = sent[e]
  BY <1>1, WaitFacts
<1>3. c.kind = "rmd" /\ Plausible(c) /\ c.server = ServerOf[e] /\ c.path = cmd.path /\ c.name = Last(cmd.names)
  BY <1>1, <1>2, WaitFacts DEF Matches, KindsOf
<1>4. CASE c.state = "ok"
  <2>1. PICK d : d = RemoveDir(cache, c.server, c.path, c.name)
    OBVIOUS
  <2>2. CacheOK(d) /\ Weaker(cache, d) /\ Gone(d, c.server, c.path, c.name)
    BY <2>1, OpsStay, RemoveDirOK
  <2>3. cache' = Excuse(d, OtherCase(c))
    BY <1>1, <1>2, <1>3, <1>4, <2>1 DEF RemoveDirReply
  <2>4. CacheOK(cache') /\ Weaker(d, cache') /\ \A k \in DOMAIN cache'.entries : k \in OtherCase(c) => cache'.entries[k].excused
    BY <2>2, <2>3, ExcuseOK
  <2>5. Weaker(cache, cache') /\ Gone(cache', c.server, c.path, c.name)
    BY <2>2, <2>4, WeakerTrans, GoneStays
  <2>6. ToldLate(c) = Below(c)
    BY <1>3, ToldFacts
  <2>7. \A k \in DOMAIN cache'.entries : k \in Below(c) => k \in OtherCase(c)
    BY <1>3, <2>5, BelowGone
  <2>8. ToldNow(e)
    BY <1>2, <2>4, <2>6, <2>7 DEF ToldNow, Marked
  <2> QED BY <1>1, <2>4, <2>5, <2>8, ReplyQuiet
<1>5. CASE c.state # "ok"
  <2>1. CacheOK(cache') /\ Weaker(cache, cache')
    BY <1>1, <1>2, <1>5, OpsStay, WeakerSame DEF RemoveDirReply
  <2>2. c.state # "partial"
    BY <1>3 DEF Plausible
  <2> QED BY <2>1, <2>2, <1>1, <1>2, <1>5, NothingTold, ReplyQuiet
<1> QED BY <1>4, <1>5

(* RenameReply. *)
LEMMA RenameReplyStep ==
    ASSUME IInv, NEW e \in Engines, Reply(e), op[e].cmd.kind = "rename"
    PROVE  IInv'
<1>1. /\ op[e].stage = "wait" /\ RenameReply(e) /\ sent' = [sent EXCEPT ![e] = Nothing]
      /\ remote' = remote /\ ghosts' = ghosts /\ ops' = ops
  BY DEF Reply
<1>2. PICK q \in Operations, cmd \in AllCommands, c \in SentCommands : q = op[e] /\ cmd = op[e].cmd /\ c = sent[e]
  BY <1>1, WaitFacts
<1>3. /\ Plausible(c) /\ c.server = ServerOf[e] /\ c.kind \in {"rnfr", "rnto"} /\ c.path = cmd.path
      /\ c.name = Last(cmd.names) /\ (c.kind = "rnto" => c.toPath = cmd.toPath /\ c.toName = cmd.toName)
  BY <1>1, <1>2, WaitFacts DEF Matches, KindsOf
<1>4. CASE c.state = "ok" /\ c.kind = "rnfr" /\ Go(e, "rnto") /\ cache' = cache
  <2>1. op = [f \in Engines |-> op[f]]
    BY OpsStay, TypeParts
  <2>2. PICK o : o = [q EXCEPT !.stage = "rnto"]
    OBVIOUS
  <2>3. o \in Operations /\ o.stage = "rnto" /\ o.cmd = q.cmd
    BY <1>2, <2>2 DEF Operations, Stages
  <2>4. op' = [op EXCEPT ![e] = o]
    BY <1>2, <1>4, <2>1, <2>2 DEF Go
  <2>5. o.stage \in StagesOf(o.cmd.kind) \ {"wait"}
    BY <2>3, <1>2 DEF StagesOf
  <2>6. CacheOK(cache') /\ Weaker(cache, cache')
    BY <1>4, OpsStay, WeakerSame
  <2> QED BY <1>1, <1>2, <1>4, <2>3, <2>4, <2>5, <2>6, NothingTold, ReplyQuiet
<1>5. CASE c.state = "ok" /\ c.kind = "rnto"
  <2>1. c.name \in Names /\ c.toName \in Names
    BY <1>5, SentFacts
  <2>2. PICK k : k = Key(c.server, c.path)
    OBVIOUS
  <2>3. k.server = c.server /\ k.path = c.path /\ k = Target(e)
    BY <1>2, <1>3, <2>2 DEF Key, Target
  <2>4. PICK seen : seen = IF c.path = c.toPath THEN RemoveFile(cache, c.server, c.path, c.toName) ELSE cache
    OBVIOUS
  <2>5. PICK known \in BOOLEAN : known <=> IsCached(cache, k) /\ ShowsDir(seen, k, c.name)
    OBVIOUS
  <2>6. PICK keys : keys = IF known THEN OtherCase(c) ELSE Below(c)
    OBVIOUS
  <2>7. PICK d : d = Rename(cache, c.server, c.path, c.name, c.toPath, c.toName)
    OBVIOUS
  <2>8. CacheOK(d) /\ Weaker(cache, d) /\ (known => Gone(d, c.server, c.path, c.name))
    BY <2>1, <2>2, <2>4, <2>5, <2>7, OpsStay, RenameOK
  <2>9. cache' = Excuse(d, keys) /\ op' = [op EXCEPT ![e] = Idle]
    <3>1. /\ op' = [op EXCEPT ![e] = Idle]
          /\ cache' = Excuse(Rename(cache, k.server, k.path, c.name, c.toPath, c.toName),
                 IF IsCached(cache, k) /\ ShowsDir(IF c.path = c.toPath THEN RemoveFile(cache, k.server, k.path, c.toName) ELSE cache, k, c.name)
                 THEN OtherCase(c) ELSE Below(c))
      BY <1>1, <1>2, <1>3, <1>5, <2>3 DEF RenameReply, End
    <3> QED BY <3>1, <2>3, <2>4, <2>5, <2>6, <2>7
  <2>10. CacheOK(cache') /\ Weaker(d, cache') /\ \A x \in DOMAIN cache'.entries : x \in keys => cache'.entries[x].excused
    BY <2>8, <2>9, ExcuseOK
  <2>11. Weaker(cache, cache') /\ (known => Gone(cache', c.server, c.path, c.name))
    BY <2>8, <2>10, WeakerTrans, GoneStays
  <2>12. ToldLate(c) = Below(c)
    BY <1>3, <1>5, ToldFacts
  <2>13. \A x \in DOMAIN cache'.entries : x \in Below(c) => x \in keys
    <3>1. CASE known
      BY <3>1, <1>5, <2>6, <2>11, BelowGone
    <3>2. CASE ~known
      BY <3>2, <2>6
    <3> QED BY <3>1, <3>2
  <2>14. ToldNow(e)
    BY <1>2, <2>10, <2>12, <2>13 DEF ToldNow, Marked
  <2> QED BY <1>1, <2>9, <2>10, <2>11, <2>14, ReplyQuiet
<1>6. CASE c.state # "ok" /\ End(e) /\ cache' = cache
  <2>1. CacheOK(cache') /\ Weaker(cache, cache') /\ op' = [op EXCEPT ![e] = Idle]
    BY <1>6, OpsStay, WeakerSame DEF End
  <2>2. c.state # "partial"
    BY <1>3 DEF Plausible
  <2> QED BY <2>1, <2>2, <1>1, <1>2, <1>6, NothingTold, ReplyQuiet
<1> QED BY <1>1, <1>2, <1>4, <1>5, <1>6 DEF RenameReply

(* MkdReply. *)
LEMMA MkdReplyStep ==
    ASSUME IInv, NEW e \in Engines, Reply(e), op[e].cmd.kind = "mkd"
    PROVE  IInv'
<1>1. /\ op[e].stage = "wait" /\ MkdReply(e) /\ sent' = [sent EXCEPT ![e] = Nothing]
      /\ remote' = remote /\ ghosts' = ghosts /\ ops' = ops
  BY DEF Reply
<1>2. PICK q \in Operations, cmd \in AllCommands, c \in SentCommands : q = op[e] /\ cmd = op[e].cmd /\ c = sent[e]
  BY <1>1, WaitFacts
<1>3. Plausible(c) /\ c.kind \in {"mkd", "mkdfull"} /\ c.server = ServerOf[e]
  BY <1>1, <1>2, WaitFacts DEF Matches, KindsOf
<1>4. cmd \in FileCommands /\ cmd.kind = "mkd" /\ cmd.names \in SomeNames /\ cmd.path \in Seq(Names)
  BY <1>2, CommandFacts
<1>5. op = [f \in Engines |-> op[f]]
  BY OpsStay, TypeParts
<1>6. CASE c.kind = "mkd" /\ c.state \in {"ok", "exists"}
  <2>1. PICK k, name : k = Target(e) /\ name = Head(cmd.names)
    OBVIOUS
  <2>2. k.server = ServerOf[e] /\ k.path = cmd.path
    BY <1>2, <2>1 DEF Target, Key
  <2>3. name \in Names /\ Unknown \in Int
    BY <1>4, <2>1, NamesFacts DEF Unknown
  <2>4. cache' = UpdateFile(cache, k.server, k.path, name, TRUE, "dir", Unknown)
    BY <1>1, <1>2, <1>6, <2>1 DEF MkdReply
  <2>5. CacheOK(cache') /\ Weaker(cache, cache') /\ Marks(cache', ServerOf[e], cmd.path)
    BY <2>2, <2>3, <2>4, OpsStay, UpdateFileOK
  <2>6. ToldNow(e)
    BY <1>1, <1>2, <1>6, <2>5, MarksTold
  <2>7. CASE op' = [op EXCEPT ![e] = Idle]
    BY <2>5, <2>6, <2>7, <1>1, ReplyQuiet
  <2>8. CASE /\ op' = [op EXCEPT ![e].cmd.path = Append(cmd.path, name), ![e].cmd.names = Tail(cmd.names), ![e].stage = "send"]
             /\ Len(cmd.names) # 1
    <3>1. PICK names \in SomeNames, path \in Seq(Names) : names = Tail(cmd.names) /\ path = Append(cmd.path, name)
      <4>1. Tail(cmd.names) \in SomeNames
        BY <1>4, <2>8, NamesFacts
      <4>2. Append(cmd.path, name) \in Seq(Names)
        BY <1>4, <2>3
      <4> QED BY <4>1, <4>2
    <3>2. PICK d : d = [cmd EXCEPT !.path = path, !.names = names]
      OBVIOUS
    <3>3. d \in FileCommands /\ d.kind = cmd.kind
      BY <1>4, <3>1, <3>2 DEF FileCommands
    <3>4. PICK o : o = [q EXCEPT !.cmd = d, !.stage = "send"]
      OBVIOUS
    <3>5. o \in Operations /\ o.stage = "send" /\ o.cmd = d
      BY <1>2, <3>3, <3>4 DEF Operations, Stages
    <3>6. op' = [op EXCEPT ![e] = o]
      <4>1. op' = [op EXCEPT ![e].cmd.path = path, ![e].cmd.names = names, ![e].stage = "send"]
        BY <2>8, <3>1
      <4> QED BY <4>1, <1>2, <1>5, <3>2, <3>4
    <3>7. o.stage \in StagesOf(o.cmd.kind) \ {"wait"}
      BY <3>3, <3>5, <1>4 DEF StagesOf
    <3> QED BY <3>5, <3>6, <3>7, <2>5, <2>6, <1>1, ReplyQuiet
  <2> QED BY <1>1, <1>2, <1>6, <2>1, <2>7, <2>8 DEF MkdReply
<1>7. CASE c.kind = "mkd" /\ c.state = "failed" /\ End(e) /\ cache' = cache
  <2>1. op' = [op EXCEPT ![e] = Idle]
    BY <1>7 DEF End
  <2>2. CacheOK(cache') /\ Weaker(cache, cache')
    BY <1>7, OpsStay, WeakerSame
  <2> QED BY <1>1, <1>2, <1>7, <2>1, <2>2, NothingTold, ReplyQuiet
<1>8. CASE c.kind = "mkdfull"
  <2>1. op' = [op EXCEPT ![e] = Idle] /\ cache' = IF c.state = "ok" THEN Excuse(cache, Changes(c)) ELSE cache
    BY <1>1, <1>2, <1>8 DEF MkdReply, End
  <2>2. CacheOK(cache') /\ Weaker(cache, cache')
    BY <2>1, OpsStay, ExcuseOK, WeakerSame
  <2>3. ToldLate(c) \subseteq Changes(c) /\ c.state # "partial"
    BY <1>3, <1>8 DEF ToldLate, Changes, Plausible
  <2>4. c.state = "ok" => \A k \in DOMAIN cache'.entries : k \in Changes(c) => cache'.entries[k].excused
    BY <2>1, OpsStay, ExcuseOK
  <2>5. ToldNow(e)
    BY <1>2, <2>3, <2>4 DEF ToldNow, Marked
  <2> QED BY <2>1, <2>2, <2>5, <1>1, ReplyQuiet
<1> QED BY <1>1, <1>2, <1>3, <1>6, <1>7, <1>8 DEF MkdReply

(* What is under way. *)
LEMMA PendingFacts ==
    ASSUME TypeOK
    PROVE  \A c : c \in Pending <=>
               (c \in ghosts \/ \E f \in Engines : c = sent[f]) /\ c.kind # "nothing" /\ c.state = "pending"
<1>1. DOMAIN sent = Engines
  BY TypeParts
<1> QED BY <1>1 DEF Pending, Range

(* The commands under way after a step. *)
LEMMA PendingNext ==
    ASSUME TypeOK'
    PROVE  \A c : c \in Pending' <=>
               (c \in ghosts' \/ \E f \in Engines : c = sent'[f]) /\ c.kind # "nothing" /\ c.state = "pending"
<1>1. DOMAIN sent' = Engines
  BY TypePartsNext
<1> QED BY <1>1 DEF Pending, Range

(* A listing that was received is stored. *)
LEMMA ListReplyStep ==
    ASSUME IInv, NEW e \in Engines, Reply(e), op[e].cmd.kind = "list"
    PROVE  IInv'
<1>1. /\ op[e].stage = "wait" /\ ListReply(e) /\ op' = [op EXCEPT ![e] = Idle] /\ sent' = [sent EXCEPT ![e] = Nothing]
      /\ remote' = remote /\ ghosts' = ghosts /\ ops' = ops
  BY DEF Reply, ListReply, End
<1>2. PICK cmd \in AllCommands, c \in SentCommands : cmd = op[e].cmd /\ c = sent[e]
  BY <1>1, WaitFacts
<1>3. c.kind = "list" /\ Plausible(c) /\ c.server = ServerOf[e] /\ c.path = cmd.path
  BY <1>1, <1>2, WaitFacts DEF Matches, KindsOf
<1>4. CASE c.state # "ok"
  <2>1. CacheOK(cache') /\ Weaker(cache, cache')
    BY <1>1, <1>2, <1>4, OpsStay, WeakerSame DEF ListReply
  <2> QED BY <2>1, <1>1, <1>2, <1>3, NothingTold, ReplyQuiet
<1>5. CASE c.state = "ok"
  <2>0. TypeOK /\ CacheOK(cache)
    BY OpsStay
  <2>1. PICK k \in Keys : k = Dir(c) /\ k = Target(e)
    <3>1. Dir(c) \in Keys
      BY <1>3, SentFacts DEF Dir, Key, Keys
    <3>2. Dir(c) = Target(e)
      BY <1>2, <1>3 DEF Dir, Target
    <3> QED BY <3>1, <3>2
  <2>2. PICK L \in Listings : L = Listing(c.files, c.excused) /\ L.files = c.files /\ L.excused = c.excused
    <3>1. PICK files \in Seq(Dirents), excused \in BOOLEAN : files = c.files /\ excused = c.excused
      BY SentFacts
    <3>2. Listing(files, excused) \in Listings /\ Listing(files, excused).files = files /\ Listing(files, excused).excused = excused
      BY DEF Listing, Listings
    <3> QED BY <3>1, <3>2
  <2>3. cache' = Store(cache, k, L)
    BY <1>1, <1>2, <1>5, <2>1, <2>2 DEF ListReply
  <2>4. /\ CacheOK(cache')
        /\ \A q \in DOMAIN cache'.entries :
              IF q = k THEN cache'.entries[q] = L ELSE q \in DOMAIN cache.entries /\ cache'.entries[q] = cache.entries[q]
    BY <2>0, <2>3, StoreOK
  <2>5. /\ op \in [Engines -> {Idle} \cup Operations] /\ sent \in [Engines -> {Nothing} \cup SentCommands]
        /\ RemoteOK(remote) /\ ghosts \subseteq SentCommands /\ ops \in 0 .. MaxOps
    BY <2>0, TypeParts
  <2>6. /\ op' \in [Engines -> {Idle} \cup Operations] /\ op'[e] = Idle /\ \A f \in Engines \ {e} : op'[f] = op[f]
        /\ sent' \in [Engines -> {Nothing} \cup SentCommands] /\ sent'[e] = Nothing
        /\ \A f \in Engines \ {e} : sent'[f] = sent[f]
    BY <1>1, <2>5, IdleFacts
  <2>7. Idle.stage = "idle" /\ Nothing.kind = "nothing"
    BY IdleFacts
  <2>8. TypeOK'
    BY <1>1, <2>4, <2>5, <2>6, TypePartsNext DEF CacheOK
  <2>9. \A x \in Pending' : x \in Pending
    BY <2>0, <2>8, <1>1, <2>6, <2>7, PendingFacts, PendingNext
  <2>10. InStep'
    BY <2>6, <2>7 DEF IInv, InStep
  <2>11. AllPlausible'
    BY <1>1, <2>6 DEF IInv, AllPlausible, Plausible
  <2>12. ASSUME NEW x \in Pending, k \in Changes(x) PROVE L.excused
    BY <1>2, <1>3, <1>5, <2>1, <2>2, <2>12 DEF IInv, ReceivedIsTrue
  <2>13. ASSUME NEW q \in DOMAIN cache'.entries, q # k
         PROVE  q \in DOMAIN cache.entries /\ cache'.entries[q] = cache.entries[q] /\ Marked(q)' = Marked(q)
    BY <2>4, <2>13 DEF Marked
  <2>14. k \in DOMAIN cache'.entries => Marked(k)' = (L.unsure \/ L.excused)
    BY <2>4 DEF Marked
  <2>15. SureListingsAreTrue'
    <3> SUFFICES ASSUME NEW q \in DOMAIN cache'.entries, ~Marked(q)', ~Awaited(q)'
                 PROVE  Shows(q)'
      BY DEF SureListingsAreTrue, Marked
    <3>1. CASE q = k
      <4>1. ~c.excused /\ cache'.entries[q].files = c.files
        BY <3>1, <2>2, <2>4, <2>14
      <4>2. k \in DOMAIN remote /\ Range(c.files) = remote[k] /\ Len(c.files) = Cardinality(remote[k])
        BY <4>1, <1>2, <1>3, <1>5, <2>1 DEF IInv, ReceivedIsTrue, TrueListing
      <4> QED BY <4>1, <4>2, <3>1, <1>1 DEF Shows
    <3>2. CASE q # k
      <4>1. q \in DOMAIN cache.entries /\ cache'.entries[q] = cache.entries[q] /\ ~Marked(q)
        BY <3>2, <2>13
      <4>2. ~Awaited(q)
        <5> SUFFICES ASSUME NEW f \in Engines, op[f].stage = "wait", sent[f].state \in {"ok", "partial"}, q \in ToldLate(sent[f])
                     PROVE  FALSE
          BY DEF Awaited
        <5>1. f # e
          BY <1>2, <1>3, ToldFacts
        <5> QED BY <5>1, <2>6 DEF Awaited
      <4>3. Shows(q)
        BY <4>1, <4>2 DEF IInv, SureListingsAreTrue, Marked
      <4> QED BY <4>1, <4>3, <1>1 DEF Shows
    <3> QED BY <3>1, <3>2
  <2>16. ReceivedIsTrue'
    <3> SUFFICES ASSUME NEW f \in Engines, sent'[f].kind = "list", sent'[f].state = "ok", ~sent'[f].excused
                 PROVE  /\ TrueListing(sent[f].files, Dir(sent[f]))'
                        /\ \A x \in Pending' : Dir(sent'[f]) \notin Changes(x)
      BY DEF ReceivedIsTrue
    <3>1. sent'[f] = sent[f]
      BY <2>6, <2>7
    <3>2. TrueListing(sent[f].files, Dir(sent[f])) /\ \A x \in Pending : Dir(sent[f]) \notin Changes(x)
      BY <3>1 DEF IInv, ReceivedIsTrue
    <3>3. TrueListing(sent[f].files, Dir(sent[f]))'
      BY <3>1, <3>2, <1>1 DEF TrueListing
    <3> QED BY <3>1, <3>2, <3>3, <2>9
  <2>17. GhostsAreMarked'
    <3> SUFFICES ASSUME NEW x \in ghosts', NEW q \in Changes(x), q \in DOMAIN cache'.entries
                 PROVE  Marked(q)'
      BY DEF GhostsAreMarked
    <3>1. x \in Pending /\ x \in ghosts
      BY <1>1, <2>0, <2>5, SentFacts, PendingFacts DEF IInv, AllPlausible
    <3>2. CASE q = k
      BY <3>1, <3>2, <2>12, <2>14
    <3>3. CASE q # k
      BY <3>1, <3>3, <2>13 DEF IInv, GhostsAreMarked
    <3> QED BY <3>2, <3>3
  <2>18. PendingIsMarked'
    <3> SUFFICES ASSUME NEW f \in Engines, sent'[f].kind # "nothing", sent'[f].state = "pending",
                        NEW q \in Changes(sent'[f]), q \in DOMAIN cache'.entries, ~Marked(q)'
                 PROVE  op'[f].stage = "wait" /\ q \in ToldLate(sent'[f])
      BY DEF PendingIsMarked
    <3>1. f # e /\ sent'[f] = sent[f] /\ op'[f] = op[f]
      BY <2>6, <2>7
    <3>2. sent[f] \in Pending
      BY <3>1, <2>0, PendingFacts
    <3>3. q # k
      BY <3>1, <3>2, <2>12, <2>14
    <3>4. q \in DOMAIN cache.entries /\ ~Marked(q)
      BY <3>3, <2>13
    <3> QED BY <3>1, <3>4 DEF IInv, PendingIsMarked
  <2>19. CacheOK(cache)'
    BY <2>4
  <2> QED BY <2>8, <2>10, <2>11, <2>15, <2>16, <2>17, <2>18, <2>19 DEF IInv
<1> QED BY <1>4, <1>5

(* All replies. *)
LEMMA ReplyStep ==
    ASSUME IInv, NEW e \in Engines, Reply(e)
    PROVE  IInv'
<1>1. op[e].stage = "wait"
  BY DEF Reply
<1>2. PICK cmd \in AllCommands : cmd = op[e].cmd
  BY <1>1, WaitFacts
<1>3. cmd.kind \in {"list", "delete", "rmd", "mkd", "upload", "chmod", "raw", "rename"}
  BY CommandFacts
<1> QED BY <1>2, <1>3, ListReplyStep, DeleteReplyStep, RenameReplyStep, RemoveDirReplyStep, MkdReplyStep,
           ChmodReplyStep, UploadReplyStep, RawReplyStep

-----------------------------------------------------------------------------
(* A command is sent. *)

(* The listings it may change are marked, but those the reply will tell of. *)
MarksFirst(d, n) ==
    \A k \in DOMAIN d.entries : k \in Changes(n) => d.entries[k].unsure \/ d.entries[k].excused \/ k \in ToldLate(n)

(* The fields of Cmd. *)
LEMMA CmdFacts ==
    ASSUME NEW kind \in Kinds \ {"list"}, NEW k \in Places, NEW name \in Names, NEW c, c = Cmd(kind, k, name)
    PROVE  /\ c \in SentCommands /\ c.kind = kind /\ c.server = k.server /\ c.path = k.path /\ c.name = name
           /\ c.toPath = k.path /\ c.toName = name /\ c.state = "pending" /\ c.size = Unknown
<1>1. c \in SentCommands
  BY CmdType
<1> QED BY <1>1 DEF Cmd

(* Changes is what is told late and what is marked first. *)
LEMMA ChangesFacts ==
    ASSUME NEW n \in SentCommands
    PROVE  /\ n.kind = "rnfr" => Changes(n) = {}
           /\ n.kind \in {"mkd", "mkdfull", "stor", "chmod"} => Changes(n) = ToldLate(n)
           /\ n.kind \in {"dele", "raw", "rmd"} /\ n.toPath = n.path => Changes(n) \subseteq {Dir(n)} \cup ToldLate(n)
           /\ n.kind = "rnto" => Changes(n) \subseteq {Dir(n), ToDir(n)} \cup ToldLate(n)
           /\ Dir(n).server = n.server /\ Dir(n).path = n.path /\ ToDir(n).server = n.server /\ ToDir(n).path = n.toPath
<1>1. n.toPath = n.path => ToDir(n) = Dir(n)
  BY DEF ToDir, Dir
<1> QED BY <1>1 DEF Changes, ToldLate, Named, Below, Dir, ToDir, Key

(* InvalidateFirst marks what the command will not tell late. *)
LEMMA SendFacts ==
    ASSUME IInv, NEW e \in Engines, op[e].stage \in {"send", "rnto", "full"}, NEW n, n = NextCommand(e),
           NEW d, d = InvalidateFirst(e)
    PROVE  /\ n \in SentCommands /\ n.state = "pending" /\ n.kind # "list" /\ Plausible(n)
           /\ Matches(n, op[e].cmd, ServerOf[e])
           /\ CacheOK(d) /\ Weaker(cache, d) /\ MarksFirst(d, n)
<1>0. TypeOK /\ CacheOK(cache) /\ ServerOf[e] \in Servers
  BY OpsStay, OperationsAssumption
<1>1. PICK q \in Operations, cmd \in AllCommands : q = op[e] /\ cmd = q.cmd
  BY <1>0, OpFacts
<1>2. q.stage \in StagesOf(cmd.kind) /\ q.stage \in {"send", "rnto", "full"}
  BY <1>0, <1>1, OpFacts DEF IInv, InStep
<1>3. cmd.kind \in {"delete", "rmd", "mkd", "upload", "chmod", "raw", "rename"} /\ cmd.path \in Seq(Names)
  BY <1>2, CommandFacts DEF StagesOf
<1>4. cmd.names \in SomeNames
  BY <1>3, CommandFacts
<1>5. Last(cmd.names) \in Names /\ Head(cmd.names) \in Names /\ Front(cmd.names) \in Seq(Names)
  BY <1>4, NamesFacts
<1>6. PICK server \in Servers, path \in Seq(Names), name \in Names :
          server = ServerOf[e] /\ path = cmd.path /\ name = Last(cmd.names)
  BY <1>0, <1>3, <1>5
<1>7. PICK k \in Places : k = Target(e) /\ k.server = server /\ k.path = path
  BY <1>1, <1>6, KeyFacts DEF Target
<1>8. CASE cmd.kind = "delete"
  <2>1. n = Cmd("dele", k, name) /\ d = InvalidateFile(cache, server, path, name)
    BY <1>1, <1>6, <1>7, <1>8 DEF NextCommand, InvalidateFirst
  <2>2. /\ n \in SentCommands /\ n.kind = "dele" /\ n.server = server /\ n.path = path /\ n.name = name
        /\ n.toPath = n.path /\ n.state = "pending"
    BY <2>1, <1>7, CmdFacts DEF Kinds
  <2>3. Plausible(n) /\ Matches(n, cmd, server)
    BY <2>2, <1>6, <1>8 DEF Plausible, Matches, KindsOf
  <2>4. CacheOK(d) /\ Weaker(cache, d) /\ \A x \in DOMAIN d.entries : x.server = server /\ x.path = path => d.entries[x].unsure
    BY <2>1, <1>0, InvalidateFileOK
  <2>5. MarksFirst(d, n)
    BY <2>2, <2>4, ChangesFacts DEF MarksFirst
  <2> QED BY <2>2, <2>3, <2>4, <2>5, <1>1, <1>6
<1>9. CASE cmd.kind = "rmd"
  <2>1. n = Cmd("rmd", k, name) /\ d = InvalidateFile(cache, server, path, name)
    BY <1>1, <1>6, <1>7, <1>9 DEF NextCommand, InvalidateFirst
  <2>2. /\ n \in SentCommands /\ n.kind = "rmd" /\ n.server = server /\ n.path = path /\ n.name = name
        /\ n.toPath = n.path /\ n.state = "pending"
    BY <2>1, <1>7, CmdFacts DEF Kinds
  <2>3. Plausible(n) /\ Matches(n, cmd, server)
    BY <2>2, <1>6, <1>9 DEF Plausible, Matches, KindsOf
  <2>4. CacheOK(d) /\ Weaker(cache, d) /\ \A x \in DOMAIN d.entries : x.server = server /\ x.path = path => d.entries[x].unsure
    BY <2>1, <1>0, InvalidateFileOK
  <2>5. MarksFirst(d, n)
    BY <2>2, <2>4, ChangesFacts DEF MarksFirst
  <2> QED BY <2>2, <2>3, <2>4, <2>5, <1>1, <1>6
<1>10. CASE cmd.kind = "raw"
  <2>1. n = Cmd("raw", k, name) /\ d = InvalidateServer(cache, server)
    BY <1>1, <1>6, <1>7, <1>10 DEF NextCommand, InvalidateFirst
  <2>2. /\ n \in SentCommands /\ n.kind = "raw" /\ n.server = server /\ n.path = path /\ n.name = name
        /\ n.toPath = n.path /\ n.state = "pending"
    BY <2>1, <1>7, CmdFacts DEF Kinds
  <2>3. Plausible(n) /\ Matches(n, cmd, server)
    BY <2>2, <1>6, <1>10 DEF Plausible, Matches, KindsOf
  <2>4. CacheOK(d) /\ Weaker(cache, d) /\ \A x \in DOMAIN d.entries : x.server # server
    BY <2>1, <1>0, InvalidateServerOK
  <2>5. MarksFirst(d, n)
    BY <2>2, <2>4, ChangesFacts DEF MarksFirst
  <2> QED BY <2>2, <2>3, <2>4, <2>5, <1>1, <1>6
<1>11. CASE cmd.kind = "rename" /\ q.stage = "send"
  <2>1. n = Cmd("rnfr", k, name) /\ d = cache
    BY <1>1, <1>6, <1>7, <1>11 DEF NextCommand, InvalidateFirst
  <2>2. /\ n \in SentCommands /\ n.kind = "rnfr" /\ n.server = server /\ n.path = path /\ n.name = name
        /\ n.toPath = n.path /\ n.state = "pending"
    BY <2>1, <1>7, CmdFacts DEF Kinds
  <2>3. Plausible(n) /\ Matches(n, cmd, server)
    BY <2>2, <1>6, <1>11 DEF Plausible, Matches, KindsOf
  <2>4. CacheOK(d) /\ Weaker(cache, d)
    BY <2>1, <1>0, WeakerSame
  <2>5. MarksFirst(d, n)
    BY <2>2, ChangesFacts DEF MarksFirst
  <2> QED BY <2>2, <2>3, <2>4, <2>5, <1>1, <1>6
<1>12. CASE cmd.kind = "rename" /\ q.stage = "rnto"
  <2>1. PICK toPath \in Seq(Names), toName \in Names : toPath = cmd.toPath /\ toName = cmd.toName
    BY <1>12, CommandFacts
  <2>2. PICK b, c : b = Cmd("rnto", k, name) /\ c = InvalidateFile(cache, server, path, name)
    OBVIOUS
  <2>3. n = [b EXCEPT !.toPath = toPath, !.toName = toName] /\ d = InvalidateFile(c, server, toPath, toName)
    BY <1>1, <1>6, <1>7, <1>12, <2>1, <2>2 DEF NextCommand, InvalidateFirst
  <2>4. /\ b \in SentCommands /\ b.kind = "rnto" /\ b.server = server /\ b.path = path /\ b.name = name
        /\ b.state = "pending"
    BY <2>2, <1>7, CmdFacts DEF Kinds
  <2>5. /\ n \in SentCommands /\ n.kind = "rnto" /\ n.server = server /\ n.path = path /\ n.name = name
        /\ n.toPath = toPath /\ n.toName = toName /\ n.state = "pending"
    <3>1. PICK m : m = [b EXCEPT !.toPath = toPath]
      OBVIOUS
    <3>2. /\ m \in SentCommands /\ m.kind = "rnto" /\ m.server = server /\ m.path = path /\ m.name = name
          /\ m.toPath = toPath /\ m.state = "pending"
      BY <3>1, <2>4 DEF SentCommands
    <3>3. n = [m EXCEPT !.toName = toName]
      BY <3>1, <2>3
    <3> QED BY <3>2, <3>3 DEF SentCommands
  <2>6. Plausible(n) /\ Matches(n, cmd, server)
    BY <2>1, <2>5, <1>6, <1>12 DEF Plausible, Matches, KindsOf
  <2>7. CacheOK(c) /\ Weaker(cache, c) /\ \A x \in DOMAIN c.entries : x.server = server /\ x.path = path => c.entries[x].unsure
    BY <2>2, <1>0, InvalidateFileOK
  <2>8. CacheOK(d) /\ Weaker(c, d) /\ \A x \in DOMAIN d.entries : x.server = server /\ x.path = toPath => d.entries[x].unsure
    BY <2>3, <2>7, InvalidateFileOK
  <2>9. Weaker(cache, d)
    BY <2>7, <2>8, WeakerTrans
  <2>10. \A x \in DOMAIN d.entries : x.server = server /\ x.path = path => d.entries[x].unsure
    BY <2>7, <2>8 DEF Weaker
  <2>11. MarksFirst(d, n)
    BY <2>5, <2>8, <2>10, ChangesFacts DEF MarksFirst
  <2> QED BY <2>5, <2>6, <2>8, <2>9, <2>11, <1>1, <1>6
<1>13. CASE cmd.kind \in {"upload", "chmod"}
  <2>1. PICK kind \in {"stor", "chmod"}, size \in Int :
            kind = (IF cmd.kind = "upload" THEN "stor" ELSE "chmod") /\ size = cmd.size
    BY <1>13, CommandFacts
  <2>2. PICK b : b = Cmd(kind, k, name)
    OBVIOUS
  <2>3. n = [b EXCEPT !.size = size] /\ d = cache
    BY <1>1, <1>6, <1>7, <1>13, <2>1, <2>2 DEF NextCommand, InvalidateFirst
  <2>4. /\ b \in SentCommands /\ b.kind = kind /\ b.server = server /\ b.path = path /\ b.name = name
        /\ b.toPath = b.path /\ b.state = "pending"
    BY <2>1, <2>2, <1>7, CmdFacts DEF Kinds
  <2>5. /\ n \in SentCommands /\ n.kind = kind /\ n.server = server /\ n.path = path /\ n.name = name
        /\ n.toPath = n.path /\ n.state = "pending"
    BY <2>3, <2>4 DEF SentCommands
  <2>6. Plausible(n) /\ Matches(n, cmd, server)
    BY <2>1, <2>5, <1>6, <1>13 DEF Plausible, Matches, KindsOf
  <2>7. CacheOK(d) /\ Weaker(cache, d)
    BY <2>3, <1>0, WeakerSame
  <2>8. MarksFirst(d, n)
    BY <2>1, <2>5, ChangesFacts DEF MarksFirst
  <2> QED BY <2>1, <2>5, <2>6, <2>7, <2>8, <1>1, <1>6
<1>14. CASE cmd.kind = "mkd" /\ q.stage = "send"
  <2>1. PICK first \in Names : first = Head(cmd.names)
    BY <1>5
  <2>2. n = Cmd("mkd", k, first) /\ d = cache
    BY <1>1, <1>6, <1>7, <1>14, <2>1 DEF NextCommand, InvalidateFirst
  <2>3. /\ n \in SentCommands /\ n.kind = "mkd" /\ n.server = server /\ n.path = path /\ n.name = first
        /\ n.toPath = n.path /\ n.state = "pending"
    BY <2>2, <1>7, CmdFacts DEF Kinds
  <2>4. Plausible(n) /\ Matches(n, cmd, server)
    BY <2>1, <2>3, <1>6, <1>14 DEF Plausible, Matches, KindsOf
  <2>5. CacheOK(d) /\ Weaker(cache, d)
    BY <2>2, <1>0, WeakerSame
  <2>6. MarksFirst(d, n)
    BY <2>3, ChangesFacts DEF MarksFirst
  <2> QED BY <2>3, <2>4, <2>5, <2>6, <1>1, <1>6
<1>15. CASE cmd.kind = "mkd" /\ q.stage = "full"
  <2>1. PICK full \in Seq(Names) : full = path \o Front(cmd.names)
    BY <1>5, <1>6, ConcatProperties
  <2>2. PICK p \in Places : p = Key(server, full) /\ p.server = server /\ p.path = full
    BY KeyFacts
  <2>3. n = Cmd("mkdfull", p, name) /\ d = cache
    BY <1>1, <1>6, <1>7, <1>15, <2>1, <2>2 DEF NextCommand, InvalidateFirst
  <2>4. /\ n \in SentCommands /\ n.kind = "mkdfull" /\ n.server = server /\ n.name = name
        /\ n.toPath = n.path /\ n.state = "pending"
    BY <2>2, <2>3, CmdFacts DEF Kinds
  <2>5. Plausible(n) /\ Matches(n, cmd, server)
    BY <2>4, <1>6, <1>15 DEF Plausible, Matches, KindsOf
  <2>6. CacheOK(d) /\ Weaker(cache, d)
    BY <2>3, <1>0, WeakerSame
  <2>7. MarksFirst(d, n)
    BY <2>4, ChangesFacts DEF MarksFirst
  <2> QED BY <2>4, <2>5, <2>6, <2>7, <1>1, <1>6
<1>17. cmd.kind = "rename" => q.stage \in {"send", "rnto"}
  BY <1>2 DEF StagesOf
<1>18. cmd.kind = "mkd" => q.stage \in {"send", "full"}
  BY <1>2 DEF StagesOf
<1> QED BY <1>3, <1>8, <1>9, <1>10, <1>11, <1>12, <1>13, <1>14, <1>15, <1>17, <1>18

(* Send. *)
LEMMA SendStep ==
    ASSUME IInv, NEW e \in Engines, Send(e)
    PROVE  IInv'
<1>0. TypeOK /\ CacheOK(cache)
  BY OpsStay
<1>1. PICK n : n = NextCommand(e)
  OBVIOUS
<1>2. /\ op[e].stage \in {"send", "rnto", "full"} /\ sent[e] = Nothing /\ cache' = InvalidateFirst(e)
      /\ remote' = remote /\ ghosts' = ghosts /\ ops' = ops
      /\ op' = [op EXCEPT ![e].stage = "wait"]
      /\ sent' = [f \in Engines |->
                     IF f = e THEN n
                     ELSE IF sent[f].kind = "list" /\ sent[f].state = "ok" /\ Dir(sent[f]) \in Changes(n)
                     THEN [sent[f] EXCEPT !.excused = TRUE] ELSE sent[f]]
  BY <1>1 DEF Send, SendCommand, Go
<1>3. /\ n \in SentCommands /\ n.state = "pending" /\ n.kind # "list" /\ Plausible(n)
      /\ Matches(n, op[e].cmd, ServerOf[e])
      /\ CacheOK(cache') /\ Weaker(cache, cache') /\ MarksFirst(cache', n)
  BY <1>1, <1>2, SendFacts
<1>4. n.kind # "nothing" /\ n # Nothing /\ Idle.stage = "idle" /\ Nothing.kind = "nothing"
  BY <1>3, SentFacts, IdleFacts
<1>5. /\ op \in [Engines -> {Idle} \cup Operations] /\ sent \in [Engines -> {Nothing} \cup SentCommands]
      /\ RemoteOK(remote) /\ ghosts \subseteq SentCommands /\ ops \in 0 .. MaxOps
  BY <1>0, TypeParts
<1>6. PICK o \in Operations : o.stage = "wait" /\ o.cmd = op[e].cmd /\ op' = [op EXCEPT ![e] = o]
  <2>1. PICK q \in Operations : q = op[e]
    BY <1>0, <1>2, OpFacts
  <2>2. PICK o : o = [q EXCEPT !.stage = "wait"]
    OBVIOUS
  <2>3. o \in Operations /\ o.stage = "wait" /\ o.cmd = q.cmd
    BY <2>2 DEF Operations, Stages
  <2>4. op = [f \in Engines |-> op[f]]
    BY <1>5
  <2>5. op' = [op EXCEPT ![e] = o]
    BY <1>2, <2>1, <2>2, <2>4
  <2> QED BY <2>1, <2>3, <2>5
<1>7. op' \in [Engines -> {Idle} \cup Operations] /\ op'[e] = o /\ \A f \in Engines \ {e} : op'[f] = op[f]
  BY <1>5, <1>6
<1>8. ASSUME NEW f \in Engines \ {e}
      PROVE  /\ sent'[f] \in {Nothing} \cup SentCommands
             /\ \/ sent'[f] = sent[f]
                \/ /\ sent[f] \in SentCommands /\ sent'[f] = [sent[f] EXCEPT !.excused = TRUE]
                   /\ sent[f].kind = "list" /\ sent[f].state = "ok"
             /\ sent[f].kind = "list" /\ sent[f].state = "ok" /\ Dir(sent[f]) \in Changes(n) =>
                   sent[f] \in SentCommands /\ sent'[f] = [sent[f] EXCEPT !.excused = TRUE]
  <2>1. sent[f] \in {Nothing} \cup SentCommands
    BY <1>5
  <2>2. sent'[f] = IF sent[f].kind = "list" /\ sent[f].state = "ok" /\ Dir(sent[f]) \in Changes(n)
                   THEN [sent[f] EXCEPT !.excused = TRUE] ELSE sent[f]
    BY <1>2
  <2>3. sent[f].kind = "list" => sent[f] \in SentCommands
    BY <2>1, <1>4
  <2>4. sent[f] \in SentCommands => [sent[f] EXCEPT !.excused = TRUE] \in SentCommands
    <3>1. \A c \in SentCommands : [c EXCEPT !.excused = TRUE] \in SentCommands
      BY DEF SentCommands
    <3> QED BY <3>1
  <2> QED BY <2>1, <2>2, <2>3, <2>4
<1>9. \A c \in SentCommands : /\ [c EXCEPT !.excused = TRUE].kind = c.kind /\ [c EXCEPT !.excused = TRUE].state = c.state
                              /\ [c EXCEPT !.excused = TRUE].server = c.server /\ [c EXCEPT !.excused = TRUE].path = c.path
                              /\ [c EXCEPT !.excused = TRUE].toPath = c.toPath /\ [c EXCEPT !.excused = TRUE].excused
  BY DEF SentCommands
<1>10. ASSUME NEW f \in Engines \ {e}
       PROVE  /\ sent'[f].kind = sent[f].kind /\ sent'[f].state = sent[f].state
              /\ sent'[f] # sent[f] => /\ sent'[f].excused /\ sent'[f].kind = "list" /\ sent'[f].state = "ok"
                                       /\ sent'[f].server = sent[f].server /\ sent'[f].path = sent[f].path
                                       /\ sent'[f].toPath = sent[f].toPath /\ sent[f] \in SentCommands
                                       /\ sent'[f] \in SentCommands
              /\ sent[f].kind = "list" /\ sent[f].state = "ok" /\ Dir(sent[f]) \in Changes(n) => sent'[f].excused
  <2>1. PICK s, t : s = sent[f] /\ t = sent'[f]
    OBVIOUS
  <2>2. /\ t \in {Nothing} \cup SentCommands
        /\ t = s \/ (s \in SentCommands /\ t = [s EXCEPT !.excused = TRUE] /\ s.kind = "list" /\ s.state = "ok")
        /\ s.kind = "list" /\ s.state = "ok" /\ Dir(s) \in Changes(n) => s \in SentCommands /\ t = [s EXCEPT !.excused = TRUE]
    BY <2>1, <1>8
  <2>3. CASE t = s
    BY <2>1, <2>2, <2>3, <1>9
  <2>4. CASE s \in SentCommands /\ t = [s EXCEPT !.excused = TRUE] /\ s.kind = "list" /\ s.state = "ok"
    <3>1. /\ t.kind = "list" /\ t.state = "ok" /\ t.server = s.server /\ t.path = s.path /\ t.toPath = s.toPath /\ t.excused
          /\ t \in SentCommands
      BY <2>2, <2>4, <1>9, SentFacts, <1>4
    <3> QED BY <3>1, <2>1, <2>4
  <2> QED BY <2>2, <2>3, <2>4
<1>11. sent'[e] = n /\ sent' \in [Engines -> {Nothing} \cup SentCommands]
  <2>1. sent'[e] = n
    BY <1>2
  <2>2. \A f \in Engines : sent'[f] \in {Nothing} \cup SentCommands
    BY <2>1, <1>3, <1>8
  <2>3. sent' = [f \in Engines |-> sent'[f]]
    BY <1>2
  <2> QED BY <2>1, <2>2, <2>3
<1>12. TypeOK'
  BY <1>2, <1>3, <1>5, <1>7, <1>11, TypePartsNext DEF CacheOK
<1>13. InStep'
  <2> SUFFICES ASSUME NEW f \in Engines
               PROVE  /\ op'[f] # Idle => op'[f].stage \in StagesOf(op'[f].cmd.kind)
                      /\ op'[f].stage = "wait" => sent'[f] # Nothing /\ Matches(sent'[f], op'[f].cmd, ServerOf[f])
    BY DEF InStep
  <2>1. CASE f = e
    <3>1. "wait" \in StagesOf(o.cmd.kind)
      BY DEF StagesOf
    <3> QED BY <2>1, <3>1, <1>3, <1>4, <1>6, <1>7, <1>11
  <2>2. CASE f # e
    <3>1. op'[f] = op[f]
      BY <2>2, <1>7
    <3>2. CASE sent'[f] = sent[f]
      BY <3>1, <3>2 DEF IInv, InStep
    <3>3. CASE sent'[f] # sent[f]
      <4>1. /\ sent'[f].kind = "list" /\ sent'[f].server = sent[f].server /\ sent'[f].path = sent[f].path
            /\ sent'[f] \in SentCommands /\ sent[f].kind = "list"
        BY <2>2, <3>3, <1>10
      <4>2. sent'[f] # Nothing
        BY <4>1, SentFacts
      <4>3. op[f].stage = "wait" => Matches(sent[f], op[f].cmd, ServerOf[f])
        BY DEF IInv, InStep
      <4>4. op[f].stage = "wait" => Matches(sent'[f], op[f].cmd, ServerOf[f])
        BY <4>1, <4>3 DEF Matches
      <4> QED BY <3>1, <4>2, <4>4 DEF IInv, InStep
    <3> QED BY <3>2, <3>3
  <2> QED BY <2>1, <2>2
<1>14. AllPlausible'
  <2>1. ASSUME NEW f \in Engines, sent'[f] # Nothing PROVE Plausible(sent'[f])
    <3>1. CASE f = e
      BY <3>1, <1>3, <1>11
    <3>2. CASE f # e /\ sent'[f] = sent[f]
      BY <2>1, <3>2 DEF IInv, AllPlausible
    <3>3. CASE f # e /\ sent'[f] # sent[f]
      <4>1. /\ sent'[f].kind = "list" /\ sent'[f].state = "ok" /\ sent'[f].path = sent[f].path
            /\ sent'[f].toPath = sent[f].toPath /\ sent[f] \in SentCommands /\ sent[f].kind = "list"
        BY <3>3, <1>10
      <4>2. Plausible(sent[f])
        BY <4>1, SentFacts DEF IInv, AllPlausible
      <4> QED BY <4>1, <4>2 DEF Plausible
    <3> QED BY <3>1, <3>2, <3>3
  <2> QED BY <2>1, <1>2 DEF IInv, AllPlausible, Plausible
<1>15. SureListingsAreTrue'
  <2>1. ASSUME NEW k \in DOMAIN cache'.entries, Awaited(k) PROVE Awaited(k)'
    <3>1. PICK f \in Engines : op[f].stage = "wait" /\ sent[f].state \in {"ok", "partial"} /\ k \in ToldLate(sent[f])
      BY <2>1 DEF Awaited
    <3>2. f # e
      BY <3>1, <1>2
    <3>3. sent[f].kind # "list"
      BY <3>1, WaitFacts, ToldFacts
    <3>4. sent'[f] = sent[f] /\ op'[f] = op[f]
      BY <3>2, <3>3, <1>7, <1>10
    <3> QED BY <3>1, <3>4 DEF Awaited
  <2> QED BY <2>1, <1>2, <1>3, SureKept DEF IInv
<1>16. ASSUME NEW x \in Pending' PROVE x \in Pending \/ x = n
  <2>1. (x \in ghosts' \/ \E f \in Engines : x = sent'[f]) /\ x.kind # "nothing" /\ x.state = "pending"
    BY <1>12, PendingNext
  <2>2. CASE x \in ghosts'
    BY <2>1, <2>2, <1>0, <1>2, PendingFacts
  <2>3. CASE \E f \in Engines : x = sent'[f]
    <3>1. PICK f \in Engines : x = sent'[f]
      BY <2>3
    <3>2. f # e => sent'[f] = sent[f]
      BY <2>1, <3>1, <1>10
    <3> QED BY <2>1, <3>1, <3>2, <1>0, <1>11, PendingFacts
  <2> QED BY <2>1, <2>2, <2>3
<1>17. ReceivedIsTrue'
  <2> SUFFICES ASSUME NEW f \in Engines, sent'[f].kind = "list", sent'[f].state = "ok", ~sent'[f].excused
               PROVE  /\ TrueListing(sent[f].files, Dir(sent[f]))'
                      /\ \A x \in Pending' : Dir(sent'[f]) \notin Changes(x)
    BY DEF ReceivedIsTrue
  <2>1. f # e
    BY <1>3, <1>11
  <2>2. sent'[f] = sent[f]
    BY <2>1, <1>10
  <2>3. TrueListing(sent[f].files, Dir(sent[f])) /\ \A x \in Pending : Dir(sent[f]) \notin Changes(x)
    BY <2>2 DEF IInv, ReceivedIsTrue
  <2>4. TrueListing(sent[f].files, Dir(sent[f]))'
    BY <2>2, <2>3, <1>2 DEF TrueListing
  <2>5. Dir(sent[f]) \notin Changes(n)
    BY <2>1, <2>2, <1>10
  <2> QED BY <2>2, <2>3, <2>4, <2>5, <1>16
<1>18. GhostsAreMarked'
  BY <1>2, <1>3, StaysMarked DEF IInv, GhostsAreMarked
<1>19. PendingIsMarked'
  <2> SUFFICES ASSUME NEW f \in Engines, sent'[f].kind # "nothing", sent'[f].state = "pending",
                      NEW k \in Changes(sent'[f]), k \in DOMAIN cache'.entries, ~Marked(k)'
               PROVE  op'[f].stage = "wait" /\ k \in ToldLate(sent'[f])
    BY DEF PendingIsMarked
  <2>1. CASE f = e
    BY <2>1, <1>3, <1>6, <1>7, <1>11 DEF MarksFirst, Marked
  <2>2. CASE f # e
    <3>1. sent'[f] = sent[f] /\ op'[f] = op[f]
      BY <2>2, <1>7, <1>10
    <3>2. k \in DOMAIN cache.entries /\ ~Marked(k)
      BY <1>3, StaysMarked
    <3> QED BY <3>1, <3>2 DEF IInv, PendingIsMarked
  <2> QED BY <2>1, <2>2
<1>20. CacheOK(cache)'
  BY <1>3
<1> QED BY <1>12, <1>13, <1>14, <1>15, <1>17, <1>18, <1>19, <1>20 DEF IInv

-----------------------------------------------------------------------------
(* The server carries out a command. *)

(* The same command, with another answer. *)
SameCommand(s, t) ==
    /\ t.kind = s.kind /\ t.server = s.server /\ t.path = s.path /\ t.name = s.name
    /\ t.toPath = s.toPath /\ t.toName = s.toName

(* It may change the same. *)
LEMMA SameCommandFacts ==
    ASSUME NEW s, NEW t, SameCommand(s, t)
    PROVE  /\ Dir(t) = Dir(s) /\ Changes(t) = Changes(s) /\ ToldLate(t) = ToldLate(s)
           /\ \A cmd, server : Matches(s, cmd, server) => Matches(t, cmd, server)
<1>1. Dir(t) = Dir(s) /\ ToDir(t) = ToDir(s)
  BY DEF SameCommand, Dir, ToDir
<1>2. Variants(t) = Variants(s)
  BY <1>1 DEF SameCommand, Variants
<1>3. Below(t) = Below(s) /\ Named(t) = Named(s)
  BY <1>1, <1>2 DEF SameCommand, Below, Named
<1>4. Changes(t) = Changes(s) /\ ToldLate(t) = ToldLate(s)
  BY <1>3 DEF SameCommand, Changes, ToldLate
<1> QED BY <1>1, <1>4 DEF SameCommand, Matches

(* The answer to a command that was under way. *)
AnswerAt(f) ==
    /\ sent[f] \in SentCommands /\ sent[f].state = "pending"
    /\ sent'[f] \in SentCommands /\ sent'[f].state # "pending" /\ SameCommand(sent[f], sent'[f])
    /\ sent'[f].state = "partial" => sent'[f].kind = "stor"
    /\ sent'[f].kind = "list" /\ sent'[f].state = "ok" /\ ~sent'[f].excused =>
          TrueListing(sent[f].files, Dir(sent[f]))' /\ \A x \in Pending : Dir(sent[f]) \notin Changes(x)

(* The server carries out a command: what it changes is marked or awaited. *)
LEMMA RemoteStep ==
    ASSUME IInv, cache' = cache, op' = op, ops' = ops, ghosts' \subseteq ghosts,
           sent' \in [Engines -> {Nothing} \cup SentCommands],
           \A f \in Engines : sent'[f] = sent[f] \/ AnswerAt(f),
           NEW c \in Pending, RemoteOK(remote'), Untouched(remote', c),
           \A k \in DOMAIN cache.entries : k \in Changes(c) => Marked(k) \/ Awaited(k)' \/ remote' = remote
    PROVE  IInv'
<1>0. TypeOK /\ CacheOK(cache)
  BY OpsStay
<1>1. /\ op \in [Engines -> {Idle} \cup Operations] /\ sent \in [Engines -> {Nothing} \cup SentCommands]
      /\ ghosts \subseteq SentCommands /\ ops \in 0 .. MaxOps /\ Typed(cache)
  BY <1>0, TypeParts
<1>2. TypeOK'
  BY <1>1, TypePartsNext
<1>3. DOMAIN cache.entries \subseteq Keys
  BY <1>1 DEF Typed
<1>4. InStep'
  <2> SUFFICES ASSUME NEW f \in Engines
               PROVE  /\ op'[f] # Idle => op'[f].stage \in StagesOf(op'[f].cmd.kind)
                      /\ op'[f].stage = "wait" => sent'[f] # Nothing /\ Matches(sent'[f], op'[f].cmd, ServerOf[f])
    BY DEF InStep
  <2>1. CASE sent'[f] = sent[f]
    BY <2>1 DEF IInv, InStep
  <2>2. CASE AnswerAt(f)
    <3>1. sent'[f] # Nothing /\ SameCommand(sent[f], sent'[f])
      BY <2>2, SentFacts DEF AnswerAt
    <3>2. op[f].stage = "wait" => Matches(sent[f], op[f].cmd, ServerOf[f])
      BY DEF IInv, InStep
    <3> QED BY <3>1, <3>2, SameCommandFacts DEF IInv, InStep
  <2> QED BY <2>1, <2>2
<1>5. AllPlausible'
  <2>1. ASSUME NEW f \in Engines, sent'[f] # Nothing PROVE Plausible(sent'[f])
    <3>1. CASE sent'[f] = sent[f]
      BY <2>1, <3>1 DEF IInv, AllPlausible
    <3>2. CASE AnswerAt(f)
      <4>1. Plausible(sent[f])
        BY <3>2, SentFacts DEF AnswerAt, IInv, AllPlausible
      <4> QED BY <3>2, <4>1 DEF AnswerAt, SameCommand, Plausible
    <3> QED BY <3>1, <3>2
  <2> QED BY <2>1 DEF IInv, AllPlausible, Plausible
<1>6. ASSUME NEW k \in DOMAIN cache.entries, Awaited(k) PROVE Awaited(k)'
  <2>1. PICK f \in Engines : op[f].stage = "wait" /\ sent[f].state \in {"ok", "partial"} /\ k \in ToldLate(sent[f])
    BY <1>6 DEF Awaited
  <2>2. sent'[f] = sent[f]
    BY <2>1 DEF AnswerAt
  <2> QED BY <2>1, <2>2 DEF Awaited
<1>7. SureListingsAreTrue'
  <2> SUFFICES ASSUME NEW k \in DOMAIN cache.entries, ~Marked(k), ~Awaited(k)'
               PROVE  Shows(k)'
    BY DEF SureListingsAreTrue, Marked
  <2>1. Shows(k)
    BY <1>6 DEF IInv, SureListingsAreTrue, Marked
  <2>2. k \in DOMAIN remote' /\ remote'[k] = remote[k]
    BY <2>1, <1>3 DEF Shows, Untouched
  <2> QED BY <2>1, <2>2 DEF Shows
<1>8. ASSUME NEW x \in Pending' PROVE x \in Pending
  <2>1. (x \in ghosts' \/ \E f \in Engines : x = sent'[f]) /\ x.kind # "nothing" /\ x.state = "pending"
    BY <1>2, PendingNext
  <2>2. CASE x \in ghosts'
    BY <2>1, <2>2, <1>0, PendingFacts
  <2>3. CASE \E f \in Engines : x = sent'[f]
    <3>1. PICK f \in Engines : x = sent'[f]
      BY <2>3
    <3>2. sent'[f] = sent[f]
      BY <2>1, <3>1 DEF AnswerAt
    <3> QED BY <2>1, <3>1, <3>2, <1>0, PendingFacts
  <2> QED BY <2>1, <2>2, <2>3
<1>9. ReceivedIsTrue'
  <2> SUFFICES ASSUME NEW f \in Engines, sent'[f].kind = "list", sent'[f].state = "ok", ~sent'[f].excused
               PROVE  /\ TrueListing(sent[f].files, Dir(sent[f]))'
                      /\ \A x \in Pending' : Dir(sent'[f]) \notin Changes(x)
    BY DEF ReceivedIsTrue
  <2>1. CASE sent'[f] = sent[f]
    <3>1. TrueListing(sent[f].files, Dir(sent[f])) /\ \A x \in Pending : Dir(sent[f]) \notin Changes(x)
      BY <2>1 DEF IInv, ReceivedIsTrue
    <3>2. Dir(sent[f]) \in Keys
      <4>1. sent[f] \in SentCommands
        BY <1>1, <2>1, IdleFacts
      <4> QED BY <4>1, <2>1, SentFacts DEF Dir, Key, Keys
    <3>3. PICK k : k = Dir(sent[f])
      OBVIOUS
    <3>4. k \in DOMAIN remote' /\ remote'[k] = remote[k]
      BY <3>1, <3>2, <3>3 DEF Untouched, TrueListing
    <3>5. TrueListing(sent[f].files, k)'
      BY <2>1, <3>1, <3>3, <3>4 DEF TrueListing
    <3>6. k = Dir(sent[f])'
      BY <2>1, <3>3
    <3> QED BY <2>1, <3>1, <3>5, <3>6, <1>8
  <2>2. CASE AnswerAt(f)
    BY <2>2, <1>8, SameCommandFacts DEF AnswerAt
  <2> QED BY <2>1, <2>2
<1>10. GhostsAreMarked'
  BY DEF IInv, GhostsAreMarked, Marked
<1>11. PendingIsMarked'
  <2> SUFFICES ASSUME NEW f \in Engines, sent'[f].kind # "nothing", sent'[f].state = "pending",
                      NEW k \in Changes(sent'[f]), k \in DOMAIN cache.entries, ~Marked(k)
               PROVE  op'[f].stage = "wait" /\ k \in ToldLate(sent'[f])
    BY DEF PendingIsMarked, Marked
  <2>1. sent'[f] = sent[f]
    BY DEF AnswerAt
  <2> QED BY <2>1 DEF IInv, PendingIsMarked
<1>12. CacheOK(cache)'
  BY <1>0
<1> QED BY <1>2, <1>4, <1>5, <1>7, <1>9, <1>10, <1>11, <1>12 DEF IInv

(* GhostDoes. *)
LEMMA GhostDoesStep ==
    ASSUME IInv, NEW c \in ghosts, GhostDoes(c)
    PROVE  IInv'
<1>0. TypeOK /\ RemoteOK(remote) /\ c \in SentCommands /\ sent \in [Engines -> {Nothing} \cup SentCommands]
  BY OpsStay, TypeParts
<1>1. cache' = cache /\ op' = op /\ ops' = ops /\ ghosts' \subseteq ghosts /\ sent' = sent /\ remote' \in Results(c) \cup {remote}
  BY DEF GhostDoes
<1>2. c \in Pending
  BY <1>0, SentFacts, PendingFacts DEF IInv, AllPlausible
<1>3. RemoteOK(remote') /\ Untouched(remote', c)
  <2>1. CASE remote' = remote
    BY <2>1, <1>0 DEF Untouched
  <2>2. CASE remote' # remote
    <3>1. remote' \in Results(c)
      BY <1>1, <2>2
    <3>2. c.kind # "list"
      BY <2>2, <3>1 DEF Results
    <3> QED BY <3>1, <3>2, <1>0, ResultsFacts
  <2> QED BY <2>1, <2>2
<1>4. \A k \in DOMAIN cache.entries : k \in Changes(c) => Marked(k)
  BY DEF IInv, GhostsAreMarked
<1> QED BY <1>0, <1>1, <1>2, <1>3, <1>4, RemoteStep

(* ServerDoes. *)
LEMMA ServerDoesStep ==
    ASSUME IInv, NEW e \in Engines, ServerDoes(e)
    PROVE  IInv'
<1>0. TypeOK /\ RemoteOK(remote) /\ sent \in [Engines -> {Nothing} \cup SentCommands]
  BY OpsStay, TypeParts
<1>1. PICK c \in SentCommands : c = sent[e] /\ c.state = "pending"
  BY <1>0 DEF ServerDoes
<1>2. c \in Pending
  BY <1>0, <1>1, SentFacts, PendingFacts
<1>3. cache' = cache /\ op' = op /\ ops' = ops /\ ghosts' = ghosts
  BY DEF ServerDoes
<1>4. ASSUME NEW s \in SentCommands, sent' = [sent EXCEPT ![e] = s], SameCommand(c, s), s.state # "pending",
             s.state = "partial" => s.kind = "stor", RemoteOK(remote'), Untouched(remote', c),
             s.kind = "list" /\ s.state = "ok" /\ ~s.excused =>
                /\ TrueListing(sent[e].files, Dir(sent[e]))'
                /\ \A x \in Pending : Dir(c) \notin Changes(x),
             s.state \in {"ok", "partial"} \/ remote' = remote
      PROVE  IInv'
  <2>1. /\ sent' \in [Engines -> {Nothing} \cup SentCommands] /\ sent'[e] = s
        /\ \A f \in Engines \ {e} : sent'[f] = sent[f]
    BY <1>0, <1>4
  <2>2. AnswerAt(e)
    BY <2>1, <1>1, <1>4 DEF AnswerAt
  <2>3. ASSUME NEW k \in DOMAIN cache.entries, k \in Changes(c), ~Marked(k), remote' # remote PROVE Awaited(k)'
    <3>1. op[e].stage = "wait" /\ k \in ToldLate(c)
      BY <2>3, <1>1, SentFacts DEF IInv, PendingIsMarked
    <3>2. op'[e].stage = "wait" /\ sent'[e].state \in {"ok", "partial"} /\ k \in ToldLate(sent'[e])
      BY <3>1, <2>1, <2>3, <1>3, <1>4, SameCommandFacts
    <3> QED BY <3>2 DEF Awaited
  <2> QED BY <2>1, <2>2, <2>3, <1>2, <1>3, <1>4, RemoteStep
<1>5. ASSUME NEW s, s \in States \ {"pending"}, Answered(e, s)
      PROVE  \E t \in SentCommands : sent' = [sent EXCEPT ![e] = t] /\ SameCommand(c, t) /\ t.state = s
  <2>1. PICK t : t = [c EXCEPT !.state = s]
    OBVIOUS
  <2>2. t \in SentCommands /\ SameCommand(c, t) /\ t.state = s
    BY <2>1, <1>5 DEF SentCommands, SameCommand
  <2>3. sent' = [sent EXCEPT ![e] = t]
    BY <1>0, <1>1, <1>5, <2>1 DEF Answered
  <2> QED BY <2>2, <2>3
<1>6. ASSUME NEW s \in {"failed", "exists"}, Answered(e, s), remote' = remote PROVE IInv'
  <2>1. PICK t \in SentCommands : sent' = [sent EXCEPT ![e] = t] /\ SameCommand(c, t) /\ t.state = s
    BY <1>5, <1>6 DEF States
  <2>2. RemoteOK(remote') /\ Untouched(remote', c)
    BY <1>0, <1>6 DEF Untouched
  <2> QED BY <2>1, <2>2, <1>4, <1>6
<1>7. CASE ServerLists(e)
  <2>1. c.kind = "list" /\ remote' = remote
    BY <1>1, <1>7 DEF ServerLists
  <2>2. PICK k : k = Dir(c)
    OBVIOUS
  <2>3. CASE Answered(e, "failed")
    BY <2>1, <2>3, <1>6
  <2>4. CASE /\ k \in DOMAIN remote
             /\ sent' = [sent EXCEPT ![e].state = "ok", ![e].files = SetToSeq(remote[k]),
                                     ![e].excused = \E x \in Pending : k \in Changes(x)]
    <3>1. IsFiniteSet(remote[k]) /\ remote[k] \subseteq Dirents
      BY <2>4, <1>0 DEF RemoteOK
    <3>2. PICK files : files = SetToSeq(remote[k]) /\ Range(files) = remote[k] /\ Len(files) = Cardinality(remote[k])
                       /\ files \in Seq(remote[k])
      BY <3>1, SetToSeqFacts
    <3>3. files \in Seq(Dirents)
      BY <3>1, <3>2
    <3>4. PICK b \in BOOLEAN : b = \E x \in Pending : k \in Changes(x)
      OBVIOUS
    <3>5. PICK s : s = [c EXCEPT !.state = "ok", !.files = files, !.excused = b]
      OBVIOUS
    <3>6. s \in SentCommands /\ SameCommand(c, s) /\ s.state = "ok" /\ s.files = files /\ s.excused = b
      <4>1. PICK t \in States : t = "ok"
        BY DEF States
      <4>2. /\ [c EXCEPT !.state = t, !.files = files, !.excused = b] \in SentCommands
            /\ SameCommand(c, [c EXCEPT !.state = t, !.files = files, !.excused = b])
            /\ [c EXCEPT !.state = t, !.files = files, !.excused = b].state = t
            /\ [c EXCEPT !.state = t, !.files = files, !.excused = b].files = files
            /\ [c EXCEPT !.state = t, !.files = files, !.excused = b].excused = b
        BY <3>3 DEF SentCommands, SameCommand
      <4> QED BY <3>5, <4>1, <4>2
    <3>7. sent' = [sent EXCEPT ![e] = s]
      BY <2>4, <3>2, <3>4, <3>5, <1>0, <1>1
    <3>8. sent'[e] = s /\ Dir(sent'[e]) = k
      BY <3>6, <3>7, <2>2, <1>0, SameCommandFacts
    <3>9. TrueListing(sent[e].files, Dir(sent[e]))'
      BY <3>2, <3>6, <3>8, <2>1, <2>4 DEF TrueListing
    <3>10. ~b => \A x \in Pending : k \notin Changes(x)
      BY <3>4
    <3>11. RemoteOK(remote') /\ Untouched(remote', c)
      BY <2>1, <1>0 DEF Untouched
    <3> QED BY <3>6, <3>7, <3>9, <3>10, <3>11, <2>2, <1>4
  <2> QED BY <1>1, <1>7, <2>2, <2>3, <2>4 DEF ServerLists
<1>8. CASE ServerChanges(e)
  <2>1. c.kind # "list"
    BY <1>1, <1>8 DEF ServerChanges
  <2>2. ASSUME NEW s \in {"ok", "partial"}, s = "partial" => c.kind = "stor", remote' \in Results(c), Answered(e, s) PROVE IInv'
    <3>1. PICK t \in SentCommands : sent' = [sent EXCEPT ![e] = t] /\ SameCommand(c, t) /\ t.state = s
      BY <1>5, <2>2 DEF States
    <3>2. RemoteOK(remote') /\ Untouched(remote', c)
      BY <2>1, <2>2, <1>0, ResultsFacts
    <3>3. t.kind = c.kind
      BY <3>1 DEF SameCommand
    <3> QED BY <3>1, <3>2, <3>3, <2>1, <2>2, <1>4
  <2> QED BY <1>1, <1>8, <2>2, <1>6 DEF ServerChanges
<1> QED BY <1>7, <1>8 DEF ServerDoes

(* The connection is lost: what the server still has may happen at any time, and
   no listing it may change passes for sure. *)
LEMMA LostStep ==
    ASSUME IInv, NEW e \in Engines, Lost(e)
    PROVE  IInv'
<1>0. TypeOK /\ CacheOK(cache) /\ Idle.stage = "idle" /\ Nothing.kind = "nothing"
  BY OpsStay, IdleFacts
<1>1. /\ op[e].stage # "idle" /\ cache' = Abandoned(e) /\ op' = [op EXCEPT ![e] = Idle] /\ sent' = [sent EXCEPT ![e] = Nothing]
      /\ ghosts' = ghosts \cup {c \in {sent[e]} : c \in Pending /\ Changes(c) # {}} /\ remote' = remote /\ ops' = ops
  BY DEF Lost, End
<1>2. /\ op \in [Engines -> {Idle} \cup Operations] /\ sent \in [Engines -> {Nothing} \cup SentCommands]
      /\ RemoteOK(remote) /\ ghosts \subseteq SentCommands /\ ops \in 0 .. MaxOps
  BY <1>0, TypeParts
<1>3. /\ CacheOK(cache') /\ Weaker(cache, cache')
      /\ op[e].stage = "wait" => \A k \in DOMAIN cache'.entries : k \in ToldLate(sent[e]) => Marked(k)'
  BY <1>1, AbandonedOK DEF Marked
<1>4. /\ op' \in [Engines -> {Idle} \cup Operations] /\ op'[e] = Idle /\ \A f \in Engines \ {e} : op'[f] = op[f]
      /\ sent' \in [Engines -> {Nothing} \cup SentCommands] /\ sent'[e] = Nothing
      /\ \A f \in Engines \ {e} : sent'[f] = sent[f]
  BY <1>1, <1>2, IdleFacts
<1>5. ASSUME NEW c \in ghosts', c \notin ghosts
      PROVE  c = sent[e] /\ c \in SentCommands /\ c.kind # "nothing" /\ c.state = "pending" /\ c \in Pending
  <2>1. c = sent[e] /\ c \in Pending
    BY <1>1, <1>5
  <2>2. c.kind # "nothing" /\ c.state = "pending"
    BY <2>1, <1>0, PendingFacts
  <2> QED BY <2>1, <2>2, <1>0, <1>2
<1>6. TypeOK'
  BY <1>1, <1>2, <1>3, <1>4, <1>5, TypePartsNext DEF CacheOK
<1>7. InStep'
  BY <1>0, <1>4 DEF IInv, InStep
<1>8. AllPlausible'
  <2>1. ASSUME NEW f \in Engines, sent'[f] # Nothing PROVE Plausible(sent'[f])
    BY <2>1, <1>4 DEF IInv, AllPlausible
  <2>2. ASSUME NEW c \in ghosts' PROVE Plausible(c) /\ c.state = "pending"
    <3>1. CASE c \in ghosts
      BY <3>1 DEF IInv, AllPlausible
    <3>2. CASE c \notin ghosts
      BY <3>2, <1>5, SentFacts DEF IInv, AllPlausible
    <3> QED BY <3>1, <3>2
  <2> QED BY <2>1, <2>2 DEF AllPlausible, Plausible
<1>9. SureListingsAreTrue'
  <2>1. ASSUME NEW k \in DOMAIN cache'.entries, Awaited(k), ~Marked(k)' PROVE Awaited(k)'
    <3>1. PICK f \in Engines : op[f].stage = "wait" /\ sent[f].state \in {"ok", "partial"} /\ k \in ToldLate(sent[f])
      BY <2>1 DEF Awaited
    <3>2. f # e
      BY <2>1, <3>1, <1>3
    <3>3. op'[f] = op[f] /\ sent'[f] = sent[f]
      BY <3>2, <1>4
    <3> QED BY <3>1, <3>3 DEF Awaited
  <2> QED BY <2>1, <1>1, <1>3, SureKept DEF IInv
<1>10. ASSUME NEW x \in Pending' PROVE x \in Pending
  <2>1. (x \in ghosts' \/ \E f \in Engines : x = sent'[f]) /\ x.kind # "nothing" /\ x.state = "pending"
    BY <1>6, PendingNext
  <2> QED BY <2>1, <1>0, <1>4, <1>5, PendingFacts
<1>11. ReceivedIsTrue'
  <2> SUFFICES ASSUME NEW f \in Engines, sent'[f].kind = "list", sent'[f].state = "ok", ~sent'[f].excused
               PROVE  /\ TrueListing(sent[f].files, Dir(sent[f]))'
                      /\ \A x \in Pending' : Dir(sent'[f]) \notin Changes(x)
    BY DEF ReceivedIsTrue
  <2>1. sent'[f] = sent[f]
    BY <1>0, <1>4
  <2>2. TrueListing(sent[f].files, Dir(sent[f])) /\ \A x \in Pending : Dir(sent[f]) \notin Changes(x)
    BY <2>1 DEF IInv, ReceivedIsTrue
  <2>3. TrueListing(sent[f].files, Dir(sent[f]))'
    BY <2>1, <2>2, <1>1 DEF TrueListing
  <2> QED BY <2>1, <2>2, <2>3, <1>10
<1>12. GhostsAreMarked'
  <2> SUFFICES ASSUME NEW c \in ghosts', NEW k \in Changes(c), k \in DOMAIN cache'.entries
               PROVE  Marked(k)'
    BY DEF GhostsAreMarked
  <2>1. k \in DOMAIN cache.entries /\ (Marked(k) => Marked(k)')
    BY <1>3, StaysMarked
  <2>2. CASE c \in ghosts
    BY <2>1, <2>2 DEF IInv, GhostsAreMarked
  <2>3. CASE c \notin ghosts
    <3>1. Marked(k) \/ (op[e].stage = "wait" /\ k \in ToldLate(sent[e]))
      BY <2>1, <2>3, <1>5 DEF IInv, PendingIsMarked
    <3> QED BY <3>1, <2>1, <1>3
  <2> QED BY <2>2, <2>3
<1>13. PendingIsMarked'
  <2> SUFFICES ASSUME NEW f \in Engines, sent'[f].kind # "nothing", sent'[f].state = "pending",
                      NEW k \in Changes(sent'[f]), k \in DOMAIN cache'.entries, ~Marked(k)'
               PROVE  op'[f].stage = "wait" /\ k \in ToldLate(sent'[f])
    BY DEF PendingIsMarked
  <2>1. sent'[f] = sent[f] /\ op'[f] = op[f]
    BY <1>0, <1>4
  <2>2. k \in DOMAIN cache.entries /\ ~Marked(k)
    BY <1>3, StaysMarked
  <2> QED BY <2>1, <2>2 DEF IInv, PendingIsMarked
<1>14. CacheOK(cache)'
  BY <1>3
<1> QED BY <1>6, <1>7, <1>8, <1>9, <1>11, <1>12, <1>13, <1>14 DEF IInv

-----------------------------------------------------------------------------
(* The theorems. *)

(* The invariant in the beginning. *)
LEMMA InitIInv ==
    ASSUME Init
    PROVE  IInv
<1>1. CacheOK(cache)
  BY EmptyIsOK DEF Init
<1>2. Idle.stage = "idle" /\ Nothing.kind = "nothing" /\ cache.entries = <<>>
  BY IdleFacts DEF Init, EmptyCache
<1>3. TypeOK
  <2>1. RemoteOK(remote)
    <3>1. Files = [k \in DOMAIN Files |-> Files[k]]
      BY OperationsAssumption
    <3> QED BY <3>1, OperationsAssumption DEF Init, RemoteOK
  <2>2. op \in [Engines -> {Idle} \cup Operations] /\ sent \in [Engines -> {Nothing} \cup SentCommands]
    BY DEF Init
  <2>3. ghosts \subseteq SentCommands /\ ops \in 0 .. MaxOps
    BY OperationsAssumption DEF Init
  <2> QED BY <1>1, <2>1, <2>2, <2>3, TypeParts DEF CacheOK
<1>4. InStep /\ AllPlausible
  BY <1>2 DEF Init, InStep, AllPlausible
<1>5. DOMAIN cache.entries = {}
  BY <1>2
<1>6. SureListingsAreTrue /\ GhostsAreMarked /\ PendingIsMarked
  BY <1>5 DEF SureListingsAreTrue, GhostsAreMarked, PendingIsMarked
<1>7. ReceivedIsTrue
  BY <1>2 DEF Init, ReceivedIsTrue
<1> QED BY <1>1, <1>3, <1>4, <1>6, <1>7 DEF IInv

(* The invariant is inductive. *)
LEMMA NextIInv ==
    ASSUME IInv, [Next]_vars
    PROVE  IInv'
<1>1. ASSUME NEW e \in Engines, Step(e) PROVE IInv'
  <2>1. CASE AskForLock(e)
    BY <2>1, LockingStep DEF AskForLock
  <2>2. CASE ObtainLock(e)
    BY <2>2, LockingStep DEF ObtainLock
  <2> QED BY <1>1, <2>1, <2>2, SendStep, MkdTryFullStep, ServerDoesStep, ReplyStep, SkipReplyStep DEF Step
<1>2. CASE UNCHANGED vars
  <2>1. Quiet
    BY <1>2, OpsStay, TypeParts, WeakerSame DEF vars, Quiet, QuietAt
  <2> QED BY <2>1, QuietStep
<1> QED BY <1>1, <1>2, CancelStep, LostStep, BeginStep, GhostDoesStep, TimePassesStep DEF Next

(* So it always holds. *)
LEMMA IInvHolds == Spec => []IInv
<1>1. Init => IInv
  BY InitIInv
<1>2. IInv /\ [Next]_vars => IInv'
  BY NextIInv
<1> QED BY <1>1, <1>2, PTL DEF Spec

(* TypeOK of FileOperations: the cache, what the servers have, the operations and
   the commands under way keep their shapes through every operation; a listing is
   only ever asked for of a directory that can be cached. *)
THEOREM TypeCorrect == Spec => []TypeOK
<1>1. IInv => TypeOK
  BY DEF IInv
<1> QED BY <1>1, IInvHolds, PTL

(* Consistent: after any calls of all engines the list of uses of CDirectoryCache
   has each listing once and the number of files is that of all listings, for any
   number of servers, paths, names and files and any limits. *)
THEOREM CacheStaysConsistent == Spec => []Consistent
<1>1. IInv => Consistent
  BY OKIsConsistent DEF IInv, Consistent
<1> QED BY <1>1, IInvHolds, PTL

(* SureListingsAreTrue: a listing that passes for sure is what the server has, but
   for the exceptions its definition names, for any number of engines, commands and
   files, whatever they are, and in any order of sending, carrying out, answering,
   cancelling and losing them. *)
THEOREM SureListingsStayTrue == Spec => []SureListingsAreTrue
<1>1. IInv => SureListingsAreTrue
  BY DEF IInv
<1> QED BY <1>1, IInvHolds, PTL
=============================================================================
